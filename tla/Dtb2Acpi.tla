------------------------------ MODULE Dtb2Acpi ------------------------------
(***************************************************************************)
(* The crate dtb2acpi, with which tatu turns the merged device tree of an  *)
(* x86-64 guest into ACPI tables (AcpiBuffer::populate).  A first pass     *)
(* over the tree (count.rs) validates it and computes the size and place   *)
(* of every table; a second one (emit/*.rs) walks the tree again and       *)
(* writes entry after entry.  The two share almost no code: they agree     *)
(* only because each repeats the other's choices.                          *)
(*                                                                         *)
(* A node is a record of its name (up to the '@') and the properties it    *)
(* has; what it does not have is not in its domain.  A cell property is    *)
(* its sequence of cells, a `reg` its sequence of base and size.  The      *)
(* image is the sequence of the entries written, each with its place, its  *)
(* length in bytes and the fields that other tables refer to; checksums,   *)
(* OEM names and constant fields are left out.  Addresses are relative to  *)
(* base_gpa.                                                               *)
(***************************************************************************)
EXTENDS Naturals, Sequences, FiniteSets, SequencesExt

CONSTANTS
    Trees,                      \* device trees
    U8_MAX, U32_MAX, U64_MAX,   \* the largest u8, u32 and u64
    PKG_MAX,                    \* the longest AML package, 4095
    BUFFER                      \* N, the bytes of the AcpiBuffer

ASSUME AcpiAssumption ==
    /\ {U8_MAX, U32_MAX, U64_MAX, PKG_MAX, BUFFER} \subseteq Nat
    /\ 1 < U8_MAX /\ U8_MAX < U32_MAX /\ U32_MAX < U64_MAX
    /\ PKG_MAX >= 199           \* the serial device fits
    /\ \A t \in Trees :
         "distance_map" \in DOMAIN t /\ "distance_matrix" \in DOMAIN t.distance_map =>
           t.distance_map.distance_matrix.triples \in Seq([from : Nat, to : Nat, val : Nat])

XAPIC_ID_MAX == U8_MAX - 1
CPU_CACHE_CAP == U8_MAX + 1
NUMA_TAG_NONE == U32_MAX
DISTANCE_MAX == 255

VARIABLES
    tree,
    pc,         \* a step of the first pass, a table of the second, or the end:
                \* "done", "refused", "too_small" or "broken" (an emitter failed)
    k,          \* the position in the loop of the step
    cache,      \* CpuCache: apic id, tag and status of each cpu
    domains,    \* Domains: NUMA domains in order of first occurrence
    tally,      \* CpuWalk and Counts
    slots,      \* Offsets: table -> its offset and length
    image,      \* entries written
    matrix      \* the distances of the SLIT being written, 0 for none yet

acpiVars == <<tree, pc, k, cache, domains, tally, slots, image, matrix>>

----------------------------------------------------------------------------
\* dtb.rs: properties as the walks read them.
Has(n, p) == p \in DOMAIN n
HasU32(n, p) == Has(n, p) /\ Len(n[p]) = 1
U32Opt(n, p) == Has(n, p) => Len(n[p]) = 1
HasReg(n) == Has(n, "reg") /\ n.reg # <<>>

\* A compatible property that is not a list of strings.
Garbled == {"garbled"}
WellFormed(n) == Has(n, "compatible") => n.compatible # Garbled
Compatible(n, c) == Has(n, "compatible") /\ c \in n.compatible

\* decode_interrupts_2()
HasInterrupt(n) == Has(n, "interrupts") /\ Len(n.interrupts) = 2

With(c) == SelectSeq(tree.nodes, LAMBDA n : Compatible(n, c))
Named(s) == SelectSeq(tree.nodes, LAMBDA n : n.name = s)
Bridges == With("pci-host-ecam-generic")

\* count.rs, DtStatus: "fail-<sss>" is "fail".
StatusOk(n) == Has(n, "status") => n.status \in {"okay", "disabled", "reserved", "fail", "fail-sss"}
Status(n) ==
    IF ~Has(n, "status") THEN "okay" ELSE IF n.status = "fail-sss" THEN "fail" ELSE n.status

\* The sentinel of the cpu cache is refused as a domain.
TagOk(n) ==
    /\ U32Opt(n, "numa_node_id")
    /\ Has(n, "numa_node_id") => n.numa_node_id[1] # NUMA_TAG_NONE

Total(f) == FoldLeft(LAMBDA a, b : a + b, 0, f)

----------------------------------------------------------------------------
Init ==
    /\ tree \in Trees
    /\ pc = "cpus" /\ k = 0
    /\ cache = <<>> /\ domains = <<>>
    /\ tally = [vcpu |-> 0, cpu |-> 0, tagged |-> 0, untagged |-> 0, regions |-> 0,
                memories |-> 0, memory_tagged |-> 0, has_numa |-> FALSE, has_distances |-> FALSE]
    /\ slots = <<>> /\ image = <<>> /\ matrix = <<>>

\* walk_cpus(), one cpu node after the other.  Without /cpus, or with numbers of
\* cells that are malformed or not supported, nothing can be read.
CpusPresent == tree.cells /\ Has(tree, "cpus")
CpuNodes == SelectSeq(tree.cpus, LAMBDA n : n.name = "cpu")

decode_cpu_subset(n) ==
    /\ HasReg(n) /\ n.reg[1].base <= U32_MAX
    /\ TagOk(n) /\ StatusOk(n)

InSeq(x, s) == \E i \in DOMAIN s : s[i] = x

\* Domains::insert()
CanInsert(n) ==
    Has(n, "numa_node_id") /\ ~InSeq(n.numa_node_id[1], domains) => Len(domains) < U8_MAX

Inserted(n) ==
    IF Has(n, "numa_node_id") /\ ~InSeq(n.numa_node_id[1], domains)
    THEN Append(domains, n.numa_node_id[1]) ELSE domains

CpuOk(n) ==
    /\ decode_cpu_subset(n)
    /\ k = 0 => Status(n) = "okay"
    /\ CanInsert(n)
    /\ k < CPU_CACHE_CAP

lapic_entry_size_for_apic(apic, uid) == IF apic <= XAPIC_ID_MAX /\ uid <= XAPIC_ID_MAX THEN 8 ELSE 16

nmi_entry_size_for_uid_Below(uid) == IF uid < XAPIC_ID_MAX THEN 6 ELSE 12

nmi_entry_size_for_uid(uid) == IF uid <= XAPIC_ID_MAX THEN 6 ELSE 12

cpu_affinity_size_for_apic(apic) == IF apic <= XAPIC_ID_MAX THEN 16 ELSE 24

WalkCpu ==
    /\ pc = "cpus" /\ CpusPresent /\ k < Len(CpuNodes)
    /\ LET n == CpuNodes[k + 1]
           apic == n.reg[1].base
           tagged == Has(n, "numa_node_id")
       IN /\ CpuOk(n)
          /\ tally' = [tally EXCEPT !.vcpu = @ + lapic_entry_size_for_apic(apic, k) + nmi_entry_size_for_uid(k),
                                    !.cpu = @ + cpu_affinity_size_for_apic(apic),
                                    !.tagged = @ + IF tagged THEN 1 ELSE 0,
                                    !.untagged = @ + IF tagged THEN 0 ELSE 1]
          /\ domains' = Inserted(n)
          /\ cache' = Append(cache, [apic |-> apic, status |-> Status(n),
                                     tag |-> IF tagged THEN n.numa_node_id[1] ELSE NUMA_TAG_NONE])
    /\ k' = k + 1
    /\ UNCHANGED <<tree, pc, slots, image, matrix>>

CpusWalked ==
    /\ pc = "cpus" /\ CpusPresent /\ k = Len(CpuNodes) /\ k # 0
    /\ pc' = "devices"
    /\ UNCHANGED <<tree, k, cache, domains, tally, slots, image, matrix>>

Refuse ==
    /\ pc' = "refused"
    /\ UNCHANGED <<tree, k, cache, domains, tally, slots, image, matrix>>

CpusRefused ==
    /\ pc = "cpus"
    /\ \/ ~CpusPresent
       \/ CpusPresent /\ Len(CpuNodes) = 0
       \/ CpusPresent /\ k < Len(CpuNodes) /\ ~CpuOk(CpuNodes[k + 1])
    /\ Refuse

----------------------------------------------------------------------------
\* run(): the root's children other than memory.  No order among these checks
\* can be seen, all of them come before the first byte is written.
IntcOk(n) == HasReg(n) /\ n.reg[1].base <= U32_MAX

count_intc ==
    /\ With("intel,ce4100-lapic") # <<>>
    /\ IntcOk(With("intel,ce4100-lapic")[1])
    /\ \A i \in DOMAIN With("intel,ce4100-ioapic") : IntcOk(With("intel,ce4100-ioapic")[i])

resolve_syscon(n, value_required) ==
    /\ HasReg(n)
    /\ value_required => Has(n, "value")
    /\ U32Opt(n, "value")
    /\ Has(n, "value") => n.value[1] <= U8_MAX

extract_fadt ==
    /\ With("syscon-poweroff") # <<>>
    /\ resolve_syscon(With("syscon-poweroff")[1], FALSE)
    /\ With("syscon-reboot") # <<>> => resolve_syscon(With("syscon-reboot")[1], TRUE)

decode_pci_bus_range(n) ==
    /\ Has(n, "bus_range") /\ Len(n.bus_range) >= 2
    /\ n.bus_range[1] <= n.bus_range[2] /\ n.bus_range[2] <= U8_MAX

count_mcfg ==
    /\ \A i \in DOMAIN tree.nodes : WellFormed(tree.nodes[i])
    /\ \A i \in DOMAIN Bridges : HasReg(Bridges[i]) /\ decode_pci_bus_range(Bridges[i])

\* spcr.rs, validate_property_set(); "name" is the node's name, not a property.
SERIAL_ALLOWED == {"name", "compatible", "reg", "interrupts", "interrupt_parent", "reg_shift", "reg_io_width",
                   "clock_frequency", "current_speed"}
SerialOk(n) == WellFormed(n) /\ Compatible(n, "ns16550a") /\ DOMAIN n \subseteq SERIAL_ALLOWED

\* The first child named serial is the one and must be a 16550.
find_serial == Named("serial") # <<>> => SerialOk(Named("serial")[1])

\* /chosen/stdout-path: node is empty if it, or an alias, leads nowhere or does
\* not parse.
find_stdout_serial == Has(tree, "stdout") => tree.stdout.node # <<>> /\ SerialOk(tree.stdout.node[1])

DevicesOk == count_intc /\ extract_fadt /\ count_mcfg /\ find_serial /\ find_stdout_serial

CountDevices ==
    /\ pc = "devices" /\ DevicesOk
    /\ pc' = "memory" /\ k' = 0
    /\ UNCHANGED <<tree, cache, domains, tally, slots, image, matrix>>

DevicesRefused == pc = "devices" /\ ~DevicesOk /\ Refuse

----------------------------------------------------------------------------
\* count_numa()
MemoryOk(n) == StatusOk(n) /\ TagOk(n) /\ CanInsert(n) /\ Has(n, "reg")

WalkMemory ==
    /\ pc = "memory" /\ k < Len(Named("memory"))
    /\ LET n == Named("memory")[k + 1]
       IN /\ MemoryOk(n)
          /\ domains' = Inserted(n)
          /\ tally' = [tally EXCEPT !.memories = @ + 1, !.regions = @ + Len(n.reg),
                                    !.memory_tagged = @ + IF Has(n, "numa_node_id") THEN 1 ELSE 0]
    /\ k' = k + 1
    /\ UNCHANGED <<tree, pc, cache, slots, image, matrix>>

Numa == tally.tagged > 0 \/ tally.memory_tagged > 0
Distances == Numa /\ Len(domains) > 1 /\ Has(tree, "distance_map")

NumaOk ==
    /\ Numa => tally.untagged = 0 /\ tally.memory_tagged = tally.memories
    /\ Distances => Has(tree.distance_map, "distance_matrix")

MemoriesWalked ==
    /\ pc = "memory" /\ k = Len(Named("memory")) /\ NumaOk
    /\ tally' = [tally EXCEPT !.has_numa = Numa, !.has_distances = Distances]
    /\ pc' = "layout"
    /\ UNCHANGED <<tree, k, cache, domains, slots, image, matrix>>

MemoryRefused ==
    /\ pc = "memory"
    /\ \/ k < Len(Named("memory")) /\ ~MemoryOk(Named("memory")[k + 1])
       \/ k = Len(Named("memory")) /\ ~NumaOk
    /\ Refuse

----------------------------------------------------------------------------
\* Offsets::new(): sizes as the first pass computes them.
Ranges(n) == IF Has(n, "ranges") THEN n.ranges ELSE <<>>
Windows(n, space) == Len(SelectSeq(Ranges(n), LAMBDA r : r.space = space))

motherboard_aml_bytes == 8 + (10 + 7) + 11 + (46 + 2)
host_bridge_aml_bytes(n) == 8 + (2 * 10 + 3 * 7) + 11 + (16 + 26 * Windows(n, 2) + 46 * Windows(n, 3) + 2)

package_bytes(n) == n + 4
property_bytes(name) == package_bytes(name + 2 + 5)
DSD_BYTES == 5 + package_bytes(21 + package_bytes(property_bytes(15) + property_bytes(9) + property_bytes(12)))
serial_device_bytes == 8 + (15 + 7) + 11 + (46 + 9 + 2) + DSD_BYTES
virtio_device_bytes == 8 + (15 + 7) + 11 + (46 + 9 + 2)

dsdt_size ==
    36 + 13 + Len(Bridges) * motherboard_aml_bytes
      + Total([i \in DOMAIN Bridges |-> host_bridge_aml_bytes(Bridges[i])])
      + (IF Named("serial") # <<>> THEN serial_device_bytes ELSE 0)
      + Len(With("virtio,mmio")) * virtio_device_bytes

Order == <<"RSDP", "DSDT", "FADT", "MADT", "MCFG", "SPCR", "SRAT", "SLIT", "XSDT">>

Present ==
    {"RSDP", "DSDT", "FADT", "MADT", "XSDT"}
      \cup (IF Bridges # <<>> THEN {"MCFG"} ELSE {})
      \cup (IF Has(tree, "stdout") THEN {"SPCR"} ELSE {})
      \cup (IF tally.has_numa THEN {"SRAT"} ELSE {})
      \cup (IF tally.has_distances THEN {"SLIT"} ELSE {})

Laid == SelectSeq(Order, LAMBDA t : t \in Present)

total_size(t) ==
    CASE t = "RSDP" -> 36
      [] t = "DSDT" -> dsdt_size
      [] t = "FADT" -> 276
      [] t = "MADT" -> 44 + tally.vcpu + 12 * Len(With("intel,ce4100-ioapic"))
      [] t = "MCFG" -> 44 + 16 * Len(Bridges)
      [] t = "SPCR" -> 80
      [] t = "SRAT" -> 48 + tally.cpu + 40 * tally.regions
      [] t = "SLIT" -> 44 + Len(domains) * Len(domains)
      [] t = "XSDT" -> 36 + 8 * (Cardinality(Present) - 3)

Offset(i) == Total([j \in 1..(i - 1) |-> total_size(Laid[j])])

Carved == [t \in Present |-> [offset |-> Offset(CHOOSE i \in DOMAIN Laid : Laid[i] = t), len |-> total_size(t)]]

BytesNeeded == Offset(Len(Laid) + 1)

Layout ==
    /\ pc = "layout"
    /\ slots' = Carved
    /\ pc' = IF BytesNeeded <= BUFFER THEN "RSDP" ELSE "too_small"
    /\ UNCHANGED <<tree, k, cache, domains, tally, image, matrix>>

----------------------------------------------------------------------------
\* What the second pass writes: entries of a kind, with a length of their own.
\* Stop is where an emitter returns an error.
Entry(kind, len, data) == [kind |-> kind, len |-> len, data |-> data, at |-> 0]
Stop == <<Entry("stop", 0, <<>>)>>
Aml(len) == <<Entry("aml", len, <<>>)>>

\* A loop that numbers the devices it writes in a u8: the number after the last
\* one does not exist.
Numbered(devices) ==
    FlattenSeq([i \in DOMAIN devices |-> devices[i] \o (IF i - 1 = U8_MAX THEN Stop ELSE <<>>)])

\* aml.rs.  A window is owned by a device; its last address must be representable.
write_device_header(bytes) == IF bytes - 2 > PKG_MAX THEN Stop ELSE Aml(8)
Window(owner, r) == [owner |-> owner, base |-> r.base, size |-> r.size]
QWordFits(r) == r.base + r.size <= U64_MAX
DWordFits(r) == r.base + r.size <= U32_MAX
write_qword_memory(owner, r) == IF QWordFits(r) THEN <<Entry("window", 46, Window(owner, r))>> ELSE Stop
write_dword_memory(owner, r) == IF DWordFits(r) THEN <<Entry("window", 26, Window(owner, r))>> ELSE Stop

motherboard_resource(n, index) ==
    write_device_header(motherboard_aml_bytes) \o Aml(10) \o Aml(7) \o Aml(11)
      \o write_qword_memory(<<"MBR", index>>, n.reg[1]) \o Aml(2)

PciWindow(r, index) ==
    CASE r.space = 2 -> write_dword_memory(<<"PCI", index>>, r)
      [] r.space = 3 -> write_qword_memory(<<"PCI", index>>, r)
      [] OTHER -> <<>>

pci_host(n, segment) ==
    write_device_header(host_bridge_aml_bytes(n)) \o Aml(10) \o Aml(10)
      \o <<Entry("segment", 7, segment)>> \o Aml(7) \o Aml(7) \o Aml(11)
      \o <<Entry("buses", 16, <<n.bus_range[1], n.bus_range[2]>>)>>
      \o FlattenSeq([i \in DOMAIN Ranges(n) |-> PciWindow(Ranges(n)[i], segment)]) \o Aml(2)

\* decode_serial()
SerialDecodes(n) ==
    /\ HasReg(n) /\ HasInterrupt(n)
    /\ HasU32(n, "reg_io_width") /\ n.reg_io_width[1] \in {1, 2, 4, 8}
DsdComplete(n) == HasU32(n, "reg_shift") /\ HasU32(n, "clock_frequency")

Property(name) == Aml(1 + 2 + 1) \o Aml(name + 2) \o Aml(1 + 4)

serial_device(n) ==
    IF ~(SerialDecodes(n) /\ DsdComplete(n)) THEN Stop
    ELSE write_device_header(serial_device_bytes) \o Aml(5 + 10) \o Aml(7) \o Aml(11)
           \o write_qword_memory(<<"SER", 0>>, n.reg[1]) \o Aml(9) \o Aml(2)
           \o Aml(1 + 4 + 1 + 2 + 1) \o Aml(1 + 2 + 2 + 16) \o Aml(1 + 2 + 1)
           \o Property(15) \o Property(9) \o Property(12)

VirtioDecodes(n) == HasReg(n) /\ HasInterrupt(n)
virtio_mmio(n, index) ==
    IF ~VirtioDecodes(n) THEN Stop
    ELSE write_device_header(virtio_device_bytes) \o Aml(5 + 10) \o Aml(7) \o Aml(11)
           \o write_qword_memory(<<"VM", index>>, n.reg[1]) \o Aml(9) \o Aml(2)

write_dsdt_into ==
    <<Entry("DSDT", 36, <<>>)>> \o Aml(13)
      \o Numbered([i \in DOMAIN Bridges |-> motherboard_resource(Bridges[i], i - 1)])
      \o Numbered([i \in DOMAIN Bridges |-> pci_host(Bridges[i], i - 1)])
      \o (IF Named("serial") # <<>> THEN serial_device(Named("serial")[1]) ELSE <<>>)
      \o Numbered([i \in DOMAIN With("virtio,mmio") |-> virtio_mmio(With("virtio,mmio")[i], i - 1)])

\* madt.rs, from the cache; enabled and online are LapicFlags.
emit_lapic_entry(c, uid) ==
    LET wide == ~(c.apic <= XAPIC_ID_MAX /\ uid <= XAPIC_ID_MAX)
    IN Entry("lapic", IF wide THEN 16 ELSE 8,
             [uid |-> uid, apic |-> c.apic, wide |-> wide,
              enabled |-> c.status = "okay", online |-> c.status = "disabled"])
emit_nmi_entry(uid) ==
    LET wide == uid > XAPIC_ID_MAX
    IN Entry("nmi", IF wide THEN 12 ELSE 6, [uid |-> uid, wide |-> wide])
io_apic(n, id) == <<Entry("ioapic", 12, [id |-> id, address |-> n.reg[1].base, gsi |-> 24 * id])>>

emit_madt ==
    <<Entry("MADT", 44, With("intel,ce4100-lapic")[1].reg[1].base)>>
      \o FlattenSeq([i \in DOMAIN cache |-> <<emit_lapic_entry(cache[i], i - 1), emit_nmi_entry(i - 1)>>])
      \o Numbered([i \in DOMAIN With("intel,ce4100-ioapic") |-> io_apic(With("intel,ce4100-ioapic")[i], i - 1)])

\* mcfg.rs: the segment is always 0.
emit_mcfg ==
    <<Entry("MCFG", 44, <<>>)>>
      \o [i \in DOMAIN Bridges |->
            Entry("ecam", 16, [base |-> Bridges[i].reg[1].base, segment |-> 0,
                               buses |-> <<Bridges[i].bus_range[1], Bridges[i].bus_range[2]>>])]

\* spcr.rs: the rate of stdout-path comes before the node's current-speed, which
\* must decode all the same.
BaudOk(stdout) ==
    LET n == stdout.node[1]
        rate == stdout.baud \o (IF Has(n, "current_speed") THEN n.current_speed ELSE <<>>)
    IN U32Opt(n, "current_speed") /\ (rate # <<>> => rate[1] \in {9600, 19200, 57600, 115200})

emit_spcr ==
    IF SerialDecodes(tree.stdout.node[1]) /\ BaudOk(tree.stdout)
    THEN <<Entry("SPCR", 80, tree.stdout.node[1].reg[1].base)>> ELSE Stop

\* srat.rs
emit_cpu_affinity(c) ==
    IF c.tag = NUMA_TAG_NONE THEN Stop
    ELSE <<Entry("cpu_affinity", IF c.apic <= XAPIC_ID_MAX THEN 16 ELSE 24,
                 [apic |-> c.apic, domain |-> c.tag, enabled |-> c.status \in {"okay", "disabled"}])>>

MemoryAffinity(n) ==
    IF ~Has(n, "numa_node_id") THEN Stop
    ELSE [i \in DOMAIN n.reg |->
            Entry("memory_affinity", 40,
                  [domain |-> n.numa_node_id[1], base |-> n.reg[i].base, length |-> n.reg[i].size,
                   enabled |-> Status(n) = "okay",
                   hot |-> Has(n, "hotpluggable") /\ Status(n) \in {"okay", "disabled"}])]

emit_srat ==
    <<Entry("SRAT", 48, <<>>)>>
      \o FlattenSeq([i \in DOMAIN cache |-> emit_cpu_affinity(cache[i])])
      \o FlattenSeq([i \in DOMAIN Named("memory") |-> MemoryAffinity(Named("memory")[i])])

\* xsdt.rs: a pointer beyond the slot is dropped without an error.
xsdt_targets == SelectSeq(<<"FADT", "MADT", "MCFG", "SPCR", "SRAT", "SLIT">>, LAMBDA t : t \in DOMAIN slots)
emit_xsdt ==
    LET kept == SelectSeq([i \in DOMAIN xsdt_targets |-> i], LAMBDA i : 36 + 8 * i <= slots["XSDT"].len)
    IN <<Entry("XSDT", 36, <<>>)>>
         \o [i \in DOMAIN kept |-> Entry("pointer", 8, slots[xsdt_targets[i]].offset)]

Entries(t) ==
    CASE t = "RSDP" -> <<Entry("RSDP", 36, slots["XSDT"].offset)>>
      [] t = "DSDT" -> write_dsdt_into
      [] t = "FADT" -> <<Entry("FADT", 276, slots["DSDT"].offset)>>
      [] t = "MADT" -> emit_madt
      [] t = "MCFG" -> emit_mcfg
      [] t = "SPCR" -> emit_spcr
      [] t = "SRAT" -> emit_srat
      [] t = "XSDT" -> emit_xsdt

----------------------------------------------------------------------------
\* populate(): the tables in the order of their slots.
Lengths(entries) == [i \in DOMAIN entries |-> entries[i].len]
Placed(offset, entries) ==
    [i \in DOMAIN entries |-> [entries[i] EXCEPT !.at = offset + Total(Lengths(SubSeq(entries, 1, i - 1)))]]
After(t) ==
    LET later == {i \in DOMAIN Order : Order[i] \in Present /\ \A j \in i..Len(Order) : Order[j] # t}
    IN IF later = {} THEN "done" ELSE Order[Min(later)]

\* Every property is there and every value fits its field.
Encodes(t) == LET entries == Entries(t) IN \A i \in DOMAIN entries : entries[i].kind # "stop"

\* write_header() and write_entry() refuse what does not fit the slot; only the
\* DSDT is checked to fill it.
Writes(t) ==
    LET bytes == Total(Lengths(Entries(t)))
    IN /\ Encodes(t)
       /\ bytes <= slots[t].len
       /\ t = "DSDT" => bytes = slots[t].len

Emit(t) ==
    /\ pc = t /\ t # "SLIT" /\ Writes(t)
    /\ image' = image \o Placed(slots[t].offset, Entries(t))
    /\ pc' = After(t)
    /\ UNCHANGED <<tree, k, cache, domains, tally, slots, matrix>>

Break ==
    /\ pc' = "broken"
    /\ UNCHANGED <<tree, k, cache, domains, tally, slots, image, matrix>>

EmitFails(t) == pc = t /\ t # "SLIT" /\ ~Writes(t) /\ Break

\* slit.rs: the matrix starts empty, is filled pair by pair in both directions,
\* and what is left gets the default.
given == tree.distance_map.distance_matrix
N == Len(domains)
MatrixOk == given.whole /\ given.triples # <<>> /\ 44 <= slots["SLIT"].len

EmitSlitHeader ==
    /\ pc = "SLIT" /\ MatrixOk
    /\ image' = image \o Placed(slots["SLIT"].offset, <<Entry("SLIT", 44, N)>>)
    /\ matrix' = [i \in 1..N |-> [j \in 1..N |-> IF i = j THEN 10 ELSE 0]]
    /\ pc' = "distances" /\ k' = 0
    /\ UNCHANGED <<tree, cache, domains, tally, slots>>

index_of(d) == CHOOSE i \in DOMAIN domains : domains[i] = d /\ \A j \in 1..(i - 1) : domains[j] # d

\* A pair given again overwrites what was read.
DistanceOk_Overwrites(t) ==
    /\ InSeq(t.from, domains) /\ InSeq(t.to, domains)
    /\ t.val <= DISTANCE_MAX
    /\ IF t.from = t.to THEN t.val = 10 ELSE t.val >= 10

DistanceOk(t) ==
    /\ InSeq(t.from, domains) /\ InSeq(t.to, domains)
    /\ t.val <= DISTANCE_MAX
    /\ LET i == index_of(t.from)
           j == index_of(t.to)
       IN IF i = j THEN t.val = 10
          ELSE t.val >= 10 /\ matrix[i][j] \in {0, t.val} /\ matrix[j][i] \in {0, t.val}

Put_OneWay(i, j, val) == [matrix EXCEPT ![i][j] = val]

Put(i, j, val) == [matrix EXCEPT ![i][j] = val, ![j][i] = val]

PutDistance ==
    /\ pc = "distances" /\ k < Len(given.triples)
    /\ LET t == given.triples[k + 1]
           i == index_of(t.from)
           j == index_of(t.to)
       IN /\ DistanceOk(t)
          /\ matrix' = IF i = j THEN matrix ELSE Put(i, j, t.val)
    /\ k' = k + 1
    /\ UNCHANGED <<tree, pc, cache, domains, tally, slots, image>>

Filled == [i \in 1..N |-> [j \in 1..N |-> IF matrix[i][j] = 0 THEN 20 ELSE matrix[i][j]]]

FillDistances ==
    /\ pc = "distances" /\ k = Len(given.triples)
    /\ image' = image \o (IF 44 + N * N <= slots["SLIT"].len
                          THEN Placed(slots["SLIT"].offset + 44, <<Entry("matrix", N * N, Filled)>>)
                          ELSE <<>>)
    /\ pc' = After("SLIT")
    /\ UNCHANGED <<tree, k, cache, domains, tally, slots, matrix>>

SlitFails ==
    /\ \/ pc = "SLIT" /\ ~MatrixOk
       \/ pc = "distances" /\ k < Len(given.triples) /\ ~DistanceOk(given.triples[k + 1])
    /\ Break

Returned == pc \in {"done", "refused", "too_small", "broken"} /\ UNCHANGED acpiVars

Next ==
    \/ WalkCpu \/ CpusWalked \/ CpusRefused
    \/ CountDevices \/ DevicesRefused
    \/ WalkMemory \/ MemoriesWalked \/ MemoryRefused
    \/ Layout
    \/ \E t \in DOMAIN slots : Emit(t) \/ EmitFails(t)
    \/ EmitSlitHeader \/ PutDistance \/ FillDistances \/ SlitFails
    \/ Returned

Spec == Init /\ [][Next]_acpiVars

----------------------------------------------------------------------------
Domain(n) == n.numa_node_id[1]
TaggedDomains == {Domain(n) : n \in {m \in Range(CpuNodes \o Named("memory")) : Has(m, "numa_node_id")}}

\* The distances given do not describe a symmetric matrix over the domains D.
BadDistances(D) ==
    \/ ~given.whole \/ given.triples = <<>>
    \/ \E s \in Range(given.triples) :
         \/ ~({s.from, s.to} \subseteq D) \/ s.val < 10 \/ s.val > DISTANCE_MAX
         \/ s.from = s.to /\ s.val # 10
         \/ \E t \in Range(given.triples) : {s.from, s.to} = {t.from, t.to} /\ s.val # t.val

\* The emitters of these tables read only what the first pass has validated.
Validated == {"RSDP", "FADT", "MCFG", "SRAT", "XSDT"}

\* The counting pass and the emitting pass agree on the bytes of every table: an
\* emitter that finds what it reads fills exactly the slot that count.rs gave it,
\* those of the RSDP, the FADT, the MCFG, the SRAT and the XSDT always do, and
\* when populate() succeeds the entries follow one another without a gap from
\* the RSDP to the end of the XSDT, so that no table keeps bytes of an earlier
\* image (acpi_buffer.rs: every byte up to the layout size is overwritten, though
\* only the DSDT's end is checked).
AccountsAgree ==
    /\ pc \in DOMAIN slots \ {"SLIT"} /\ Encodes(pc) => Total(Lengths(Entries(pc))) = slots[pc].len
    /\ pc \in Validated => Encodes(pc)
    /\ pc = "done" =>
         /\ image[1].at = 0
         /\ \A i \in 1..(Len(image) - 1) : image[i + 1].at = image[i].at + image[i].len
         /\ image[Len(image)].at + image[Len(image)].len = slots["XSDT"].offset + slots["XSDT"].len

\* error.rs: "a tree that crate::count::run accepted cannot in practice produce
\* a re-walk failure".  No emitter fails after the first pass.
CountedTreeIsWritten == pc # "broken"

\* slit.rs ("validates symmetry, diagonal == 10, and value range as it goes"):
\* though a triple is only compared with two cells, the emitter fails exactly on
\* the distances that are no symmetric matrix over the domains, and what it
\* writes otherwise fits its slot, is symmetric and has no empty cell.
SlitVerdict ==
    [][/\ SlitFails => BadDistances(Range(domains))
       /\ FillDistances =>
            /\ ~BadDistances(Range(domains)) /\ 44 + N * N <= slots["SLIT"].len
            /\ \A i, j \in 1..N : Filled[i][j] = Filled[j][i] /\ Filled[i][j] \in 10..DISTANCE_MAX]_acpiVars

----------------------------------------------------------------------------
Of(kind) == SelectSeq(image, LAMBDA e : e.kind = kind)
WindowsOf(owner, i) == SelectSeq(Of("window"), LAMBDA e : e.data.owner = <<owner, i>>)

\* Every processor of the tree is in the MADT once, with its NMI, in an entry
\* wide enough for both its numbers.
ProcessorsListed ==
    /\ Len(Of("lapic")) = Len(CpuNodes) /\ Len(Of("nmi")) = Len(CpuNodes)
    /\ \A i \in DOMAIN CpuNodes :
         LET l == Of("lapic")[i].data
         IN /\ l.uid = i - 1 /\ l.apic = CpuNodes[i].reg[1].base
            /\ l.wide <=> {l.uid, l.apic} \cap 0..XAPIC_ID_MAX # {l.uid, l.apic}
            /\ Of("nmi")[i].data.uid = l.uid /\ (Of("nmi")[i].data.wide => l.wide)

\* Either no processor and memory range is in the SRAT and none has a tag, or
\* all are, each with its own.
AffinityComplete ==
    IF TaggedDomains = {} THEN "SRAT" \notin DOMAIN slots
    ELSE /\ Len(Of("cpu_affinity")) = Len(CpuNodes)
         /\ \A i \in DOMAIN CpuNodes :
              LET a == Of("cpu_affinity")[i].data
                  l == Of("lapic")[i].data
              IN a.apic = l.apic /\ a.domain = Domain(CpuNodes[i]) /\ (a.enabled <=> l.enabled \/ l.online)
         /\ LET m == Of("memory_affinity")
            IN \A n \in Range(Named("memory")), r \in UNION {Range(x.reg) : x \in Range(Named("memory"))} :
                 r \in Range(n.reg) =>
                   \E i \in DOMAIN m : <<m[i].data.domain, m[i].data.base, m[i].data.length>>
                                         = <<Domain(n), r.base, r.size>>

\* The SLIT has a row for each domain of the SRAT and no other, is symmetric, and
\* holds the distances given.
DistancesAgree ==
    "SLIT" \in DOMAIN slots =>
      LET d == Of("matrix")[1].data
          row == [x \in TaggedDomains |-> index_of(x)]
      IN /\ {row[x] : x \in TaggedDomains} = DOMAIN d
         /\ Cardinality(TaggedDomains) = Of("SLIT")[1].data
         /\ \A x, y \in TaggedDomains :
              LET told == {t \in Range(given.triples) : {t.from, t.to} = {x, y}}
                  v == d[row[x]][row[y]]
              IN v = d[row[y]][row[x]] /\ v = IF x = y THEN 10 ELSE IF told = {} THEN 20 ELSE (CHOOSE t \in told : TRUE).val

\* An ECAM that the MCFG names is a resource of a motherboard device, and its
\* buses are those of a host bridge: without the first Linux drops the MCFG entry,
\* without the second it finds no bus.  On a machine with one bridge, as in the tree
\* that arma writes, their segments are the same; with more they are not, for
\* pci_host.rs counts up and mcfg.rs always writes 0.
BridgesAgree ==
    \A i \in DOMAIN Of("ecam") :
      LET e == Of("ecam")[i].data
      IN /\ Len(WindowsOf("MBR", i - 1)) = 1 /\ WindowsOf("MBR", i - 1)[1].data.base = e.base
         /\ Of("buses")[i].data = e.buses
         /\ Len(Of("ecam")) = 1 => Of("segment")[i].data = e.segment

\* The RSDP leads to the XSDT, the FADT to the DSDT, and the XSDT to all the
\* others: at each address a header of that table has been written.
PointersLand ==
    LET At(t) == Of(t)[1].at
    IN /\ Of("RSDP")[1].data = At("XSDT") /\ Of("FADT")[1].data = At("DSDT")
       /\ {Of("pointer")[i].data : i \in DOMAIN Of("pointer")}
            = {At(t) : t \in {x \in Range(Order) : Of(x) # <<>>} \ {"RSDP", "DSDT", "XSDT"}}

\* The tables of a successful populate() describe one machine: the MADT, the SRAT
\* and the SLIT name the same processors and domains, the MCFG and the DSDT the
\* same ECAMs and buses (and, of a single bridge, the same segment), and every
\* pointer leads to a table.  They are written by emitters
\* that do not see one another, some from the cache and some from the tree.
TablesAgree ==
    pc = "done" => ProcessorsListed /\ AffinityComplete /\ DistancesAgree /\ BridgesAgree /\ PointersLand
=============================================================================
