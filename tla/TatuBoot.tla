------------------------------ MODULE TatuBoot ------------------------------
(***************************************************************************)
(* rust_main(): what tatu does between the reset stub and the entry of the *)
(* kernel, on both architectures.  It runs alone, on one vCPU; the overlay *)
(* is whatever the host wrote.  Every failure halts the machine.           *)
(*                                                                         *)
(* devtree (parsing and merging blobs) is external: it parses and merges,  *)
(* or fails.  Where a fragment lands is Graft.  Whether the ACPI tables    *)
(* can be generated is left open.                                          *)
(***************************************************************************)
EXTENDS TatuValidate, Kaslr

CONSTANTS
    Name,                     \* node names
    HOST_DTBO_MAX,
    U32,                      \* number of u32 values
    E820_MAX_ENTRIES,
    MAX_RESERVED,             \* regions under /reserved-memory in a base tree
    Seed,                     \* values of kaslr-seed
    AcpiWorkspace,            \* the region of the ACPI tables
    Input                     \* boot information, trees and machine

NoSeed == "no seed"
chosen == Plain("chosen")
HostSegs == {"memory", "distance-map", "cpus"}
ReservedNodes(tree) == {p \in DOMAIN tree : Len(p) = 2 /\ p[1].seg = "reserved-memory"}

\* What base_dtb::build writes: nothing that is the host's to say.
MeasuredBase(base) ==
    /\ IsFiniteSet(DOMAIN base) /\ \A p \in DOMAIN base : Typed(base[p])
    /\ DOMAIN base \subseteq Seq(Name) /\ <<>> \in DOMAIN base
    /\ chosen \in DOMAIN base /\ "kaslr-seed" \notin DOMAIN base[chosen]
    /\ \A p \in DOMAIN base : /\ "numa-node-id" \notin DOMAIN base[p]
                              /\ Len(p) > 0 => p[1].seg \notin HostSegs

\* The node of a fragment is a tree below its target.
WellFormed(frag) ==
    /\ IsFiniteSet(DOMAIN frag.node) /\ \A p \in DOMAIN frag.node : Typed(frag.node[p])
    /\ DOMAIN frag.node \subseteq Seq(Name)
    /\ frag.target \in DOMAIN frag.node
    /\ \A p \in DOMAIN frag.node :
         /\ SubSeq(p, 1, Len(frag.target)) = frag.target /\ Len(p) >= Len(frag.target)
         /\ p # frag.target => SubSeq(p, 1, Len(frag.target) + 1) \in children(frag.node, frag.target)

ASSUME InputAssumption ==
    \A in \in Input :
      /\ in.arch \in {"x86_64", "aarch64"} /\ in.magic \in BOOLEAN /\ in.relocs \in BOOLEAN
      /\ in.size \in Nat /\ in.paLimit \in 0..(U64 - 1) /\ in.alloc \in Nat
      /\ MeasuredBase(in.base)
      /\ DOMAIN in.overlay = 1..Len(in.overlay)
      /\ \A i \in DOMAIN in.overlay : WellFormed(in.overlay[i])

\* Room for the largest tree that passes the checks, and for its count in a u8.
ASSUME E820Assumption ==
    /\ MAX_RESERVED \in Nat /\ E820_MAX_ENTRIES \in Nat
    /\ 1 + MAX_MEMORY_REGIONS + MAX_DEVICE_RANGES + MAX_RESERVED <= E820_MAX_ENTRIES
    /\ E820_MAX_ENTRIES < 256
    /\ \A in \in Input :
         /\ Cardinality(Slots(in.base, ReservedNodes(in.base))) <= MAX_RESERVED
         /\ \A p \in ReservedNodes(in.base) : Has(in.base, p, "reg") => in.base[p]["reg"].whole

VARIABLES
    input,
    pc,                       \* the next step; "kernel" and "halt" are final
    why,                      \* the message of panic_halt
    tree,                     \* the base tree, with what was merged so far
    at,                       \* the fragment to merge
    seed,                     \* what prepare_merge_base drew
    todo,                     \* the nodes extract_e820 has not reached
    e820, initrd,             \* boot_params
    delta                     \* how far the kernel was moved

bootVars == <<input, pc, why, tree, at, seed, todo, e820, initrd, delta>>

NoInitrd == [gpa |-> 0, size |-> 0]

Init ==
    /\ input \in Input
    /\ pc = "start" /\ why = "running" /\ tree = input.base /\ at = 1 /\ seed = NoSeed
    /\ todo = {} /\ e820 = <<>> /\ initrd = NoInitrd /\ delta = 0

panic_halt(message) ==
    /\ pc' = "halt" /\ why' = message
    /\ UNCHANGED <<input, tree, at, seed, todo, e820, initrd, delta>>

Goto(label) ==
    /\ pc' = label
    /\ UNCHANGED <<input, why, tree, at, seed, todo, e820, initrd, delta>>

----------------------------------------------------------------------------
BadMagic == pc = "start" /\ ~input.magic /\ panic_halt("bad magic")

Overlaid(old, new) ==
    [x \in DOMAIN old \cup DOMAIN new |-> IF x \in DOMAIN new THEN new[x] ELSE old[x]]

\* OverlayView::apply for one fragment (devtree).
Graft(t, node) ==
    [p \in DOMAIN t \cup DOMAIN node |->
       IF p \notin DOMAIN node THEN t[p]
       ELSE IF p \notin DOMAIN t THEN node[p] ELSE Overlaid(t[p], node[p])]

\* patch_overlay_seed(): the overlay tatu carries, with a seed.
KaslrOverlay(s) == [p \in {chosen} |-> [x \in {"kaslr-seed"} |-> s]]

\* x86: the base is used as it is.
PrepareX86 == pc = "start" /\ input.magic /\ input.arch = "x86_64" /\ Goto("size")

\* The patched overlay is returned, not the merge.
PrepareAarch64_Unmerged ==
    /\ pc = "start" /\ input.magic /\ input.arch = "aarch64"
    /\ seed' \in Seed
    /\ tree' = KaslrOverlay(seed')
    /\ pc' = "size"
    /\ UNCHANGED <<input, why, at, todo, e820, initrd, delta>>

\* aarch64: the overlay with the seed of the guest is merged first.
PrepareAarch64 ==
    /\ pc = "start" /\ input.magic /\ input.arch = "aarch64"
    /\ seed' \in Seed
    /\ tree' = Graft(tree, KaslrOverlay(seed'))
    /\ pc' = "size"
    /\ UNCHANGED <<input, why, at, todo, e820, initrd, delta>>

PrepareFails ==
    pc = "start" /\ input.magic /\ input.arch = "aarch64" /\ panic_halt("kaslr overlay")

Oversized == input.size > HOST_DTBO_MAX

RefuseSize == pc = "size" /\ Oversized /\ panic_halt("oversized")

ParseOverlay == pc = "size" /\ ~Oversized /\ Goto("overlay")

ParseFails == pc = "size" /\ ~Oversized /\ panic_halt("parse")

AcceptOverlay == pc = "overlay" /\ validate_host_dtbo(input.overlay, tree) /\ Goto("merge")

\* The overlay is read again until it passes.
RefuseOverlay_Retry == pc = "overlay" /\ ~validate_host_dtbo(input.overlay, tree) /\ Goto("size")

RefuseOverlay == pc = "overlay" /\ ~validate_host_dtbo(input.overlay, tree) /\ panic_halt("allowlist")

MergeFragment ==
    /\ pc = "merge" /\ at <= Len(input.overlay)
    /\ tree' = Graft(tree, input.overlay[at].node)
    /\ at' = at + 1
    /\ UNCHANGED <<input, pc, why, seed, todo, e820, initrd, delta>>

\* The buffer is too small, or a target does not exist.
MergeFails == pc = "merge" /\ panic_halt("merge")

Merged == pc = "merge" /\ at > Len(input.overlay) /\ Goto("merged")

AcceptMerged == pc = "merged" /\ validate_merged(tree, input.paLimit) /\ Goto("finalize")

RefuseMerged == pc = "merged" /\ ~validate_merged(tree, input.paLimit) /\ panic_halt("validation")

----------------------------------------------------------------------------
\* finalize(), aarch64: the kernel gets the merged tree.
FinalizeAarch64 == pc = "finalize" /\ input.arch = "aarch64" /\ Goto("kernel")

\* finalize(), x86_64.
GenerateAcpi == pc = "finalize" /\ input.arch = "x86_64" /\ Goto("chosen")

GenerateAcpiFails == pc = "finalize" /\ input.arch = "x86_64" /\ panic_halt("acpi")

read_uint(t, prop) == t[chosen][prop].bytes \in {4, 8}

InitrdGiven(t) ==
    /\ {"linux,initrd-start", "linux,initrd-end"} \subseteq DOMAIN t[chosen]
    /\ read_uint(t, "linux,initrd-start") /\ read_uint(t, "linux,initrd-end")
    /\ t[chosen]["linux,initrd-start"].addr <= t[chosen]["linux,initrd-end"].addr

InitrdOf(t) ==
    IF ~InitrdGiven(t) THEN NoInitrd
    ELSE [gpa  |-> t[chosen]["linux,initrd-start"].addr,
          size |-> t[chosen]["linux,initrd-end"].addr - t[chosen]["linux,initrd-start"].addr]

\* The command line and the fields of boot_params that take 32 bits.
Params == "bootargs" \in DOMAIN tree[chosen] /\ InitrdOf(tree).gpa < U32 /\ InitrdOf(tree).size < U32

Ecam(t, p) == Has(t, p, "compatible") /\ "pci-host-ecam-generic" \in t[p]["compatible"]

\* Nodes that extract_e820 translates.
EcamNodes(t) ==
    {p \in TopNodes(t) : top_segment(p) \notin {"memory", "reserved-memory"} /\ Ecam(t, p)}

E820Nodes(t) == MemoryNodes(t) \cup ReservedNodes(t) \cup EcamNodes(t)

\* fill_elf() down to the first e820 entry.
ReadChosen ==
    /\ pc = "chosen" /\ Params
    /\ initrd' = InitrdOf(tree)
    /\ e820' = <<[region |-> AcpiWorkspace, kind |-> "acpi"]>>
    /\ todo' = E820Nodes(tree)
    /\ pc' = "e820"
    /\ UNCHANGED <<input, why, tree, at, seed, delta>>

ReadChosenFails == pc = "chosen" /\ ~Params /\ panic_halt("boot_params")

\* Whatever is not under /reserved-memory is memory.
E820Kind_Default(p) == IF Len(p) = 2 THEN "reserved" ELSE "usable"

E820Kind(p) == IF Len(p) = 1 /\ top_segment(p) = "memory" THEN "usable" ELSE "reserved"

RegionsOf(p) == IF Has(tree, p, "reg") THEN tree[p]["reg"].regions ELSE <<>>

Fits(p) ==
    /\ Has(tree, p, "reg") => tree[p]["reg"].whole
    /\ Len(e820) + Len(RegionsOf(p)) <= E820_MAX_ENTRIES

\* extract_e820(): append_reg() for one node, the nodes in any order.
AppendReg(p) ==
    IF Fits(p)
    THEN /\ e820' = e820 \o [i \in 1..Len(RegionsOf(p)) |->
                              [region |-> RegionsOf(p)[i], kind |-> E820Kind(p)]]
         /\ todo' = todo \ {p}
         /\ UNCHANGED <<input, pc, why, tree, at, seed, initrd, delta>>
    ELSE panic_halt("e820")

ExtractE820 == pc = "e820" /\ \E p \in todo : AppendReg(p)

E820Done == pc = "e820" /\ todo = {} /\ Goto("kaslr")

----------------------------------------------------------------------------
\* apply_kaslr(): without relocation tables the kernel stays.
StayPut == pc = "kaslr" /\ ~input.relocs /\ Goto("kernel")

ApplyKaslr ==
    /\ pc = "kaslr" /\ input.relocs
    /\ \E n \in 0..(KaslrSlots(input.alloc) - 1) : delta' = n * KASLR_ALIGN
    /\ pc' = "kernel"
    /\ UNCHANGED <<input, why, tree, at, seed, todo, e820, initrd>>

\* RDRAND fails a hundred times.
NoEntropy == pc = "kaslr" /\ input.relocs /\ panic_halt("entropy")

Next ==
    \/ BadMagic \/ PrepareX86 \/ PrepareAarch64 \/ PrepareFails
    \/ RefuseSize \/ ParseOverlay \/ ParseFails \/ AcceptOverlay \/ RefuseOverlay
    \/ MergeFragment \/ MergeFails \/ Merged \/ AcceptMerged \/ RefuseMerged
    \/ FinalizeAarch64 \/ GenerateAcpi \/ GenerateAcpiFails
    \/ ReadChosen \/ ReadChosenFails
    \/ ExtractE820 \/ E820Done \/ StayPut \/ ApplyKaslr \/ NoEntropy

Gone == pc \in {"kernel", "halt"} /\ UNCHANGED bootVars

Spec == Init /\ [][Next \/ Gone]_bootVars /\ WF_bootVars(Next)

----------------------------------------------------------------------------
TatuTypeOK ==
    /\ pc \in {"start", "size", "overlay", "merge", "merged", "finalize", "chosen", "e820", "kaslr",
               "kernel", "halt"}
    /\ at \in 1..(Len(input.overlay) + 1)
    /\ DOMAIN input.base \subseteq DOMAIN tree
    /\ todo \subseteq DOMAIN tree
    /\ seed \in Seed \cup {NoSeed}
    /\ delta \in Nat

\* The measured tree reaches the kernel: whatever the host wrote, each property
\* arma put in the base (command line, initrd, devices) is as arma wrote it,
\* nodes of the base gain at most numa-node-id, new nodes are memory, cpus or
\* the distance map, and the seed is the one the guest drew.
MeasuredTreeReachesKernel ==
    pc = "kernel" =>
      /\ \A p \in DOMAIN input.base :
           /\ \A x \in DOMAIN input.base[p] : x \in DOMAIN tree[p] /\ tree[p][x] = input.base[p][x]
           /\ \A x \in DOMAIN tree[p] \ DOMAIN input.base[p] :
                \/ x = "numa-node-id"
                \/ x = "kaslr-seed" /\ p = chosen /\ input.arch = "aarch64" /\ tree[p][x] = seed
      /\ \A p \in DOMAIN tree \ DOMAIN input.base : p[1].seg \in HostSegs
      /\ input.arch = "aarch64" => "kaslr-seed" \in DOMAIN tree[chosen]
      /\ input.arch = "x86_64" => initrd = InitrdOf(input.base)

Bytes(r) == r.gpa..(end(r) - 1)
BytesOf(t, nodes) == UNION {Bytes(r) : r \in Regions(t, nodes)}
Ram == BytesOf(tree, MemoryNodes(tree))

\* The kernel is entered only with memory that the machine can address and that
\* no device of the measured tree uses, with cpu mailboxes wholly in memory, and
\* with no more cpus and regions than it was built for.
HandoffIsSound ==
    pc = "kernel" =>
      /\ Ram \subseteq 0..(input.paLimit - 1)
      /\ Ram \cap BytesOf(input.base, DeviceNodes(input.base)) = {}
      /\ \A p \in CpuNodes(tree) :
           Has(tree, p, "cpu-release-addr") =>
             Bytes(ReleaseTarget(tree[p]["cpu-release-addr"])) \subseteq Ram
      /\ Cardinality(CpuNodes(tree)) <= MAX_CPUS
      /\ Cardinality(Slots(tree, MemoryNodes(tree))) <= MAX_MEMORY_REGIONS

\* A merged tree that the kernel could use: by the bytes of its regions.
Usable(t) ==
    /\ \A p \in MemoryNodes(t) \cup DeviceNodes(t) : Has(t, p, "reg") => t[p]["reg"].whole
    /\ \A r \in Regions(t, MemoryNodes(t)) \cup Regions(t, DeviceNodes(t)) :
         Bytes(r) # {} /\ Bytes(r) \subseteq 0..(input.paLimit - 1)
    /\ BytesOf(t, MemoryNodes(t)) \cap BytesOf(t, DeviceNodes(t)) = {}
    /\ Cardinality(CpuNodes(t)) <= MAX_CPUS
    /\ Cardinality(Slots(t, MemoryNodes(t))) <= MAX_MEMORY_REGIONS
    /\ Cardinality(Slots(t, DeviceNodes(t))) <= MAX_DEVICE_RANGES
    /\ \A p \in CpuNodes(t) :
         Has(t, p, "cpu-release-addr") =>
           /\ t[p]["cpu-release-addr"].bytes \in {4, 8}
           /\ \E m \in Regions(t, MemoryNodes(t)) :
                Bytes(ReleaseTarget(t[p]["cpu-release-addr"])) \subseteq Bytes(m)

\* validate_merged() refuses no machine that the kernel could use: a region may
\* end with the last address and touch a device on either side.
RefusesOnlyUnusable == pc = "halt" /\ why = "validation" => ~Usable(tree)

E820Bytes(kind) == UNION {Bytes(e820[i].region) : i \in {j \in DOMAIN e820 : e820[j].kind = kind}}

\* The e820 map says of the merged tree what the tree says: the usable bytes are
\* the memory, and the ECAM window of the measured bridge is reserved and not
\* usable (Linux ignores a bridge whose window is not reserved).
E820IsTheMap ==
    pc = "kernel" /\ input.arch = "x86_64" =>
      /\ E820Bytes("usable") = Ram
      /\ BytesOf(input.base, EcamNodes(input.base)) \subseteq E820Bytes("reserved") \ E820Bytes("usable")

\* A tree that passed the checks always becomes an e820 map: the maxima leave
\* room and the two walks read the same regions.
ValidatedTreeFitsE820 == ~(pc = "halt" /\ why = "e820")

\* The moved kernel stays in the window its page tables cover, at a multiple
\* of the alignment they need.
KaslrStaysInWindow ==
    delta # 0 => /\ LOAD_PHYSICAL_ADDR + delta + input.alloc <= KERNEL_IMAGE_SIZE
                 /\ delta % KASLR_ALIGN = 0

\* tatu enters the kernel or halts.
BootEnds == <>(pc \in {"kernel", "halt"})
============================================================================
