------------------------------ MODULE PmiParts ------------------------------
(***************************************************************************)
(* The parts of a PMI as `arma build` derives them from one another:       *)
(* tatu's sections (tatu.rs), the boot information (bootinfo.rs), the      *)
(* manifest (manifest.rs), the list of sections (build.rs) and what pe.rs  *)
(* computes for each of them.                                              *)
(*                                                                         *)
(* Bytes are counted, and what they are is a name ("kernel", "dtb", ...).  *)
(* A range has a start and an end; an optional one is a set of at most     *)
(* one.                                                                    *)
(***************************************************************************)
EXTENDS Naturals, Sequences, FiniteSets, SequencesExt

CONSTANTS
    U32_MAX,                    \* the largest u32
    FILE_ALIGNMENT,             \* and SECTION_ALIGNMENT: pages of the file
    LARGE,                      \* LARGE_THRESHOLD and LARGE_ALIGNMENT
    HEADERS, SECTION_HDR_SIZE,  \* bytes before the section headers, and of each
    STRTAB_NAME,                \* bytes of a long name in the string table
    BOOTINFO_SIZE               \* bootinfo.rs, SECTION_SIZE

ASSUME PmiAssumption ==
    /\ {U32_MAX, FILE_ALIGNMENT, LARGE, HEADERS, SECTION_HDR_SIZE, STRTAB_NAME, BOOTINFO_SIZE} \subseteq Nat \ {0}
    /\ LARGE % FILE_ALIGNMENT = 0

U32 == U32_MAX + 1
Larger(a, b) == IF a > b THEN a ELSE b
AlignUp(n, a) == ((n + a - 1) \div a) * a
Only(S) == CHOOSE x \in S : TRUE

----------------------------------------------------------------------------
\* tatu.rs, parse(): the headers that become sections.
Kept(sh) == sh.alloc /\ sh.size # 0 /\ sh.type \in {"progbits", "nobits"}

ParsesTatu(elf, arch) ==
    /\ elf.machine = arch
    /\ \A k \in DOMAIN elf.headers :
         Kept(elf.headers[k]) /\ elf.headers[k].type = "progbits"
           => elf.headers[k].off + elf.headers[k].size <= elf.len
    /\ \E k \in DOMAIN elf.headers : Kept(elf.headers[k]) /\ elf.headers[k].name = ".tatu.bootinfo"

TatuSection(sh) ==
    [name |-> sh.name, vaddr |-> sh.addr, virtual_size |-> sh.size,
     is_nobits |-> sh.type = "nobits", data |-> IF sh.type = "nobits" THEN 0 ELSE sh.size]

\* The places in K by their keys, those of one key as they stand (a stable sort).
UpTo(K, key, k) == {j \in K : key[j] < key[k] \/ (key[j] = key[k] /\ j <= k)}
Arranged(K, key) == [n \in 1..Cardinality(K) |-> CHOOSE k \in K : Cardinality(UpTo(K, key, k)) = n]

tatu_parse(elf) ==
    LET kept == {k \in DOMAIN elf.headers : Kept(elf.headers[k])}
        order == Arranged(kept, [k \in kept |-> elf.headers[k].addr])
    IN [n \in DOMAIN order |-> TatuSection(elf.headers[order[n]])]

HasSection(tatu, name) == \E k \in DOMAIN tatu : tatu[k].name = name
section(tatu, name) == tatu[SelectInSeq(tatu, LAMBDA s : s.name = name)]

reserved(tatu) ==
    {[start |-> tatu[k].vaddr, end |-> tatu[k].vaddr + tatu[k].virtual_size] : k \in DOMAIN tatu}

----------------------------------------------------------------------------
\* build.rs, compute_kernel_alloc_size()
compute_kernel_alloc_size(kernel) == Larger(kernel.alloc, kernel.file)

\* kernel.rs, Relocs: the table's bytes, and bootinfo.rs, TatuBootInfo::new().
relocs_bytes(kernel) == 4 * (kernel.relocs[1] + kernel.relocs[2] + kernel.relocs[3])

Sizes(kernel, dtb_size, dtbo_size) ==
    [base_dtb_size |-> dtb_size, host_dtbo_size |-> dtbo_size, kernel_size |-> kernel.file,
     kernel_alloc_size |-> compute_kernel_alloc_size(kernel),
     relocs64_count |-> kernel.relocs[1], relocs32neg_count |-> kernel.relocs[2],
     relocs32_count |-> kernel.relocs[3]]

\* Every size is cut to u32 by `as`.
Cut(sizes) == [f \in DOMAIN sizes |-> sizes[f] % U32]

StartOr0(option) == IF option = {} THEN 0 ELSE Only(option).start

TatuBootInfo(tatu, kernel, lay, dtb_size) ==
    [base_dtb_gpa |-> section(tatu, ".tatu.dtb").vaddr,
     host_dtbo_gpa |-> section(tatu, ".tatu.dtbo").vaddr,
     kernel_gpa |-> lay.linux.start,
     kernel_entry_gpa |-> lay.linux.start + kernel.entry_offset,
     relocs_gpa |-> StartOr0(lay.relocs),
     sizes |-> Cut(Sizes(kernel, dtb_size, section(tatu, ".tatu.dtbo").virtual_size))]

----------------------------------------------------------------------------
\* manifest.rs, build_actions()
Act(op, gpa, name) == [op |-> op, gpa |-> gpa, section |-> name]
ActOn(op, option, name) == IF option = {} THEN <<>> ELSE <<Act(op, Only(option).start, name)>>

LoadsTatu_AnyMode(s, dtb_mode) == s.name # ".tatu.dtbo"

LoadsTatu(s, dtb_mode) == s.name # ".tatu.dtbo" /\ (s.name = ".tatu.dtb" => dtb_mode = "Attached")

build_actions(tatu, lay, dtb_mode) ==
    LET chosen == {k \in DOMAIN tatu : LoadsTatu(tatu[k], dtb_mode)}
        loads == Arranged(chosen, [k \in chosen |-> k])
    IN [n \in DOMAIN loads |-> Act("load", tatu[loads[n]].vaddr, tatu[loads[n]].name)]
         \o <<Act("load", lay.linux.start, ".linux")>>
         \o ActOn("load", lay.initrd, ".initrd")
         \o ActOn("fill", lay.bootconfig, ".bconf")
         \o ActOn("load", lay.relocs, ".linux.relocs")
         \o (IF dtb_mode = "Attached" THEN <<>>
             ELSE <<Act("fill", section(tatu, ".tatu.dtb").vaddr, ".tatu.dtb")>>)
         \o <<Act("fill", section(tatu, ".tatu.dtbo").vaddr, ".tatu.dtbo")>>

\* DtbMode::attribute()
attribute(dtb_mode) ==
    CASE dtb_mode = "Attached" -> {".tatu.dtb"}
      [] dtb_mode = "Optional" -> {".dtb"}
      [] dtb_mode = "Detached" -> {}

\* The registers that depend on the image: the boot tables, or the entry.
HasVcpu(arch, tatu) == arch = "x86_64" => HasSection(tatu, ".tatu.pgt") /\ HasSection(tatu, ".tatu.gdt")

vcpu(arch, tatu, entry) ==
    IF arch = "x86_64"
    THEN [cr3 |-> section(tatu, ".tatu.pgt").vaddr, gdtr |-> section(tatu, ".tatu.gdt").vaddr]
    ELSE [pc |-> entry]

build_pmi_vm(arch, tatu, entry, lay, profile, dtb_mode) ==
    [actions |-> build_actions(tatu, lay, dtb_mode), vcpu |-> vcpu(arch, tatu, entry),
     cpu_profile |-> profile, dt_dtb |-> attribute(dtb_mode)]

----------------------------------------------------------------------------
\* build.rs, tatu_section_characteristics() and assemble_sections()
tatu_section_characteristics(s) ==
    IF s.is_nobits THEN "uninitialized"
    ELSE IF s.name \in {".tatu.text", ".tatu.reset"} THEN "code" ELSE "initialized"

Section(name, vaddr, virtual_size, what, data, kind, non_loaded) ==
    [name |-> name, vaddr |-> vaddr, virtual_size |-> virtual_size, what |-> what, data |-> data,
     kind |-> kind, non_loaded |-> non_loaded]

TatuPe(s, dtb_size, dtb_mode) ==
    LET what == IF s.name = ".tatu.bootinfo" THEN <<"bootinfo", BOOTINFO_SIZE>>
                ELSE IF s.name = ".tatu.dtb" /\ dtb_mode = "Attached" THEN <<"dtb", dtb_size>>
                ELSE IF s.name = ".tatu.dtb" \/ s.is_nobits THEN <<"zero", 0>>
                ELSE <<"tatu", s.data>>
    IN Section(s.name, s.vaddr, s.virtual_size, what[1], what[2], tatu_section_characteristics(s), FALSE)

Placed(name, option, what, data, kind) ==
    IF option = {} THEN <<>>
    ELSE <<Section(name, Only(option).start, Only(option).end - Only(option).start, what, data, kind, FALSE)>>

NonLoaded(name, what, size) == <<Section(name, 0, size, what, size, "initialized", TRUE)>>

assemble_sections(tatu, kernel, initrd, dtb_size, lay, cbor_size, dtb_mode) ==
    [k \in DOMAIN tatu |-> TatuPe(tatu[k], dtb_size, dtb_mode)]
      \o (IF dtb_mode = "Optional" THEN NonLoaded(".dtb", "dtb", dtb_size) ELSE <<>>)
      \o Placed(".linux", {lay.linux}, "kernel", kernel.file, "initialized")
      \o (IF initrd = {} THEN <<>> ELSE Placed(".initrd", lay.initrd, "initrd", Only(initrd), "initialized"))
      \o Placed(".bconf", lay.bootconfig, "zero", 0, "uninitialized")
      \o Placed(".linux.relocs", lay.relocs, "relocs", relocs_bytes(kernel), "initialized")
      \o NonLoaded(".pmi.vm", "manifest", cbor_size)

----------------------------------------------------------------------------
\* pe.rs
is_zero_shape(s) == s.data = 0

is_large_payload(s) ==
    ~s.non_loaded /\ ~is_zero_shape(s) /\ Larger(s.virtual_size, s.data) >= LARGE

alignment_for(s) == IF is_large_payload(s) THEN LARGE ELSE FILE_ALIGNMENT

\* align_up_u32() refuses when adding the mask overflows.
AlignsUp(n, a) == n + a - 1 <= U32_MAX

\* The string table, after its size field: every tatu section has a long name.
ShortNames == {".dtb", ".linux", ".initrd", ".bconf", ".pmi.vm"}

strtab_len(sections) ==
    LET long == {k \in DOMAIN sections : sections[k].name \notin ShortNames}
    IN IF long = {} THEN 0 ELSE 4 + STRTAB_NAME * Cardinality(long)

size_of_headers(count) == AlignUp(HEADERS + count * SECTION_HDR_SIZE, FILE_ALIGNMENT)

RawSize(s) == AlignUp(s.data, FILE_ALIGNMENT)

RawStart_Down(s, cursor) == cursor - (cursor % alignment_for(s))

RawStart(s, cursor) == AlignUp(cursor, alignment_for(s))

Fits(s, cursor) ==
    /\ AlignsUp(cursor, alignment_for(s)) /\ s.data <= U32_MAX /\ AlignsUp(s.data, FILE_ALIGNMENT)
    /\ RawStart(s, cursor) + RawSize(s) <= U32_MAX

\* What is added up for the optional header, and refused when it overflows.
Amount(s) ==
    IF s.kind = "uninitialized" THEN AlignUp(s.virtual_size, FILE_ALIGNMENT) ELSE AlignUp(s.data, alignment_for(s))

Total(sections, kind) ==
    FoldLeft(LAMBDA sum, s : IF s.kind = kind THEN sum + Amount(s) ELSE sum, 0, sections)

\* The headers can hold every address and size.
HeadersFit_NoVirtualSize(sections) ==
    /\ \A kind \in {"code", "initialized", "uninitialized"} : Total(sections, kind) <= U32_MAX
    /\ \A k \in DOMAIN sections : sections[k].non_loaded \/ sections[k].vaddr <= U32_MAX

HeadersFit(sections) ==
    /\ \A kind \in {"code", "initialized", "uninitialized"} : Total(sections, kind) <= U32_MAX
    /\ \A k \in DOMAIN sections :
         /\ sections[k].non_loaded \/ sections[k].vaddr <= U32_MAX
         /\ sections[k].virtual_size <= U32_MAX

VirtualSize(s) == IF s.non_loaded \/ is_zero_shape(s) THEN s.virtual_size ELSE Larger(s.virtual_size, RawSize(s))

Header(s, raw) ==
    [name |-> s.name, what |-> s.what, non_loaded |-> s.non_loaded,
     virtual_address |-> IF s.non_loaded THEN 0 ELSE s.vaddr, virtual_size |-> VirtualSize(s),
     pointer |-> raw, raw_size |-> RawSize(s), data |-> s.data]
=============================================================================
