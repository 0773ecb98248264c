----------------------------- MODULE BuildImage -----------------------------
(***************************************************************************)
(* `arma build` (build.rs, run()) from its kernel, already unwrapped and   *)
(* lowered (KernelImage), to the PMI it writes, with the detached base DTB *)
(* beside it, `arma cmdline` on that DTB, and what a launch makes of both. *)
(*                                                                         *)
(* The steps are those of run(); the loops that write and read an archive  *)
(* and that lay out the file take one record or section at a time.  Two    *)
(* parts are what other modules show of them: the planner takes the lowest *)
(* free slots (Planner; the device band, which is placed last, is left to  *)
(* it), and which modules are packed is ModuleSelection's.                 *)
(* A base DTB is its size, its command line, its devices and the initrd    *)
(* range; the manifest's encoding is CBOR_SIZE bytes.                      *)
(***************************************************************************)
EXTENDS KernelConfig, Cpio, PmiParts

CONSTANTS
    Inputs,                     \* host architecture, arguments, files, embedded tatu
    NewCmdlines,                \* what arma cmdline may be given
    U64_MAX,                    \* the planner's last address
    DTB_FIXED,                  \* bytes of a base DTB without devices
    CBOR_SIZE                   \* bytes of a manifest

\* The names arma gives to its own sections.
OwnNames == {".dtb", ".linux", ".initrd", ".bconf", ".linux.relocs", ".pmi.vm"}

\* tatu.ld: the names are tatu's own, each once, what has bytes in the file is
\* less than 2 MiB, and .tatu.dtbo is NOLOAD.
TatuIsLinked(elf) ==
    /\ DOMAIN elf.headers = 1..Len(elf.headers) /\ Len(elf.headers) \in Nat
    /\ \A k \in DOMAIN elf.headers :
         LET sh == elf.headers[k]
         IN /\ {sh.addr, sh.size} \subseteq Nat /\ sh.name \notin OwnNames
            /\ sh.type = "progbits" \/ sh.name \in {".tatu.dtb", ".tatu.bootinfo"} => sh.size < LARGE
            /\ sh.name = ".tatu.dtbo" => sh.type = "nobits"
            /\ \A j \in DOMAIN elf.headers : Kept(sh) /\ Kept(elf.headers[j]) /\ elf.headers[j].name = sh.name => j = k

ASSUME BuildAssumption ==
    /\ {U64_MAX, DTB_FIXED, CBOR_SIZE} \subseteq Nat \ {0}
    /\ BOOTINFO_SIZE < LARGE
    /\ \A in \in Inputs :
         /\ in.dtb_mode \in {"Attached", "Detached", "Optional"}
         /\ in.kernel.file \in Nat \ {0} /\ {in.kernel.alloc, in.kernel.min_paddr, in.kernel.entry_offset} \subseteq Nat
         /\ in.kernel.entry_offset < compute_kernel_alloc_size(in.kernel)
         /\ in.kernel.relocs \in [1..3 -> Nat] /\ (in.arch = "x86_64" <=> relocs_bytes(in.kernel) > 0)
         /\ \A r \in in.taken : {r.start, r.end} \subseteq Nat
         /\ TatuIsLinked(in.tatu)
         /\ \A f \in in.initrd : Opens(f) \/ Wraps(f) => f.size \in Nat
         /\ in.modules \in Seq([name : DOMAIN NameLen \ {Trailer}, size : Nat])
         /\ in.cmdline \in Seq(ToSet(in.cmdline)) /\ in.mmio_slots \union in.pci_slots \subseteq Nat

VARIABLES
    input, pc,
    kcfg, slots,                \* the configuration; <<mmio, pci>>
    archive, todo, at,          \* the archive, entries to write, the reader's place
    initrd,                     \* the bytes of .initrd, if any
    tatu, lay, dtb, bi, spec,   \* sections, layout, base DTB, boot information, manifest
    sections, headers, cursor,  \* to write; laid out; the file so far
    view                        \* bytes of the base DTB that tatu parses

archiveVars == <<archive, todo, at>>
peVars == <<sections, headers, cursor>>
vars == <<input, pc, kcfg, slots, archiveVars, initrd, tatu, lay, dtb, bi, spec, peVars, view>>

NotYet == <<>>

Init ==
    /\ input \in Inputs /\ pc = "args"
    /\ kcfg = NotYet /\ slots = <<0, 0>> /\ archive = EmptyArchive /\ todo = <<>> /\ at = 0
    /\ initrd = {} /\ tatu = <<>> /\ lay = NotYet /\ dtb = NotYet /\ bi = NotYet /\ spec = NotYet
    /\ sections = <<>> /\ headers = <<>> /\ cursor = 0 /\ view = 0

Fail ==
    /\ pc' = "failed"
    /\ UNCHANGED <<input, kcfg, slots, archiveVars, initrd, tatu, lay, dtb, bi, spec, peVars, view>>

----------------------------------------------------------------------------
\* The arguments, the configuration and what the kernel can drive.
ArgsAreGood ==
    /\ input.module_tree => input.selects
    /\ input.selects => input.initrd # {} /\ input.names_valid

CheckArgs ==
    /\ pc = "args" /\ ArgsAreGood
    /\ pc' = "config"
    /\ UNCHANGED <<input, kcfg, slots, archiveVars, initrd, tatu, lay, dtb, bi, spec, peVars, view>>

RefuseArgs == pc = "args" /\ ~ArgsAreGood /\ Fail

\* --config, else what from_ikconfig() finds in the kernel.
load_kernel_config ==
    /\ pc = "config"
    /\ \E c \in (IF input.config # {} THEN input.config ELSE input.kernel.ikconfig) : kcfg' = c
    /\ pc' = "board"
    /\ UNCHANGED <<input, slots, archiveVars, initrd, tatu, lay, dtb, bi, spec, peVars, view>>

RefuseConfig == pc = "config" /\ input.config = {} /\ input.kernel.ikconfig = {} /\ Fail

bootconfig == bootconfig_requested(input.cmdline)
cmdline == serial_earlycon_cmdline(input.serial, input.cmdline)

BoardIsGood ==
    /\ bootconfig => check_bootconfig(kcfg, input.arch, cmdline)
    /\ ~NoSlots(kcfg, input.arch, input.mmio_slots, input.pci_slots)

ChooseBoard ==
    /\ pc = "board" /\ BoardIsGood
    /\ slots' = infer_slots(kcfg, input.arch, input.mmio_slots, input.pci_slots)
    /\ pc' = "initrd"
    /\ UNCHANGED <<input, kcfg, archiveVars, initrd, tatu, lay, dtb, bi, spec, peVars, view>>

RefuseBoard == pc = "board" /\ ~BoardIsGood /\ Fail

----------------------------------------------------------------------------
\* The initramfs: none, an archive to read, or an init to wrap.
File == Only(input.initrd)

NoInitrd ==
    /\ pc = "initrd" /\ input.initrd = {} /\ ~bootconfig
    /\ pc' = "tatu"
    /\ UNCHANGED <<input, kcfg, slots, archiveVars, initrd, tatu, lay, dtb, bi, spec, peVars, view>>

OpenArchive ==
    /\ pc = "initrd" /\ input.initrd # {} /\ ~input.selects /\ Opens(File)
    /\ archive' = File.archive /\ at' = 0 /\ pc' = "read"
    /\ UNCHANGED <<input, kcfg, slots, todo, initrd, tatu, lay, dtb, bi, spec, peVars, view>>

Directories ==
    <<Entry(".", 0), Entry("dev", 0)>> \o (IF input.modules = <<>> THEN <<>> ELSE <<Entry("usr", 0)>>)

WrapInit ==
    /\ pc = "initrd" /\ input.initrd # {} /\ Wraps(File)
    /\ archive' = EmptyArchive /\ todo' = Entries(Directories, File.size, input.modules) /\ pc' = "wrap"
    /\ UNCHANGED <<input, kcfg, slots, at, initrd, tatu, lay, dtb, bi, spec, peVars, view>>

RefuseInitrd ==
    /\ pc = "initrd"
    /\ IF input.initrd = {} THEN bootconfig
       ELSE ~Wraps(File) /\ (input.selects \/ ~Opens(File))
    /\ Fail

WriteEntry ==
    /\ pc = "wrap" /\ todo # <<>> /\ checked_entry(Head(todo))
    /\ archive' = cpio_entry(archive, Head(todo)) /\ todo' = Tail(todo)
    /\ UNCHANGED <<input, pc, kcfg, slots, at, initrd, tatu, lay, dtb, bi, spec, peVars, view>>

EntryTooLarge == pc = "wrap" /\ todo # <<>> /\ ~checked_entry(Head(todo)) /\ Fail

Wrapped ==
    /\ pc = "wrap" /\ todo = <<>>
    /\ initrd' = {archive.len} /\ pc' = "tatu"
    /\ UNCHANGED <<input, kcfg, slots, archiveVars, tatu, lay, dtb, bi, spec, peVars, view>>

\* A whole record; the input's own bytes are kept when the last one is read.
ReadRecord ==
    /\ pc = "read" /\ RecordIsWhole(archive, at)
    /\ at' = AfterRecord(archive, at)
    /\ IF Complete(archive, at, at') THEN initrd' = {File.size} /\ pc' = "tatu"
                                     ELSE UNCHANGED <<initrd, pc>>
    /\ UNCHANGED <<input, kcfg, slots, archive, todo, tatu, lay, dtb, bi, spec, peVars, view>>

RefuseArchive == pc = "read" /\ ~RecordIsWhole(archive, at) /\ Fail

----------------------------------------------------------------------------
\* native_tatu_elf() and tatu::parse()
ParseTatu ==
    /\ pc = "tatu" /\ input.arch = input.host /\ ParsesTatu(input.tatu, input.arch)
    /\ tatu' = tatu_parse(input.tatu) /\ pc' = "plan"
    /\ UNCHANGED <<input, kcfg, slots, archiveVars, initrd, lay, dtb, bi, spec, peVars, view>>

RefuseTatu == pc = "tatu" /\ ~(input.arch = input.host /\ ParsesTatu(input.tatu, input.arch)) /\ Fail

\* The planner's promise: the lowest aligned slot that meets no taken unit.
round_out(r) == [start |-> (r.start \div LARGE) * LARGE, end |-> AlignUp(r.end, LARGE)]

FreeSlots(low, size, occupied) ==
    {g \in {k * LARGE : k \in 0..(U64_MAX \div LARGE)} :
       /\ g >= low /\ g + size <= U64_MAX
       /\ \A r \in occupied : g + size <= round_out(r).start \/ round_out(r).end <= g}

first_fit(low, size, occupied) ==
    LET g == Min(FreeSlots(low, size, occupied)) IN [start |-> g, end |-> g + size]

Fixed == input.taken \union reserved(tatu)
KernelSize == compute_kernel_alloc_size(input.kernel)

PlaceKernel ==
    /\ pc = "plan" /\ FreeSlots(input.kernel.min_paddr, KernelSize, Fixed) # {}
    /\ lay' = [linux |-> first_fit(input.kernel.min_paddr, KernelSize, Fixed),
               initrd |-> {}, bootconfig |-> {}, relocs |-> {}]
    /\ pc' = IF initrd = {} THEN "relocs" ELSE "place_initrd"
    /\ UNCHANGED <<input, kcfg, slots, archiveVars, initrd, tatu, dtb, bi, spec, peVars, view>>

\* The archive, padded, and the reservation for the bootconfig go together.
ArchiveSize == AlignUp(Only(initrd), LARGE)
FillSize == IF bootconfig THEN LARGE ELSE 0

PlaceInitrd ==
    /\ pc = "place_initrd" /\ FreeSlots(0, ArchiveSize + FillSize, Fixed \union {lay.linux}) # {}
    /\ LET r == first_fit(0, ArchiveSize + FillSize, Fixed \union {lay.linux})
           middle == r.start + ArchiveSize
       IN lay' = [lay EXCEPT !.initrd = {[start |-> r.start, end |-> middle]},
                             !.bootconfig = IF bootconfig THEN {[start |-> middle, end |-> r.end]} ELSE {}]
    /\ pc' = "relocs"
    /\ UNCHANGED <<input, kcfg, slots, archiveVars, initrd, tatu, dtb, bi, spec, peVars, view>>

BeforeRelocs == Fixed \union {lay.linux} \union lay.initrd \union lay.bootconfig
TableSize == relocs_bytes(input.kernel)

PlaceRelocs ==
    /\ pc = "relocs" /\ (TableSize = 0 \/ FreeSlots(0, TableSize, BeforeRelocs) # {})
    /\ lay' = [lay EXCEPT !.relocs = IF TableSize = 0 THEN {} ELSE {first_fit(0, TableSize, BeforeRelocs)}]
    /\ pc' = "dtb"
    /\ UNCHANGED <<input, kcfg, slots, archiveVars, initrd, tatu, dtb, bi, spec, peVars, view>>

PlanFails ==
    /\ \/ pc = "plan" /\ FreeSlots(input.kernel.min_paddr, KernelSize, Fixed) = {}
       \/ pc = "place_initrd" /\ FreeSlots(0, ArchiveSize + FillSize, Fixed \union {lay.linux}) = {}
       \/ pc = "relocs" /\ TableSize > 0 /\ FreeSlots(0, TableSize, BeforeRelocs) = {}
    /\ Fail

----------------------------------------------------------------------------
\* base_dtb::build(): every token and every device has its bytes.
DtbSize(args) == DTB_FIXED + Len(args) + slots[1] + (IF slots[2] > 0 THEN 2 ELSE 0) + (IF initrd = {} THEN 0 ELSE 2)

InitrdExtent ==
    IF lay.bootconfig = {} THEN lay.initrd
    ELSE {[start |-> Only(lay.initrd).start, end |-> Only(lay.bootconfig).end]}

DtbFits ==
    /\ HasSection(tatu, ".tatu.dtb") /\ HasSection(tatu, ".tatu.dtbo")
    /\ DtbSize(cmdline) <= section(tatu, ".tatu.dtb").virtual_size

BuildDtb ==
    /\ pc = "dtb" /\ DtbFits
    /\ dtb' = [size |-> DtbSize(cmdline), bootargs |-> cmdline, initrd |-> InitrdExtent, edited |-> FALSE]
    /\ bi' = TatuBootInfo(tatu, input.kernel, lay, DtbSize(cmdline))
    /\ pc' = "manifest"
    /\ UNCHANGED <<input, kcfg, slots, archiveVars, initrd, tatu, lay, spec, peVars, view>>

RefuseDtb == pc = "dtb" /\ ~DtbFits /\ Fail

\* The manifest; then the detached DTB is written and the sections assembled.
BuildManifest ==
    /\ pc = "manifest" /\ HasVcpu(input.arch, tatu)
    /\ spec' = build_pmi_vm(input.arch, tatu, input.tatu.entry, lay,
                            cpu_profile(kcfg, input.arch, input.profile), input.dtb_mode)
    /\ sections' = assemble_sections(tatu, input.kernel, initrd, dtb.size, lay, CBOR_SIZE, input.dtb_mode)
    /\ headers' = <<>> /\ cursor' = size_of_headers(Len(sections'))
    /\ pc' = "layout"
    /\ UNCHANGED <<input, kcfg, slots, archiveVars, initrd, tatu, lay, dtb, bi, view>>

RefuseManifest == pc = "manifest" /\ ~HasVcpu(input.arch, tatu) /\ Fail

----------------------------------------------------------------------------
\* build_pe(): one section at a time, then the headers and the string table.
This == sections[Len(headers) + 1]

LayOut ==
    /\ pc = "layout" /\ Len(headers) < Len(sections)
    /\ is_zero_shape(This) \/ Fits(This, cursor)
    /\ IF is_zero_shape(This)
       THEN headers' = Append(headers, Header(This, 0)) /\ cursor' = cursor
       ELSE /\ headers' = Append(headers, Header(This, RawStart(This, cursor)))
            /\ cursor' = RawStart(This, cursor) + RawSize(This)
    /\ UNCHANGED <<input, pc, kcfg, slots, archiveVars, initrd, tatu, lay, dtb, bi, spec, sections, view>>

Writable == HeadersFit(sections) /\ cursor + strtab_len(sections) <= U32_MAX

WritePmi ==
    /\ pc = "layout" /\ Len(headers) = Len(sections) /\ Writable
    /\ pc' = "written"
    /\ UNCHANGED <<input, kcfg, slots, archiveVars, initrd, tatu, lay, dtb, bi, spec, peVars, view>>

RefusePe ==
    /\ pc = "layout"
    /\ IF Len(headers) < Len(sections) THEN ~is_zero_shape(This) /\ ~Fits(This, cursor) ELSE ~Writable
    /\ Fail

----------------------------------------------------------------------------
\* arma cmdline, on the detached base DTB.
write_bootargs ==
    /\ pc = "written" /\ input.dtb_mode = "Detached" /\ ~dtb.edited
    /\ \E new \in NewCmdlines :
         dtb' = [dtb EXCEPT !.bootargs = new, !.size = DtbSize(new), !.edited = TRUE]
    /\ UNCHANGED <<input, pc, kcfg, slots, archiveVars, initrd, tatu, lay, bi, spec, peVars, view>>

\* A launch: the base DTB is put in .tatu.dtb, and tatu parses base_dtb_bytes().
Launch ==
    /\ pc = "written" /\ dtb.size <= section(tatu, ".tatu.dtb").virtual_size
    /\ view' = IF dtb.size < bi.sizes.base_dtb_size THEN dtb.size ELSE bi.sizes.base_dtb_size
    /\ pc' = "launched"
    /\ UNCHANGED <<input, kcfg, slots, archiveVars, initrd, tatu, lay, dtb, bi, spec, peVars>>

LaunchFails == pc = "written" /\ dtb.size > section(tatu, ".tatu.dtb").virtual_size /\ Fail

Next ==
    \/ CheckArgs \/ RefuseArgs \/ load_kernel_config \/ RefuseConfig \/ ChooseBoard \/ RefuseBoard
    \/ NoInitrd \/ OpenArchive \/ WrapInit \/ RefuseInitrd
    \/ WriteEntry \/ EntryTooLarge \/ Wrapped \/ ReadRecord \/ RefuseArchive
    \/ ParseTatu \/ RefuseTatu \/ PlaceKernel \/ PlaceInitrd \/ PlaceRelocs \/ PlanFails
    \/ BuildDtb \/ RefuseDtb \/ BuildManifest \/ RefuseManifest
    \/ LayOut \/ WritePmi \/ RefusePe \/ write_bootargs \/ Launch \/ LaunchFails

Finished == pc \in {"failed", "launched"} /\ UNCHANGED vars

Spec == Init /\ [][Next \/ Finished]_vars

----------------------------------------------------------------------------
(* Properties.                                                             *)

Written == pc \in {"written", "launched"}

Loaded == {k \in DOMAIN headers : ~headers[k].non_loaded}
ActionsOn(name) == {j \in DOMAIN spec.actions : spec.actions[j].section = name}
Named(name) == {k \in DOMAIN headers : headers[k].name = name}
GuestRange(k) == headers[k].virtual_address..(headers[k].virtual_address + headers[k].virtual_size - 1)

\* What the three readers of a written image are told agrees with the file and
\* with each other.  The VMM: every section of guest memory has one action, at
\* the section's own address, and only what has no bytes in the file is
\* filled.  tatu: the boot information points at the kernel, its entry, the
\* whole relocation table and the base DTB.  Linux: the initrd range is the
\* .initrd section, with the .bconf reservation at its end if there is one.
ImageMatchesManifest ==
    Written =>
      /\ \A k \in Loaded :
           \E j \in DOMAIN spec.actions :
             /\ ActionsOn(headers[k].name) = {j}
             /\ spec.actions[j].gpa = headers[k].virtual_address
             /\ spec.actions[j].op = "fill" => headers[k].raw_size = 0
             /\ headers[k].name \in {".bconf", ".tatu.dtbo"} => spec.actions[j].op = "fill"
      /\ \A j \in DOMAIN spec.actions : Named(spec.actions[j].section) \intersect Loaded # {}
      /\ \A n \in spec.dt_dtb : \E k \in Named(n) : headers[k].what = "dtb" /\ headers[k].data = bi.sizes.base_dtb_size
      /\ \A k \in DOMAIN headers : headers[k].what = "dtb" => headers[k].name \in spec.dt_dtb
      /\ \A k \in Loaded : headers[k].what = "kernel" =>
           headers[k].virtual_address = bi.kernel_gpa /\ bi.kernel_entry_gpa \in GuestRange(k)
      /\ \A k \in Loaded : headers[k].what = "relocs" =>
           /\ headers[k].virtual_address = bi.relocs_gpa
           /\ headers[k].data = 4 * (bi.sizes.relocs64_count + bi.sizes.relocs32neg_count + bi.sizes.relocs32_count)
      /\ UNION {r.start..(r.end - 1) : r \in dtb.initrd}
           = UNION {GuestRange(k) : k \in Named(".initrd") \union Named(".bconf")}
      /\ Named(".bconf") # {} => bootconfig_requested(input.cmdline) /\ Named(".initrd") # {}

\* The boot information cuts seven sizes to u32.  In an image that is written
\* none of them lost anything: build_pe has refused every larger one.
NothingIsTruncated ==
    Written => bi.sizes = Sizes(input.kernel, DtbSize(cmdline), section(tatu, ".tatu.dtbo").virtual_size)

RawRange(k) == headers[k].pointer..(headers[k].pointer + headers[k].raw_size - 1)

\* The bytes of the sections lie apart in the file, between the headers and the
\* string table: what the second pass of build_pe writes is where the first one
\* put it, whatever the large sections' alignment skips.
FileRegionsAreApart ==
    Written =>
      /\ \A k, m \in DOMAIN headers : k # m => RawRange(k) \intersect RawRange(m) = {}
      /\ \A k \in DOMAIN headers :
           headers[k].raw_size > 0 =>
             /\ headers[k].pointer >= size_of_headers(Len(headers))
             /\ headers[k].pointer + headers[k].raw_size <= cursor

\* pe.rs, LARGE_THRESHOLD: "sections whose memory extent is >= 2 MiB must start
\* at 2 MiB boundaries in guest memory and in the file".
LargeSectionsAreAligned ==
    Written =>
      \A k \in DOMAIN headers :
        ~headers[k].non_loaded /\ headers[k].raw_size > 0 /\ headers[k].virtual_size >= LARGE =>
          headers[k].pointer % LARGE = 0 /\ headers[k].virtual_address % LARGE = 0

\* Linux (external): the arguments end at COMMAND_LINE_SIZE, and a word called
\* bootconfig before a lone -- turns the bootconfig on.
SeesBootconfig(args) ==
    is_builtin(kcfg, "BOOT_CONFIG_FORCE") \/ bootconfig_requested(Truncated(args))

\* An image promises only what its kernel can use: slots of a transport it can
\* drive (built in, when arma chose them), a CPU profile no lower than the
\* kernel's, and, if it reserves a bootconfig, a kernel that will look for one
\* with the command line it ends up with.
BoardIsDrivable ==
    Written =>
      /\ slots[1] > 0 => supports_virtio_mmio(kcfg)
      /\ slots[2] > 0 => supports_pci(kcfg, input.arch)
      /\ input.mmio_slots = {} /\ input.pci_slots = {} =>
           /\ slots[1] > 0 => builtin_virtio_mmio(kcfg)
           /\ slots[2] > 0 => builtin_pci(kcfg, input.arch)
           /\ slots[1] + slots[2] = DefaultSlots
      /\ Rank(spec.cpu_profile, input.arch) # 0 => Rank(spec.cpu_profile, input.arch) >= Rank(isa_floor(kcfg, input.arch), input.arch)
      /\ Named(".bconf") # {} /\ ~dtb.edited => SeesBootconfig(Combined(kcfg, input.arch, Truncated(dtb.bootargs)))

\* cpio_entry() aligns from the start of the archive and validate_cpio() from
\* the record it reads: on what arma writes they agree, so that a reader that
\* starts at 0 finds each record whole, in order, up to the trailer at the end.
OwnArchiveReads ==
    pc = "wrap" /\ archive.len > 0 =>
      /\ 0 \in DOMAIN archive.records
      /\ \A o \in DOMAIN archive.records :
           /\ RecordIsWhole(archive, o)
           /\ AfterRecord(archive, o) = Min({p \in DOMAIN archive.records : p > o} \union {archive.len})
      /\ todo = <<>> => \E o \in DOMAIN archive.records : Complete(archive, o, AfterRecord(archive, o))

\* docs/device-model.md: arma cmdline "retunes a **detached** base DTB [...]
\* without rebuilding the PMI", so tatu parses all of the tree it is given.
EditedTreeIsParsedWhole == pc = "launched" => view = dtb.size
=============================================================================
