---------------------------- MODULE KernelImage ----------------------------
(***************************************************************************)
(* A kernel from the file the user names to the memory it runs in: arma    *)
(* unwraps, lowers and takes the relocations and the release (build.rs     *)
(* steps 1-3), the VMM loads the section, tatu moves the kernel.           *)
(*                                                                         *)
(* A file is what its first bytes say, with its parts:                     *)
(*   len                     its bytes                                     *)
(*   mz, zimg, arm, elf, hdrs   the magics it has                          *)
(*   pe       parses, sections: name, vsize, raw, inFile, payload          *)
(*   zboot    inFile, comp, out                                            *)
(*   hits     the places with the magic of a compressor: magic, out        *)
(*   body     goblin's view of an ELF, or the words of an arm64 Image      *)
(* out is Broken where the decompressor fails.                             *)
(*                                                                         *)
(* input.kernel is what the linker was given: see Linked.                  *)
(***************************************************************************)
EXTENDS KernelRelease, Kaslr

CONSTANTS
    Input,                      \* file, kernel, modules: --module is given, whole
    MinKernel,                  \* bytes that parse() needs
    ZBOOT_HEADER_MIN

VARIABLES
    input,
    pc,                         \* the next step; "kernel" and "refused" are final
    file,                       \* kernel_bytes
    image,                      \* kernel_image
    todo,                       \* segments, entries or table words not read yet
    lists,                      \* the lists of the table, the last one being read
    relocs, release,
    mem,                        \* the memory of the kernel, by image offset
    at,                         \* the table entry to apply
    delta

vars == <<input, pc, file, image, todo, lists, relocs, release, mem, at, delta>>

Empty == [o \in {} |-> 0]

Init ==
    /\ input \in Input
    /\ pc = "uki" /\ file = input.file /\ image = Empty /\ todo = <<>> /\ lists = <<>>
    /\ relocs = NoRelocs /\ release = Missing /\ mem = Empty /\ at = 1 /\ delta = 0

Refuse ==
    /\ pc' = "refused"
    /\ UNCHANGED <<input, file, image, todo, lists, relocs, release, mem, at, delta>>

\* The kernel bytes are replaced by what was inside.
Unwrap(to, inner) ==
    /\ pc' = to /\ file' = inner
    /\ UNCHANGED <<input, image, todo, lists, relocs, release, mem, at, delta>>

----------------------------------------------------------------------------
\* unwrap_uki()
NotUki == ~file.mz \/ file.zimg \/ file.arm
LinuxSections == SelectSeq(file.pe.sections, LAMBDA s : s.name = ".linux")
Uki == ~NotUki /\ file.pe.parses /\ LinuxSections # <<>>
WholeUki ==
    Len(LinuxSections) = 1 /\ LET s == LinuxSections[1] IN s.vsize \in 1..s.raw /\ s.inFile

\* The VirtualSize bytes of the section.
UkiPayload(s) == s.payload

PassUki == pc = "uki" /\ (NotUki \/ (file.pe.parses /\ LinuxSections = <<>>)) /\ Unwrap("zboot", file)

UnwrapUki == pc = "uki" /\ Uki /\ WholeUki /\ Unwrap("zboot", UkiPayload(LinuxSections[1]))

RefuseUki == pc = "uki" /\ ~NotUki /\ (~file.pe.parses \/ (Uki /\ ~WholeUki)) /\ Refuse

\* unwrap_zboot()
Zboot == file.len >= ZBOOT_HEADER_MIN /\ file.mz /\ file.zimg
WholeZboot == file.zboot.inFile /\ file.zboot.comp \in {"gzip", "zstd"} /\ file.zboot.out # Broken

PassZboot == pc = "zboot" /\ ~Zboot /\ Unwrap("bzImage", file)

UnwrapZboot == pc = "zboot" /\ Zboot /\ WholeZboot /\ Unwrap("bzImage", file.zboot.out)

RefuseZboot == pc = "zboot" /\ Zboot /\ ~WholeZboot /\ Refuse

\* scan_decompress(): the first hit whose output is taken.
Scan_Any(magic) == SelectSeq(file.hits, LAMBDA h : h.magic = magic /\ h.out # Broken)

\* The hits of a compressor whose output is an ELF.
Scan(magic) == SelectSeq(file.hits, LAMBDA h : h.magic = magic /\ h.out # Broken /\ h.out.elf)

\* extract_vmlinux(): gzip before zstd.
PassBzImage == pc = "bzImage" /\ ~file.hdrs /\ Unwrap("parse", file)

ExtractVmlinux ==
    /\ pc = "bzImage" /\ file.hdrs /\ Scan("gzip") \o Scan("zstd") # <<>>
    /\ Unwrap("parse", (Scan("gzip") \o Scan("zstd"))[1].out)

RefuseBzImage == pc = "bzImage" /\ file.hdrs /\ Scan("gzip") \o Scan("zstd") = <<>> /\ Refuse

----------------------------------------------------------------------------
Elf == file.body

\* The words of an arm64 Image as a function of their offsets.
FromZero(words) == [o \in 0..(Len(words) - 1) |-> words[o + 1]]

\* parse()
Parses == file.len >= MinKernel /\ IF file.elf THEN ParsesElf(Elf) ELSE file.arm

ParseElf ==
    /\ pc = "parse" /\ file.elf /\ Parses
    /\ image' = ZeroImage(Elf) /\ todo' = Elf.segs
    /\ pc' = "lower"
    /\ UNCHANGED <<input, file, lists, relocs, release, mem, at, delta>>

TakeArm64 ==
    /\ pc = "parse" /\ ~file.elf /\ Parses
    /\ image' = FromZero(file.body.words)
    /\ pc' = "release"
    /\ UNCHANGED <<input, file, todo, lists, relocs, release, mem, at, delta>>

RefuseKernel == pc = "parse" /\ ~Parses /\ Refuse

\* elf_load_image()
LowerSegment ==
    /\ pc = "lower" /\ todo # <<>> /\ (Copied(Head(todo)) => InFile(Elf, Head(todo)))
    /\ image' = IF Copied(Head(todo)) THEN CopySegment(Elf, image, Spot(Elf, Head(todo)), Head(todo)) ELSE image
    /\ todo' = Tail(todo)
    /\ UNCHANGED <<input, pc, file, lists, relocs, release, mem, at, delta>>

RefuseSegment == pc = "lower" /\ todo # <<>> /\ Copied(Head(todo)) /\ ~InFile(Elf, Head(todo)) /\ Refuse

TruncateImage ==
    /\ pc = "lower" /\ todo = <<>>
    /\ image' = Truncate(image, Kept(image))
    /\ pc' = "relocs"
    /\ UNCHANGED <<input, file, todo, lists, relocs, release, mem, at, delta>>

----------------------------------------------------------------------------
\* extract_relocs()
WalkSections ==
    /\ pc = "relocs" /\ Elf.relas # <<>> /\ Walkable(Elf)
    /\ todo' = Entries(Elf)
    /\ pc' = "walk"
    /\ UNCHANGED <<input, file, image, lists, relocs, release, mem, at, delta>>

WalkEntry ==
    /\ pc = "walk" /\ todo # <<>>
    /\ relocs' = Pushed(Elf, relocs, Head(todo)) /\ relocs' # Broken
    /\ todo' = Tail(todo)
    /\ UNCHANGED <<input, pc, file, image, lists, release, mem, at, delta>>

\* extract_appended_relocs()
FindTable ==
    /\ pc = "relocs" /\ Elf.relas = <<>>
    /\ todo' = Table(Elf) /\ todo' # <<>>
    /\ lists' = << <<>> >>
    /\ pc' = "table"
    /\ UNCHANGED <<input, file, image, relocs, release, mem, at, delta>>

ReadTableWord ==
    /\ pc = "table" /\ todo # <<>>
    /\ lists' = Split(Elf, lists, Head(todo)) /\ lists' # Broken
    /\ todo' = Tail(todo)
    /\ UNCHANGED <<input, pc, file, image, relocs, release, mem, at, delta>>

TableRead ==
    /\ pc = "table" /\ todo = <<>> /\ Named(lists) # Broken
    /\ relocs' = Named(lists)
    /\ pc' = "walk"
    /\ UNCHANGED <<input, file, image, todo, lists, release, mem, at, delta>>

\* A kernel whose relocations cannot be read, or that has none, is refused.
RefuseRelocs ==
    /\ \/ pc = "relocs" /\ IF Elf.relas = <<>> THEN Table(Elf) = <<>> ELSE ~Walkable(Elf)
       \/ pc = "walk" /\ todo # <<>> /\ Pushed(Elf, relocs, Head(todo)) = Broken
       \/ pc = "walk" /\ todo = <<>> /\ relocs = NoRelocs
       \/ pc = "table" /\ IF todo = <<>> THEN Named(lists) = Broken ELSE Split(Elf, lists, Head(todo)) = Broken
    /\ Refuse

TakeRelocs ==
    /\ pc = "walk" /\ todo = <<>> /\ relocs # NoRelocs
    /\ pc' = "release"
    /\ UNCHANGED <<input, file, image, todo, lists, relocs, release, mem, at, delta>>

\* detect(), with --module only.
Detected ==
    IF file.elf THEN detect_elf(Elf) ELSE detect_image(file.body.words)

DetectRelease ==
    /\ pc = "release" /\ (input.modules => Detected \notin {Broken, Missing})
    /\ release' = IF input.modules THEN Detected ELSE release
    /\ pc' = "load"
    /\ UNCHANGED <<input, file, image, todo, lists, relocs, mem, at, delta>>

RefuseRelease == pc = "release" /\ input.modules /\ Detected \in {Broken, Missing} /\ Refuse

\* The VMM: the section, and zeros up to its VirtualSize.
LoadSections ==
    /\ pc = "load"
    /\ mem' = IF ~file.elf THEN image
              ELSE [o \in 0..(alloc_size(Elf) - 1) |-> IF o \in DOMAIN image THEN image[o] ELSE 0]
    /\ pc' = IF file.elf THEN "kaslr" ELSE "kernel"
    /\ UNCHANGED <<input, file, image, todo, lists, relocs, release, at, delta>>

----------------------------------------------------------------------------
\* apply_kaslr(): relocs_words() is the section, the counts tell the lists apart.
relocs_words == to_section_bytes(relocs)

ChooseDelta ==
    /\ pc = "kaslr"
    /\ \E n \in 0..(KaslrSlots(alloc_size(Elf)) - 1) : delta' = n * KASLR_ALIGN
    /\ pc' = IF delta' = 0 THEN "kernel" ELSE "patch"
    /\ UNCHANGED <<input, file, image, todo, lists, relocs, release, mem, at>>

Pair(m, o) == m[o] + W * m[o + 1]

\* Words from offset o on become those of v.
Put64(m, o, v) == [m EXCEPT ![o] = v % W, ![o + 1] = (v \div W) % W]

\* Only the kernel_size words of the file are patched; other sites are skipped.
Patched(o) ==
    LET size == Cardinality(DOMAIN image)
        c64 == Len(relocs.relocs64)
        c32n == Len(relocs.relocs32neg)
    IN  CASE at <= c64 /\ o + 2 <= size -> Put64(mem, o, Pair(mem, o) + delta)
          [] at \in (c64 + 1)..(c64 + c32n) /\ o + 1 <= size -> [mem EXCEPT ![o] = (@ + W - delta) % W]
          [] at > c64 + c32n /\ o + 1 <= size -> [mem EXCEPT ![o] = (@ + delta) % W]
          [] OTHER -> mem

ApplyReloc ==
    /\ pc = "patch" /\ at <= Len(relocs_words)
    /\ mem' = Patched(relocs_words[at])
    /\ at' = at + 1
    /\ UNCHANGED <<input, pc, file, image, todo, lists, relocs, release, delta>>

Enter ==
    /\ pc = "patch" /\ at > Len(relocs_words)
    /\ pc' = "kernel"
    /\ UNCHANGED <<input, file, image, todo, lists, relocs, release, mem, at, delta>>

Next ==
    \/ PassUki \/ UnwrapUki \/ RefuseUki
    \/ PassZboot \/ UnwrapZboot \/ RefuseZboot
    \/ PassBzImage \/ ExtractVmlinux \/ RefuseBzImage
    \/ ParseElf \/ TakeArm64 \/ RefuseKernel \/ LowerSegment \/ RefuseSegment \/ TruncateImage
    \/ WalkSections \/ WalkEntry \/ FindTable \/ ReadTableWord \/ TableRead \/ RefuseRelocs \/ TakeRelocs
    \/ DetectRelease \/ RefuseRelease
    \/ LoadSections \/ ChooseDelta \/ ApplyReloc \/ Enter

Done == pc \in {"kernel", "refused"} /\ UNCHANGED vars

Spec == Init /\ [][Next \/ Done]_vars /\ WF_vars(Next)

----------------------------------------------------------------------------
\* The linker (external).  A kernel is its plain words and its references: the
\* place (an image offset), the type, the symbol's address, whether the symbol
\* and the place move when the kernel is linked delta further, and whether the
\* field is in a note, which loaders read before.
FieldAt(ref, d) ==
    LET s == ref.value + (IF ref.moves THEN d ELSE 0)
        p == ref.place + (IF ref.placeMoves THEN d ELSE 0)
    IN  IF ref.type \in Absolute THEN s ELSE (s + Wide - p) % Wide

FieldWords(ref) == IF ref.type \in {"64", "PC64"} THEN {0, 1} ELSE {0}

Linked(kernel, d) ==
    [o \in DOMAIN kernel.plain |->
       LET here == {r \in kernel.refs : o - r.at \in FieldWords(r)}
           r == CHOOSE r \in here : TRUE
           v == FieldAt(r, IF r.note THEN 0 ELSE d)
       IN  IF here = {} THEN kernel.plain[o] ELSE IF o = r.at THEN v % W ELSE v \div W]

\* The kernel that runs is, word for word, the one the linker would have made
\* for the base it runs at: whatever it was wrapped in, whichever of the two
\* encodings its relocations had, with the end of the image cut off and put back.
RunningKernelIsRelinked == pc = "kernel" => mem = Linked(input.kernel, delta)

\* Module files are chosen for the kernel that is loaded: each linux_banner of
\* the image in memory, by its symbol or by its text, names the release detected.
ReleaseIsTheLoadedOne ==
    pc \in {"kaslr", "patch", "kernel"} /\ release # Missing =>
      /\ \A o \in DOMAIN mem : mem[o] = PREFIX /\ (o > 0 => mem[o - 1] = 0) => mem[o + 1] = release
      /\ file.elf =>
           \A i \in BannerSymbols(Elf.syms) : \E j \in Load(Elf) :
             LET o == Elf.syms[i].value + Spot(Elf, Elf.segs[j]) - Elf.segs[j].vaddr
             IN  o \in DOMAIN mem /\ mem[o] = PREFIX /\ mem[o + 1] = release

\* A kernel that was built and packed as arma supports it is booted.
SupportedKernelBoots == input.whole ~> pc = "kernel"
============================================================================
