-------------------------- MODULE BuildImageProofs --------------------------
(***************************************************************************)
(* Every image that arma build writes, from any input: its archive can be  *)
(* read back, its file is laid out without overlap, its boot information   *)
(* lost nothing to u32, its kernel can drive its board, and its headers,   *)
(* manifest, boot information and base DTB agree.                          *)
(*                                                                         *)
(* IInv holds what each step of the build has settled by the time it is    *)
(* done; the properties follow from it in the states of a written image.   *)
(***************************************************************************)
EXTENDS BuildImage, FiniteSetTheorems, NaturalsInduction, TLAPS

-----------------------------------------------------------------------------
(* Numbers and sequences.                                                  *)

\* The value of an option that has one.
LEMMA OnlyOne == ASSUME NEW x PROVE Only({x}) = x
  BY Zenon DEF Only

\* A set of numbers that has a member has a least one.
LEMMA LeastExists ==
  ASSUME NEW S, S \subseteq Nat, S # {}
  PROVE  Min(S) \in S /\ \A y \in S : Min(S) <= y
<1> DEFINE R == {ss \in Nat \X Nat : ss[1] < ss[2]}
<1>1. IsWellFoundedOn(R, Nat)
  BY NatLessThanWellFounded DEF OpToRel
<1>2. \A x, y \in Nat : <<y, x>> \in R <=> y < x
  OBVIOUS
<1> HIDE DEF R
<1>3. PICK x \in S : \A y \in S : ~(<<y, x>> \in R)
  BY <1>1, WFMin
<1>4. ASSUME NEW y \in S PROVE x <= y
  <2>1. x \in Nat /\ y \in Nat
    OBVIOUS
  <2>2. ~(<<y, x>> \in R)
    BY <1>3
  <2>3. ~(y < x)
    BY <1>2, <2>1, <2>2
  <2> QED
    BY <2>1, <2>3
<1> QED
  BY <1>4, Zenon DEF Min

\* The member of a set of numbers that is at most every other is its minimum.
LEMMA LeastIs ==
  ASSUME NEW S, S \subseteq Nat, NEW m \in S, \A y \in S : m <= y
  PROVE  Min(S) = m
<1>1. Min(S) \in S /\ \A y \in S : Min(S) <= y
  BY LeastExists
<1>2. Min(S) \in Nat /\ m \in Nat
  BY <1>1
<1>3. Min(S) <= m /\ m <= Min(S)
  BY <1>1
<1> QED
  BY <1>2, <1>3

\* AlignUp is the least multiple of a from n up.
LEMMA AlignUpFacts ==
  ASSUME NEW n \in Nat, NEW a \in Nat \ {0}
  PROVE  /\ AlignUp(n, a) \in Nat /\ n <= AlignUp(n, a) /\ AlignUp(n, a) < n + a
         /\ AlignUp(n, a) % a = 0
         /\ n = 0 => AlignUp(n, a) = 0
<1> DEFINE x == n + a - 1
           k == x \div a
<1>1. x \in Nat /\ x = a * k + (x % a) /\ k \in Nat /\ x % a \in 0..(a - 1)
  OBVIOUS
<1>2. n = 0 => k = 0
  OBVIOUS
<1>3. AlignUp(n, a) = k * a
  BY DEF AlignUp
<1>4. x = n + a - 1
  OBVIOUS
<1> HIDE DEF x, k
<1>5. k * a = a * k /\ a * k \in Nat /\ (a * k) % a = 0
  BY <1>1
<1>6. (n = 0) => k * a = 0
  BY <1>2
<1> QED
  BY <1>1, <1>3, <1>4, <1>5, <1>6

\* From a place that is a multiple of four, aligning the offset or the place is
\* the same.
LEMMA Align4Shift ==
  ASSUME NEW p \in Nat, NEW n \in Nat, p % 4 = 0
  PROVE  /\ Align4(p + n) = p + Align4(n)
         /\ Align4(n) \in Nat /\ Align4(n) >= n /\ Align4(n) % 4 = 0
         /\ Align4(p + n) % 4 = 0
<1> DEFINE q == p \div 4
           k == (n + 3) \div 4
           j == (p + n + 3) \div 4
<1>1. p = 4 * q /\ q \in Nat
  OBVIOUS
<1>2. n + 3 = 4 * k + ((n + 3) % 4) /\ k \in Nat /\ (n + 3) % 4 \in 0..3
  OBVIOUS
<1>3. p + n + 3 = 4 * j + ((p + n + 3) % 4) /\ j \in Nat /\ (p + n + 3) % 4 \in 0..3
  OBVIOUS
<1>4. Align4(n) = k * 4 /\ Align4(p + n) = j * 4
  BY DEF Align4
<1> HIDE DEF q, k, j
<1>5. j = q + k
  BY <1>1, <1>2, <1>3
<1>6. (4 * k) % 4 = 0 /\ (4 * j) % 4 = 0
  BY <1>2, <1>3
<1> QED
  BY <1>1, <1>2, <1>3, <1>4, <1>5, <1>6

\* section() is one of the image's sections, with the name asked for.
LEMMA SectionIsThere ==
  ASSUME NEW t, NEW name, DOMAIN t = 1..Len(t), Len(t) \in Nat, HasSection(t, name)
  PROVE  \E k \in DOMAIN t : section(t, name) = t[k] /\ t[k].name = name
<1> DEFINE I == {i \in 1..Len(t) : t[i].name = name}
<1>1. I # {}
  BY DEF HasSection
<1>2. SelectInSeq(t, LAMBDA s : s.name = name) = Min(I)
  BY <1>1 DEF SelectInSeq
<1>3. section(t, name) = t[Min(I)]
  BY <1>2 DEF section
<1>4. I \subseteq Nat /\ \A i \in I : i \in DOMAIN t /\ t[i].name = name
  OBVIOUS
<1> HIDE DEF I
<1>5. Min(I) \in I
  BY <1>1, <1>4, LeastExists
<1> QED
  BY <1>3, <1>4, <1>5

\* What is in a concatenation.
LEMMA ToSetConcat ==
  ASSUME NEW T, NEW s \in Seq(T), NEW t \in Seq(T)
  PROVE  ToSet(s \o t) = ToSet(s) \union ToSet(t)
<1>1. Len(s) \in Nat /\ Len(t) \in Nat /\ DOMAIN s = 1..Len(s) /\ DOMAIN t = 1..Len(t)
  OBVIOUS
<1>2. /\ DOMAIN (s \o t) = 1..(Len(s) + Len(t))
      /\ \A k \in 1..Len(s) : (s \o t)[k] = s[k]
      /\ \A k \in 1..Len(t) : (s \o t)[Len(s) + k] = t[k]
  BY <1>1
<1>3. ASSUME NEW x \in ToSet(s \o t) PROVE x \in ToSet(s) \union ToSet(t)
  <2>1. PICK k \in 1..(Len(s) + Len(t)) : x = (s \o t)[k]
    BY <1>2, <1>3 DEF ToSet
  <2>2. CASE k <= Len(s)
    BY <1>1, <1>2, <2>1, <2>2 DEF ToSet
  <2>3. CASE k > Len(s)
    <3>1. k - Len(s) \in 1..Len(t) /\ k = Len(s) + (k - Len(s))
      BY <1>1, <2>1, <2>3
    <3>2. x = t[k - Len(s)]
      BY <1>2, <2>1, <3>1
    <3> QED
      BY <1>1, <3>1, <3>2 DEF ToSet
  <2> QED
    BY <1>1, <2>1, <2>2, <2>3
<1>4. ASSUME NEW x \in ToSet(s) PROVE x \in ToSet(s \o t)
  <2>1. PICK k \in 1..Len(s) : x = s[k]
    BY <1>1, <1>4 DEF ToSet
  <2>2. k \in 1..(Len(s) + Len(t)) /\ x = (s \o t)[k]
    BY <1>1, <1>2, <2>1
  <2> QED
    BY <1>2, <2>2 DEF ToSet
<1>5. ASSUME NEW x \in ToSet(t) PROVE x \in ToSet(s \o t)
  <2>1. PICK k \in 1..Len(t) : x = t[k]
    BY <1>1, <1>5 DEF ToSet
  <2>2. Len(s) + k \in 1..(Len(s) + Len(t)) /\ x = (s \o t)[Len(s) + k]
    BY <1>1, <1>2, <2>1
  <2> QED
    BY <1>2, <2>2 DEF ToSet
<1> QED
  BY <1>3, <1>4, <1>5

\* A sequence of whatever it holds.
IsSeq(s) == s \in Seq(ToSet(s))

\* A sequence over a set is a sequence.
LEMMA IsSeqOf == ASSUME NEW T, NEW s \in Seq(T) PROVE IsSeq(s)
<1>1. Len(s) \in Nat /\ DOMAIN s = 1..Len(s) /\ s = [i \in 1..Len(s) |-> s[i]]
  OBVIOUS
<1>2. \A i \in 1..Len(s) : s[i] \in ToSet(s)
  BY <1>1 DEF ToSet
<1> QED
  BY <1>1, <1>2 DEF IsSeq

\* A sequence is one over every set that has its elements.
LEMMA IsSeqWithin == ASSUME NEW s, IsSeq(s), NEW T, ToSet(s) \subseteq T PROVE s \in Seq(T)
  BY DEF IsSeq

\* The empty sequence, sequences of one member and concatenations.
LEMMA SmallSeqs ==
  ASSUME NEW x
  PROVE  IsSeq(<<>>) /\ ToSet(<<>>) = {} /\ IsSeq(<<x>>) /\ ToSet(<<x>>) = {x}
<1>1. <<>> \in Seq({x}) /\ <<x>> \in Seq({x})
  OBVIOUS
<1>2. ToSet(<<>>) = {} /\ ToSet(<<x>>) = {x}
  BY DEF ToSet
<1> QED
  BY <1>1, <1>2, IsSeqOf

\* Two sequences, one after the other, have the elements of both.
LEMMA Concatenated ==
  ASSUME NEW s, NEW t, IsSeq(s), IsSeq(t)
  PROVE  IsSeq(s \o t) /\ ToSet(s \o t) = ToSet(s) \union ToSet(t)
<1>1. PICK T : T = ToSet(s) \union ToSet(t)
  OBVIOUS
<1>2. s \in Seq(T) /\ t \in Seq(T)
  BY <1>1, IsSeqWithin
<1>3. s \o t \in Seq(T)
  BY <1>2
<1> QED
  BY <1>2, <1>3, ToSetConcat, IsSeqOf

-----------------------------------------------------------------------------
(* The run of a build: which step leads where, and what each has settled.  *)

WithSections == {"layout", "written", "launched"}
WithDtb == {"manifest"} \union WithSections
WithLayout == {"dtb"} \union WithDtb
WithTatu == {"plan", "place_initrd", "relocs"} \union WithLayout
WithInitrd == {"tatu"} \union WithTatu
WithBoard == {"initrd", "read", "wrap"} \union WithInitrd
BeforeInitrd == {"args", "config", "board", "initrd", "read", "wrap"}

\* A multiple of 2 MiB, and the range of a size that starts there.
Boundary == {g \in Nat : g % LARGE = 0}
Span(g, size) == [start |-> g, end |-> g + size]

\* The board is one the kernel can drive.
BoardInv ==
  /\ input \in Inputs
  /\ pc \in WithBoard =>
       /\ BoardIsGood
       /\ slots = infer_slots(kcfg, input.arch, input.mmio_slots, input.pci_slots)

\* An archive that is read was opened; there is an initramfs if there is a
\* bootconfig.
InitrdInv ==
  /\ pc \in BeforeInitrd => initrd = {}
  /\ pc = "read" => input.initrd # {} /\ Opens(File)
  /\ pc \in WithInitrd => (initrd = {} /\ ~bootconfig) \/ \E n \in Nat : initrd = {n}

TatuInv == pc \in WithTatu => tatu = tatu_parse(input.tatu)

\* The layout has what has been placed, each at a boundary.
KernelPlaced == \E g \in Boundary : lay.linux = Span(g, KernelSize)

InitrdPlaced ==
  \/ initrd = {} /\ lay.initrd = {} /\ lay.bootconfig = {}
  \/ \E n \in Nat, g \in Boundary :
       /\ initrd = {n} /\ lay.initrd = {Span(g, AlignUp(n, LARGE))}
       /\ lay.bootconfig = IF bootconfig THEN {Span(g + AlignUp(n, LARGE), LARGE)} ELSE {}

RelocsPlaced ==
  \/ TableSize = 0 /\ lay.relocs = {}
  \/ TableSize > 0 /\ \E g \in Boundary : lay.relocs = {Span(g, TableSize)}

LayInv ==
  /\ pc = "place_initrd" => initrd # {}
  /\ pc \in {"place_initrd", "relocs"} \union WithLayout =>
       /\ lay = [linux |-> lay.linux, initrd |-> lay.initrd, bootconfig |-> lay.bootconfig, relocs |-> lay.relocs]
       /\ KernelPlaced
  /\ pc \in {"relocs"} \union WithLayout => InitrdPlaced
  /\ pc \in WithLayout => RelocsPlaced

\* The base DTB fits its section; only arma cmdline changes it.
DtbInv ==
  pc \in WithDtb =>
    /\ DtbFits
    /\ dtb = [size |-> dtb.size, bootargs |-> dtb.bootargs, initrd |-> InitrdExtent, edited |-> dtb.edited]
    /\ ~dtb.edited => dtb.size = DtbSize(cmdline) /\ dtb.bootargs = cmdline
    /\ pc \in {"manifest", "layout"} => ~dtb.edited
    /\ bi = TatuBootInfo(tatu, input.kernel, lay, DtbSize(cmdline))

SpecInv ==
  pc \in WithSections =>
    /\ spec = build_pmi_vm(input.arch, tatu, input.tatu.entry, lay,
                           cpu_profile(kcfg, input.arch, input.profile), input.dtb_mode)
    /\ sections = assemble_sections(tatu, input.kernel, initrd, DtbSize(cmdline), lay, CBOR_SIZE, input.dtb_mode)

\* The sections laid out so far, one after the other.
HeaderOf(k) ==
  /\ headers[k] = Header(sections[k], headers[k].pointer)
  /\ is_zero_shape(sections[k]) => headers[k].pointer = 0
  /\ ~is_zero_shape(sections[k]) =>
       /\ headers[k].pointer \in Nat /\ headers[k].pointer % alignment_for(sections[k]) = 0
       /\ headers[k].pointer >= size_of_headers(Len(sections))
       /\ headers[k].pointer + headers[k].raw_size <= cursor
       /\ \A m \in 1..(k - 1) :
            ~is_zero_shape(sections[m]) => headers[m].pointer + headers[m].raw_size <= headers[k].pointer

HeaderInv ==
  /\ pc \in WithSections =>
       /\ IsSeq(headers) /\ Len(headers) <= Len(sections)
       /\ cursor \in Nat /\ cursor >= size_of_headers(Len(sections))
       /\ \A k \in DOMAIN headers : HeaderOf(k)
  /\ pc \in {"written", "launched"} => Len(headers) = Len(sections) /\ Writable

\* The archive being written: records one after the other, each as its own
\* reader would find it, and the trailer last.
Payload == [name : DOMAIN NameLen \ {Trailer}, size : Nat]

EntriesInv ==
  /\ todo \in Seq(Payload \union {Entry(Trailer, 0)})
  /\ todo # <<>> => todo[Len(todo)] = Entry(Trailer, 0)
  /\ \A i \in 1..(Len(todo) - 1) : todo[i] \in Payload

RecordAt(o) ==
  /\ o \in Nat /\ o % 4 = 0 /\ o < archive.len
  /\ Record(archive, o).good
  /\ RecordEnd(archive, o) \in DOMAIN archive.records \union {archive.len}
  /\ RecordEnd(archive, o) > o
  /\ \A p \in DOMAIN archive.records : p > o => p >= RecordEnd(archive, o)
  /\ Record(archive, o).name = Trailer =>
       todo = <<>> /\ Record(archive, o).size = 0 /\ RecordEnd(archive, o) = archive.len

ArchiveInv ==
  pc = "wrap" =>
    /\ EntriesInv
    /\ archive.len \in Nat /\ archive.len % 4 = 0 /\ archive.stray = {}
    /\ archive.len > 0 => 0 \in DOMAIN archive.records
    /\ \A o \in DOMAIN archive.records : RecordAt(o)
    /\ todo = <<>> => \E o \in DOMAIN archive.records : Record(archive, o).name = Trailer

IInv == ArchiveInv /\ BoardInv /\ InitrdInv /\ TatuInv /\ LayInv /\ DtbInv /\ SpecInv /\ HeaderInv

\* A step that stops the build leaves everything else; the others lead on.
LEMMA Steps ==
  ASSUME [Next \/ Finished]_vars
  PROVE  \/ Fail \/ UNCHANGED vars
         \/ CheckArgs \/ load_kernel_config \/ ChooseBoard
         \/ NoInitrd \/ OpenArchive \/ WrapInit \/ WriteEntry \/ Wrapped \/ ReadRecord
         \/ ParseTatu \/ PlaceKernel \/ PlaceInitrd \/ PlaceRelocs
         \/ BuildDtb \/ BuildManifest \/ LayOut \/ WritePmi \/ write_bootargs \/ Launch
  BY DEF Next, Finished, RefuseArgs, RefuseConfig, RefuseBoard, RefuseInitrd, EntryTooLarge,
         RefuseArchive, RefuseTatu, PlanFails, RefuseDtb, RefuseManifest, RefusePe, LaunchFails

\* Steps other than the writer's leave its archive alone.
LEMMA ArchiveQuiet ==
  ASSUME ArchiveInv, [Next \/ Finished]_vars, ~WrapInit, ~WriteEntry
  PROVE  ArchiveInv'
<1>1. pc' # "wrap" \/ (pc = "wrap" /\ archive' = archive /\ todo' = todo)
  BY Steps DEF Fail, vars, archiveVars, CheckArgs, load_kernel_config, ChooseBoard,
       NoInitrd, OpenArchive, Wrapped, ReadRecord, ParseTatu, PlaceKernel, PlaceInitrd,
       PlaceRelocs, BuildDtb, BuildManifest, LayOut, WritePmi, write_bootargs, Launch
<1>2. CASE pc' # "wrap"
  BY <1>2 DEF ArchiveInv
<1>3. CASE pc = "wrap" /\ archive' = archive /\ todo' = todo
  BY <1>3 DEF ArchiveInv, EntriesInv, RecordAt, Record, RecordEnd
<1> QED
  BY <1>1, <1>2, <1>3

\* A list of payloads with the trailer behind it is a list the writer can take.
LEMMA TrailerLast ==
  ASSUME NEW s \in Seq(Payload), NEW t, t = s \o <<Entry(Trailer, 0)>>
  PROVE  /\ t \in Seq(Payload \union {Entry(Trailer, 0)}) /\ t # <<>>
         /\ t[Len(t)] = Entry(Trailer, 0)
         /\ \A i \in 1..(Len(t) - 1) : t[i] \in Payload
<1> DEFINE e == Entry(Trailer, 0)
<1> HIDE DEF e
<1>1. Len(s) \in Nat /\ DOMAIN s = 1..Len(s) /\ t = s \o <<e>> /\ \A i \in 1..Len(s) : s[i] \in Payload
  BY DEF e
<1>2. <<e>> \in Seq({e}) /\ Len(<<e>>) = 1
  OBVIOUS
<1>3. t \in Seq(Payload \union {e})
  BY <1>1, <1>2
<1>4. Len(t) = Len(s) + 1 /\ t[Len(s) + 1] = e /\ \A i \in 1..Len(s) : t[i] = s[i]
  BY <1>1, <1>2
<1> QED
  BY <1>1, <1>3, <1>4 DEF e

\* The entries of a wrapped init.
LEMMA EntriesAreGood ==
  ASSUME NEW size \in Nat, input \in Inputs
  PROVE  \E s \in Seq(Payload) : Entries(Directories, size, input.modules) = s \o <<Entry(Trailer, 0)>>
<1>1. {".", "dev", "dev/console", "init", "usr"} \subseteq DOMAIN NameLen \ {Trailer}
  BY CpioAssumption DEF Trailer
<1>2. /\ Entry(".", 0) \in Payload /\ Entry("dev", 0) \in Payload /\ Entry("usr", 0) \in Payload
      /\ Entry("dev/console", 0) \in Payload /\ Entry("init", size) \in Payload
  BY <1>1 DEF Entry, Payload
<1>3. input.modules \in Seq(Payload)
  BY BuildAssumption DEF Payload
<1> DEFINE a == <<Entry(".", 0), Entry("dev", 0)>>
           b == IF input.modules = <<>> THEN <<>> ELSE <<Entry("usr", 0)>>
           c == <<Entry("dev/console", 0), Entry("init", size)>>
           d == input.modules
<1>4. a \in Seq(Payload) /\ b \in Seq(Payload) /\ c \in Seq(Payload) /\ d \in Seq(Payload)
  BY <1>2, <1>3
<1>5. Entries(Directories, size, input.modules) = (((a \o b) \o c) \o d) \o <<Entry(Trailer, 0)>>
  BY DEF Entries, Directories
<1> HIDE DEF a, b, c, d
<1>6. ((a \o b) \o c) \o d \in Seq(Payload)
  BY <1>4
<1> QED
  BY <1>5, <1>6

\* The writer starts with nothing written.
LEMMA WrapInitStep ==
  ASSUME input \in Inputs, WrapInit
  PROVE  ArchiveInv'
<1>1. input.initrd # {} /\ Wraps(File) /\ File \in input.initrd
  <2>1. input.initrd # {} /\ Wraps(File)
    BY DEF WrapInit
  <2> QED
    BY <2>1, Zenon DEF File, Only
<1>2. File.size \in Nat
  BY <1>1, BuildAssumption
<1>3. archive' = EmptyArchive /\ todo' = Entries(Directories, File.size, input.modules)
  BY DEF WrapInit
<1>4. PICK s \in Seq(Payload) : todo' = s \o <<Entry(Trailer, 0)>>
  BY <1>2, <1>3, EntriesAreGood
<1>5. EntriesInv' /\ todo' # <<>>
  <2>1. PICK t : t = s \o <<Entry(Trailer, 0)>>
    OBVIOUS
  <2>2. todo' = t
    BY <1>4, <2>1
  <2> QED
    BY <2>1, <2>2, TrailerLast DEF EntriesInv
<1>6. archive'.len = 0 /\ archive'.stray = {} /\ DOMAIN archive'.records = {}
  BY <1>3 DEF EmptyArchive
<1> QED
  BY <1>5, <1>6 DEF ArchiveInv

\* What is left of the list is a list the writer can take; the trailer is taken
\* last.
LEMMA EntriesStep ==
  ASSUME EntriesInv, todo # <<>>, todo' = Tail(todo)
  PROVE  /\ EntriesInv'
         /\ Head(todo) \in Payload \/ (Head(todo) = Entry(Trailer, 0) /\ todo' = <<>>)
         /\ todo' = <<>> => Head(todo) = Entry(Trailer, 0)
<1> DEFINE T == Payload \union {Entry(Trailer, 0)}
<1>1. todo \in Seq(T) /\ Len(todo) \in Nat /\ Len(todo) # 0 /\ DOMAIN todo = 1..Len(todo)
  BY DEF EntriesInv
<1>2. todo' \in Seq(T) /\ Len(todo') = Len(todo) - 1 /\ \A i \in 1..(Len(todo) - 1) : todo'[i] = todo[i + 1]
  BY <1>1
<1>3. Head(todo) = todo[1] /\ (todo' = <<>> <=> Len(todo) = 1)
  BY <1>1, <1>2
<1>4. todo[Len(todo)] = Entry(Trailer, 0) /\ \A i \in 1..(Len(todo) - 1) : todo[i] \in Payload
  BY DEF EntriesInv
<1>5. EntriesInv'
  <2>1. ASSUME NEW i \in 1..(Len(todo') - 1) PROVE todo'[i] \in Payload
    BY <1>1, <1>2, <1>4
  <2>2. todo' # <<>> => todo'[Len(todo')] = Entry(Trailer, 0)
    BY <1>1, <1>2, <1>3, <1>4
  <2> QED
    BY <1>2, <2>1, <2>2 DEF EntriesInv
<1>6. Len(todo) = 1 => Head(todo) = Entry(Trailer, 0)
  BY <1>3, <1>4
<1>7. Len(todo) # 1 => Head(todo) \in Payload
  BY <1>1, <1>3, <1>4
<1> QED
  BY <1>3, <1>5, <1>6, <1>7

\* cpio_entry() and the reader agree on where a record ends that starts at a
\* multiple of four.
LEMMA WriterMatchesReader ==
  ASSUME NEW out, out.len \in Nat, out.len % 4 = 0,
         NEW e \in Payload \union {Entry(Trailer, 0)}
  PROVE  /\ EntryEnd(out, e) \in Nat /\ EntryEnd(out, e) > out.len /\ EntryEnd(out, e) % 4 = 0
         /\ EntryEnd(out, e) = out.len + Align4(Align4(NEWC_HEADER + (NameLen[e.name] + 1)) + e.size)
<1>1. e.name \in DOMAIN NameLen /\ e.size \in Nat
  BY CpioAssumption DEF Payload, Entry
<1>2. NameLen[e.name] \in Nat /\ NEWC_HEADER \in Nat
  BY <1>1, CpioAssumption
<1> DEFINE h == NEWC_HEADER + (NameLen[e.name] + 1)
           m == Align4(h) + e.size
<1>3. h \in Nat /\ h > 0 /\ out.len + NEWC_HEADER + NameLen[e.name] + 1 = out.len + h
  BY <1>2
<1>4. NameEnd(out, e.name) = Align4(out.len + h)
  BY <1>3 DEF NameEnd
<1>5. EntryEnd(out, e) = Align4(NameEnd(out, e.name) + e.size)
  BY DEF EntryEnd
<1>6. m = Align4(h) + e.size
  OBVIOUS
<1>8. SUFFICES /\ EntryEnd(out, e) \in Nat /\ EntryEnd(out, e) > out.len /\ EntryEnd(out, e) % 4 = 0
               /\ EntryEnd(out, e) = out.len + Align4(m)
  OBVIOUS
<1> HIDE DEF h, m
<1>9. Align4(out.len + h) = out.len + Align4(h) /\ Align4(h) \in Nat /\ Align4(h) >= h
  BY <1>3, Align4Shift
<1>10. m \in Nat /\ m > 0 /\ NameEnd(out, e.name) + e.size = out.len + m
  BY <1>1, <1>3, <1>4, <1>6, <1>9
<1>11. Align4(out.len + m) = out.len + Align4(m) /\ Align4(m) \in Nat /\ Align4(m) >= m /\ Align4(out.len + m) % 4 = 0
  BY <1>10, Align4Shift
<1> QED
  BY <1>5, <1>10, <1>11

\* One more record keeps the archive readable.
LEMMA WriteEntryStep ==
  ASSUME ArchiveInv, WriteEntry
  PROVE  ArchiveInv'
<1>0. PICK e, n, d : e = Head(todo) /\ n = archive.len /\ d = DOMAIN archive.records
  OBVIOUS
<1>1. /\ pc = "wrap" /\ todo # <<>> /\ archive' = cpio_entry(archive, e) /\ todo' = Tail(todo)
      /\ EntriesInv /\ n \in Nat /\ n % 4 = 0 /\ archive.stray = {}
      /\ n > 0 => 0 \in d
      /\ \A o \in d : RecordAt(o)
  BY <1>0 DEF WriteEntry, ArchiveInv
<1>2. /\ EntriesInv'
      /\ e \in Payload \/ (e = Entry(Trailer, 0) /\ todo' = <<>>)
      /\ todo' = <<>> => e = Entry(Trailer, 0)
  BY <1>0, <1>1, EntriesStep
<1>e. PICK end : end = EntryEnd(archive, e)
  OBVIOUS
<1>3. /\ end \in Nat /\ end > n /\ end % 4 = 0
      /\ end = n + Align4(Align4(NEWC_HEADER + (NameLen[e.name] + 1)) + e.size)
  BY <1>0, <1>1, <1>2, <1>e, WriterMatchesReader
<1>4. /\ archive'.len = end /\ archive'.stray = {}
      /\ DOMAIN archive'.records = d \union {n}
      /\ archive'.records[n] = [name |-> e.name, namesize |-> NameLen[e.name] + 1, size |-> e.size, good |-> TRUE]
      /\ \A o \in d : o # n => archive'.records[o] = archive.records[o]
  BY <1>0, <1>1, <1>e DEF cpio_entry
<1>5. e.name = Trailer => e.size = 0 /\ todo' = <<>>
  BY <1>2 DEF Payload, Entry
<1>6. RecordEnd(archive', n) = end
  BY <1>3, <1>4 DEF RecordEnd, Record
<1>7. ASSUME NEW o \in d
      PROVE  /\ o \in Nat /\ o % 4 = 0 /\ o < n /\ archive'.records[o] = archive.records[o]
             /\ archive.records[o].good /\ archive.records[o].name # Trailer
             /\ RecordEnd(archive', o) = RecordEnd(archive, o)
             /\ RecordEnd(archive, o) \in d \union {n} /\ RecordEnd(archive, o) > o
             /\ \A p \in d : p > o => p >= RecordEnd(archive, o)
  <2>1. RecordAt(o)
    BY <1>1
  <2>2. o \in Nat /\ o < n
    BY <1>0, <2>1 DEF RecordAt
  <2>3. archive'.records[o] = archive.records[o]
    BY <1>1, <1>4, <2>2
  <2>4. RecordEnd(archive', o) = RecordEnd(archive, o)
    BY <2>3 DEF RecordEnd, Record
  <2>5. archive.records[o].name # Trailer /\ archive.records[o].good
    BY <1>1, <2>1 DEF RecordAt, Record
  <2>6. /\ RecordEnd(archive, o) \in d \union {n} /\ RecordEnd(archive, o) > o /\ o % 4 = 0
        /\ \A p \in d : p > o => p >= RecordEnd(archive, o)
    BY <1>0, <2>1 DEF RecordAt
  <2> QED
    BY <2>2, <2>3, <2>4, <2>5, <2>6
<1>w. \A p \in d : p \in Nat /\ p < n
  BY <1>7
<1>8. ASSUME NEW o \in d PROVE RecordAt(o)'
  <2>0. RecordEnd(archive, o) \in d \union {n} /\ o \in Nat /\ o < n
    BY <1>7
  <2>01. n \in Nat /\ end \in Nat /\ n < end
    BY <1>1, <1>3
  <2>02. PICK r : r = RecordEnd(archive, o)
    OBVIOUS
  <2>03. r \in Nat /\ r <= n
    <3>1. r \in d \/ r = n
      BY <2>0, <2>02
    <3>2. CASE r \in d
      <4>1. r \in Nat /\ r < n
        BY <1>w, <3>2
      <4> QED
        BY <2>01, <4>1
    <3>3. CASE r = n
      BY <2>01, <3>3
    <3> QED
      BY <3>1, <3>2, <3>3
  <2>1. o < end /\ RecordEnd(archive, o) <= n
    BY <2>0, <2>01, <2>02, <2>03
  <2>2. \A p \in d \union {n} : p > o => p >= RecordEnd(archive', o)
    BY <1>1, <1>7, <1>w, <2>1
  <2>3. RecordEnd(archive', o) \in (d \union {n}) \union {end}
    BY <1>7
  <2> QED
    BY <1>4, <1>7, <2>1, <2>2, <2>3 DEF RecordAt, Record
<1>9. RecordAt(n)'
  <2>1. \A p \in d \union {n} : ~(p > n)
    BY <1>1, <1>w
  <2>2. (Record(archive, n).name)' = e.name /\ (Record(archive, n).size)' = e.size /\ (Record(archive, n).good)'
    BY <1>4 DEF Record
  <2> QED
    BY <1>1, <1>3, <1>4, <1>5, <1>6, <2>1, <2>2 DEF RecordAt
<1>10. 0 \in d \union {n}
  BY <1>1
<1>11. todo' = <<>> => \E o \in DOMAIN archive'.records : archive'.records[o].name = Trailer
  BY <1>2, <1>4 DEF Entry
<1>12. \A o \in DOMAIN archive'.records : RecordAt(o)'
  BY <1>4, <1>8, <1>9
<1> QED
  BY <1>2, <1>3, <1>4, <1>10, <1>11, <1>12 DEF ArchiveInv, Record

\* The archive invariant makes every record whole, up to the trailer at the end.
LEMMA ArchiveReads == ArchiveInv => OwnArchiveReads
<1> SUFFICES ASSUME ArchiveInv, pc = "wrap", archive.len > 0
             PROVE  /\ 0 \in DOMAIN archive.records
                    /\ \A o \in DOMAIN archive.records :
                         /\ RecordIsWhole(archive, o)
                         /\ AfterRecord(archive, o) = Min({p \in DOMAIN archive.records : p > o} \union {archive.len})
                    /\ todo = <<>> => \E o \in DOMAIN archive.records : Complete(archive, o, AfterRecord(archive, o))
  BY DEF OwnArchiveReads
<1>1. /\ archive.len \in Nat /\ archive.stray = {} /\ 0 \in DOMAIN archive.records
      /\ \A o \in DOMAIN archive.records : RecordAt(o)
      /\ todo = <<>> => \E o \in DOMAIN archive.records : Record(archive, o).name = Trailer
  BY DEF ArchiveInv
<1>2. \A o \in DOMAIN archive.records : o \in Nat /\ o < archive.len
  BY <1>1 DEF RecordAt
<1>3. ASSUME NEW o \in DOMAIN archive.records
      PROVE  /\ RecordIsWhole(archive, o)
             /\ AfterRecord(archive, o) = Min({p \in DOMAIN archive.records : p > o} \union {archive.len})
             /\ Record(archive, o).name = Trailer => AfterRecord(archive, o) = archive.len
  <2>1. PICK S : S = {p \in DOMAIN archive.records : p > o} \union {archive.len}
    OBVIOUS
  <2>2. PICK r : r = RecordEnd(archive, o)
    OBVIOUS
  <2>3. /\ o \in Nat /\ r \in DOMAIN archive.records \union {archive.len} /\ r > o
        /\ \A p \in DOMAIN archive.records : p > o => p >= r
        /\ Record(archive, o).good
        /\ Record(archive, o).name = Trailer => Record(archive, o).size = 0 /\ r = archive.len
    BY <1>1, <2>2 DEF RecordAt
  <2>4. r \in Nat /\ r <= archive.len
    <3>1. CASE r = archive.len
      BY <1>1, <3>1
    <3>2. CASE r \in DOMAIN archive.records
      <4>1. r \in Nat /\ r < archive.len
        BY <1>2, <3>2
      <4> QED
        BY <1>1, <4>1
    <3> QED
      BY <2>3, <3>1, <3>2
  <2>5. S \subseteq Nat /\ r \in S /\ \A y \in S : r <= y
    <3>1. S \subseteq Nat /\ r \in S
      BY <1>1, <1>2, <2>1, <2>3
    <3>2. ASSUME NEW y \in S PROVE r <= y
      <4>1. CASE y = archive.len
        BY <2>4, <4>1
      <4>2. CASE y \in DOMAIN archive.records /\ y > o
        <5>1. y >= r /\ y \in Nat
          BY <1>2, <2>3, <4>2
        <5> QED
          BY <2>4, <5>1
      <4> QED
        BY <2>1, <4>1, <4>2
    <3> QED
      BY <3>1, <3>2
  <2>6. Min(S) = r
    BY <2>5, LeastIs
  <2>7. CASE Record(archive, o).name = Trailer
    <3>1. r = archive.len
      BY <2>3, <2>7
    <3>2. PICK Z : Z = {p \in DOMAIN archive.records \union archive.stray : p >= archive.len} \union {archive.len}
      OBVIOUS
    <3>3. Z = {archive.len}
      <4>1. \A p \in DOMAIN archive.records : ~(p >= archive.len)
        BY <1>1, <1>2
      <4> QED
        BY <1>1, <3>2, <4>1
    <3>4. Min(Z) = archive.len
      <4>1. Z \subseteq Nat /\ archive.len \in Z /\ \A y \in Z : archive.len <= y
        BY <1>1, <3>3
      <4> QED
        BY <4>1, LeastIs
    <3>5. AfterRecord(archive, o) = archive.len
      BY <2>2, <2>7, <3>1, <3>2, <3>4 DEF AfterRecord, skip_padding
    <3> QED
      BY <2>1, <2>2, <2>3, <2>4, <2>6, <2>7, <3>1, <3>5 DEF RecordIsWhole
  <2>8. CASE Record(archive, o).name # Trailer
    BY <2>1, <2>2, <2>3, <2>4, <2>6, <2>8 DEF RecordIsWhole, AfterRecord
  <2> QED
    BY <2>7, <2>8
<1> QED
  BY <1>1, <1>3 DEF Complete

\* Every archive that wrap_as_cpio() and materialize_modules() write is one that
\* validate_cpio() reads to its end, for every list of modules, every length of
\* their names and every size of their contents.
THEOREM OwnArchiveIsReadable == Spec => []OwnArchiveReads
<1> DEFINE J == input \in Inputs /\ ArchiveInv
<1>1. Init => J
  BY DEF Init, ArchiveInv
<1>2. J /\ [Next \/ Finished]_vars => J'
  <2> SUFFICES ASSUME J, [Next \/ Finished]_vars PROVE J'
    OBVIOUS
  <2>1. input' = input
    BY Steps DEF Fail, vars, CheckArgs, load_kernel_config, ChooseBoard, NoInitrd, OpenArchive,
         WrapInit, WriteEntry, Wrapped, ReadRecord, ParseTatu, PlaceKernel, PlaceInitrd, PlaceRelocs,
         BuildDtb, BuildManifest, LayOut, WritePmi, write_bootargs, Launch
  <2>2. ArchiveInv'
    BY ArchiveQuiet, WrapInitStep, WriteEntryStep
  <2> QED
    BY <2>1, <2>2
<1>3. J => OwnArchiveReads
  BY ArchiveReads
<1> QED
  BY <1>1, <1>2, <1>3, PTL DEF Spec

-----------------------------------------------------------------------------
(* What a step settled stays: the board, the initramfs, tatu, the layout,  *)
(* the base DTB and the sections.                                          *)

\* What a step settles, no later step of the build changes.
LEMMA Settled ==
  ASSUME [Next \/ Finished]_vars
  PROVE  /\ input' = input
         /\ pc' \in WithBoard => ChooseBoard \/ (pc \in WithBoard /\ kcfg' = kcfg /\ slots' = slots)
         /\ pc' \in WithInitrd => NoInitrd \/ Wrapped \/ ReadRecord \/ (pc \in WithInitrd /\ initrd' = initrd)
         /\ pc' \in WithTatu => ParseTatu \/ (pc \in WithTatu /\ tatu' = tatu)
<1> USE Steps DEF Fail, vars, archiveVars, peVars, CheckArgs, load_kernel_config, ChooseBoard, NoInitrd,
      OpenArchive, WrapInit, WriteEntry, Wrapped, ReadRecord, ParseTatu, PlaceKernel, PlaceInitrd,
      PlaceRelocs, BuildDtb, BuildManifest, LayOut, WritePmi, write_bootargs, Launch,
      WithBoard, WithInitrd, WithTatu, WithLayout, WithDtb, WithSections
<1>1. input' = input
  OBVIOUS
<1>2. pc' \in WithBoard => ChooseBoard \/ (pc \in WithBoard /\ kcfg' = kcfg /\ slots' = slots)
  OBVIOUS
<1>3. pc' \in WithInitrd => NoInitrd \/ Wrapped \/ ReadRecord \/ (pc \in WithInitrd /\ initrd' = initrd)
  OBVIOUS
<1>4. pc' \in WithTatu => ParseTatu \/ (pc \in WithTatu /\ tatu' = tatu)
  OBVIOUS
<1> QED
  BY <1>1, <1>2, <1>3, <1>4

\* The stages of the layout, the base DTB and the sections.
LEMMA SettledLater ==
  ASSUME [Next \/ Finished]_vars
  PROVE  /\ pc' = "place_initrd" => PlaceKernel \/ (pc = "place_initrd" /\ lay' = lay /\ initrd' = initrd)
         /\ pc' = "relocs" => PlaceKernel \/ PlaceInitrd \/ (pc = "relocs" /\ lay' = lay /\ initrd' = initrd)
         /\ pc' \in WithLayout => PlaceRelocs \/ (pc \in WithLayout /\ lay' = lay /\ initrd' = initrd)
         /\ pc' \in WithDtb => BuildDtb \/ write_bootargs
                                 \/ (pc \in WithDtb /\ dtb' = dtb /\ bi' = bi /\ (pc' \in {"manifest", "layout"} => pc \in {"manifest", "layout"}))
         /\ pc' \in WithSections => BuildManifest \/ (pc \in WithSections /\ spec' = spec /\ sections' = sections)
<1> USE Steps DEF Fail, vars, archiveVars, peVars, CheckArgs, load_kernel_config, ChooseBoard, NoInitrd,
      OpenArchive, WrapInit, WriteEntry, Wrapped, ReadRecord, ParseTatu, PlaceKernel, PlaceInitrd,
      PlaceRelocs, BuildDtb, BuildManifest, LayOut, WritePmi, write_bootargs, Launch,
      WithLayout, WithDtb, WithSections
<1>1. pc' = "place_initrd" => PlaceKernel \/ (pc = "place_initrd" /\ lay' = lay /\ initrd' = initrd)
  OBVIOUS
<1>2. pc' = "relocs" => PlaceKernel \/ PlaceInitrd \/ (pc = "relocs" /\ lay' = lay /\ initrd' = initrd)
  OBVIOUS
<1>3. pc' \in WithLayout => PlaceRelocs \/ (pc \in WithLayout /\ lay' = lay /\ initrd' = initrd)
  OBVIOUS
<1>4. pc' \in WithDtb => BuildDtb \/ write_bootargs
         \/ (pc \in WithDtb /\ dtb' = dtb /\ bi' = bi /\ (pc' \in {"manifest", "layout"} => pc \in {"manifest", "layout"}))
  OBVIOUS
<1>5. pc' \in WithSections => BuildManifest \/ (pc \in WithSections /\ spec' = spec /\ sections' = sections)
  OBVIOUS
<1> QED
  BY <1>1, <1>2, <1>3, <1>4, <1>5

\* The board is checked before it is chosen, and then left alone.
LEMMA BoardStep ==
  ASSUME BoardInv, [Next \/ Finished]_vars
  PROVE  BoardInv'
<1>1. input' = input /\ (pc' \in WithBoard => ChooseBoard \/ (pc \in WithBoard /\ kcfg' = kcfg /\ slots' = slots))
  BY Settled
<1>2. CASE ChooseBoard
  BY <1>1, <1>2 DEF ChooseBoard, BoardInv, BoardIsGood, bootconfig, cmdline
<1>3. CASE pc' \notin WithBoard
  BY <1>1, <1>3 DEF BoardInv
<1>4. CASE pc \in WithBoard /\ kcfg' = kcfg /\ slots' = slots
  BY <1>1, <1>4 DEF BoardInv, BoardIsGood, bootconfig, cmdline
<1> QED
  BY <1>1, <1>2, <1>3, <1>4

\* The initramfs is none, the archive that was read, or the one that was
\* written.
LEMMA InitrdStep ==
  ASSUME ArchiveInv, BoardInv, InitrdInv, [Next \/ Finished]_vars
  PROVE  InitrdInv'
<1>1. /\ input' = input /\ (bootconfig' <=> bootconfig) /\ File' = File
      /\ pc' \in WithInitrd => NoInitrd \/ Wrapped \/ ReadRecord \/ (pc \in WithInitrd /\ initrd' = initrd)
  BY Settled DEF bootconfig, File
<1>2. pc' = "read" => OpenArchive \/ pc = "read"
  BY Steps DEF Fail, vars, archiveVars, peVars, CheckArgs, load_kernel_config, ChooseBoard, NoInitrd,
      WrapInit, WriteEntry, Wrapped, ReadRecord, ParseTatu, PlaceKernel, PlaceInitrd,
      PlaceRelocs, BuildDtb, BuildManifest, LayOut, WritePmi, write_bootargs, Launch
<1>5. pc' \in BeforeInitrd => pc \in BeforeInitrd /\ initrd' = initrd
  BY Steps DEF Fail, vars, archiveVars, peVars, CheckArgs, load_kernel_config, ChooseBoard, NoInitrd, OpenArchive,
      WrapInit, WriteEntry, Wrapped, ReadRecord, ParseTatu, PlaceKernel, PlaceInitrd,
      PlaceRelocs, BuildDtb, BuildManifest, LayOut, WritePmi, write_bootargs, Launch, BeforeInitrd
<1>3. pc' = "read" => (input.initrd # {} /\ Opens(File))'
  BY <1>1, <1>2 DEF OpenArchive, InitrdInv
<1>4. ASSUME pc' \in WithInitrd
      PROVE  (initrd' = {} /\ ~bootconfig') \/ \E n \in Nat : initrd' = {n}
  <2>1. CASE NoInitrd
    BY <1>1, <2>1 DEF NoInitrd, InitrdInv, BeforeInitrd
  <2>2. CASE Wrapped
    <3>1. pc = "wrap" /\ initrd' = {archive.len}
      BY <2>2 DEF Wrapped
    <3> QED
      BY <3>1 DEF ArchiveInv
  <2>3. CASE ReadRecord
    <3>1. pc = "read" /\ input.initrd # {} /\ Opens(File)
      BY <2>3 DEF ReadRecord, InitrdInv
    <3>2. File \in input.initrd
      BY <3>1, Zenon DEF File, Only
    <3>3. File.size \in Nat
      BY <3>1, <3>2, BuildAssumption DEF BoardInv
    <3>4. initrd' = {File.size} \/ pc' = "read"
      BY <2>3, <3>1 DEF ReadRecord
    <3>5. pc' # "read"
      BY <1>4 DEF WithInitrd, WithTatu, WithLayout, WithDtb, WithSections
    <3> QED
      BY <3>3, <3>4, <3>5
  <2>4. CASE pc \in WithInitrd /\ initrd' = initrd
    BY <1>1, <2>4 DEF InitrdInv
  <2> QED
    BY <1>1, <1>4, <2>1, <2>2, <2>3, <2>4
<1> QED
  BY <1>5, <1>3, <1>4 DEF InitrdInv

\* tatu::parse() is called once.
LEMMA TatuStep ==
  ASSUME TatuInv, [Next \/ Finished]_vars
  PROVE  TatuInv'
<1>1. input' = input /\ (pc' \in WithTatu => ParseTatu \/ (pc \in WithTatu /\ tatu' = tatu))
  BY Settled
<1> QED
  BY <1>1 DEF TatuInv, ParseTatu

\* A free slot is a multiple of 2 MiB.
LEMMA FreeSlotIsBoundary ==
  ASSUME NEW low, NEW size, NEW occupied, FreeSlots(low, size, occupied) # {}
  PROVE  \E g \in Boundary : first_fit(low, size, occupied) = Span(g, size)
<1>1. PICK F : F = FreeSlots(low, size, occupied)
  OBVIOUS
<1>2. LARGE \in Nat \ {0} /\ U64_MAX \in Nat
  BY PmiAssumption, BuildAssumption
<1>3. \A g \in F : g \in Boundary
  <2> SUFFICES ASSUME NEW g \in F PROVE g \in Boundary
    OBVIOUS
  <2>1. g \in {k * LARGE : k \in 0..(U64_MAX \div LARGE)}
    BY <1>1 DEF FreeSlots
  <2>2. PICK k \in 0..(U64_MAX \div LARGE) : g = k * LARGE
    BY <2>1
  <2>3. k \in Nat
    BY <1>2
  <2>4. k * LARGE = LARGE * k /\ LARGE * k \in Nat /\ (LARGE * k) % LARGE = 0
    BY <1>2, <2>3
  <2> QED
    BY <2>2, <2>4 DEF Boundary
<1>4. Min(F) \in F
  <2>1. F \subseteq Nat /\ F # {}
    BY <1>1, <1>3 DEF Boundary
  <2> QED
    BY <2>1, LeastExists
<1> QED
  BY <1>1, <1>3, <1>4 DEF first_fit, Span

\* The kernel is placed at a boundary.
LEMMA PlaceKernelStep ==
  ASSUME InitrdInv, PlaceKernel
  PROVE  LayInv'
<1>1. /\ pc = "plan" /\ input' = input /\ initrd' = initrd /\ KernelSize' = KernelSize
      /\ FreeSlots(input.kernel.min_paddr, KernelSize, Fixed) # {}
      /\ lay' = [linux |-> first_fit(input.kernel.min_paddr, KernelSize, Fixed),
                 initrd |-> {}, bootconfig |-> {}, relocs |-> {}]
      /\ pc' = IF initrd = {} THEN "relocs" ELSE "place_initrd"
  BY DEF PlaceKernel, KernelSize
<1>2. KernelPlaced'
  <2>1. PICK g \in Boundary : first_fit(input.kernel.min_paddr, KernelSize, Fixed) = Span(g, KernelSize)
    BY <1>1, FreeSlotIsBoundary
  <2> QED
    BY <1>1, <2>1 DEF KernelPlaced
<1>3. pc' \notin WithLayout
  BY <1>1 DEF WithLayout, WithDtb, WithSections
<1>4. initrd = {} => InitrdPlaced'
  BY <1>1 DEF InitrdPlaced
<1> QED
  BY <1>1, <1>2, <1>3, <1>4 DEF LayInv

\* So is the initrd, and the bootconfig follows it.
LEMMA PlaceInitrdStep ==
  ASSUME LayInv, InitrdInv, PlaceInitrd
  PROVE  LayInv'
<1> DEFINE size == ArchiveSize + FillSize
           occupied == Fixed \union {lay.linux}
           r == first_fit(0, size, occupied)
<1>1. /\ pc = "place_initrd" /\ pc' = "relocs" /\ input' = input /\ initrd' = initrd
      /\ FreeSlots(0, size, occupied) # {}
      /\ lay' = [lay EXCEPT !.initrd = {[start |-> r.start, end |-> r.start + ArchiveSize]},
                            !.bootconfig = IF bootconfig THEN {[start |-> r.start + ArchiveSize, end |-> r.end]} ELSE {}]
  BY DEF PlaceInitrd
<1>2. KernelSize' = KernelSize /\ (bootconfig' <=> bootconfig)
  BY <1>1 DEF KernelSize, bootconfig
<1>3. /\ initrd # {} /\ KernelPlaced
      /\ lay = [linux |-> lay.linux, initrd |-> lay.initrd, bootconfig |-> lay.bootconfig, relocs |-> lay.relocs]
  BY <1>1 DEF LayInv
<1>4. PICK n \in Nat : initrd = {n}
  BY <1>1, <1>3 DEF InitrdInv, WithInitrd, WithTatu
<1>5. PICK g \in Boundary : r = Span(g, size)
  BY <1>1, FreeSlotIsBoundary
<1>6. PICK a \in Nat : a = AlignUp(n, LARGE) /\ ArchiveSize = a
  <2>1. AlignUp(n, LARGE) \in Nat
    BY PmiAssumption, AlignUpFacts
  <2>2. ArchiveSize = AlignUp(n, LARGE)
    BY <1>4, OnlyOne DEF ArchiveSize
  <2> QED
    BY <2>1, <2>2
<1>7. /\ lay'.linux = lay.linux /\ lay'.initrd = {[start |-> r.start, end |-> r.start + a]}
      /\ lay'.bootconfig = IF bootconfig THEN {[start |-> r.start + a, end |-> r.end]} ELSE {}
      /\ lay' = [linux |-> lay'.linux, initrd |-> lay'.initrd, bootconfig |-> lay'.bootconfig, relocs |-> lay'.relocs]
  <2>1. PICK x, y : /\ x = {[start |-> r.start, end |-> r.start + a]}
                    /\ y = IF bootconfig THEN {[start |-> r.start + a, end |-> r.end]} ELSE {}
    OBVIOUS
  <2>2. lay' = [lay EXCEPT !.initrd = x, !.bootconfig = y]
    BY <1>1, <1>6, <2>1
  <2>3. lay' = [linux |-> lay.linux, initrd |-> x, bootconfig |-> y, relocs |-> lay.relocs]
    BY <1>3, <2>2
  <2> QED
    BY <2>1, <2>3
<1>8. r.start = g /\ r.end = g + (a + FillSize) /\ g \in Nat
  BY <1>5, <1>6 DEF Span, Boundary
<1>9. bootconfig => r.end = (g + a) + LARGE
  <2>1. LARGE \in Nat
    BY PmiAssumption
  <2> QED
    BY <1>8, <2>1 DEF FillSize
<1> HIDE DEF r, size, occupied
<1>10. InitrdPlaced'
  <2>1. lay'.initrd = {Span(g, a)} /\ lay'.bootconfig = IF bootconfig THEN {Span(g + a, LARGE)} ELSE {}
    BY <1>7, <1>8, <1>9 DEF Span
  <2> QED
    BY <1>1, <1>2, <1>4, <1>6, <2>1 DEF InitrdPlaced
<1>11. KernelPlaced'
  BY <1>2, <1>3, <1>7 DEF KernelPlaced
<1> QED
  BY <1>1, <1>7, <1>10, <1>11 DEF LayInv, WithLayout, WithDtb, WithSections

\* So is the relocation table, if there is one.
LEMMA PlaceRelocsStep ==
  ASSUME input \in Inputs, LayInv, PlaceRelocs
  PROVE  LayInv'
<1>1. /\ pc = "relocs" /\ pc' = "dtb" /\ input' = input /\ initrd' = initrd
      /\ TableSize = 0 \/ FreeSlots(0, TableSize, BeforeRelocs) # {}
      /\ lay' = [lay EXCEPT !.relocs = IF TableSize = 0 THEN {} ELSE {first_fit(0, TableSize, BeforeRelocs)}]
  BY DEF PlaceRelocs
<1>2. KernelSize' = KernelSize /\ TableSize' = TableSize /\ (bootconfig' <=> bootconfig)
  BY <1>1 DEF KernelSize, TableSize, bootconfig
<1>3. /\ KernelPlaced /\ InitrdPlaced
      /\ lay = [linux |-> lay.linux, initrd |-> lay.initrd, bootconfig |-> lay.bootconfig, relocs |-> lay.relocs]
  BY <1>1 DEF LayInv
<1>4. TableSize \in Nat
  <2>1. input.kernel.relocs \in [1..3 -> Nat]
    BY BuildAssumption
  <2>2. input.kernel.relocs[1] \in Nat /\ input.kernel.relocs[2] \in Nat /\ input.kernel.relocs[3] \in Nat
    BY <2>1
  <2> QED
    BY <2>2 DEF TableSize, relocs_bytes
<1>5. PICK x : x = IF TableSize = 0 THEN {} ELSE {first_fit(0, TableSize, BeforeRelocs)}
  OBVIOUS
<1>6. lay' = [linux |-> lay.linux, initrd |-> lay.initrd, bootconfig |-> lay.bootconfig, relocs |-> x]
  <2>1. lay' = [lay EXCEPT !.relocs = x]
    BY <1>1, <1>5
  <2> QED
    BY <1>3, <2>1
<1>7. RelocsPlaced'
  <2>1. CASE TableSize = 0
    BY <1>2, <1>5, <1>6, <2>1 DEF RelocsPlaced
  <2>2. CASE TableSize # 0
    <3>1. PICK g \in Boundary : first_fit(0, TableSize, BeforeRelocs) = Span(g, TableSize)
      BY <1>1, <2>2, FreeSlotIsBoundary
    <3> QED
      BY <1>2, <1>4, <1>5, <1>6, <2>2, <3>1 DEF RelocsPlaced
  <2> QED
    BY <2>1, <2>2
<1>8. KernelPlaced' /\ InitrdPlaced'
  BY <1>1, <1>2, <1>3, <1>6 DEF KernelPlaced, InitrdPlaced
<1> QED
  BY <1>1, <1>6, <1>7, <1>8 DEF LayInv

\* The layout holds what the steps so far have placed.
LEMMA LayStep ==
  ASSUME BoardInv, InitrdInv, LayInv, [Next \/ Finished]_vars
  PROVE  LayInv'
<1>1. /\ input' = input
      /\ KernelSize' = KernelSize /\ TableSize' = TableSize /\ (bootconfig' <=> bootconfig)
  BY Settled DEF KernelSize, TableSize, bootconfig
<1>2. CASE PlaceKernel \/ PlaceInitrd \/ PlaceRelocs
  BY <1>2, PlaceKernelStep, PlaceInitrdStep, PlaceRelocsStep DEF BoardInv
<1>3. CASE ~(PlaceKernel \/ PlaceInitrd \/ PlaceRelocs)
  <2>1. /\ pc' = "place_initrd" => pc = "place_initrd" /\ lay' = lay /\ initrd' = initrd
        /\ pc' = "relocs" => pc = "relocs" /\ lay' = lay /\ initrd' = initrd
        /\ pc' \in WithLayout => pc \in WithLayout /\ lay' = lay /\ initrd' = initrd
    BY <1>3, SettledLater
  <2>2. lay' = lay /\ initrd' = initrd
           => (KernelPlaced' <=> KernelPlaced) /\ (InitrdPlaced' <=> InitrdPlaced) /\ (RelocsPlaced' <=> RelocsPlaced)
    BY <1>1 DEF KernelPlaced, InitrdPlaced, RelocsPlaced
  <2> QED
    BY <2>1, <2>2 DEF LayInv
<1> QED
  BY <1>2, <1>3

-----------------------------------------------------------------------------
(* Arranged puts each place of a finite set at one place of a sequence.    *)

\* Of two places, the set up to the later one is larger.
LEMMA UpToGrows ==
  ASSUME NEW K, IsFiniteSet(K), K \subseteq Nat, NEW key \in [K -> Nat], NEW i \in K, NEW j \in K,
         key[i] < key[j] \/ (key[i] = key[j] /\ i < j)
  PROVE  /\ Cardinality(UpTo(K, key, i)) \in Nat /\ Cardinality(UpTo(K, key, j)) \in Nat
         /\ Cardinality(UpTo(K, key, i)) < Cardinality(UpTo(K, key, j))
<1>1. \A k \in K : k \in Nat /\ key[k] \in Nat
  OBVIOUS
<1>2. UpTo(K, key, i) \in SUBSET UpTo(K, key, j) /\ j \in UpTo(K, key, j) /\ j \notin UpTo(K, key, i)
  <2>1. ASSUME NEW k \in UpTo(K, key, i) PROVE k \in UpTo(K, key, j)
    <3>1. k \in K /\ (key[k] < key[i] \/ (key[k] = key[i] /\ k <= i))
      BY DEF UpTo
    <3>2. k \in Nat /\ i \in Nat /\ j \in Nat /\ key[k] \in Nat /\ key[i] \in Nat /\ key[j] \in Nat
      BY <1>1, <3>1
    <3>3. key[k] < key[j] \/ (key[k] = key[j] /\ k <= j)
      BY <3>1, <3>2
    <3> QED
      BY <3>1, <3>3 DEF UpTo
  <2>2. j \in UpTo(K, key, j) /\ j \notin UpTo(K, key, i)
    <3>1. i \in Nat /\ j \in Nat /\ key[i] \in Nat /\ key[j] \in Nat
      BY <1>1
    <3>2. ~(key[j] < key[i] \/ (key[j] = key[i] /\ j <= i)) /\ key[j] = key[j] /\ j <= j
      BY <3>1
    <3> QED
      BY <3>2 DEF UpTo
  <2> QED
    BY <2>1, <2>2
<1>3. UpTo(K, key, i) \in SUBSET K /\ UpTo(K, key, j) \in SUBSET K
  BY DEF UpTo
<1>4. IsFiniteSet(UpTo(K, key, i)) /\ IsFiniteSet(UpTo(K, key, j))
  BY <1>3, FS_Subset
<1>5. Cardinality(UpTo(K, key, i)) \in Nat /\ Cardinality(UpTo(K, key, j)) \in Nat
  BY <1>4, FS_CardinalityType
<1>6. /\ Cardinality(UpTo(K, key, i)) <= Cardinality(UpTo(K, key, j))
      /\ Cardinality(UpTo(K, key, i)) # Cardinality(UpTo(K, key, j))
  BY <1>2, <1>4, FS_Subset
<1> QED
  BY <1>5, <1>6

\* A stable sort has every place once.
LEMMA ArrangedFacts ==
  ASSUME NEW K, IsFiniteSet(K), K \subseteq Nat, NEW key \in [K -> Nat]
  PROVE  /\ Arranged(K, key) \in Seq(K) /\ Cardinality(K) \in Nat
         /\ DOMAIN Arranged(K, key) = 1..Cardinality(K)
         /\ \A m, n \in 1..Cardinality(K) : Arranged(K, key)[m] = Arranged(K, key)[n] => m = n
         /\ \A k \in K : \E n \in 1..Cardinality(K) : Arranged(K, key)[n] = k
<1> DEFINE c == Cardinality(K)
           f == [k \in K |-> Cardinality(UpTo(K, key, k))]
           g(n) == CHOOSE k \in K : Cardinality(UpTo(K, key, k)) = n
<1>1. c \in Nat
  BY FS_CardinalityType
<1>2. ASSUME NEW k \in K PROVE Cardinality(UpTo(K, key, k)) \in 1..c
  <2>1. UpTo(K, key, k) \in SUBSET K /\ k \in UpTo(K, key, k)
    BY DEF UpTo
  <2>2. IsFiniteSet(UpTo(K, key, k)) /\ Cardinality(UpTo(K, key, k)) <= c
    BY <2>1, FS_Subset
  <2>3. Cardinality(UpTo(K, key, k)) \in Nat /\ Cardinality(UpTo(K, key, k)) # 0
    BY <2>1, <2>2, FS_CardinalityType, FS_EmptySet
  <2> QED
    BY <1>1, <2>2, <2>3
<1>3. ASSUME NEW i \in K, NEW j \in K, i # j
      PROVE  Cardinality(UpTo(K, key, i)) # Cardinality(UpTo(K, key, j))
  <2>1. \/ key[i] < key[j] \/ (key[i] = key[j] /\ i < j)
        \/ key[j] < key[i] \/ (key[j] = key[i] /\ j < i)
    BY <1>3
  <2>2. \/ /\ Cardinality(UpTo(K, key, i)) \in Nat /\ Cardinality(UpTo(K, key, j)) \in Nat
           /\ Cardinality(UpTo(K, key, i)) < Cardinality(UpTo(K, key, j))
        \/ /\ Cardinality(UpTo(K, key, i)) \in Nat /\ Cardinality(UpTo(K, key, j)) \in Nat
           /\ Cardinality(UpTo(K, key, j)) < Cardinality(UpTo(K, key, i))
    BY <2>1, UpToGrows
  <2> QED
    BY <2>2
<1>4. IsFiniteSet(1..c) /\ Cardinality(1..c) = c
  <2>1. 1 \in Int /\ c \in Int /\ (IF 1 > c THEN 0 ELSE c - 1 + 1) = c
    BY <1>1
  <2> QED
    BY <2>1, FS_Interval
<1>5. f \in Injection(K, 1..c)
  BY <1>2, <1>3 DEF Injection, IsInjective
<1>6. f \in Surjection(K, 1..c)
  BY <1>4, <1>5, FS_Injection
<1>7. \A n \in 1..c : \E k \in K : Cardinality(UpTo(K, key, k)) = n
  BY <1>6 DEF Surjection
<1>8. \A n \in 1..c : g(n) \in K /\ Cardinality(UpTo(K, key, g(n))) = n
  BY <1>7
<1>9. Arranged(K, key) = [n \in 1..c |-> g(n)]
  BY DEF Arranged
<1>10. \A k \in K : g(Cardinality(UpTo(K, key, k))) = k
  <2> SUFFICES ASSUME NEW k \in K PROVE g(Cardinality(UpTo(K, key, k))) = k
    OBVIOUS
  <2>1. PICK n \in 1..c : n = Cardinality(UpTo(K, key, k))
    BY <1>2
  <2>2. g(n) \in K /\ Cardinality(UpTo(K, key, g(n))) = n
    BY <1>8
  <2> HIDE DEF g
  <2>3. g(n) = k
    BY <1>3, <2>1, <2>2
  <2> QED
    BY <2>1, <2>3
<1> HIDE DEF c, f, g
<1>11. Arranged(K, key) \in Seq(K)
  BY <1>1, <1>8, <1>9
<1>12. \A m, n \in 1..c : g(m) = g(n) => m = n
  BY <1>8
<1>13. \A k \in K : \E n \in 1..c : g(n) = k
  BY <1>2, <1>10
<1> QED
  BY <1>1, <1>9, <1>11, <1>12, <1>13 DEF c

-----------------------------------------------------------------------------
(* The sections of tatu and of the image.                                  *)

\* parse() returns the kept headers, each once, with what tatu.ld says of them.
LEMMA TatuFacts ==
  ASSUME NEW x \in Inputs, NEW t, t = tatu_parse(x.tatu)
  PROVE  /\ Len(t) \in Nat /\ DOMAIN t = 1..Len(t)
         /\ \A n \in DOMAIN t :
              /\ t[n].name \notin OwnNames
              /\ t[n].vaddr \in Nat /\ t[n].virtual_size \in Nat /\ t[n].is_nobits \in BOOLEAN
              /\ t[n].data = IF t[n].is_nobits THEN 0 ELSE t[n].virtual_size
              /\ ~t[n].is_nobits \/ t[n].name \in {".tatu.dtb", ".tatu.bootinfo"} => t[n].virtual_size < LARGE
              /\ t[n].name = ".tatu.dtbo" => t[n].is_nobits = TRUE
         /\ \A m, n \in DOMAIN t : t[m].name = t[n].name => m = n
<1>1. PICK h : h = x.tatu.headers
  OBVIOUS
<1>2. /\ DOMAIN h = 1..Len(h) /\ Len(h) \in Nat
      /\ \A k \in DOMAIN h :
           /\ h[k].addr \in Nat /\ h[k].size \in Nat /\ h[k].name \notin OwnNames
           /\ h[k].type = "progbits" \/ h[k].name \in {".tatu.dtb", ".tatu.bootinfo"} => h[k].size < LARGE
           /\ h[k].name = ".tatu.dtbo" => h[k].type = "nobits"
           /\ \A j \in DOMAIN h : Kept(h[k]) /\ Kept(h[j]) /\ h[j].name = h[k].name => j = k
  BY <1>1, BuildAssumption DEF TatuIsLinked
<1>3. PICK K : K = {k \in DOMAIN h : Kept(h[k])}
  OBVIOUS
<1>4. PICK key : key = [k \in K |-> h[k].addr]
  OBVIOUS
<1>5. IsFiniteSet(K) /\ K \subseteq Nat /\ key \in [K -> Nat]
  <2>1. K \in SUBSET (1..Len(h))
    BY <1>2, <1>3
  <2>2. IsFiniteSet(1..Len(h))
    BY <1>2, FS_Interval
  <2> QED
    BY <1>2, <1>3, <1>4, <2>1, <2>2, FS_Subset
<1>6. PICK o : o = Arranged(K, key)
  OBVIOUS
<1>7. /\ o \in Seq(K) /\ Cardinality(K) \in Nat /\ DOMAIN o = 1..Cardinality(K)
      /\ \A m, n \in 1..Cardinality(K) : o[m] = o[n] => m = n
  BY <1>5, <1>6, ArrangedFacts
<1>8. t = [n \in DOMAIN o |-> TatuSection(h[o[n]])]
  BY <1>1, <1>3, <1>4, <1>6 DEF tatu_parse
<1>9. DOMAIN t = 1..Cardinality(K) /\ Len(t) = Cardinality(K)
  BY <1>7, <1>8
<1>10. \A n \in DOMAIN t : o[n] \in K /\ t[n] = TatuSection(h[o[n]])
  BY <1>7, <1>8, <1>9
<1>11. ASSUME NEW n \in DOMAIN t
       PROVE  /\ t[n].name = h[o[n]].name
              /\ t[n].name \notin OwnNames
              /\ t[n].vaddr \in Nat /\ t[n].virtual_size \in Nat /\ t[n].is_nobits \in BOOLEAN
              /\ t[n].data = IF t[n].is_nobits THEN 0 ELSE t[n].virtual_size
              /\ ~t[n].is_nobits \/ t[n].name \in {".tatu.dtb", ".tatu.bootinfo"} => t[n].virtual_size < LARGE
              /\ t[n].name = ".tatu.dtbo" => t[n].is_nobits = TRUE
  <2>1. PICK k \in K : k = o[n] /\ t[n] = TatuSection(h[k])
    BY <1>10
  <2>2. k \in DOMAIN h /\ h[k].type \in {"progbits", "nobits"}
    BY <1>3 DEF Kept
  <2>3. /\ h[k].addr \in Nat /\ h[k].size \in Nat /\ h[k].name \notin OwnNames
        /\ h[k].type = "progbits" \/ h[k].name \in {".tatu.dtb", ".tatu.bootinfo"} => h[k].size < LARGE
        /\ h[k].name = ".tatu.dtbo" => h[k].type = "nobits"
    BY <1>2, <2>2
  <2>4. t[n].name = h[k].name /\ t[n].vaddr = h[k].addr /\ t[n].virtual_size = h[k].size
    BY <2>1 DEF TatuSection
  <2>7. t[n].is_nobits = (h[k].type = "nobits")
    <3>1. PICK b : b = (h[k].type = "nobits")
      BY Zenon
    <3>2. TatuSection(h[k]) = [name |-> h[k].name, vaddr |-> h[k].addr, virtual_size |-> h[k].size,
                               is_nobits |-> b, data |-> IF h[k].type = "nobits" THEN 0 ELSE h[k].size]
      BY <3>1, Zenon DEF TatuSection
    <3>3. t[n].is_nobits = b
      BY ONLY <2>1, <3>2
    <3> QED
      BY <3>1, <3>3, Zenon
  <2>8. t[n].data = IF h[k].type = "nobits" THEN 0 ELSE h[k].size
    BY <2>1 DEF TatuSection
  <2>5. CASE h[k].type = "nobits"
    <3>1. t[n].is_nobits = TRUE /\ t[n].data = 0
      BY <2>5, <2>7, <2>8
    <3> QED
      BY <2>1, <2>3, <2>4, <3>1
  <2>6. CASE h[k].type = "progbits"
    <3>1. t[n].is_nobits = FALSE /\ t[n].data = h[k].size
      BY <2>6, <2>7, <2>8
    <3> QED
      BY <2>1, <2>3, <2>4, <2>6, <3>1
  <2> QED
    BY <2>2, <2>5, <2>6
<1>12. ASSUME NEW m \in DOMAIN t, NEW n \in DOMAIN t, t[m].name = t[n].name
       PROVE  m = n
  <2>1. o[m] \in K /\ o[n] \in K /\ h[o[m]].name = h[o[n]].name
    BY <1>10, <1>11, <1>12
  <2>2. o[m] = o[n]
    BY <1>2, <1>3, <2>1
  <2> QED
    BY <1>7, <1>9, <2>2
<1> QED
  BY <1>7, <1>9, <1>11, <1>12

\* A section as build_pe takes it: a large one is at a 2 MiB boundary.
IsPe(s) ==
  /\ s.vaddr \in Nat /\ s.virtual_size \in Nat /\ s.data \in Nat
  /\ is_large_payload(s) => s.vaddr % LARGE = 0

\* The bytes that assemble_sections() gives to a section of tatu.
LEMMA TatuPeIs ==
  ASSUME NEW s, NEW size, NEW mode
  PROVE  \E w, d, kind :
           /\ TatuPe(s, size, mode) = Section(s.name, s.vaddr, s.virtual_size, w, d, kind, FALSE)
           /\ kind \in {"uninitialized", "code", "initialized"}
           /\ s.name = ".tatu.bootinfo" => w = "bootinfo" /\ d = BOOTINFO_SIZE
           /\ s.name = ".tatu.dtb" => IF mode = "Attached" THEN w = "dtb" /\ d = size ELSE w = "zero" /\ d = 0
           /\ s.name \notin {".tatu.bootinfo", ".tatu.dtb"} =>
                IF s.is_nobits THEN w = "zero" /\ d = 0 ELSE w = "tatu" /\ d = s.data
<1>1. PICK kind : kind = tatu_section_characteristics(s)
  OBVIOUS
<1>2. kind \in {"uninitialized", "code", "initialized"}
  BY <1>1 DEF tatu_section_characteristics
<1>3. PICK what : what = IF s.name = ".tatu.bootinfo" THEN <<"bootinfo", BOOTINFO_SIZE>>
                         ELSE IF s.name = ".tatu.dtb" /\ mode = "Attached" THEN <<"dtb", size>>
                         ELSE IF s.name = ".tatu.dtb" \/ s.is_nobits THEN <<"zero", 0>>
                         ELSE <<"tatu", s.data>>
  OBVIOUS
<1>4. TatuPe(s, size, mode) = Section(s.name, s.vaddr, s.virtual_size, what[1], what[2], kind, FALSE)
  BY <1>1, <1>3 DEF TatuPe
<1>5. CASE s.name = ".tatu.bootinfo"
  <2>1. what = <<"bootinfo", BOOTINFO_SIZE>>
    BY <1>3, <1>5
  <2> QED
    BY <1>2, <1>4, <1>5, <2>1
<1>6. CASE s.name = ".tatu.dtb" /\ mode = "Attached"
  <2>1. what = <<"dtb", size>>
    BY <1>3, <1>6
  <2> QED
    BY <1>2, <1>4, <1>6, <2>1
<1>7. CASE s.name = ".tatu.dtb" /\ mode # "Attached"
  <2>1. what = <<"zero", 0>>
    BY <1>3, <1>7
  <2> QED
    BY <1>2, <1>4, <1>7, <2>1
<1>8. CASE s.name \notin {".tatu.bootinfo", ".tatu.dtb"} /\ s.is_nobits
  <2>1. what = <<"zero", 0>>
    BY <1>3, <1>8
  <2> QED
    BY <1>2, <1>4, <1>8, <2>1
<1>9. CASE s.name \notin {".tatu.bootinfo", ".tatu.dtb"} /\ ~s.is_nobits
  <2>1. what = <<"tatu", s.data>>
    BY <1>3, <1>9
  <2> QED
    BY <1>2, <1>4, <1>9, <2>1
<1> QED
  BY <1>5, <1>6, <1>7, <1>8, <1>9

\* assemble_sections() leaves a section of tatu where it is linked.
LEMMA TatuPeWhere ==
  ASSUME NEW sh, NEW size, NEW mode
  PROVE  /\ TatuPe(sh, size, mode).name = sh.name /\ TatuPe(sh, size, mode).vaddr = sh.vaddr
         /\ TatuPe(sh, size, mode).virtual_size = sh.virtual_size
  BY DEF TatuPe, Section

PeOf(s, sh, size, mode) ==
  /\ s.name = sh.name /\ s.vaddr = sh.vaddr /\ s.non_loaded = FALSE
  /\ sh.name = ".tatu.bootinfo" => s.what = "bootinfo" /\ s.data = BOOTINFO_SIZE
  /\ sh.name = ".tatu.dtb" =>
       IF mode = "Attached" THEN s.what = "dtb" /\ s.data = size ELSE s.what = "zero" /\ s.data = 0
  /\ sh.name \notin {".tatu.bootinfo", ".tatu.dtb"} =>
       IF sh.is_nobits THEN s.what = "zero" /\ s.data = 0 ELSE s.what = "tatu" /\ s.data = sh.data

\* What assemble_sections() makes of a section of tatu.
LEMMA TatuPeFields ==
  ASSUME NEW sh, NEW size, NEW mode
  PROVE  PeOf(TatuPe(sh, size, mode), sh, size, mode)
<1>0. PICK s : s = TatuPe(sh, size, mode)
  OBVIOUS
<1>1. PICK w, d, kind :
           /\ TatuPe(sh, size, mode) = Section(sh.name, sh.vaddr, sh.virtual_size, w, d, kind, FALSE)
           /\ kind \in {"uninitialized", "code", "initialized"}
           /\ sh.name = ".tatu.bootinfo" => w = "bootinfo" /\ d = BOOTINFO_SIZE
           /\ sh.name = ".tatu.dtb" => IF mode = "Attached" THEN w = "dtb" /\ d = size ELSE w = "zero" /\ d = 0
           /\ sh.name \notin {".tatu.bootinfo", ".tatu.dtb"} =>
                IF sh.is_nobits THEN w = "zero" /\ d = 0 ELSE w = "tatu" /\ d = sh.data
  BY TatuPeIs
<1>2. s = [name |-> sh.name, vaddr |-> sh.vaddr, virtual_size |-> sh.virtual_size, what |-> w, data |-> d,
           kind |-> kind, non_loaded |-> FALSE]
  BY <1>0, <1>1, Zenon DEF Section
<1>3. /\ s.name = sh.name /\ s.vaddr = sh.vaddr /\ s.virtual_size = sh.virtual_size /\ s.non_loaded = FALSE
      /\ s.what = w /\ s.data = d
  BY ONLY <1>2
<1> QED
  BY <1>0, <1>1, <1>3, Zenon DEF PeOf

\* The size of a base DTB is a number.
LEMMA SlotsAreNat ==
  ASSUME BoardInv, pc \in WithBoard
  PROVE  slots[1] \in Nat /\ slots[2] \in Nat
<1>1. /\ slots = infer_slots(kcfg, input.arch, input.mmio_slots, input.pci_slots)
      /\ input.mmio_slots \subseteq Nat /\ input.pci_slots \subseteq Nat
  BY BuildAssumption DEF BoardInv
<1>2. ASSUME NEW S, S \subseteq Nat PROVE unwrap_or(S, 0) \in Nat
  BY <1>2 DEF unwrap_or
<1>3. DefaultSlots \in Nat /\ DefaultSlots \div 2 \in Nat
  BY DEF DefaultSlots
<1>4. PICK a \in Nat, b \in Nat, d \in Nat, e \in Nat :
        /\ a = unwrap_or(input.mmio_slots, 0) /\ b = unwrap_or(input.pci_slots, 0)
        /\ d = DefaultSlots /\ e = DefaultSlots \div 2
  BY <1>1, <1>2, <1>3
<1>5. slots = <<a, b>> \/ slots = <<0, d>> \/ slots = <<d, 0>> \/ slots = <<e, e>>
  BY <1>1, <1>4 DEF infer_slots
<1> QED
  BY <1>5

\* So is the size of a base DTB with the command line of the build.
LEMMA DtbSizeIsNat ==
  ASSUME BoardInv, pc \in WithBoard
  PROVE  DtbSize(cmdline) \in Nat
<1>1. IsSeq(input.cmdline) /\ DTB_FIXED \in Nat
  BY BuildAssumption DEF BoardInv, IsSeq
<1>2. IsSeq(cmdline)
  <2>1. PICK l : l = input.cmdline
    OBVIOUS
  <2>2. IsSeq(<<"sp">>) /\ IsSeq(<<"earlycon">>) /\ IsSeq(<<>>)
    BY SmallSeqs, Zenon
  <2>3. IsSeq(l) /\ IsSeq(<<"sp">> \o l)
    BY <1>1, <2>1, <2>2, Concatenated, Zenon
  <2>4. PICK tail : tail = IF ToSet(l) \subseteq {"sp"} THEN <<>> ELSE <<"sp">> \o l
    OBVIOUS
  <2>5. IsSeq(tail)
    BY <2>2, <2>3, <2>4, Zenon
  <2>6. IsSeq(<<"earlycon">> \o tail)
    BY <2>2, <2>5, Concatenated, Zenon
  <2>7. cmdline = l \/ cmdline = <<"earlycon">> \o tail
    BY <2>1, <2>4, Zenon DEF cmdline, serial_earlycon_cmdline
  <2> QED
    BY <2>3, <2>6, <2>7, Zenon
<1>3. Len(cmdline) \in Nat
  BY <1>2 DEF IsSeq
<1>4. slots[1] \in Nat /\ slots[2] \in Nat
  BY SlotsAreNat
<1>5. PICK a \in Nat, b \in Nat : a = (IF slots[2] > 0 THEN 2 ELSE 0) /\ b = (IF initrd = {} THEN 0 ELSE 2)
  OBVIOUS
<1> QED
  BY <1>1, <1>3, <1>4, <1>5 DEF DtbSize

\* The parts that assemble_sections() puts one after the other.
TatuPart == [k \in DOMAIN tatu |-> TatuPe(tatu[k], DtbSize(cmdline), input.dtb_mode)]
DtbPart == IF input.dtb_mode = "Optional" THEN NonLoaded(".dtb", "dtb", DtbSize(cmdline)) ELSE <<>>
KernelPart == Placed(".linux", {lay.linux}, "kernel", input.kernel.file, "initialized")
InitrdPart == IF initrd = {} THEN <<>> ELSE Placed(".initrd", lay.initrd, "initrd", Only(initrd), "initialized")
BconfPart == Placed(".bconf", lay.bootconfig, "zero", 0, "uninitialized")
RelocsPart == Placed(".linux.relocs", lay.relocs, "relocs", relocs_bytes(input.kernel), "initialized")
ManifestPart == NonLoaded(".pmi.vm", "manifest", CBOR_SIZE)

Assembled == assemble_sections(tatu, input.kernel, initrd, DtbSize(cmdline), lay, CBOR_SIZE, input.dtb_mode)

\* A section that is not loaded, and one at a boundary, are fit for build_pe.
LEMMA NonLoadedFits ==
  ASSUME NEW name, NEW what, NEW size \in Nat, NEW s, s = Section(name, 0, size, what, size, "initialized", TRUE)
  PROVE  IsPe(s) /\ NonLoaded(name, what, size) = <<s>>
<1>1. s = [name |-> name, vaddr |-> 0, virtual_size |-> size, what |-> what, data |-> size,
           kind |-> "initialized", non_loaded |-> TRUE]
  BY Zenon DEF Section
<1>2. s.non_loaded = TRUE /\ s.vaddr = 0 /\ s.virtual_size = size /\ s.data = size
  BY ONLY <1>1
<1>3. ~is_large_payload(s)
  BY <1>2, Zenon DEF is_large_payload
<1>4. NonLoaded(name, what, size) = <<s>>
  BY Zenon DEF NonLoaded
<1>5. 0 \in Nat
  OBVIOUS
<1> QED
  BY <1>2, <1>3, <1>4, <1>5, Zenon DEF IsPe

\* A section that is placed at a boundary is fit.
LEMMA PlacedFits ==
  ASSUME NEW name, NEW what, NEW data \in Nat, NEW kind, NEW g \in Boundary, NEW size \in Nat
  PROVE  /\ IsPe(Section(name, g, size, what, data, kind, FALSE))
         /\ Placed(name, {Span(g, size)}, what, data, kind)
              = <<Section(name, g, size, what, data, kind, FALSE)>>
<1>0. PICK s : s = Section(name, g, size, what, data, kind, FALSE)
  OBVIOUS
<1>1. PICK o : o = {Span(g, size)}
  OBVIOUS
<1>2. o # {} /\ Only(o) = Span(g, size)
  BY <1>1, OnlyOne
<1>3. Only(o).start = g /\ Only(o).end - Only(o).start = size
  BY <1>2 DEF Span, Boundary
<1>4. Placed(name, o, what, data, kind) = <<s>>
  BY <1>2, <1>3, <1>0 DEF Placed
<1>5. s.vaddr = g /\ s.virtual_size = size /\ s.data = data
  BY <1>0 DEF Section
<1>7. IsPe(s)
  BY <1>5 DEF IsPe, Boundary
<1> QED
  BY <1>1, <1>4, <1>0, <1>7, Zenon

\* Two multiples of a add up to one.
LEMMA SumOfMultiples ==
  ASSUME NEW a \in Nat \ {0}, NEW m \in Nat, NEW n \in Nat, m % a = 0, n % a = 0
  PROVE  (m + n) % a = 0
<1>1. PICK i \in Nat : i = m \div a /\ m = a * i
  OBVIOUS
<1>2. PICK j \in Nat : j = n \div a /\ n = a * j
  OBVIOUS
<1>3. PICK k \in Nat : k = i + j /\ m + n = a * k
  BY <1>1, <1>2
<1>4. (a * k) % a = 0
  OBVIOUS
<1> QED
  BY <1>3, <1>4

\* A section that has no bytes in the file, or less than 2 MiB, is fit too.
LEMMA SmallFits ==
  ASSUME NEW s, s.vaddr \in Nat, s.virtual_size \in Nat, s.data \in Nat,
         s.data = 0 \/ (s.data < LARGE /\ s.virtual_size < LARGE)
  PROVE  IsPe(s)
<1>1. LARGE \in Nat
  BY PmiAssumption
<1>2. s.data = 0 \/ ~(Larger(s.virtual_size, s.data) >= LARGE)
  BY <1>1 DEF Larger
<1>3. ~is_large_payload(s)
  BY <1>2 DEF is_large_payload, is_zero_shape
<1> QED
  BY <1>3 DEF IsPe

\* The sections of tatu are never large.
LEMMA TatuPartFits ==
  ASSUME BoardInv, TatuInv, DtbFits, pc \in WithLayout
  PROVE  /\ IsSeq(TatuPart)
         /\ \A s \in ToSet(TatuPart) : IsPe(s)
<1>1. PICK t, size, mode : t = tatu /\ size = DtbSize(cmdline) /\ mode = input.dtb_mode
  OBVIOUS
<1>2. pc \in WithTatu /\ pc \in WithBoard
  BY DEF WithBoard, WithInitrd, WithTatu
<1>3. size \in Nat
  BY <1>1, <1>2, DtbSizeIsNat
<1>4. /\ Len(t) \in Nat /\ DOMAIN t = 1..Len(t)
      /\ \A n \in DOMAIN t :
           /\ t[n].vaddr \in Nat /\ t[n].virtual_size \in Nat
           /\ t[n].data = IF t[n].is_nobits THEN 0 ELSE t[n].virtual_size
           /\ ~t[n].is_nobits \/ t[n].name \in {".tatu.dtb", ".tatu.bootinfo"} => t[n].virtual_size < LARGE
      /\ \A m, n \in DOMAIN t : t[m].name = t[n].name => m = n
  BY <1>1, <1>2, TatuFacts DEF BoardInv, TatuInv
<1>5. \A n \in DOMAIN t : t[n].name = ".tatu.dtb" => size <= t[n].virtual_size
  <2>1. HasSection(t, ".tatu.dtb") /\ size <= section(t, ".tatu.dtb").virtual_size
    BY <1>1 DEF DtbFits
  <2>2. PICK k \in DOMAIN t : section(t, ".tatu.dtb") = t[k] /\ t[k].name = ".tatu.dtb"
    BY <1>4, <2>1, SectionIsThere
  <2> QED
    BY <1>4, <2>1, <2>2
<1>6. BOOTINFO_SIZE \in Nat /\ BOOTINFO_SIZE < LARGE /\ LARGE \in Nat
  BY PmiAssumption, BuildAssumption
<1>7. TatuPart = [n \in 1..Len(t) |-> TatuPe(t[n], size, mode)]
  BY <1>1, <1>4 DEF TatuPart
<1>8. ASSUME NEW n \in 1..Len(t) PROVE IsPe(TatuPe(t[n], size, mode))
  <2>0. PICK sh : sh = t[n]
    OBVIOUS
  <2>1. PICK w, d, kind :
           /\ TatuPe(sh, size, mode) = Section(sh.name, sh.vaddr, sh.virtual_size, w, d, kind, FALSE)
           /\ kind \in {"uninitialized", "code", "initialized"}
           /\ sh.name = ".tatu.bootinfo" => w = "bootinfo" /\ d = BOOTINFO_SIZE
           /\ sh.name = ".tatu.dtb" => IF mode = "Attached" THEN w = "dtb" /\ d = size ELSE w = "zero" /\ d = 0
           /\ sh.name \notin {".tatu.bootinfo", ".tatu.dtb"} =>
                IF sh.is_nobits THEN w = "zero" /\ d = 0 ELSE w = "tatu" /\ d = sh.data
    BY TatuPeIs
  <2>2. PICK s : s = TatuPe(t[n], size, mode)
    OBVIOUS
  <2>3. s.vaddr = t[n].vaddr /\ s.virtual_size = t[n].virtual_size /\ s.data = d
    BY <2>0, <2>1, <2>2 DEF Section
  <2>4. s.vaddr \in Nat /\ s.virtual_size \in Nat /\ d \in Nat /\ (d = 0 \/ (d < LARGE /\ s.virtual_size < LARGE))
    <3>1. /\ t[n].vaddr \in Nat /\ t[n].virtual_size \in Nat
          /\ t[n].data = IF t[n].is_nobits THEN 0 ELSE t[n].virtual_size
          /\ ~t[n].is_nobits \/ t[n].name \in {".tatu.dtb", ".tatu.bootinfo"} => t[n].virtual_size < LARGE
      BY <1>4
    <3>2. CASE t[n].name = ".tatu.bootinfo"
      BY <1>6, <2>0, <2>1, <2>3, <3>1, <3>2
    <3>3. CASE t[n].name = ".tatu.dtb"
      <4>1. size <= t[n].virtual_size /\ t[n].virtual_size < LARGE
        BY <1>4, <1>5, <3>1, <3>3
      <4>2. d = size \/ d = 0
        BY <2>0, <2>1, <3>3
      <4> QED
        BY <1>3, <1>6, <2>3, <3>1, <4>1, <4>2
    <3>4. CASE t[n].name \notin {".tatu.bootinfo", ".tatu.dtb"} /\ t[n].is_nobits
      BY <2>0, <2>1, <2>3, <3>1, <3>4
    <3>5. CASE t[n].name \notin {".tatu.bootinfo", ".tatu.dtb"} /\ ~t[n].is_nobits
      BY <2>0, <2>1, <2>3, <3>1, <3>5
    <3> QED
      BY <3>2, <3>3, <3>4, <3>5
  <2> QED
    BY <2>2, <2>3, <2>4, SmallFits
<1>9. IsSeq(TatuPart)
  <2> DEFINE f(n) == TatuPe(t[n], size, mode)
  <2>1. PICK T : T = {f(n) : n \in 1..Len(t)}
    OBVIOUS
  <2>2. \A n \in 1..Len(t) : f(n) \in T
    BY <2>1
  <2>3. TatuPart = [n \in 1..Len(t) |-> f(n)]
    BY <1>7
  <2> HIDE DEF f
  <2>4. TatuPart \in Seq(T)
    BY <1>4, <2>2, <2>3
  <2> QED
    BY <2>4, IsSeqOf
<1>10. ASSUME NEW s \in ToSet(TatuPart) PROVE IsPe(s)
  <2>1. PICK n \in 1..Len(t) : s = TatuPe(t[n], size, mode)
    BY <1>7 DEF ToSet
  <2> QED
    BY <1>8, <2>1
<1> QED
  BY <1>9, <1>10

DtbSection == Section(".dtb", 0, DtbSize(cmdline), "dtb", DtbSize(cmdline), "initialized", TRUE)
ManifestSection == Section(".pmi.vm", 0, CBOR_SIZE, "manifest", CBOR_SIZE, "initialized", TRUE)
KernelSection(g) == Section(".linux", g, KernelSize, "kernel", input.kernel.file, "initialized", FALSE)
InitrdSection(g, n) == Section(".initrd", g, AlignUp(n, LARGE), "initrd", n, "initialized", FALSE)
BconfSection(g) == Section(".bconf", g, LARGE, "zero", 0, "uninitialized", FALSE)
RelocsSection(g) == Section(".linux.relocs", g, TableSize, "relocs", TableSize, "initialized", FALSE)

\* Each part that is not tatu's is empty or one section, fit for build_pe.
LEMMA DtbPartIs ==
  ASSUME BoardInv, pc \in WithBoard
  PROVE  /\ DtbPart = IF input.dtb_mode = "Optional" THEN <<DtbSection>> ELSE <<>>
         /\ IsPe(DtbSection)
<1>1. PICK n \in Nat : n = DtbSize(cmdline)
  BY DtbSizeIsNat
<1>2. PICK s : s = Section(".dtb", 0, n, "dtb", n, "initialized", TRUE)
  OBVIOUS
<1>3. IsPe(s) /\ NonLoaded(".dtb", "dtb", n) = <<s>>
  BY <1>2, NonLoadedFits
<1> QED
  BY <1>1, <1>2, <1>3, Zenon DEF DtbPart, DtbSection

\* The section of the manifest.
LEMMA ManifestPartIs ==
  ManifestPart = <<ManifestSection>> /\ IsPe(ManifestSection)
<1>1. CBOR_SIZE \in Nat
  BY BuildAssumption
<1>2. PICK s : s = Section(".pmi.vm", 0, CBOR_SIZE, "manifest", CBOR_SIZE, "initialized", TRUE)
  OBVIOUS
<1>3. IsPe(s) /\ NonLoaded(".pmi.vm", "manifest", CBOR_SIZE) = <<s>>
  BY <1>1, <1>2, NonLoadedFits
<1> QED
  BY <1>2, <1>3, Zenon DEF ManifestPart, ManifestSection

\* The sizes of a kernel are numbers.
LEMMA KernelSizes ==
  ASSUME BoardInv
  PROVE  /\ input.kernel.file \in Nat /\ input.kernel.file > 0
         /\ KernelSize \in Nat /\ KernelSize >= input.kernel.file
         /\ \A i \in 1..3 : input.kernel.relocs[i] \in Nat /\ input.kernel.relocs[i] <= TableSize
         /\ TableSize \in Nat
<1>1. input.kernel.file \in Nat /\ input.kernel.file > 0 /\ input.kernel.alloc \in Nat
  BY BuildAssumption DEF BoardInv
<1>2. input.kernel.relocs \in [1..3 -> Nat]
  BY BuildAssumption DEF BoardInv
<1>3. input.kernel.relocs[1] \in Nat /\ input.kernel.relocs[2] \in Nat /\ input.kernel.relocs[3] \in Nat
  BY <1>2
<1>4. TableSize = 4 * (input.kernel.relocs[1] + input.kernel.relocs[2] + input.kernel.relocs[3])
  BY DEF TableSize, relocs_bytes
<1>5. \A i \in 1..3 : i = 1 \/ i = 2 \/ i = 3
  OBVIOUS
<1> QED
  BY <1>1, <1>3, <1>4, <1>5 DEF KernelSize, compute_kernel_alloc_size, Larger

\* The section of the kernel.
LEMMA KernelPartIs ==
  ASSUME BoardInv, KernelPlaced
  PROVE  \E g \in Boundary : /\ lay.linux = Span(g, KernelSize)
                             /\ KernelPart = <<KernelSection(g)>> /\ IsPe(KernelSection(g))
<1>1. PICK g \in Boundary : lay.linux = Span(g, KernelSize)
  BY DEF KernelPlaced
<1>2. PICK n \in Nat, size \in Nat : n = input.kernel.file /\ size = KernelSize
  BY KernelSizes
<1>3. PICK s : s = Section(".linux", g, size, "kernel", n, "initialized", FALSE)
  OBVIOUS
<1>4. IsPe(s) /\ Placed(".linux", {Span(g, size)}, "kernel", n, "initialized") = <<s>>
  BY <1>3, PlacedFits, Zenon
<1>5. KernelPart = <<s>> /\ KernelSection(g) = s
  BY <1>1, <1>2, <1>3, <1>4, Zenon DEF KernelPart, KernelSection
<1> QED
  BY <1>1, <1>4, <1>5

\* The section of the bootconfig is fit.
LEMMA BconfFits ==
  ASSUME NEW h \in Boundary
  PROVE  /\ IsPe(Section(".bconf", h, LARGE, "zero", 0, "uninitialized", FALSE))
         /\ Placed(".bconf", {Span(h, LARGE)}, "zero", 0, "uninitialized")
              = <<Section(".bconf", h, LARGE, "zero", 0, "uninitialized", FALSE)>>
<1>1. PICK z \in Nat : z = 0
  OBVIOUS
<1>2. PICK l \in Nat : l = LARGE
  BY PmiAssumption
<1>3. /\ IsPe(Section(".bconf", h, l, "zero", z, "uninitialized", FALSE))
      /\ Placed(".bconf", {Span(h, l)}, "zero", z, "uninitialized")
           = <<Section(".bconf", h, l, "zero", z, "uninitialized", FALSE)>>
  BY ONLY h \in Boundary, z \in Nat, l \in Nat, PlacedFits, Zenon
<1> QED
  BY <1>1, <1>2, <1>3, Zenon

\* The sections of the initrd and of the bootconfig.
LEMMA InitrdPartIs ==
  ASSUME InitrdPlaced
  PROVE  \/ /\ initrd = {} /\ lay.initrd = {} /\ lay.bootconfig = {}
            /\ InitrdPart = <<>> /\ BconfPart = <<>>
         \/ \E n \in Nat, g \in Boundary :
              /\ initrd = {n} /\ lay.initrd = {Span(g, AlignUp(n, LARGE))}
              /\ InitrdPart = <<InitrdSection(g, n)>> /\ IsPe(InitrdSection(g, n))
              /\ \/ ~bootconfig /\ lay.bootconfig = {} /\ BconfPart = <<>>
                 \/ /\ bootconfig /\ lay.bootconfig = {Span(g + AlignUp(n, LARGE), LARGE)}
                    /\ BconfPart = <<BconfSection(g + AlignUp(n, LARGE))>>
                    /\ IsPe(BconfSection(g + AlignUp(n, LARGE)))
<1>1. CASE initrd = {} /\ lay.initrd = {} /\ lay.bootconfig = {}
  BY <1>1 DEF InitrdPart, BconfPart, Placed
<1>2. ASSUME NEW n \in Nat, NEW g \in Boundary, initrd = {n}, lay.initrd = {Span(g, AlignUp(n, LARGE))},
             lay.bootconfig = IF bootconfig THEN {Span(g + AlignUp(n, LARGE), LARGE)} ELSE {}
      PROVE  /\ InitrdPart = <<InitrdSection(g, n)>> /\ IsPe(InitrdSection(g, n))
             /\ \/ ~bootconfig /\ lay.bootconfig = {} /\ BconfPart = <<>>
                \/ /\ bootconfig /\ lay.bootconfig = {Span(g + AlignUp(n, LARGE), LARGE)}
                   /\ BconfPart = <<BconfSection(g + AlignUp(n, LARGE))>>
                   /\ IsPe(BconfSection(g + AlignUp(n, LARGE)))
  <2>1. LARGE \in Nat \ {0}
    BY PmiAssumption
  <2>2. PICK a \in Nat : a = AlignUp(n, LARGE) /\ a % LARGE = 0
    BY <2>1, AlignUpFacts
  <2>3. g + a \in Boundary
    <3>1. g \in Nat /\ g % LARGE = 0
      BY DEF Boundary
    <3>2. (g + a) % LARGE = 0
      BY <2>1, <2>2, <3>1, SumOfMultiples
    <3> QED
      BY <2>2, <3>1, <3>2 DEF Boundary
  <2>4. Only(initrd) = n /\ initrd # {}
    BY <1>2, OnlyOne
  <2>5. InitrdPart = <<InitrdSection(g, n)>> /\ IsPe(InitrdSection(g, n))
    <3>1. PICK s : s = Section(".initrd", g, a, "initrd", n, "initialized", FALSE)
      OBVIOUS
    <3>2. IsPe(s) /\ Placed(".initrd", {Span(g, a)}, "initrd", n, "initialized") = <<s>>
      <4>1. /\ IsPe(Section(".initrd", g, a, "initrd", n, "initialized", FALSE))
            /\ Placed(".initrd", {Span(g, a)}, "initrd", n, "initialized")
                 = <<Section(".initrd", g, a, "initrd", n, "initialized", FALSE)>>
        BY PlacedFits
      <4> QED
        BY <3>1, <4>1, Zenon
    <3>3. InitrdPart = <<s>> /\ InitrdSection(g, n) = s
      BY <1>2, <2>2, <2>4, <3>1, <3>2, Zenon DEF InitrdPart, InitrdSection
    <3> QED
      BY <3>2, <3>3
  <2>6. CASE bootconfig
    <3>1. PICK s : s = Section(".bconf", g + a, LARGE, "zero", 0, "uninitialized", FALSE)
      OBVIOUS
    <3>2. PICK h \in Boundary : h = g + a
      BY <2>3
    <3>3. IsPe(s) /\ Placed(".bconf", {Span(h, LARGE)}, "zero", 0, "uninitialized") = <<s>>
      <4>1. /\ IsPe(Section(".bconf", h, LARGE, "zero", 0, "uninitialized", FALSE))
            /\ Placed(".bconf", {Span(h, LARGE)}, "zero", 0, "uninitialized")
                 = <<Section(".bconf", h, LARGE, "zero", 0, "uninitialized", FALSE)>>
        BY BconfFits
      <4> QED
        BY <3>1, <3>2, <4>1, Zenon
    <3>4. BconfPart = <<s>> /\ BconfSection(g + AlignUp(n, LARGE)) = s
      BY <1>2, <2>2, <2>6, <3>1, <3>2, <3>3, Zenon DEF BconfPart, BconfSection
    <3> QED
      BY <1>2, <2>5, <2>6, <3>3, <3>4
  <2>7. CASE ~bootconfig
    BY <1>2, <2>5, <2>7 DEF BconfPart, Placed
  <2> QED
    BY <2>6, <2>7
<1>3. CASE \E n \in Nat, g \in Boundary :
             /\ initrd = {n} /\ lay.initrd = {Span(g, AlignUp(n, LARGE))}
             /\ lay.bootconfig = IF bootconfig THEN {Span(g + AlignUp(n, LARGE), LARGE)} ELSE {}
  BY <1>2, <1>3, Zenon
<1> QED
  BY <1>1, <1>3, Zenon DEF InitrdPlaced

\* The section of the relocation table, if there is one.
LEMMA RelocsPartIs ==
  ASSUME BoardInv, RelocsPlaced
  PROVE  \/ TableSize = 0 /\ lay.relocs = {} /\ RelocsPart = <<>>
         \/ \E g \in Boundary :
              /\ TableSize > 0 /\ lay.relocs = {Span(g, TableSize)}
              /\ RelocsPart = <<RelocsSection(g)>> /\ IsPe(RelocsSection(g))
<1>1. CASE TableSize = 0 /\ lay.relocs = {}
  BY <1>1 DEF RelocsPart, Placed
<1>2. CASE TableSize > 0 /\ \E g \in Boundary : lay.relocs = {Span(g, TableSize)}
  <2>1. PICK g \in Boundary : lay.relocs = {Span(g, TableSize)}
    BY <1>2
  <2>2. PICK n \in Nat : n = TableSize
    BY KernelSizes
  <2>3. PICK s : s = Section(".linux.relocs", g, n, "relocs", n, "initialized", FALSE)
    OBVIOUS
  <2>4. IsPe(s) /\ Placed(".linux.relocs", {Span(g, n)}, "relocs", n, "initialized") = <<s>>
    BY <2>3, PlacedFits, Zenon
  <2>5. RelocsPart = <<s>> /\ RelocsSection(g) = s
    BY <2>1, <2>2, <2>3, <2>4, Zenon DEF RelocsPart, RelocsSection, TableSize
  <2> QED
    BY <1>2, <2>1, <2>4, <2>5
<1> QED
  BY <1>1, <1>2 DEF RelocsPlaced

\* The sections of an image: tatu's and those of the other parts.
LEMMA PartsAreSeqs ==
  ASSUME BoardInv, InitrdInv, TatuInv, LayInv, DtbFits, pc \in WithLayout
  PROVE  /\ IsSeq(TatuPart) /\ IsSeq(DtbPart) /\ IsSeq(KernelPart) /\ IsSeq(InitrdPart) /\ IsSeq(BconfPart)
         /\ IsSeq(RelocsPart) /\ IsSeq(ManifestPart)
         /\ \A s \in ToSet(TatuPart) \union ToSet(DtbPart) \union ToSet(KernelPart) \union ToSet(InitrdPart)
                       \union ToSet(BconfPart) \union ToSet(RelocsPart) \union ToSet(ManifestPart) : IsPe(s)
<1> DEFINE Fine(part) == IsSeq(part) /\ \A s \in ToSet(part) : IsPe(s)
<1>1. /\ pc \in WithBoard /\ KernelPlaced /\ InitrdPlaced /\ RelocsPlaced
  BY DEF WithBoard, WithInitrd, WithTatu, LayInv
<1>2. \A s : IsPe(s) => Fine(<<s>>)
  BY SmallSeqs, Zenon
<1>3. Fine(<<>>)
  BY SmallSeqs, Zenon
<1>4. Fine(TatuPart)
  BY TatuPartFits
<1> HIDE DEF Fine
<1>5. Fine(DtbPart)
  BY <1>1, <1>2, <1>3, DtbPartIs, Zenon
<1>6. Fine(KernelPart)
  BY <1>1, <1>2, KernelPartIs, Zenon
<1>7. Fine(InitrdPart) /\ Fine(BconfPart)
  BY <1>1, <1>2, <1>3, InitrdPartIs, Zenon
<1>8. Fine(RelocsPart)
  BY <1>1, <1>2, <1>3, RelocsPartIs, Zenon
<1>9. Fine(ManifestPart)
  BY <1>2, ManifestPartIs, Zenon
<1> QED
  BY <1>4, <1>5, <1>6, <1>7, <1>8, <1>9, Zenon DEF Fine

\* assemble_sections() puts the parts together.
LEMMA AssembledIs ==
  ASSUME BoardInv, InitrdInv, TatuInv, LayInv, DtbFits, pc \in WithLayout
  PROVE  /\ IsSeq(Assembled)
         /\ ToSet(Assembled) = ToSet(TatuPart) \union ToSet(DtbPart) \union ToSet(KernelPart) \union ToSet(InitrdPart)
                                 \union ToSet(BconfPart) \union ToSet(RelocsPart) \union ToSet(ManifestPart)
<1>1. PICK a, b, c, d, e, f, g : /\ a = TatuPart /\ b = DtbPart /\ c = KernelPart /\ d = InitrdPart /\ e = BconfPart
                                 /\ f = RelocsPart /\ g = ManifestPart
  OBVIOUS
<1>2. Assembled = a \o b \o c \o d \o e \o f \o g
  BY <1>1, Zenon DEF Assembled, assemble_sections, TatuPart, DtbPart, KernelPart, InitrdPart, BconfPart,
       RelocsPart, ManifestPart
<1>3. IsSeq(a) /\ IsSeq(b) /\ IsSeq(c) /\ IsSeq(d) /\ IsSeq(e) /\ IsSeq(f) /\ IsSeq(g)
  BY <1>1, PartsAreSeqs, Zenon
<1>4. IsSeq(a \o b) /\ ToSet(a \o b) = ToSet(a) \union ToSet(b)
  BY <1>3, Concatenated
<1>5. IsSeq(a \o b \o c) /\ ToSet(a \o b \o c) = ToSet(a \o b) \union ToSet(c)
  BY <1>3, <1>4, Concatenated
<1>6. IsSeq(a \o b \o c \o d) /\ ToSet(a \o b \o c \o d) = ToSet(a \o b \o c) \union ToSet(d)
  BY <1>3, <1>5, Concatenated
<1>7. IsSeq(a \o b \o c \o d \o e) /\ ToSet(a \o b \o c \o d \o e) = ToSet(a \o b \o c \o d) \union ToSet(e)
  BY <1>3, <1>6, Concatenated
<1>8. IsSeq(a \o b \o c \o d \o e \o f) /\ ToSet(a \o b \o c \o d \o e \o f) = ToSet(a \o b \o c \o d \o e) \union ToSet(f)
  BY <1>3, <1>7, Concatenated
<1>9. IsSeq(a \o b \o c \o d \o e \o f \o g)
      /\ ToSet(a \o b \o c \o d \o e \o f \o g) = ToSet(a \o b \o c \o d \o e \o f) \union ToSet(g)
  BY <1>3, <1>8, Concatenated
<1> QED
  BY <1>1, <1>2, <1>4, <1>5, <1>6, <1>7, <1>8, <1>9, Zenon

-----------------------------------------------------------------------------
(* The base DTB, the manifest and the file.                                *)

\* From the layout on, only the base DTB, the sections and the file change.
LEMMA SettledForGood ==
  ASSUME [Next \/ Finished]_vars, pc' \in WithDtb
  PROVE  /\ pc \in WithLayout
         /\ input' = input /\ kcfg' = kcfg /\ slots' = slots /\ initrd' = initrd /\ tatu' = tatu /\ lay' = lay
  BY Steps DEF Fail, vars, archiveVars, peVars, CheckArgs, load_kernel_config, ChooseBoard, NoInitrd,
      OpenArchive, WrapInit, WriteEntry, Wrapped, ReadRecord, ParseTatu, PlaceKernel, PlaceInitrd,
      PlaceRelocs, BuildDtb, BuildManifest, LayOut, WritePmi, write_bootargs, Launch,
      WithLayout, WithDtb, WithSections

\* The base DTB is built to fit, and only arma cmdline changes it.
LEMMA DtbStep ==
  ASSUME DtbInv, [Next \/ Finished]_vars
  PROVE  DtbInv'
<1> SUFFICES ASSUME pc' \in WithDtb
             PROVE  /\ DtbFits'
                    /\ (dtb = [size |-> dtb.size, bootargs |-> dtb.bootargs, initrd |-> InitrdExtent, edited |-> dtb.edited])'
                    /\ (~dtb.edited => dtb.size = DtbSize(cmdline) /\ dtb.bootargs = cmdline)'
                    /\ (pc \in {"manifest", "layout"} => ~dtb.edited)'
                    /\ (bi = TatuBootInfo(tatu, input.kernel, lay, DtbSize(cmdline)))'
  BY DEF DtbInv
<1>1. input' = input /\ slots' = slots /\ initrd' = initrd /\ tatu' = tatu /\ lay' = lay
  BY SettledForGood
<1>2. cmdline' = cmdline
  BY <1>1 DEF cmdline
<1>3. DtbSize(cmdline)' = DtbSize(cmdline) /\ InitrdExtent' = InitrdExtent
  BY <1>1, <1>2 DEF DtbSize, InitrdExtent
<1>4. DtbFits' <=> DtbFits
  BY <1>1, <1>3 DEF DtbFits
<1>5. PICK size, args, extent : size = DtbSize(cmdline) /\ args = cmdline /\ extent = InitrdExtent
  OBVIOUS
<1>6. CASE BuildDtb
  <2>1. /\ DtbFits /\ bi' = TatuBootInfo(tatu, input.kernel, lay, size) /\ pc' = "manifest"
        /\ dtb' = [size |-> size, bootargs |-> args, initrd |-> extent, edited |-> FALSE]
    BY <1>5, <1>6, Zenon DEF BuildDtb
  <2>2. /\ dtb'.size = size /\ dtb'.bootargs = args /\ dtb'.edited = FALSE
        /\ dtb' = [size |-> dtb'.size, bootargs |-> dtb'.bootargs, initrd |-> extent, edited |-> dtb'.edited]
    BY ONLY <2>1
  <2> QED
    BY <1>1, <1>2, <1>3, <1>4, <1>5, <2>1, <2>2, Zenon
<1>7. CASE write_bootargs
  <2>1. PICK new : dtb' = [dtb EXCEPT !.bootargs = new, !.size = DtbSize(new), !.edited = TRUE]
    BY <1>7 DEF write_bootargs
  <2>2. pc = "written" /\ pc' = "written" /\ bi' = bi
    BY <1>7 DEF write_bootargs
  <2>3. /\ DtbFits /\ bi = TatuBootInfo(tatu, input.kernel, lay, size)
        /\ dtb = [size |-> dtb.size, bootargs |-> dtb.bootargs, initrd |-> extent, edited |-> dtb.edited]
    BY <1>5, <2>2 DEF DtbInv, WithDtb, WithSections
  <2>4. PICK n : n = DtbSize(new)
    OBVIOUS
  <2>5. dtb' = [size |-> n, bootargs |-> new, initrd |-> extent, edited |-> TRUE]
    <3>1. PICK b, x, y, z : b = TRUE /\ x = dtb.size /\ y = dtb.bootargs /\ z = dtb.edited
      BY Zenon
    <3>2. dtb' = [dtb EXCEPT !.bootargs = new, !.size = n, !.edited = b]
      BY <2>1, <2>4, <3>1, Zenon
    <3>3. dtb = [size |-> x, bootargs |-> y, initrd |-> extent, edited |-> z]
      BY <2>3, <3>1, Zenon
    <3>4. dtb' = [size |-> n, bootargs |-> new, initrd |-> extent, edited |-> b]
      BY ONLY <3>2, <3>3
    <3> QED
      BY <3>1, <3>4, Zenon
  <2>6. /\ dtb'.edited = TRUE
        /\ dtb' = [size |-> dtb'.size, bootargs |-> dtb'.bootargs, initrd |-> extent, edited |-> dtb'.edited]
    BY ONLY <2>5
  <2>7. pc' \notin {"manifest", "layout"}
    BY <2>2
  <2> QED
    BY <1>1, <1>2, <1>3, <1>4, <1>5, <2>2, <2>3, <2>6, <2>7, Zenon
<1>8. CASE ~BuildDtb /\ ~write_bootargs
  <2>1. pc \in WithDtb /\ dtb' = dtb /\ bi' = bi /\ (pc' \in {"manifest", "layout"} => pc \in {"manifest", "layout"})
    BY <1>8, SettledLater
  <2>2. /\ DtbFits /\ bi = TatuBootInfo(tatu, input.kernel, lay, size)
        /\ dtb = [size |-> dtb.size, bootargs |-> dtb.bootargs, initrd |-> extent, edited |-> dtb.edited]
        /\ ~dtb.edited => dtb.size = size /\ dtb.bootargs = args
        /\ pc \in {"manifest", "layout"} => ~dtb.edited
    BY <1>5, <2>1, Zenon DEF DtbInv
  <2> QED
    BY <1>1, <1>2, <1>3, <1>4, <1>5, <2>1, <2>2, Zenon
<1> QED
  BY <1>6, <1>7, <1>8

\* The manifest and the sections come from one plan.
LEMMA SpecStep ==
  ASSUME DtbInv, SpecInv, [Next \/ Finished]_vars
  PROVE  SpecInv'
<1> SUFFICES ASSUME pc' \in WithSections
             PROVE  /\ (spec = build_pmi_vm(input.arch, tatu, input.tatu.entry, lay,
                                            cpu_profile(kcfg, input.arch, input.profile), input.dtb_mode))'
                    /\ (sections = assemble_sections(tatu, input.kernel, initrd, DtbSize(cmdline), lay, CBOR_SIZE, input.dtb_mode))'
  BY DEF SpecInv
<1>1. input' = input /\ kcfg' = kcfg /\ slots' = slots /\ initrd' = initrd /\ tatu' = tatu /\ lay' = lay
  BY SettledForGood DEF WithDtb
<1>2. DtbSize(cmdline)' = DtbSize(cmdline)
  BY <1>1 DEF DtbSize, cmdline
<1>3. CASE BuildManifest
  <2>1. pc = "manifest"
    BY <1>3 DEF BuildManifest
  <2>2. dtb.size = DtbSize(cmdline)
    BY <2>1 DEF DtbInv, WithDtb
  <2>3. /\ spec' = build_pmi_vm(input.arch, tatu, input.tatu.entry, lay,
                                cpu_profile(kcfg, input.arch, input.profile), input.dtb_mode)
        /\ sections' = assemble_sections(tatu, input.kernel, initrd, dtb.size, lay, CBOR_SIZE, input.dtb_mode)
    BY <1>3, Zenon DEF BuildManifest
  <2> QED
    BY <1>1, <1>2, <2>2, <2>3, Zenon
<1>4. CASE ~BuildManifest
  <2>1. pc \in WithSections /\ spec' = spec /\ sections' = sections
    BY <1>4, SettledLater
  <2> QED
    BY <1>1, <1>2, <2>1, Zenon DEF SpecInv
<1> QED
  BY <1>3, <1>4

\* What build_pe is given.
LEMMA SectionsFit ==
  ASSUME BoardInv, InitrdInv, TatuInv, LayInv, DtbInv, SpecInv, pc \in WithSections
  PROVE  /\ sections = Assembled /\ IsSeq(sections) /\ Len(sections) \in Nat /\ DOMAIN sections = 1..Len(sections)
         /\ \A k \in DOMAIN sections : IsPe(sections[k])
<1>1. pc \in WithLayout /\ DtbFits
  BY DEF WithLayout, WithDtb, DtbInv
<1>2. sections = Assembled
  BY DEF SpecInv, Assembled
<1>3. IsSeq(Assembled) /\ \A s \in ToSet(Assembled) : IsPe(s)
  BY <1>1, AssembledIs, PartsAreSeqs, Zenon
<1>4. Len(sections) \in Nat /\ DOMAIN sections = 1..Len(sections)
  BY <1>2, <1>3 DEF IsSeq
<1>5. \A k \in DOMAIN sections : sections[k] \in ToSet(sections)
  BY DEF ToSet
<1> QED
  BY <1>2, <1>3, <1>4, <1>5, Zenon

\* The size in the file of a section that is fit, and where it starts.
LEMMA RawFacts ==
  ASSUME NEW s, IsPe(s), NEW c \in Nat
  PROVE  /\ RawSize(s) \in Nat /\ (is_zero_shape(s) <=> RawSize(s) = 0)
         /\ alignment_for(s) \in Nat \ {0}
         /\ RawStart(s, c) \in Nat /\ RawStart(s, c) >= c /\ RawStart(s, c) % alignment_for(s) = 0
<1>1. FILE_ALIGNMENT \in Nat \ {0} /\ LARGE \in Nat \ {0} /\ s.data \in Nat
  BY PmiAssumption DEF IsPe
<1>2. PICK a \in Nat \ {0} : a = alignment_for(s)
  BY <1>1 DEF alignment_for
<1>3. /\ AlignUp(s.data, FILE_ALIGNMENT) \in Nat /\ s.data <= AlignUp(s.data, FILE_ALIGNMENT)
      /\ s.data = 0 => AlignUp(s.data, FILE_ALIGNMENT) = 0
  BY <1>1, AlignUpFacts
<1>4. AlignUp(c, a) \in Nat /\ c <= AlignUp(c, a) /\ AlignUp(c, a) % a = 0
  BY AlignUpFacts
<1>5. RawSize(s) \in Nat /\ (is_zero_shape(s) <=> RawSize(s) = 0)
  BY <1>1, <1>3 DEF RawSize, is_zero_shape
<1>6. RawStart(s, c) = AlignUp(c, a)
  BY <1>2 DEF RawStart
<1> QED
  BY <1>2, <1>4, <1>5, <1>6

\* The size of the headers is a number.
LEMMA HeadersSize ==
  ASSUME NEW n \in Nat
  PROVE  size_of_headers(n) \in Nat
<1>1. FILE_ALIGNMENT \in Nat \ {0} /\ HEADERS \in Nat /\ SECTION_HDR_SIZE \in Nat
  BY PmiAssumption
<1>2. PICK m \in Nat : m = HEADERS + n * SECTION_HDR_SIZE
  BY <1>1
<1> QED
  BY <1>1, <1>2, AlignUpFacts DEF size_of_headers

\* One section is laid out behind those before it.
LEMMA LayOutStep ==
  ASSUME HeaderInv, LayOut, IsSeq(sections), \A k \in DOMAIN sections : IsPe(sections[k])
  PROVE  HeaderInv'
<1>1. /\ pc = "layout" /\ pc' = "layout" /\ sections' = sections /\ Len(headers) < Len(sections)
      /\ IF is_zero_shape(This)
         THEN headers' = Append(headers, Header(This, 0)) /\ cursor' = cursor
         ELSE /\ headers' = Append(headers, Header(This, RawStart(This, cursor)))
              /\ cursor' = RawStart(This, cursor) + RawSize(This)
  BY DEF LayOut
<1>2. /\ IsSeq(headers) /\ Len(headers) <= Len(sections)
      /\ cursor \in Nat /\ cursor >= size_of_headers(Len(sections))
      /\ \A k \in DOMAIN headers : HeaderOf(k)
  BY <1>1 DEF HeaderInv, WithSections
<1>3. /\ Len(headers) \in Nat /\ DOMAIN headers = 1..Len(headers)
      /\ Len(sections) \in Nat /\ DOMAIN sections = 1..Len(sections)
  BY <1>2 DEF IsSeq
<1>4. PICK n \in Nat : n = Len(headers) + 1
  BY <1>3
<1>5. n \in DOMAIN sections /\ This = sections[n]
  BY <1>1, <1>3, <1>4 DEF This
<1>6. PICK s : s = sections[n] /\ IsPe(s)
  BY <1>5
<1>7. PICK c \in Nat, l \in Nat, raw \in Nat : c = cursor /\ l = size_of_headers(Len(sections)) /\ raw = RawSize(s)
  BY <1>2, <1>3, <1>6, HeadersSize, RawFacts
<1>8. PICK p \in Nat, d \in Nat :
        /\ headers' = Append(headers, Header(s, p)) /\ cursor' = d /\ d >= c
        /\ is_zero_shape(s) => p = 0
        /\ ~is_zero_shape(s) => p >= c /\ p % alignment_for(s) = 0 /\ p + raw <= d
  <2>1. CASE is_zero_shape(s)
    BY <1>1, <1>5, <1>6, <1>7, <2>1
  <2>2. CASE ~is_zero_shape(s)
    <3>1. PICK p \in Nat : p = RawStart(s, c) /\ p >= c /\ p % alignment_for(s) = 0
      BY <1>6, RawFacts
    <3>2. headers' = Append(headers, Header(s, p)) /\ cursor' = p + raw
      BY <1>1, <1>5, <1>6, <1>7, <2>2, <3>1
    <3>3. p + raw \in Nat /\ p + raw >= c
      BY <3>1
    <3> QED
      BY <2>2, <3>1, <3>2, <3>3
  <2> QED
    BY <2>1, <2>2
<1>9. PICK h : h = Header(s, p)
  OBVIOUS
<1>10. h.pointer = p /\ h.raw_size = raw
  BY <1>7, <1>9 DEF Header
<1>11. /\ IsSeq(headers') /\ Len(headers') = n /\ headers'[n] = h
       /\ \A k \in 1..(n - 1) : headers'[k] = headers[k]
  <2>1. PICK T : T = ToSet(headers) \union {h}
    OBVIOUS
  <2>2. headers \in Seq(T) /\ h \in T
    BY <1>2, <2>1, IsSeqWithin
  <2>3. headers' = Append(headers, h)
    BY <1>8, <1>9
  <2>4. headers' \in Seq(T)
    BY <2>2, <2>3
  <2>5. /\ Len(headers') = n /\ headers'[n] = h
        /\ \A k \in 1..(n - 1) : headers'[k] = headers[k]
    BY <1>3, <1>4, <2>2, <2>3
  <2> QED
    BY <2>4, <2>5, IsSeqOf
<1>12. ASSUME NEW k \in 1..(n - 1)
       PROVE  /\ HeaderOf(k)' /\ k \in DOMAIN sections
              /\ ~is_zero_shape(sections[k]) => headers[k].pointer + headers[k].raw_size <= c
  <2>1. HeaderOf(k) /\ k \in DOMAIN sections
    BY <1>1, <1>2, <1>3, <1>4
  <2>2. headers'[k] = headers[k] /\ \A m \in 1..(k - 1) : headers'[m] = headers[m]
    <3>1. \A m \in 1..(k - 1) : m \in 1..(n - 1)
      OBVIOUS
    <3> QED
      BY <1>11, <3>1
  <2>3. headers[k].raw_size \in Nat
    <3>1. headers[k] = Header(sections[k], headers[k].pointer) /\ IsPe(sections[k])
      BY <2>1 DEF HeaderOf
    <3>2. headers[k].raw_size = RawSize(sections[k])
      BY <3>1 DEF Header
    <3> QED
      BY <1>7, <3>1, <3>2, RawFacts
  <2>4. ~is_zero_shape(sections[k]) =>
          headers[k].pointer \in Nat /\ headers[k].pointer + headers[k].raw_size <= c
    BY <1>7, <2>1 DEF HeaderOf
  <2>5. ~is_zero_shape(sections[k]) => headers[k].pointer + headers[k].raw_size <= cursor'
    BY <1>8, <2>3, <2>4
  <2> QED
    BY <1>1, <2>1, <2>2, <2>4, <2>5 DEF HeaderOf
<1>13. HeaderOf(n)'
  <2>1. headers'[n] = Header(sections'[n], headers'[n].pointer)
    BY <1>1, <1>6, <1>9, <1>10, <1>11
  <2>2. is_zero_shape(s) => headers'[n].pointer = 0
    BY <1>8, <1>10, <1>11
  <2>3. ASSUME ~is_zero_shape(s)
        PROVE  /\ headers'[n].pointer \in Nat /\ headers'[n].pointer % alignment_for(s) = 0
               /\ headers'[n].pointer >= size_of_headers(Len(sections))
               /\ headers'[n].pointer + headers'[n].raw_size <= cursor'
    BY <1>2, <1>7, <1>8, <1>10, <1>11, <2>3
  <2>4. ASSUME ~is_zero_shape(s), NEW m \in 1..(n - 1), ~is_zero_shape(sections[m])
        PROVE  headers'[m].pointer + headers'[m].raw_size <= headers'[n].pointer
    <3>1. PICK e : e = headers[m].pointer + headers[m].raw_size /\ e <= c
      BY <1>12, <2>4
    <3>2. e \in Int
      <4>1. m \in DOMAIN headers /\ m \in DOMAIN sections
        BY <1>1, <1>3, <1>4
      <4>2. HeaderOf(m) /\ IsPe(sections[m])
        BY <1>2, <4>1
      <4>3. headers[m].raw_size = RawSize(sections[m]) /\ headers[m].pointer \in Nat
        BY <2>4, <4>2 DEF HeaderOf, Header
      <4>4. RawSize(sections[m]) \in Nat
        BY <1>7, <4>2, RawFacts
      <4> QED
        BY <3>1, <4>3, <4>4
    <3>3. headers'[m] = headers[m] /\ headers'[n].pointer = p /\ p >= c
      BY <1>8, <1>10, <1>11, <2>4
    <3> QED
      BY <3>1, <3>2, <3>3
  <2> QED
    BY <1>1, <1>6, <2>1, <2>2, <2>3, <2>4 DEF HeaderOf
<1>14. \A k \in DOMAIN headers' : HeaderOf(k)'
  <2>1. DOMAIN headers' = 1..n
    BY <1>11 DEF IsSeq
  <2>2. \A k \in 1..n : k \in 1..(n - 1) \/ k = n
    OBVIOUS
  <2> QED
    BY <1>12, <1>13, <2>1, <2>2, Zenon
<1>15. Len(headers') <= Len(sections') /\ cursor' \in Nat /\ cursor' >= size_of_headers(Len(sections'))
  BY <1>1, <1>2, <1>3, <1>4, <1>7, <1>8, <1>11
<1> QED
  BY <1>1, <1>11, <1>14, <1>15 DEF HeaderInv

\* What has been laid out is what HeaderInv says while nothing of it changes.
LEMMA HeaderQuiet ==
  ASSUME HeaderInv, pc \in WithSections, headers' = headers, cursor' = cursor, sections' = sections,
         pc' \in {"written", "launched"} => Len(headers) = Len(sections) /\ Writable
  PROVE  HeaderInv'
<1>1. Writable' <=> Writable
  BY DEF Writable
<1>2. \A k : HeaderOf(k)' <=> HeaderOf(k)
  BY DEF HeaderOf
<1> QED
  BY <1>1, <1>2 DEF HeaderInv

\* What has been laid out stays, and the next goes behind it.
LEMMA HeaderStep ==
  ASSUME BoardInv, InitrdInv, TatuInv, LayInv, DtbInv, SpecInv, HeaderInv, [Next \/ Finished]_vars
  PROVE  HeaderInv'
<1>1. CASE BuildManifest
  <2>1. pc' = "layout" /\ headers' = <<>> /\ cursor' = size_of_headers(Len(sections'))
    BY <1>1 DEF BuildManifest
  <2>2. Len(sections') \in Nat
    <3>1. /\ pc = "manifest"
          /\ sections' = assemble_sections(tatu, input.kernel, initrd, dtb.size, lay, CBOR_SIZE, input.dtb_mode)
      BY <1>1, Zenon DEF BuildManifest
    <3>2. pc \in WithLayout /\ DtbFits /\ dtb.size = DtbSize(cmdline)
      BY <3>1 DEF DtbInv, WithLayout, WithDtb
    <3>3. sections' = Assembled
      BY <3>1, <3>2, Zenon DEF Assembled
    <3>4. IsSeq(Assembled)
      BY <3>2, AssembledIs
    <3> QED
      BY <3>3, <3>4 DEF IsSeq
  <2>3. size_of_headers(Len(sections')) \in Nat
    BY <2>2, HeadersSize
  <2>4. IsSeq(<<>>)
    BY SmallSeqs, Zenon
  <2> QED
    BY <2>1, <2>2, <2>3, <2>4 DEF HeaderInv
<1>2. CASE LayOut
  <2>1. pc \in WithSections
    BY <1>2 DEF LayOut, WithSections
  <2> QED
    BY <1>2, <2>1, SectionsFit, LayOutStep
<1>3. CASE ~BuildManifest /\ ~LayOut /\ pc' \in WithSections
  <2>1. /\ pc \in WithSections /\ headers' = headers /\ cursor' = cursor /\ sections' = sections
        /\ pc' \in {"written", "launched"} => (WritePmi \/ pc \in {"written", "launched"})
    BY <1>3, Steps DEF Fail, vars, archiveVars, peVars, CheckArgs, load_kernel_config, ChooseBoard, NoInitrd,
      OpenArchive, WrapInit, WriteEntry, Wrapped, ReadRecord, ParseTatu, PlaceKernel, PlaceInitrd,
      PlaceRelocs, BuildDtb, WritePmi, write_bootargs, Launch, WithSections
  <2>2. pc' \in {"written", "launched"} => Len(headers) = Len(sections) /\ Writable
    BY <2>1 DEF WritePmi, HeaderInv
  <2> QED
    BY <2>1, <2>2, HeaderQuiet
<1>4. CASE pc' \notin WithSections
  BY <1>4 DEF HeaderInv, WithSections
<1> QED
  BY <1>1, <1>2, <1>3, <1>4

\* What every state of a build satisfies.
THEOREM Invariance == Spec => []IInv
<1>1. Init => IInv
  BY DEF Init, IInv, ArchiveInv, BoardInv, InitrdInv, TatuInv, LayInv, DtbInv, SpecInv, HeaderInv, WithBoard,
       WithInitrd, WithTatu, WithLayout, WithDtb, WithSections
<1>2. IInv /\ [Next \/ Finished]_vars => IInv'
  <2> SUFFICES ASSUME IInv, [Next \/ Finished]_vars PROVE IInv'
    OBVIOUS
  <2>1. ArchiveInv /\ BoardInv /\ InitrdInv /\ TatuInv /\ LayInv /\ DtbInv /\ SpecInv /\ HeaderInv
    BY DEF IInv
  <2>2. ArchiveInv'
    BY <2>1, ArchiveQuiet, WrapInitStep, WriteEntryStep DEF BoardInv
  <2>3. BoardInv'
    BY <2>1, BoardStep
  <2>4. InitrdInv'
    BY <2>1, InitrdStep
  <2>5. TatuInv'
    BY <2>1, TatuStep
  <2>6. LayInv'
    BY <2>1, LayStep
  <2>7. DtbInv'
    BY <2>1, DtbStep
  <2>8. SpecInv'
    BY <2>1, SpecStep
  <2>9. HeaderInv'
    BY <2>1, HeaderStep
  <2> QED
    BY <2>2, <2>3, <2>4, <2>5, <2>6, <2>7, <2>8, <2>9 DEF IInv
<1> QED
  BY <1>1, <1>2, PTL DEF Spec

-----------------------------------------------------------------------------
(* The written image.                                                      *)

\* The headers of a written image, one for each section.
LEMMA WrittenFile ==
  ASSUME IInv, Written
  PROVE  /\ pc \in WithSections /\ sections = Assembled /\ IsSeq(sections)
         /\ Len(headers) = Len(sections) /\ Len(headers) \in Nat
         /\ DOMAIN headers = 1..Len(headers) /\ DOMAIN sections = 1..Len(headers)
         /\ \A k \in DOMAIN headers : HeaderOf(k) /\ IsPe(sections[k])
         /\ cursor \in Nat
<1>1. pc \in WithSections
  BY DEF Written, WithSections
<1>2. /\ sections = Assembled /\ IsSeq(sections) /\ Len(sections) \in Nat /\ DOMAIN sections = 1..Len(sections)
      /\ \A k \in DOMAIN sections : IsPe(sections[k])
  BY <1>1, SectionsFit DEF IInv
<1>3. /\ IsSeq(headers) /\ Len(headers) = Len(sections) /\ cursor \in Nat
      /\ \A k \in DOMAIN headers : HeaderOf(k)
  BY <1>1 DEF IInv, HeaderInv, Written
<1>4. DOMAIN headers = 1..Len(headers)
  BY <1>3 DEF IsSeq
<1> QED
  BY <1>1, <1>2, <1>3, <1>4

\* What a header says of its section.
LEMMA HeaderFields ==
  ASSUME NEW s, NEW p, NEW h, h = Header(s, p)
  PROVE  /\ h.name = s.name /\ h.what = s.what /\ h.non_loaded = s.non_loaded /\ h.pointer = p
         /\ h.raw_size = RawSize(s) /\ h.data = s.data /\ h.virtual_size = VirtualSize(s)
         /\ h.virtual_address = IF s.non_loaded THEN 0 ELSE s.vaddr
  BY DEF Header

\* The bytes of a section, and of one before it.
LEMMA RegionsInOrder ==
  ASSUME IInv, Written, NEW k \in DOMAIN headers, NEW m \in DOMAIN headers, m < k
  PROVE  RawRange(m) \intersect RawRange(k) = {}
<1>1. HeaderOf(k) /\ HeaderOf(m) /\ IsPe(sections[k]) /\ IsPe(sections[m]) /\ k \in Nat /\ m \in 1..(k - 1)
  BY WrittenFile
<1>2. PICK a, b, x, y : /\ a = headers[m].pointer /\ x = headers[m].raw_size
                        /\ b = headers[k].pointer /\ y = headers[k].raw_size
  OBVIOUS
<1>3. RawRange(m) = a..(a + x - 1) /\ RawRange(k) = b..(b + y - 1)
  BY <1>2 DEF RawRange
<1>4. x = RawSize(sections[m]) /\ y = RawSize(sections[k])
  BY <1>1, <1>2, HeaderFields DEF HeaderOf
<1>5. x \in Nat /\ y \in Nat /\ (is_zero_shape(sections[m]) <=> x = 0) /\ (is_zero_shape(sections[k]) <=> y = 0)
  <2>1. PICK z : z \in Nat
    OBVIOUS
  <2> QED
    BY <1>1, <1>4, <2>1, RawFacts
<1>6. a \in Nat /\ b \in Nat
  BY <1>1, <1>2 DEF HeaderOf
<1>7. x # 0 /\ y # 0 => a + x <= b
  BY <1>1, <1>2, <1>5 DEF HeaderOf
<1> QED
  BY <1>3, <1>5, <1>6, <1>7

\* build_pe() keeps the bytes of the sections apart, between the headers and the
\* string table.
THEOREM FileIsLaidOut == Spec => []FileRegionsAreApart
<1>1. IInv => FileRegionsAreApart
  <2> SUFFICES ASSUME IInv, Written
               PROVE  /\ \A k, m \in DOMAIN headers : k # m => RawRange(k) \intersect RawRange(m) = {}
                      /\ \A k \in DOMAIN headers :
                           headers[k].raw_size > 0 =>
                             /\ headers[k].pointer >= size_of_headers(Len(headers))
                             /\ headers[k].pointer + headers[k].raw_size <= cursor
    BY DEF FileRegionsAreApart
  <2>1. ASSUME NEW k \in DOMAIN headers, NEW m \in DOMAIN headers, k # m
        PROVE  RawRange(k) \intersect RawRange(m) = {}
    <3>1. k < m \/ m < k
      BY <2>1, WrittenFile
    <3> QED
      BY <3>1, RegionsInOrder
  <2>2. ASSUME NEW k \in DOMAIN headers, headers[k].raw_size > 0
        PROVE  /\ headers[k].pointer >= size_of_headers(Len(headers))
               /\ headers[k].pointer + headers[k].raw_size <= cursor
    <3>1. HeaderOf(k) /\ IsPe(sections[k]) /\ Len(headers) = Len(sections)
      BY WrittenFile
    <3>2. PICK s, h : s = sections[k] /\ h = headers[k]
      OBVIOUS
    <3>3. h.raw_size = RawSize(s)
      BY <3>1, <3>2, HeaderFields DEF HeaderOf
    <3>4. ~is_zero_shape(s)
      <4>1. PICK z : z \in Nat
        OBVIOUS
      <4> QED
        BY <2>2, <3>1, <3>2, <3>3, <4>1, RawFacts
    <3>5. h.pointer >= size_of_headers(Len(headers)) /\ h.pointer + h.raw_size <= cursor
      BY <3>1, <3>2, <3>4 DEF HeaderOf
    <3> QED
      BY <3>2, <3>5
  <2> QED
    BY <2>1, <2>2
<1> QED
  BY <1>1, Invariance, PTL

\* A number that a u32 holds is not cut.
LEMMA NotCut ==
  ASSUME NEW n \in Nat, n <= U32_MAX
  PROVE  n % U32 = n
<1>1. PICK m \in Nat : m = U32 /\ n < m
  BY PmiAssumption DEF U32
<1> QED
  BY <1>1

\* In a written image every size that a section has is a u32.
LEMMA SizesFit ==
  ASSUME IInv, Written, NEW s \in ToSet(TatuPart) \union ToSet(KernelPart) \union ToSet(RelocsPart)
  PROVE  s.virtual_size <= U32_MAX
<1>1. HeadersFit(sections)
  BY DEF IInv, HeaderInv, Written, Writable
<1>2. s \in ToSet(sections)
  <2>1. pc \in WithLayout /\ DtbFits
    BY DEF IInv, DtbInv, Written, WithLayout, WithDtb, WithSections
  <2> QED
    BY <2>1, WrittenFile, AssembledIs, Zenon DEF IInv
<1>3. PICK k \in DOMAIN sections : s = sections[k]
  BY <1>2 DEF ToSet
<1> QED
  BY <1>1, <1>3 DEF HeadersFit

\* bootinfo.rs cuts seven sizes to u32; build_pe() refuses the image in which
\* one of them would lose anything, because a section is as large.
LEMMA SizesHold == IInv => NothingIsTruncated
<1> SUFFICES ASSUME IInv, Written
             PROVE  bi.sizes = Sizes(input.kernel, DtbSize(cmdline), section(tatu, ".tatu.dtbo").virtual_size)
  BY DEF NothingIsTruncated
<1>0. /\ pc \in WithSections /\ pc \in WithDtb /\ pc \in WithLayout /\ pc \in WithTatu /\ pc \in WithBoard
      /\ BoardInv /\ TatuInv /\ LayInv /\ DtbInv
  BY DEF Written, WithSections, WithDtb, WithLayout, WithTatu, WithInitrd, WithBoard, IInv
<1>1. PICK kernel, size, room : /\ kernel = input.kernel /\ size = DtbSize(cmdline)
                                /\ room = section(tatu, ".tatu.dtbo").virtual_size
  OBVIOUS
<1>2. bi.sizes = Cut(Sizes(kernel, size, room))
  <2>1. bi = TatuBootInfo(tatu, kernel, lay, size)
    BY <1>0, <1>1 DEF DtbInv
  <2> QED
    BY <1>1, <2>1 DEF TatuBootInfo
<1>3. ASSUME NEW name \in {".tatu.dtb", ".tatu.dtbo"}
      PROVE  section(tatu, name).virtual_size \in Nat /\ section(tatu, name).virtual_size <= U32_MAX
  <2>1. HasSection(tatu, name)
    BY <1>0 DEF DtbInv, DtbFits
  <2>2. /\ Len(tatu) \in Nat /\ DOMAIN tatu = 1..Len(tatu)
        /\ \A n \in DOMAIN tatu : tatu[n].virtual_size \in Nat
    BY <1>0, TatuFacts DEF TatuInv, BoardInv
  <2>3. PICK k \in DOMAIN tatu : section(tatu, name) = tatu[k]
    BY <2>1, <2>2, SectionIsThere
  <2>4. PICK sh, s, mode : sh = tatu[k] /\ mode = input.dtb_mode /\ s = TatuPe(sh, size, mode)
    OBVIOUS
  <2>5. s \in ToSet(TatuPart)
    BY <1>1, <2>4 DEF TatuPart, ToSet
  <2>6. s.virtual_size = sh.virtual_size
    BY <2>4, TatuPeWhere
  <2> QED
    BY <2>2, <2>3, <2>4, <2>5, <2>6, SizesFit
<1>4. size \in Nat /\ size <= U32_MAX /\ room \in Nat /\ room <= U32_MAX
  <2>1. size \in Nat /\ size <= section(tatu, ".tatu.dtb").virtual_size
    BY <1>0, <1>1, DtbSizeIsNat DEF DtbInv, DtbFits
  <2> QED
    BY <1>1, <1>3, <2>1, PmiAssumption
<1>5. KernelSize \in Nat /\ KernelSize <= U32_MAX /\ kernel.file \in Nat /\ kernel.file <= U32_MAX
  <2>1. PICK g \in Boundary : KernelPart = <<KernelSection(g)>>
    BY <1>0, KernelPartIs DEF LayInv
  <2>2. KernelSection(g) \in ToSet(KernelPart)
    BY <2>1, SmallSeqs, Zenon
  <2>3. KernelSection(g).virtual_size = KernelSize
    BY DEF KernelSection, Section
  <2>4. KernelSize <= U32_MAX
    BY <2>2, <2>3, SizesFit
  <2> QED
    BY <1>0, <1>1, <2>4, KernelSizes, PmiAssumption
<1>6. \A i \in 1..3 : kernel.relocs[i] \in Nat /\ kernel.relocs[i] <= U32_MAX
  <2>1. TableSize <= U32_MAX
    <3>1. CASE TableSize = 0
      BY <3>1, PmiAssumption
    <3>2. CASE TableSize # 0
      <4>1. PICK g \in Boundary : RelocsPart = <<RelocsSection(g)>>
        BY <1>0, <3>2, RelocsPartIs DEF LayInv
      <4>2. RelocsSection(g) \in ToSet(RelocsPart)
        BY <4>1, SmallSeqs, Zenon
      <4>3. RelocsSection(g).virtual_size = TableSize
        BY DEF RelocsSection, Section
      <4> QED
        BY <4>2, <4>3, SizesFit
    <3> QED
      BY <3>1, <3>2
  <2>2. U32_MAX \in Nat
    BY PmiAssumption
  <2> QED
    BY <1>0, <1>1, <2>1, <2>2, KernelSizes
<1>7. PICK z : z = Sizes(kernel, size, room)
  OBVIOUS
<1>8. z = [base_dtb_size |-> size, host_dtbo_size |-> room, kernel_size |-> kernel.file,
           kernel_alloc_size |-> KernelSize, relocs64_count |-> kernel.relocs[1],
           relocs32neg_count |-> kernel.relocs[2], relocs32_count |-> kernel.relocs[3]]
  BY <1>1, <1>7, Zenon DEF Sizes, KernelSize
<1>9. \A f \in DOMAIN z : z[f] \in Nat /\ z[f] <= U32_MAX
  BY <1>4, <1>5, <1>6, <1>8
<1>10. \A f \in DOMAIN z : z[f] % U32 = z[f]
  BY <1>9, NotCut
<1>11. z = [f \in DOMAIN z |-> z[f]]
  BY <1>8
<1>12. [f \in DOMAIN z |-> z[f] % U32] = [f \in DOMAIN z |-> z[f]]
  BY <1>10, Zenon
<1> QED
  BY <1>1, <1>2, <1>7, <1>11, <1>12 DEF Cut

\* In every image that is written the boot information has lost nothing to the
\* casts of TatuBootInfo::new().
THEOREM SizesAreWhole == Spec => []NothingIsTruncated
  BY Invariance, SizesHold, PTL

-----------------------------------------------------------------------------
(* Which sections a written image has.                                     *)

AsTatu(s) == \E n \in DOMAIN tatu : s = TatuPe(tatu[n], DtbSize(cmdline), input.dtb_mode)
AsDtb(s) == input.dtb_mode = "Optional" /\ s = DtbSection
AsKernel(s) == \E g \in Boundary : lay.linux = Span(g, KernelSize) /\ s = KernelSection(g)
AsInitrd(s) ==
  \E n \in Nat, g \in Boundary : initrd = {n} /\ lay.initrd = {Span(g, AlignUp(n, LARGE))} /\ s = InitrdSection(g, n)
AsBconf(s) ==
  \E n \in Nat, g \in Boundary :
    /\ initrd = {n} /\ lay.initrd = {Span(g, AlignUp(n, LARGE))}
    /\ bootconfig /\ lay.bootconfig = {Span(g + AlignUp(n, LARGE), LARGE)}
    /\ s = BconfSection(g + AlignUp(n, LARGE))
AsRelocs(s) == TableSize > 0 /\ \E g \in Boundary : lay.relocs = {Span(g, TableSize)} /\ s = RelocsSection(g)
AsManifest(s) == s = ManifestSection

\* Ranges of one size are equal when they start at one place.
LEMMA OneSpan ==
  ASSUME NEW g, NEW h, NEW size, {Span(g, size)} = {Span(h, size)}
  PROVE  g = h
<1>1. Span(g, size) = Span(h, size)
  BY Zenon
<1>2. Span(g, size).start = g /\ Span(h, size).start = h
  BY DEF Span
<1> QED
  BY <1>1, <1>2, Zenon

\* Each part holds the sections of its kind and no other.
LEMMA PartMembers ==
  ASSUME IInv, Written, NEW s
  PROVE  /\ s \in ToSet(TatuPart) <=> AsTatu(s)
         /\ s \in ToSet(DtbPart) <=> AsDtb(s)
         /\ s \in ToSet(KernelPart) <=> AsKernel(s)
         /\ s \in ToSet(InitrdPart) <=> AsInitrd(s)
         /\ s \in ToSet(BconfPart) <=> AsBconf(s)
         /\ s \in ToSet(RelocsPart) <=> AsRelocs(s)
         /\ s \in ToSet(ManifestPart) <=> AsManifest(s)
<1>0. /\ pc \in WithBoard /\ BoardInv /\ KernelPlaced /\ InitrdPlaced /\ RelocsPlaced
  BY DEF Written, WithSections, WithDtb, WithLayout, WithTatu, WithInitrd, WithBoard, IInv, LayInv
<1>1. s \in ToSet(TatuPart) <=> AsTatu(s)
  BY DEF ToSet, TatuPart, AsTatu
<1>2. \A x : ToSet(<<x>>) = {x} /\ ToSet(<<>>) = {}
  BY SmallSeqs, Zenon
<1>3. s \in ToSet(DtbPart) <=> AsDtb(s)
  <2>1. DtbPart = IF input.dtb_mode = "Optional" THEN <<DtbSection>> ELSE <<>>
    BY <1>0, DtbPartIs
  <2> QED
    BY <1>2, <2>1, Zenon DEF AsDtb
<1>4. s \in ToSet(ManifestPart) <=> AsManifest(s)
  BY <1>2, ManifestPartIs, Zenon DEF AsManifest
<1>5. s \in ToSet(KernelPart) <=> AsKernel(s)
  <2>1. PICK g \in Boundary : lay.linux = Span(g, KernelSize) /\ KernelPart = <<KernelSection(g)>>
    BY <1>0, KernelPartIs
  <2>2. \A h : lay.linux = Span(h, KernelSize) => h = g
    BY <2>1 DEF Span
  <2>3. s \in ToSet(KernelPart) <=> s = KernelSection(g)
    BY <1>2, <2>1, Zenon
  <2> QED
    BY <2>1, <2>2, <2>3, Zenon DEF AsKernel
<1>6. s \in ToSet(RelocsPart) <=> AsRelocs(s)
  <2>1. CASE TableSize = 0 /\ lay.relocs = {} /\ RelocsPart = <<>>
    <3>1. ~(TableSize > 0)
      BY <2>1
    <3> QED
      BY <1>2, <2>1, <3>1, Zenon DEF AsRelocs
  <2>2. CASE \E g \in Boundary : TableSize > 0 /\ lay.relocs = {Span(g, TableSize)} /\ RelocsPart = <<RelocsSection(g)>>
    <3>1. PICK g \in Boundary : TableSize > 0 /\ lay.relocs = {Span(g, TableSize)} /\ RelocsPart = <<RelocsSection(g)>>
      BY <2>2
    <3>2. \A h : lay.relocs = {Span(h, TableSize)} => h = g
      <4> SUFFICES ASSUME NEW h, lay.relocs = {Span(h, TableSize)} PROVE h = g
        BY Zenon
      <4>1. {Span(h, TableSize)} = {Span(g, TableSize)}
        BY <3>1, Zenon
      <4> QED
        BY <4>1, OneSpan, Zenon
    <3>3. s \in ToSet(RelocsPart) <=> s = RelocsSection(g)
      BY <1>2, <3>1, Zenon
    <3> QED
      BY <3>1, <3>2, <3>3, Zenon DEF AsRelocs
  <2> QED
    BY <1>0, <2>1, <2>2, RelocsPartIs, Zenon
<1>7. (s \in ToSet(InitrdPart) <=> AsInitrd(s)) /\ (s \in ToSet(BconfPart) <=> AsBconf(s))
  <2>1. CASE initrd = {} /\ lay.initrd = {} /\ lay.bootconfig = {} /\ InitrdPart = <<>> /\ BconfPart = <<>>
    <3>1. \A n : initrd # {n}
      BY <2>1
    <3> QED
      BY <1>2, <2>1, <3>1, Zenon DEF AsInitrd, AsBconf
  <2>2. ASSUME NEW n \in Nat, NEW g \in Boundary, initrd = {n}, lay.initrd = {Span(g, AlignUp(n, LARGE))},
               InitrdPart = <<InitrdSection(g, n)>>,
               \/ ~bootconfig /\ lay.bootconfig = {} /\ BconfPart = <<>>
               \/ /\ bootconfig /\ lay.bootconfig = {Span(g + AlignUp(n, LARGE), LARGE)}
                  /\ BconfPart = <<BconfSection(g + AlignUp(n, LARGE))>>
        PROVE  (s \in ToSet(InitrdPart) <=> AsInitrd(s)) /\ (s \in ToSet(BconfPart) <=> AsBconf(s))
    <3>1. \A m : initrd = {m} => m = n
      BY <2>2
    <3>2. \A h : lay.initrd = {Span(h, AlignUp(n, LARGE))} => h = g
      <4> SUFFICES ASSUME NEW h, lay.initrd = {Span(h, AlignUp(n, LARGE))} PROVE h = g
        BY Zenon
      <4>1. {Span(h, AlignUp(n, LARGE))} = {Span(g, AlignUp(n, LARGE))}
        BY <2>2, Zenon
      <4> QED
        BY <4>1, OneSpan, Zenon
    <3>3. s \in ToSet(InitrdPart) <=> s = InitrdSection(g, n)
      BY <1>2, <2>2, Zenon
    <3>4. s \in ToSet(InitrdPart) <=> AsInitrd(s)
      BY <2>2, <3>1, <3>2, <3>3, Zenon DEF AsInitrd
    <3>5. CASE ~bootconfig /\ BconfPart = <<>>
      BY <1>2, <3>4, <3>5, Zenon DEF AsBconf
    <3>6. CASE /\ bootconfig /\ lay.bootconfig = {Span(g + AlignUp(n, LARGE), LARGE)}
               /\ BconfPart = <<BconfSection(g + AlignUp(n, LARGE))>>
      <4>1. s \in ToSet(BconfPart) <=> s = BconfSection(g + AlignUp(n, LARGE))
        BY <1>2, <3>6, Zenon
      <4> QED
        BY <2>2, <3>1, <3>2, <3>4, <3>6, <4>1, Zenon DEF AsBconf
    <3> QED
      BY <2>2, <3>5, <3>6, Zenon
  <2> QED
    BY <1>0, <2>1, <2>2, InitrdPartIs, Zenon
<1> QED
  BY <1>1, <1>3, <1>4, <1>5, <1>6, <1>7, Zenon

\* Every section of a written image is of one of the parts.
LEMMA SectionKinds ==
  ASSUME IInv, Written, NEW s
  PROVE  s \in ToSet(sections) <=>
           AsTatu(s) \/ AsDtb(s) \/ AsKernel(s) \/ AsInitrd(s) \/ AsBconf(s) \/ AsRelocs(s) \/ AsManifest(s)
<1>1. pc \in WithLayout /\ DtbFits
  BY DEF IInv, DtbInv, Written, WithLayout, WithDtb, WithSections
<1>2. sections = Assembled
  BY WrittenFile
<1>3. ToSet(Assembled) = ToSet(TatuPart) \union ToSet(DtbPart) \union ToSet(KernelPart) \union ToSet(InitrdPart)
                           \union ToSet(BconfPart) \union ToSet(RelocsPart) \union ToSet(ManifestPart)
  BY <1>1, AssembledIs DEF IInv
<1> QED
  BY <1>2, <1>3, PartMembers, Zenon

\* The name tells which part a section is of.
LEMMA KindByName ==
  ASSUME IInv, Written, NEW s \in ToSet(sections)
  PROVE  /\ s.name = ".dtb" <=> AsDtb(s)
         /\ s.name = ".linux" <=> AsKernel(s)
         /\ s.name = ".initrd" <=> AsInitrd(s)
         /\ s.name = ".bconf" <=> AsBconf(s)
         /\ s.name = ".linux.relocs" <=> AsRelocs(s)
         /\ s.name = ".pmi.vm" <=> AsManifest(s)
         /\ s.name \notin OwnNames <=> AsTatu(s)
<1>1. AsTatu(s) => s.name \notin OwnNames
  <2>1. /\ TatuInv /\ BoardInv /\ pc \in WithTatu
    BY DEF Written, WithSections, WithDtb, WithLayout, WithTatu, IInv
  <2>2. \A n \in DOMAIN tatu : tatu[n].name \notin OwnNames
    BY <2>1, TatuFacts DEF TatuInv, BoardInv
  <2> SUFFICES ASSUME AsTatu(s) PROVE s.name \notin OwnNames
    OBVIOUS
  <2>3. PICK n \in DOMAIN tatu : s = TatuPe(tatu[n], DtbSize(cmdline), input.dtb_mode)
    BY DEF AsTatu
  <2>4. PICK sh, size, mode : sh = tatu[n] /\ size = DtbSize(cmdline) /\ mode = input.dtb_mode
    OBVIOUS
  <2>5. TatuPe(sh, size, mode).name = sh.name
    BY TatuPeWhere
  <2> QED
    BY <2>2, <2>3, <2>4, <2>5
<1>2. AsDtb(s) => s.name = ".dtb"
  BY DEF AsDtb, DtbSection, Section
<1>3. AsKernel(s) => s.name = ".linux"
  BY DEF AsKernel, KernelSection, Section
<1>4. AsInitrd(s) => s.name = ".initrd"
  BY DEF AsInitrd, InitrdSection, Section
<1>5. AsBconf(s) => s.name = ".bconf"
  BY DEF AsBconf, BconfSection, Section
<1>6. AsRelocs(s) => s.name = ".linux.relocs"
  BY DEF AsRelocs, RelocsSection, Section
<1>7. AsManifest(s) => s.name = ".pmi.vm"
  BY DEF AsManifest, ManifestSection, Section
<1>8. AsTatu(s) \/ AsDtb(s) \/ AsKernel(s) \/ AsInitrd(s) \/ AsBconf(s) \/ AsRelocs(s) \/ AsManifest(s)
  BY SectionKinds
<1> QED
  BY <1>1, <1>2, <1>3, <1>4, <1>5, <1>6, <1>7, <1>8 DEF OwnNames

-----------------------------------------------------------------------------
(* What the image promises its kernel can use.                             *)

\* The slots are of a transport that the kernel supports, and when arma chose
\* them they are sixteen of one built in.
LEMMA SlotsAreSupported ==
  ASSUME NEW c, NEW arch, NEW mmio, NEW pci, NEW s, ~NoSlots(c, arch, mmio, pci), s = infer_slots(c, arch, mmio, pci)
  PROVE  /\ s[1] > 0 => supports_virtio_mmio(c)
         /\ s[2] > 0 => supports_pci(c, arch)
         /\ mmio = {} /\ pci = {} =>
              /\ s[1] > 0 => builtin_virtio_mmio(c)
              /\ s[2] > 0 => builtin_pci(c, arch)
              /\ s[1] + s[2] = DefaultSlots
<1>1. builtin_virtio_mmio(c) => supports_virtio_mmio(c)
  BY DEF builtin_virtio_mmio, supports_virtio_mmio, is_builtin, is_set
<1>2. builtin_pci(c, arch) => supports_pci(c, arch)
  BY DEF builtin_pci, supports_pci, is_builtin, is_set
<1>3. CASE mmio # {} \/ pci # {}
  <2>1. PICK a, b : a = unwrap_or(mmio, 0) /\ b = unwrap_or(pci, 0)
    OBVIOUS
  <2>2. s[1] = a /\ s[2] = b
    BY <1>3, <2>1 DEF infer_slots
  <2> QED
    BY <1>3, <2>1, <2>2 DEF NoSlots
<1>4. CASE mmio = {} /\ pci = {}
  <2>1. builtin_virtio_mmio(c) \/ builtin_pci(c, arch)
    BY <1>4 DEF NoSlots
  <2>2. CASE ~builtin_virtio_mmio(c)
    <3>1. s = <<0, 16>>
      BY <1>4, <2>2 DEF infer_slots, DefaultSlots
    <3> QED
      BY <1>2, <2>1, <2>2, <3>1 DEF DefaultSlots
  <2>3. CASE builtin_virtio_mmio(c) /\ ~builtin_pci(c, arch)
    <3>1. s = <<16, 0>>
      BY <1>4, <2>3 DEF infer_slots, DefaultSlots
    <3> QED
      BY <1>1, <2>3, <3>1 DEF DefaultSlots
  <2>4. CASE builtin_virtio_mmio(c) /\ builtin_pci(c, arch)
    <3>1. 16 \div 2 = 8
      OBVIOUS
    <3>2. s = <<8, 8>>
      BY <1>4, <2>4, <3>1 DEF infer_slots, DefaultSlots
    <3> QED
      BY <1>1, <1>2, <2>4, <3>2 DEF DefaultSlots
  <2> QED
    BY <2>2, <2>3, <2>4
<1> QED
  BY <1>3, <1>4

\* The rank of a profile is a number.
LEMMA RankIsNat == ASSUME NEW profile, NEW arch PROVE Rank(profile, arch) \in Nat
<1> DEFINE l == isa_levels(arch)
           I == {i \in 1..Len(l) : l[i] = profile}
<1>1. Rank(profile, arch) = IF I # {} THEN Min(I) ELSE 0
  BY DEF Rank, SelectInSeq
<1>2. I \subseteq Nat
  OBVIOUS
<1> HIDE DEF I
<1>3. I # {} => Min(I) \in Nat
  BY <1>2, LeastExists
<1> QED
  BY <1>1, <1>3

\* A profile that has a rank has one no lower than the kernel needs.
LEMMA ProfileIsEnough ==
  ASSUME NEW c, NEW arch, NEW profile, NEW p, p = cpu_profile(c, arch, profile)
  PROVE  Rank(p, arch) # 0 => Rank(p, arch) >= Rank(isa_floor(c, arch), arch)
<1>1. PICK chosen, floor : /\ chosen = unwrap_or(profile, IF arch = "x86_64" THEN "x86-64-v2" ELSE "armv8.0-a")
                           /\ floor = isa_floor(c, arch)
  OBVIOUS
<1>2. p = IF Rank(chosen, arch) # 0 /\ Rank(floor, arch) > Rank(chosen, arch) THEN floor ELSE chosen
  BY <1>1, Zenon DEF cpu_profile, raise_to_floor
<1>3. Rank(chosen, arch) \in Nat /\ Rank(floor, arch) \in Nat
  BY RankIsNat
<1> QED
  BY <1>1, <1>2, <1>3

\* There is a .bconf section only if the command line asks for a bootconfig.
LEMMA ReservedForBootconfig ==
  ASSUME IInv, Written, Named(".bconf") # {}
  PROVE  bootconfig
<1>1. PICK k \in DOMAIN headers : headers[k].name = ".bconf"
  BY DEF Named
<1>2. HeaderOf(k) /\ k \in DOMAIN sections
  BY WrittenFile
<1>3. sections[k].name = ".bconf" /\ sections[k] \in ToSet(sections)
  BY <1>1, <1>2, HeaderFields DEF HeaderOf, ToSet
<1>4. AsBconf(sections[k])
  BY <1>3, KindByName
<1> QED
  BY <1>4 DEF AsBconf

\* infer_slots(), raise_to_floor() and check_bootconfig(), each on what the
\* build ends up with: the slots it wrote into the base DTB, the profile in the
\* manifest and the command line that the kernel will see.
THEOREM BoardCanBeDriven == Spec => []BoardIsDrivable
<1>1. IInv => BoardIsDrivable
  <2> SUFFICES ASSUME IInv, Written PROVE BoardIsDrivable
    BY DEF BoardIsDrivable
  <2>1. /\ BoardIsGood /\ slots = infer_slots(kcfg, input.arch, input.mmio_slots, input.pci_slots)
        /\ SpecInv /\ DtbInv /\ pc \in WithSections /\ pc \in WithDtb
    BY DEF Written, WithSections, WithDtb, WithLayout, WithTatu, WithInitrd, WithBoard, IInv, BoardInv
  <2>2. PICK c, arch, mmio, pci, s : c = kcfg /\ arch = input.arch /\ mmio = input.mmio_slots /\ pci = input.pci_slots /\ s = slots
    OBVIOUS
  <2>3. ~NoSlots(c, arch, mmio, pci) /\ s = infer_slots(c, arch, mmio, pci)
    BY <2>1, <2>2 DEF BoardIsGood
  <2>4. /\ s[1] > 0 => supports_virtio_mmio(c)
        /\ s[2] > 0 => supports_pci(c, arch)
        /\ mmio = {} /\ pci = {} =>
             /\ s[1] > 0 => builtin_virtio_mmio(c)
             /\ s[2] > 0 => builtin_pci(c, arch)
             /\ s[1] + s[2] = DefaultSlots
    BY <2>3, SlotsAreSupported
  <2>5. Rank(spec.cpu_profile, arch) # 0 => Rank(spec.cpu_profile, arch) >= Rank(isa_floor(c, arch), arch)
    <3>1. PICK p : p = spec.cpu_profile
      OBVIOUS
    <3>2. PICK profile : profile = input.profile
      OBVIOUS
    <3>3. p = cpu_profile(c, arch, profile)
      BY <2>1, <2>2, <3>1, <3>2 DEF SpecInv, build_pmi_vm
    <3> QED
      BY <3>1, <3>3, ProfileIsEnough
  <2>6. Named(".bconf") # {} /\ ~dtb.edited => SeesBootconfig(Combined(c, arch, Truncated(dtb.bootargs)))
    <3> SUFFICES ASSUME Named(".bconf") # {}, ~dtb.edited
                 PROVE  SeesBootconfig(Combined(c, arch, Truncated(dtb.bootargs)))
      OBVIOUS
    <3>1. check_bootconfig(c, arch, cmdline)
      BY <2>1, <2>2, ReservedForBootconfig, Zenon DEF BoardIsGood
    <3>2. dtb.bootargs = cmdline
      BY <2>1, Zenon DEF DtbInv
    <3> QED
      BY <2>2, <3>1, <3>2, Zenon DEF check_bootconfig, Effective, SeesBootconfig
  <2> QED
    BY <2>2, <2>4, <2>5, <2>6, Zenon DEF BoardIsDrivable
<1> QED
  BY <1>1, Invariance, PTL

-----------------------------------------------------------------------------
(* The actions of the manifest, no two on one section.                     *)

Distinct(q) == \A i, j \in DOMAIN q : q[i].section = q[j].section => i = j

\* A list of at most one action, on the section of a name.
OnlyOn(q, name) == IsSeq(q) /\ Distinct(q) /\ \A a \in ToSet(q) : a.section = name

\* A list of one action, and the empty one.
LEMMA OneAction ==
  ASSUME NEW op, NEW gpa, NEW name
  PROVE  OnlyOn(<<Act(op, gpa, name)>>, name) /\ OnlyOn(<<>>, name)
<1>1. PICK a : a = Act(op, gpa, name)
  OBVIOUS
<1>2. a.section = name
  BY <1>1 DEF Act
<1>3. IsSeq(<<>>) /\ ToSet(<<>>) = {} /\ IsSeq(<<a>>) /\ ToSet(<<a>>) = {a}
  BY SmallSeqs
<1>4. Distinct(<<a>>) /\ Distinct(<<>>)
  BY DEF Distinct
<1> QED
  BY <1>1, <1>2, <1>3, <1>4, Zenon DEF OnlyOn

\* A list of actions on other sections goes on with one on a new section.
LEMMA OneMore ==
  ASSUME NEW s, NEW t, NEW name, IsSeq(s), Distinct(s), OnlyOn(t, name), \A a \in ToSet(s) : a.section # name
  PROVE  IsSeq(s \o t) /\ Distinct(s \o t) /\ ToSet(s \o t) = ToSet(s) \union ToSet(t)
<1>1. IsSeq(t) /\ Distinct(t) /\ \A a \in ToSet(t) : a.section = name
  BY DEF OnlyOn
<1>2. IsSeq(s \o t) /\ ToSet(s \o t) = ToSet(s) \union ToSet(t)
  BY <1>1, Concatenated
<1>3. PICK T : T = ToSet(s) \union ToSet(t) /\ s \in Seq(T) /\ t \in Seq(T)
  <2>1. PICK T : T = ToSet(s) \union ToSet(t)
    OBVIOUS
  <2>2. s \in Seq(T) /\ t \in Seq(T)
    BY <1>1, <2>1, IsSeqWithin
  <2> QED
    BY <2>1, <2>2
<1>4. /\ Len(s) \in Nat /\ Len(t) \in Nat /\ DOMAIN s = 1..Len(s) /\ DOMAIN t = 1..Len(t)
      /\ DOMAIN (s \o t) = 1..(Len(s) + Len(t))
      /\ \A k \in 1..Len(s) : (s \o t)[k] = s[k]
      /\ \A k \in 1..Len(t) : (s \o t)[Len(s) + k] = t[k]
  BY <1>3
<1>5. PICK q, m, n : q = s \o t /\ m = Len(s) /\ n = Len(t)
  OBVIOUS
<1>6. \A k \in 1..(m + n) : \/ k \in 1..m /\ q[k] = s[k]
                            \/ k - m \in 1..n /\ q[k] = t[k - m]
  BY <1>4, <1>5
<1>7. (\A k \in 1..m : s[k].section # name) /\ (\A k \in 1..n : t[k].section = name)
  BY <1>1, <1>4, <1>5 DEF ToSet
<1>8. \A i, j \in 1..(m + n) : q[i].section = q[j].section => i = j
  <2> SUFFICES ASSUME NEW i \in 1..(m + n), NEW j \in 1..(m + n), q[i].section = q[j].section PROVE i = j
    OBVIOUS
  <2>1. CASE i \in 1..m /\ q[i] = s[i] /\ j \in 1..m /\ q[j] = s[j]
    BY <1>4, <1>5, <2>1 DEF Distinct
  <2>2. CASE i - m \in 1..n /\ q[i] = t[i - m] /\ j - m \in 1..n /\ q[j] = t[j - m]
    <3>1. i - m = j - m
      BY <1>1, <1>4, <1>5, <2>2 DEF Distinct
    <3> QED
      BY <1>4, <1>5, <3>1
  <2>3. ~(i \in 1..m /\ q[i] = s[i] /\ j - m \in 1..n /\ q[j] = t[j - m])
    BY <1>7
  <2>4. ~(j \in 1..m /\ q[j] = s[j] /\ i - m \in 1..n /\ q[i] = t[i - m])
    BY <1>7
  <2> QED
    BY <1>6, <2>1, <2>2, <2>3, <2>4
<1> QED
  BY <1>2, <1>4, <1>5, <1>8 DEF Distinct

\* The parts that build_actions() puts one after the other.
LoadsPart ==
  LET chosen == {k \in DOMAIN tatu : LoadsTatu(tatu[k], input.dtb_mode)}
      loads == Arranged(chosen, [k \in chosen |-> k])
  IN [n \in DOMAIN loads |-> Act("load", tatu[loads[n]].vaddr, tatu[loads[n]].name)]
KernelAct == <<Act("load", lay.linux.start, ".linux")>>
InitrdAct == ActOn("load", lay.initrd, ".initrd")
BconfAct == ActOn("fill", lay.bootconfig, ".bconf")
RelocsAct == ActOn("load", lay.relocs, ".linux.relocs")
DtbAct == IF input.dtb_mode = "Attached" THEN <<>> ELSE <<Act("fill", section(tatu, ".tatu.dtb").vaddr, ".tatu.dtb")>>
DtboAct == <<Act("fill", section(tatu, ".tatu.dtbo").vaddr, ".tatu.dtbo")>>

\* tatu's sections in a written image.
LEMMA WrittenTatu ==
  ASSUME IInv, Written
  PROVE  /\ Len(tatu) \in Nat /\ DOMAIN tatu = 1..Len(tatu)
         /\ \A n \in DOMAIN tatu :
              /\ tatu[n].name \notin OwnNames /\ tatu[n].vaddr \in Nat /\ tatu[n].virtual_size \in Nat
              /\ tatu[n].name = ".tatu.dtbo" => tatu[n].is_nobits = TRUE
         /\ \A m, n \in DOMAIN tatu : tatu[m].name = tatu[n].name => m = n
         /\ \E n \in DOMAIN tatu : tatu[n].name = ".tatu.dtb"
         /\ \E n \in DOMAIN tatu : tatu[n].name = ".tatu.dtbo"
         /\ \A n \in DOMAIN tatu : tatu[n].name \in {".tatu.dtb", ".tatu.dtbo"} => section(tatu, tatu[n].name) = tatu[n]
<1>1. /\ TatuInv /\ BoardInv /\ DtbInv /\ pc \in WithTatu /\ pc \in WithDtb
  BY DEF Written, WithSections, WithDtb, WithLayout, WithTatu, IInv
<1>2. PICK t : t = tatu
  OBVIOUS
<1>3. /\ Len(t) \in Nat /\ DOMAIN t = 1..Len(t)
      /\ \A n \in DOMAIN t :
           /\ t[n].name \notin OwnNames /\ t[n].vaddr \in Nat /\ t[n].virtual_size \in Nat
           /\ t[n].name = ".tatu.dtbo" => t[n].is_nobits = TRUE
      /\ \A m, n \in DOMAIN t : t[m].name = t[n].name => m = n
  BY <1>1, <1>2, TatuFacts DEF TatuInv, BoardInv
<1>4. HasSection(t, ".tatu.dtb") /\ HasSection(t, ".tatu.dtbo")
  BY <1>1, <1>2 DEF DtbInv, DtbFits
<1>5. ASSUME NEW n \in DOMAIN t, t[n].name \in {".tatu.dtb", ".tatu.dtbo"}
      PROVE  section(t, t[n].name) = t[n]
  <2>1. PICK name : name = t[n].name
    OBVIOUS
  <2>2. HasSection(t, name)
    BY <2>1 DEF HasSection
  <2>3. PICK k \in DOMAIN t : section(t, name) = t[k] /\ t[k].name = name
    BY <1>3, <2>2, SectionIsThere
  <2>4. k = n
    BY <1>3, <2>1, <2>3
  <2> QED
    BY <2>1, <2>3, <2>4
<1>6. (\E n \in DOMAIN t : t[n].name = ".tatu.dtb") /\ (\E n \in DOMAIN t : t[n].name = ".tatu.dtbo")
  BY <1>4 DEF HasSection
<1> QED
  BY <1>2, <1>3, <1>5, <1>6, Zenon

\* The actions that load the sections of tatu, one for each that is loaded.
LEMMA LoadsPartIs ==
  ASSUME IInv, Written
  PROVE  /\ IsSeq(LoadsPart) /\ Distinct(LoadsPart)
         /\ \A a \in ToSet(LoadsPart) : \E n \in DOMAIN tatu :
              LoadsTatu(tatu[n], input.dtb_mode) /\ a = Act("load", tatu[n].vaddr, tatu[n].name)
         /\ \A n \in DOMAIN tatu : LoadsTatu(tatu[n], input.dtb_mode) =>
              Act("load", tatu[n].vaddr, tatu[n].name) \in ToSet(LoadsPart)
<1>1. PICK t, mode : t = tatu /\ mode = input.dtb_mode
  OBVIOUS
<1>2. PICK K : K = {k \in DOMAIN t : LoadsTatu(t[k], mode)}
  OBVIOUS
<1>3. PICK key : key = [k \in K |-> k]
  OBVIOUS
<1>4. IsFiniteSet(K) /\ K \subseteq Nat /\ key \in [K -> Nat] /\ K \subseteq DOMAIN t
  <2>1. DOMAIN t = 1..Len(t) /\ Len(t) \in Nat
    BY <1>1, WrittenTatu
  <2>2. K \in SUBSET (1..Len(t))
    BY <1>2, <2>1
  <2>3. IsFiniteSet(1..Len(t))
    BY <2>1, FS_Interval
  <2>4. IsFiniteSet(K)
    BY <2>2, <2>3, FS_Subset
  <2> QED
    BY <1>2, <1>3, <2>1, <2>2, <2>4
<1>5. PICK o, c : o = Arranged(K, key) /\ c = Cardinality(K)
  OBVIOUS
<1>6. /\ o \in Seq(K) /\ c \in Nat /\ DOMAIN o = 1..c
      /\ \A m, n \in 1..c : o[m] = o[n] => m = n
      /\ \A k \in K : \E n \in 1..c : o[n] = k
  <2>1. /\ Arranged(K, key) \in Seq(K) /\ Cardinality(K) \in Nat
        /\ DOMAIN Arranged(K, key) = 1..Cardinality(K)
        /\ \A m, n \in 1..Cardinality(K) : Arranged(K, key)[m] = Arranged(K, key)[n] => m = n
        /\ \A k \in K : \E n \in 1..Cardinality(K) : Arranged(K, key)[n] = k
    BY <1>4, ArrangedFacts
  <2> QED
    BY <1>5, <2>1, Zenon
<1>7. PICK q : q = LoadsPart
  OBVIOUS
<1>8. q = [n \in 1..c |-> Act("load", t[o[n]].vaddr, t[o[n]].name)]
  BY <1>1, <1>2, <1>3, <1>5, <1>6, <1>7 DEF LoadsPart
<1>9. \A n \in 1..c : o[n] \in K /\ o[n] \in DOMAIN t
  <2>1. \A n \in DOMAIN o : o[n] \in K
    BY <1>6
  <2> QED
    BY <1>4, <1>6, <2>1
<1>10. DOMAIN q = 1..c /\ \A n \in 1..c : q[n] = Act("load", t[o[n]].vaddr, t[o[n]].name)
  BY <1>8
<1>11. \A n \in 1..c : q[n].section = t[o[n]].name
  BY <1>10 DEF Act
<1>12. IsSeq(q)
  <2>1. PICK T : T = ToSet(q)
    OBVIOUS
  <2>2. \A n \in 1..c : q[n] \in T
    BY <1>10, <2>1 DEF ToSet
  <2>3. q = [n \in 1..c |-> q[n]]
    BY <1>8
  <2>4. q \in Seq(T)
    BY <1>6, <2>2, <2>3
  <2> QED
    BY <2>4, IsSeqOf
<1>13. Distinct(q)
  <2> SUFFICES ASSUME NEW i \in 1..c, NEW j \in 1..c, q[i].section = q[j].section PROVE i = j
    BY <1>10 DEF Distinct
  <2>1. t[o[i]].name = t[o[j]].name /\ o[i] \in DOMAIN t /\ o[j] \in DOMAIN t
    BY <1>9, <1>11
  <2>2. o[i] = o[j]
    BY <1>1, <2>1, WrittenTatu
  <2> QED
    BY <1>6, <2>2
<1>14. ASSUME NEW a \in ToSet(q)
       PROVE  \E n \in DOMAIN t : LoadsTatu(t[n], mode) /\ a = Act("load", t[n].vaddr, t[n].name)
  <2>1. PICK n \in 1..c : a = q[n]
    BY <1>10 DEF ToSet
  <2> QED
    BY <1>2, <1>9, <1>10, <2>1
<1>15. ASSUME NEW k \in DOMAIN t, LoadsTatu(t[k], mode)
       PROVE  Act("load", t[k].vaddr, t[k].name) \in ToSet(q)
  <2>1. PICK n \in 1..c : o[n] = k
    BY <1>2, <1>6, <1>15
  <2>2. q[n] = Act("load", t[k].vaddr, t[k].name) /\ n \in DOMAIN q
    BY <1>10, <2>1
  <2> QED
    BY <2>2 DEF ToSet
<1> QED
  BY <1>1, <1>7, <1>12, <1>13, <1>14, <1>15, Zenon

\* The names the other parts are on.
LEMMA OtherActs ==
  /\ OnlyOn(KernelAct, ".linux") /\ OnlyOn(InitrdAct, ".initrd") /\ OnlyOn(BconfAct, ".bconf")
  /\ OnlyOn(RelocsAct, ".linux.relocs") /\ OnlyOn(DtbAct, ".tatu.dtb") /\ OnlyOn(DtboAct, ".tatu.dtbo")
<1>1. \A op, option, name : OnlyOn(ActOn(op, option, name), name)
  BY OneAction, Zenon DEF ActOn
<1> QED
  BY <1>1, OneAction, Zenon DEF KernelAct, InitrdAct, BconfAct, RelocsAct, DtbAct, DtboAct

\* build_actions() has the actions of its parts, no two on one section.
LEMMA ActionsAre ==
  ASSUME IInv, Written
  PROVE  /\ IsSeq(spec.actions) /\ Distinct(spec.actions)
         /\ ToSet(spec.actions) = ToSet(LoadsPart) \union ToSet(KernelAct) \union ToSet(InitrdAct) \union ToSet(BconfAct)
                                    \union ToSet(RelocsAct) \union ToSet(DtbAct) \union ToSet(DtboAct)
<1>1. PICK a, b, c, d, e, f, g : /\ a = LoadsPart /\ b = KernelAct /\ c = InitrdAct /\ d = BconfAct /\ e = RelocsAct
                                 /\ f = DtbAct /\ g = DtboAct
  OBVIOUS
<1>2. spec.actions = a \o b \o c \o d \o e \o f \o g
  <2>1. PICK q : q = build_actions(tatu, lay, input.dtb_mode)
    OBVIOUS
  <2>2. spec.actions = q
    BY <2>1 DEF IInv, SpecInv, Written, WithSections, build_pmi_vm
  <2>3. q = a \o b \o c \o d \o e \o f \o g
    BY <1>1, <2>1, Zenon DEF build_actions, LoadsPart, KernelAct, InitrdAct, BconfAct, RelocsAct, DtbAct, DtboAct
  <2> QED
    BY <2>2, <2>3
<1>3. /\ OnlyOn(b, ".linux") /\ OnlyOn(c, ".initrd") /\ OnlyOn(d, ".bconf") /\ OnlyOn(e, ".linux.relocs")
      /\ OnlyOn(f, ".tatu.dtb") /\ OnlyOn(g, ".tatu.dtbo")
  BY <1>1, OtherActs, Zenon
<1>4. /\ \A x \in ToSet(b) : x.section = ".linux"
      /\ \A x \in ToSet(c) : x.section = ".initrd"
      /\ \A x \in ToSet(d) : x.section = ".bconf"
      /\ \A x \in ToSet(e) : x.section = ".linux.relocs"
      /\ \A x \in ToSet(f) : x.section = ".tatu.dtb"
  BY <1>3, Zenon DEF OnlyOn
<1>5. IsSeq(a) /\ Distinct(a)
  BY <1>1, LoadsPartIs
<1>6. ASSUME NEW x \in ToSet(a)
      PROVE  x.section \notin OwnNames /\ x.section # ".tatu.dtbo" /\ (x.section = ".tatu.dtb" => input.dtb_mode = "Attached")
  <2>1. PICK n \in DOMAIN tatu : LoadsTatu(tatu[n], input.dtb_mode) /\ x = Act("load", tatu[n].vaddr, tatu[n].name)
    BY <1>1, LoadsPartIs, Zenon
  <2>2. x.section = tatu[n].name
    BY <2>1 DEF Act
  <2> QED
    BY <2>1, <2>2, WrittenTatu DEF LoadsTatu
<1>7. input.dtb_mode = "Attached" => ToSet(f) = {}
  BY <1>1, SmallSeqs, Zenon DEF DtbAct
<1>8. IsSeq(a \o b) /\ Distinct(a \o b) /\ ToSet(a \o b) = ToSet(a) \union ToSet(b)
  <2>1. \A x \in ToSet(a) : x.section # ".linux"
    BY <1>6 DEF OwnNames
  <2> QED
    BY <1>3, <1>5, <2>1, OneMore
<1>9. PICK ab : ab = a \o b
  OBVIOUS
<1>10. IsSeq(ab \o c) /\ Distinct(ab \o c) /\ ToSet(ab \o c) = ToSet(ab) \union ToSet(c)
  <2>1. \A x \in ToSet(ab) : x.section # ".initrd"
    BY <1>4, <1>6, <1>8, <1>9 DEF OwnNames
  <2> QED
    BY <1>3, <1>8, <1>9, <2>1, OneMore
<1>11. PICK abc : abc = ab \o c
  OBVIOUS
<1>12. IsSeq(abc \o d) /\ Distinct(abc \o d) /\ ToSet(abc \o d) = ToSet(abc) \union ToSet(d)
  <2>1. \A x \in ToSet(abc) : x.section # ".bconf"
    BY <1>4, <1>6, <1>8, <1>9, <1>10, <1>11 DEF OwnNames
  <2> QED
    BY <1>3, <1>10, <1>11, <2>1, OneMore
<1>13. PICK abcd : abcd = abc \o d
  OBVIOUS
<1>14. ToSet(abcd) = ToSet(a) \union ToSet(b) \union ToSet(c) \union ToSet(d)
  BY <1>8, <1>9, <1>10, <1>11, <1>12, <1>13, Zenon
<1>15. IsSeq(abcd \o e) /\ Distinct(abcd \o e) /\ ToSet(abcd \o e) = ToSet(abcd) \union ToSet(e)
  <2>1. \A x \in ToSet(abcd) : x.section # ".linux.relocs"
    BY <1>4, <1>6, <1>14 DEF OwnNames
  <2> QED
    BY <1>3, <1>12, <1>13, <2>1, OneMore
<1>16. PICK abcde : abcde = abcd \o e
  OBVIOUS
<1>17. IsSeq(abcde \o f) /\ Distinct(abcde \o f) /\ ToSet(abcde \o f) = ToSet(abcde) \union ToSet(f)
  <2>1. CASE input.dtb_mode = "Attached"
    <3>1. f = <<>>
      BY <1>1, <2>1 DEF DtbAct
    <3>3. PICK T : T = ToSet(abcde) /\ abcde \in Seq(T)
      BY <1>15, <1>16 DEF IsSeq
    <3>4. abcde \o f = abcde
      BY <3>1, <3>3
    <3> QED
      BY <1>7, <1>15, <1>16, <2>1, <3>4
  <2>2. CASE input.dtb_mode # "Attached"
    <3>1. \A x \in ToSet(abcde) : x.section # ".tatu.dtb"
      BY <1>4, <1>6, <1>14, <1>15, <1>16, <2>2
    <3> QED
      BY <1>3, <1>15, <1>16, <3>1, OneMore
  <2> QED
    BY <2>1, <2>2
<1>18. PICK abcdef : abcdef = abcde \o f
  OBVIOUS
<1>19. ToSet(abcdef) = ToSet(a) \union ToSet(b) \union ToSet(c) \union ToSet(d) \union ToSet(e) \union ToSet(f)
  BY <1>14, <1>15, <1>16, <1>17, <1>18, Zenon
<1>20. IsSeq(abcdef \o g) /\ Distinct(abcdef \o g) /\ ToSet(abcdef \o g) = ToSet(abcdef) \union ToSet(g)
  <2>1. \A x \in ToSet(abcdef) : x.section # ".tatu.dtbo"
    BY <1>4, <1>6, <1>19
  <2> QED
    BY <1>3, <1>17, <1>18, <2>1, OneMore
<1>21. spec.actions = abcdef \o g
  BY <1>2, <1>9, <1>11, <1>13, <1>16, <1>18, Zenon
<1> QED
  BY <1>1, <1>19, <1>20, <1>21, Zenon

\* The one action on a section that an action names.
LEMMA ActionFound ==
  ASSUME IInv, Written, NEW a \in ToSet(spec.actions)
  PROVE  \E j \in DOMAIN spec.actions : ActionsOn(a.section) = {j} /\ spec.actions[j] = a
<1>1. PICK q : q = spec.actions
  OBVIOUS
<1>2. Distinct(q)
  BY <1>1, ActionsAre
<1>3. PICK j \in DOMAIN q : q[j] = a
  BY <1>1 DEF ToSet
<1>4. {i \in DOMAIN q : q[i].section = a.section} = {j}
  BY <1>2, <1>3 DEF Distinct
<1> QED
  BY <1>1, <1>3, <1>4, Zenon DEF ActionsOn

-----------------------------------------------------------------------------
(* The headers, the manifest and the boot information tell one story.      *)

\* What each of arma's own sections is.
LEMMA DtbFields ==
  /\ DtbSection.what = "dtb" /\ DtbSection.data = DtbSize(cmdline)
  /\ DtbSection.non_loaded = TRUE
<1>1. PICK s : s = DtbSection
  OBVIOUS
<1>2. s = [name |-> ".dtb", vaddr |-> 0, virtual_size |-> DtbSize(cmdline), what |-> "dtb",
           data |-> DtbSize(cmdline), kind |-> "initialized", non_loaded |-> TRUE]
  BY <1>1, Zenon DEF DtbSection, Section
<1>3. s.what = "dtb" /\ s.data = DtbSize(cmdline) /\ s.non_loaded = TRUE
  BY ONLY <1>2
<1> QED
  BY <1>1, <1>3, Zenon

\* The section of the manifest.
LEMMA ManifestFields ==
  /\ ManifestSection.what = "manifest"
  /\ ManifestSection.non_loaded = TRUE
<1>1. PICK s : s = ManifestSection
  OBVIOUS
<1>2. s = [name |-> ".pmi.vm", vaddr |-> 0, virtual_size |-> CBOR_SIZE, what |-> "manifest",
           data |-> CBOR_SIZE, kind |-> "initialized", non_loaded |-> TRUE]
  BY <1>1, Zenon DEF ManifestSection, Section
<1>3. s.what = "manifest" /\ s.non_loaded = TRUE
  BY ONLY <1>2
<1> QED
  BY <1>1, <1>3, Zenon

\* The section of the kernel.
LEMMA KernelFields ==
  ASSUME NEW g
  PROVE  /\ KernelSection(g).vaddr = g /\ KernelSection(g).virtual_size = KernelSize /\ KernelSection(g).what = "kernel"
         /\ KernelSection(g).non_loaded = FALSE
<1>1. PICK s : s = KernelSection(g)
  OBVIOUS
<1>2. s = [name |-> ".linux", vaddr |-> g, virtual_size |-> KernelSize, what |-> "kernel",
           data |-> input.kernel.file, kind |-> "initialized", non_loaded |-> FALSE]
  BY <1>1, Zenon DEF KernelSection, Section
<1>3. s.vaddr = g /\ s.virtual_size = KernelSize /\ s.what = "kernel" /\ s.non_loaded = FALSE
  BY ONLY <1>2
<1> QED
  BY <1>1, <1>3, Zenon

\* The section of the initrd.
LEMMA InitrdFields ==
  ASSUME NEW g, NEW n
  PROVE  /\ InitrdSection(g, n).vaddr = g /\ InitrdSection(g, n).virtual_size = AlignUp(n, LARGE) /\ InitrdSection(g, n).what = "initrd" /\ InitrdSection(g, n).data = n
         /\ InitrdSection(g, n).non_loaded = FALSE
<1>1. PICK s : s = InitrdSection(g, n)
  OBVIOUS
<1>2. s = [name |-> ".initrd", vaddr |-> g, virtual_size |-> AlignUp(n, LARGE), what |-> "initrd",
           data |-> n, kind |-> "initialized", non_loaded |-> FALSE]
  BY <1>1, Zenon DEF InitrdSection, Section
<1>3. s.vaddr = g /\ s.virtual_size = AlignUp(n, LARGE) /\ s.what = "initrd" /\ s.data = n /\ s.non_loaded = FALSE
  BY ONLY <1>2
<1> QED
  BY <1>1, <1>3, Zenon

\* The section of the bootconfig.
LEMMA BconfFields ==
  ASSUME NEW g
  PROVE  /\ BconfSection(g).vaddr = g /\ BconfSection(g).virtual_size = LARGE /\ BconfSection(g).what = "zero" /\ BconfSection(g).data = 0
         /\ BconfSection(g).non_loaded = FALSE
<1>1. PICK s : s = BconfSection(g)
  OBVIOUS
<1>2. s = [name |-> ".bconf", vaddr |-> g, virtual_size |-> LARGE, what |-> "zero",
           data |-> 0, kind |-> "uninitialized", non_loaded |-> FALSE]
  BY <1>1, Zenon DEF BconfSection, Section
<1>3. s.vaddr = g /\ s.virtual_size = LARGE /\ s.what = "zero" /\ s.data = 0 /\ s.non_loaded = FALSE
  BY ONLY <1>2
<1> QED
  BY <1>1, <1>3, Zenon

\* The section of the relocation table.
LEMMA RelocsFields ==
  ASSUME NEW g
  PROVE  /\ RelocsSection(g).vaddr = g /\ RelocsSection(g).what = "relocs" /\ RelocsSection(g).data = TableSize
         /\ RelocsSection(g).non_loaded = FALSE
<1>1. PICK s : s = RelocsSection(g)
  OBVIOUS
<1>2. s = [name |-> ".linux.relocs", vaddr |-> g, virtual_size |-> TableSize, what |-> "relocs",
           data |-> TableSize, kind |-> "initialized", non_loaded |-> FALSE]
  BY <1>1, Zenon DEF RelocsSection, Section
<1>3. s.vaddr = g /\ s.what = "relocs" /\ s.data = TableSize /\ s.non_loaded = FALSE
  BY ONLY <1>2
<1> QED
  BY <1>1, <1>3, Zenon

\* What an action says.
LEMMA ActFields ==
  ASSUME NEW op, NEW gpa, NEW name
  PROVE  Act(op, gpa, name).op = op /\ Act(op, gpa, name).gpa = gpa /\ Act(op, gpa, name).section = name
  BY DEF Act

\* What a section of each kind is.
LEMMA KindFields ==
  ASSUME IInv, Written, NEW s
  PROVE  /\ AsTatu(s) => \E n \in DOMAIN tatu :
              /\ s.name = tatu[n].name /\ s.vaddr = tatu[n].vaddr /\ s.non_loaded = FALSE
              /\ s.name = ".tatu.dtb" => IF input.dtb_mode = "Attached" THEN s.what = "dtb" /\ s.data = DtbSize(cmdline)
                                         ELSE s.what = "zero" /\ s.data = 0
              /\ s.name # ".tatu.dtb" => s.what \in {"bootinfo", "zero", "tatu"}
              /\ s.name = ".tatu.dtbo" => s.data = 0
         /\ AsDtb(s) => s.non_loaded = TRUE /\ s.what = "dtb" /\ s.data = DtbSize(cmdline)
         /\ AsKernel(s) => /\ s.vaddr = lay.linux.start /\ s.virtual_size = KernelSize /\ s.what = "kernel"
                           /\ s.non_loaded = FALSE
         /\ AsInitrd(s) => s.what = "initrd" /\ s.non_loaded = FALSE
         /\ AsBconf(s) => s.what = "zero" /\ s.data = 0 /\ s.non_loaded = FALSE
         /\ AsRelocs(s) => s.what = "relocs" /\ s.data = TableSize /\ s.non_loaded = FALSE
         /\ AsManifest(s) => s.what = "manifest" /\ s.non_loaded = TRUE
<1>1. ASSUME AsTatu(s)
      PROVE  \E n \in DOMAIN tatu :
              /\ s.name = tatu[n].name /\ s.vaddr = tatu[n].vaddr /\ s.non_loaded = FALSE
              /\ s.name = ".tatu.dtb" => IF input.dtb_mode = "Attached" THEN s.what = "dtb" /\ s.data = DtbSize(cmdline)
                                         ELSE s.what = "zero" /\ s.data = 0
              /\ s.name # ".tatu.dtb" => s.what \in {"bootinfo", "zero", "tatu"}
              /\ s.name = ".tatu.dtbo" => s.data = 0
  <2>1. PICK n \in DOMAIN tatu : s = TatuPe(tatu[n], DtbSize(cmdline), input.dtb_mode)
    BY <1>1 DEF AsTatu
  <2>2. PICK sh, size, mode : sh = tatu[n] /\ size = DtbSize(cmdline) /\ mode = input.dtb_mode
    OBVIOUS
  <2>3. s = TatuPe(sh, size, mode)
    BY <2>1, <2>2
  <2>4. /\ s.name = sh.name /\ s.vaddr = sh.vaddr /\ s.non_loaded = FALSE
        /\ sh.name = ".tatu.bootinfo" => s.what = "bootinfo" /\ s.data = BOOTINFO_SIZE
        /\ sh.name = ".tatu.dtb" =>
             IF mode = "Attached" THEN s.what = "dtb" /\ s.data = size ELSE s.what = "zero" /\ s.data = 0
        /\ sh.name \notin {".tatu.bootinfo", ".tatu.dtb"} =>
             IF sh.is_nobits THEN s.what = "zero" /\ s.data = 0 ELSE s.what = "tatu" /\ s.data = sh.data
    <3>1. PeOf(TatuPe(sh, size, mode), sh, size, mode)
      BY TatuPeFields
    <3>2. PeOf(s, sh, size, mode)
      BY <2>3, <3>1, Zenon
    <3> QED
      BY <3>2, Zenon DEF PeOf
  <2>5. sh.name = ".tatu.dtbo" => sh.is_nobits = TRUE
    BY <2>2, WrittenTatu, Zenon
  <2>6. s.name # ".tatu.dtb" => s.what \in {"bootinfo", "zero", "tatu"}
    BY <2>4, Zenon
  <2>7. s.name = ".tatu.dtbo" => s.data = 0
    <3>1. ".tatu.dtbo" \notin {".tatu.bootinfo", ".tatu.dtb"}
      OBVIOUS
    <3> QED
      BY <2>4, <2>5, <3>1, Zenon
  <2> QED
    BY <2>2, <2>4, <2>6, <2>7, Zenon
<1>2. AsDtb(s) => s.non_loaded = TRUE /\ s.what = "dtb" /\ s.data = DtbSize(cmdline)
  BY DtbFields, Zenon DEF AsDtb
<1>3. ASSUME AsKernel(s)
      PROVE  s.vaddr = lay.linux.start /\ s.virtual_size = KernelSize /\ s.what = "kernel" /\ s.non_loaded = FALSE
  <2>1. PICK g \in Boundary : lay.linux = Span(g, KernelSize) /\ s = KernelSection(g)
    BY <1>3 DEF AsKernel
  <2>2. lay.linux.start = g
    BY <2>1 DEF Span
  <2> QED
    BY <2>1, <2>2, KernelFields, Zenon
<1>4. ASSUME AsInitrd(s) PROVE s.what = "initrd" /\ s.non_loaded = FALSE
  <2>1. PICK n \in Nat, g \in Boundary : s = InitrdSection(g, n)
    BY <1>4, Zenon DEF AsInitrd
  <2>2. s = [name |-> ".initrd", vaddr |-> g, virtual_size |-> AlignUp(n, LARGE), what |-> "initrd",
             data |-> n, kind |-> "initialized", non_loaded |-> FALSE]
    BY <2>1, Zenon DEF InitrdSection, Section
  <2> QED
    BY ONLY <2>2
<1>5. AsBconf(s) => s.what = "zero" /\ s.data = 0 /\ s.non_loaded = FALSE
  BY BconfFields, Zenon DEF AsBconf
<1>6. AsRelocs(s) => s.what = "relocs" /\ s.data = TableSize /\ s.non_loaded = FALSE
  BY RelocsFields, Zenon DEF AsRelocs
<1>7. AsManifest(s) => s.what = "manifest" /\ s.non_loaded = TRUE
  BY ManifestFields, Zenon DEF AsManifest
<1> QED
  BY <1>1, <1>2, <1>3, <1>4, <1>5, <1>6, <1>7, Zenon

\* The one action of an option, and what it is on.
LEMMA ActOnOne ==
  ASSUME NEW op, NEW g, NEW size, NEW name
  PROVE  ToSet(ActOn(op, {Span(g, size)}, name)) = {Act(op, g, name)} /\ ToSet(ActOn(op, {}, name)) = {}
<1>1. PICK o : o = {Span(g, size)}
  OBVIOUS
<1>2. o # {} /\ Only(o) = Span(g, size)
  BY <1>1, OnlyOne
<1>3. Only(o).start = g
  BY <1>2 DEF Span
<1> QED
  BY <1>1, <1>2, <1>3, SmallSeqs, Zenon DEF ActOn

\* A header of a written image, and the section it is of.
LEMMA HeaderIs ==
  ASSUME IInv, Written, NEW k \in DOMAIN headers
  PROVE  /\ k \in DOMAIN sections /\ sections[k] \in ToSet(sections) /\ IsPe(sections[k])
         /\ headers[k].name = sections[k].name /\ headers[k].what = sections[k].what
         /\ headers[k].non_loaded = sections[k].non_loaded /\ headers[k].data = sections[k].data
         /\ headers[k].raw_size = RawSize(sections[k]) /\ headers[k].virtual_size = VirtualSize(sections[k])
         /\ headers[k].virtual_address = IF sections[k].non_loaded THEN 0 ELSE sections[k].vaddr
<1>1. HeaderOf(k) /\ k \in DOMAIN sections /\ IsPe(sections[k])
  BY WrittenFile
<1>2. sections[k] \in ToSet(sections)
  BY <1>1 DEF ToSet
<1>3. PICK h, s, p : h = headers[k] /\ s = sections[k] /\ p = headers[k].pointer
  OBVIOUS
<1>4. h = Header(s, p)
  BY <1>1, <1>3, Zenon DEF HeaderOf
<1>5. /\ h.name = s.name /\ h.what = s.what /\ h.non_loaded = s.non_loaded
      /\ h.raw_size = RawSize(s) /\ h.data = s.data /\ h.virtual_size = VirtualSize(s)
      /\ h.virtual_address = IF s.non_loaded THEN 0 ELSE s.vaddr
  BY <1>4, HeaderFields
<1> QED
  BY <1>1, <1>2, <1>3, <1>5, Zenon

\* An action that agrees with a section.
ActsOn(a, s) ==
  /\ a.section = s.name /\ a.gpa = s.vaddr
  /\ a.op = "fill" => s.data = 0
  /\ s.name \in {".bconf", ".tatu.dtbo"} => a.op = "fill"

\* build_actions() has an action on each section of tatu.
LEMMA TatuHasAction ==
  ASSUME IInv, Written, NEW s \in ToSet(sections), AsTatu(s)
  PROVE  \E a \in ToSet(spec.actions) : ActsOn(a, s)
<1>1. PICK n \in DOMAIN tatu :
              /\ s.name = tatu[n].name /\ s.vaddr = tatu[n].vaddr /\ s.non_loaded = FALSE
              /\ s.name = ".tatu.dtb" => IF input.dtb_mode = "Attached" THEN s.what = "dtb" /\ s.data = DtbSize(cmdline)
                                         ELSE s.what = "zero" /\ s.data = 0
              /\ s.name # ".tatu.dtb" => s.what \in {"bootinfo", "zero", "tatu"}
              /\ s.name = ".tatu.dtbo" => s.data = 0
  BY KindFields, Zenon
<1>2. s.name # ".bconf"
  BY KindByName DEF OwnNames
<1>3. PICK name, g : name = s.name /\ g = s.vaddr
  OBVIOUS
<1>4. CASE LoadsTatu(tatu[n], input.dtb_mode)
  <2>1. PICK a : a = Act("load", g, name)
    OBVIOUS
  <2>2. a \in ToSet(LoadsPart)
    BY <1>1, <1>3, <1>4, <2>1, LoadsPartIs, Zenon
  <2>3. a \in ToSet(spec.actions)
    BY <2>2, ActionsAre, Zenon
  <2>4. a.op = "load" /\ a.gpa = g /\ a.section = name
    BY <2>1, ActFields
  <2>5. name # ".tatu.dtbo"
    BY <1>1, <1>3, <1>4 DEF LoadsTatu
  <2>6. ActsOn(a, s)
    BY <1>2, <1>3, <2>4, <2>5 DEF ActsOn
  <2> QED
    BY <2>3, <2>6
<1>5. CASE ~LoadsTatu(tatu[n], input.dtb_mode)
  <2>1. name = ".tatu.dtbo" \/ (name = ".tatu.dtb" /\ input.dtb_mode # "Attached")
    BY <1>1, <1>3, <1>5, Zenon DEF LoadsTatu
  <2>2. section(tatu, name).vaddr = g
    <3>1. tatu[n].name \in {".tatu.dtb", ".tatu.dtbo"}
      BY <1>1, <1>3, <2>1, Zenon
    <3>2. section(tatu, tatu[n].name) = tatu[n]
      BY <3>1, WrittenTatu, Zenon
    <3> QED
      BY <1>1, <1>3, <3>2, Zenon
  <2>3. PICK a : a = Act("fill", g, name)
    OBVIOUS
  <2>4. a \in ToSet(DtbAct) \union ToSet(DtboAct)
    <3>1. ToSet(<<a>>) = {a}
      BY SmallSeqs, Zenon
    <3>2. name = ".tatu.dtbo" => DtboAct = <<a>>
      BY <2>2, <2>3, Zenon DEF DtboAct
    <3>3. name = ".tatu.dtb" /\ input.dtb_mode # "Attached" => DtbAct = <<a>>
      BY <2>2, <2>3, Zenon DEF DtbAct
    <3> QED
      BY <2>1, <3>1, <3>2, <3>3, Zenon
  <2>5. a \in ToSet(spec.actions)
    BY <2>4, ActionsAre, Zenon
  <2>6. a.op = "fill" /\ a.gpa = g /\ a.section = name
    BY <2>3, ActFields
  <2>7. s.data = 0
    BY <1>1, <1>3, <2>1, Zenon
  <2>8. ActsOn(a, s)
    BY <1>3, <2>6, <2>7 DEF ActsOn
  <2> QED
    BY <2>5, <2>8
<1> QED
  BY <1>4, <1>5

\* build_actions() has an action on each section that is loaded.
LEMMA SectionHasAction ==
  ASSUME IInv, Written, NEW s \in ToSet(sections), ~s.non_loaded
  PROVE  \E a \in ToSet(spec.actions) : ActsOn(a, s)
<1>1. AsTatu(s) \/ AsKernel(s) \/ AsInitrd(s) \/ AsBconf(s) \/ AsRelocs(s)
  <2>1. ~AsDtb(s) /\ ~AsManifest(s)
    BY KindFields, Zenon
  <2> QED
    BY <2>1, SectionKinds, Zenon
<1>2. ASSUME NEW g, NEW name, name \notin {".bconf", ".tatu.dtbo"}, s.name = name, s.vaddr = g,
             Act("load", g, name) \in ToSet(spec.actions)
      PROVE  \E a \in ToSet(spec.actions) : ActsOn(a, s)
  <2>1. PICK a \in ToSet(spec.actions) : a = Act("load", g, name)
    BY <1>2
  <2>2. a.op = "load" /\ a.gpa = g /\ a.section = name
    BY <2>1, ActFields
  <2>3. ActsOn(a, s)
    BY <1>2, <2>2 DEF ActsOn
  <2> QED
    BY <2>1, <2>3
<1>3. CASE AsTatu(s)
  BY <1>3, TatuHasAction
<1>4. CASE AsKernel(s)
  <2>1. s.name = ".linux" /\ s.vaddr = lay.linux.start
    BY <1>4, KindFields, KindByName, Zenon
  <2>2. PICK g : g = lay.linux.start
    OBVIOUS
  <2>3. Act("load", g, ".linux") \in ToSet(KernelAct)
    BY <2>2, SmallSeqs, Zenon DEF KernelAct
  <2>4. Act("load", g, ".linux") \in ToSet(spec.actions)
    BY <2>3, ActionsAre, Zenon
  <2>5. ".linux" \notin {".bconf", ".tatu.dtbo"}
    OBVIOUS
  <2> QED
    BY <1>2, <2>1, <2>2, <2>4, <2>5, Zenon
<1>5. CASE AsInitrd(s)
  <2>1. s.name = ".initrd"
    BY <1>5, KindByName, Zenon
  <2>2. PICK n \in Nat, g \in Boundary : lay.initrd = {Span(g, AlignUp(n, LARGE))} /\ s = InitrdSection(g, n)
    BY <1>5, Zenon DEF AsInitrd
  <2>3. s.vaddr = g
    <3>1. InitrdSection(g, n).vaddr = g
      BY InitrdFields
    <3> QED
      BY <2>2, <3>1, Zenon
  <2>4. Act("load", g, ".initrd") \in ToSet(InitrdAct)
    <3>1. PICK size : size = AlignUp(n, LARGE)
      OBVIOUS
    <3>2. /\ ToSet(ActOn("load", {Span(g, size)}, ".initrd")) = {Act("load", g, ".initrd")}
          /\ ToSet(ActOn("load", {}, ".initrd")) = {}
      BY ActOnOne
    <3> QED
      BY <2>2, <3>1, <3>2, Zenon DEF InitrdAct
  <2>5. Act("load", g, ".initrd") \in ToSet(spec.actions)
    BY <2>4, ActionsAre, Zenon
  <2>6. ".initrd" \notin {".bconf", ".tatu.dtbo"}
    OBVIOUS
  <2> QED
    BY <1>2, <2>1, <2>3, <2>5, <2>6, Zenon
<1>6. CASE AsRelocs(s)
  <2>1. s.name = ".linux.relocs"
    BY <1>6, KindByName, Zenon
  <2>2. PICK g \in Boundary : lay.relocs = {Span(g, TableSize)} /\ s = RelocsSection(g)
    BY <1>6, Zenon DEF AsRelocs
  <2>3. s.vaddr = g
    BY <2>2, RelocsFields, Zenon
  <2>4. Act("load", g, ".linux.relocs") \in ToSet(RelocsAct)
    <3>1. PICK size : size = TableSize
      OBVIOUS
    <3>2. /\ ToSet(ActOn("load", {Span(g, size)}, ".linux.relocs")) = {Act("load", g, ".linux.relocs")}
          /\ ToSet(ActOn("load", {}, ".linux.relocs")) = {}
      BY ActOnOne
    <3> QED
      BY <2>2, <3>1, <3>2, Zenon DEF RelocsAct
  <2>5. Act("load", g, ".linux.relocs") \in ToSet(spec.actions)
    BY <2>4, ActionsAre, Zenon
  <2>6. ".linux.relocs" \notin {".bconf", ".tatu.dtbo"}
    OBVIOUS
  <2> QED
    BY <1>2, <2>1, <2>3, <2>5, <2>6, Zenon
<1>7. CASE AsBconf(s)
  <2>1. s.name = ".bconf" /\ s.data = 0
    BY <1>7, KindByName, KindFields, Zenon
  <2>2. PICK h : lay.bootconfig = {Span(h, LARGE)} /\ s = BconfSection(h)
    BY <1>7, Zenon DEF AsBconf
  <2>3. s.vaddr = h
    BY <2>2, BconfFields, Zenon
  <2>4. PICK a : a = Act("fill", h, ".bconf")
    OBVIOUS
  <2>5. a \in ToSet(BconfAct)
    <3>1. /\ ToSet(ActOn("fill", {Span(h, LARGE)}, ".bconf")) = {Act("fill", h, ".bconf")}
          /\ ToSet(ActOn("fill", {}, ".bconf")) = {}
      BY ActOnOne
    <3> QED
      BY <2>2, <2>4, <3>1, Zenon DEF BconfAct
  <2>6. a \in ToSet(spec.actions)
    BY <2>5, ActionsAre, Zenon
  <2>7. a.op = "fill" /\ a.gpa = h /\ a.section = ".bconf"
    BY <2>4, ActFields
  <2>8. ActsOn(a, s)
    BY <2>1, <2>3, <2>7 DEF ActsOn
  <2> QED
    BY <2>6, <2>8
<1> QED
  BY <1>1, <1>3, <1>4, <1>5, <1>6, <1>7

\* build_actions() names no section that is not loaded.
LEMMA ActionHasSection ==
  ASSUME IInv, Written, NEW a \in ToSet(spec.actions)
  PROVE  \E s \in ToSet(sections) : s.name = a.section /\ s.non_loaded = FALSE
<1>0. KernelPlaced /\ InitrdPlaced /\ RelocsPlaced
  BY DEF Written, WithSections, WithDtb, WithLayout, IInv, LayInv
<1>1. ASSUME NEW n \in DOMAIN tatu, a.section = tatu[n].name
      PROVE  \E s \in ToSet(sections) : s.name = a.section /\ s.non_loaded = FALSE
  <2>1. PICK s : s = TatuPe(tatu[n], DtbSize(cmdline), input.dtb_mode)
    OBVIOUS
  <2>2. s \in ToSet(sections)
    BY <2>1, SectionKinds, Zenon DEF AsTatu
  <2>3. PICK sh, size, mode : sh = tatu[n] /\ size = DtbSize(cmdline) /\ mode = input.dtb_mode
    OBVIOUS
  <2>4. PeOf(TatuPe(sh, size, mode), sh, size, mode)
    BY TatuPeFields
  <2>5. PeOf(s, sh, size, mode)
    BY <2>1, <2>3, <2>4, Zenon
  <2>6. s.name = sh.name /\ s.non_loaded = FALSE
    BY <2>5, Zenon DEF PeOf
  <2> QED
    BY <1>1, <2>2, <2>3, <2>6, Zenon
<1>2. CASE a \in ToSet(LoadsPart)
  <2>1. PICK n \in DOMAIN tatu : a = Act("load", tatu[n].vaddr, tatu[n].name)
    BY <1>2, LoadsPartIs, Zenon
  <2>2. a.section = tatu[n].name
    BY <2>1 DEF Act
  <2> QED
    BY <1>1, <2>2
<1>3. CASE a \in ToSet(KernelAct)
  <2>1. a.section = ".linux"
    BY <1>3, OtherActs, Zenon DEF OnlyOn
  <2>2. PICK s : AsKernel(s)
    BY <1>0, Zenon DEF KernelPlaced, AsKernel
  <2>3. s \in ToSet(sections)
    BY <2>2, SectionKinds, Zenon
  <2> QED
    BY <2>1, <2>2, <2>3, KindFields, KindByName, Zenon
<1>4. CASE a \in ToSet(InitrdAct)
  <2>1. a.section = ".initrd"
    BY <1>4, OtherActs, Zenon DEF OnlyOn
  <2>2. lay.initrd # {}
    BY <1>4, SmallSeqs, Zenon DEF InitrdAct, ActOn
  <2>3. PICK s : AsInitrd(s)
    BY <1>0, <2>2, Zenon DEF InitrdPlaced, AsInitrd
  <2>4. s \in ToSet(sections)
    BY <2>3, SectionKinds, Zenon
  <2> QED
    BY <2>1, <2>3, <2>4, KindFields, KindByName, Zenon
<1>5. CASE a \in ToSet(BconfAct)
  <2>1. a.section = ".bconf"
    BY <1>5, OtherActs, Zenon DEF OnlyOn
  <2>2. lay.bootconfig # {}
    BY <1>5, SmallSeqs, Zenon DEF BconfAct, ActOn
  <2>3. PICK s : AsBconf(s)
    BY <1>0, <2>2, Zenon DEF InitrdPlaced, AsBconf
  <2>4. s \in ToSet(sections)
    BY <2>3, SectionKinds, Zenon
  <2> QED
    BY <2>1, <2>3, <2>4, KindFields, KindByName, Zenon
<1>6. CASE a \in ToSet(RelocsAct)
  <2>1. a.section = ".linux.relocs"
    BY <1>6, OtherActs, Zenon DEF OnlyOn
  <2>2. lay.relocs # {}
    BY <1>6, SmallSeqs, Zenon DEF RelocsAct, ActOn
  <2>3. PICK s : AsRelocs(s)
    BY <1>0, <2>2, Zenon DEF RelocsPlaced, AsRelocs
  <2>4. s \in ToSet(sections)
    BY <2>3, SectionKinds, Zenon
  <2> QED
    BY <2>1, <2>3, <2>4, KindFields, KindByName, Zenon
<1>7. CASE a \in ToSet(DtbAct) \union ToSet(DtboAct)
  <2>1. a.section \in {".tatu.dtb", ".tatu.dtbo"}
    BY <1>7, OtherActs, Zenon DEF OnlyOn
  <2>2. PICK n \in DOMAIN tatu : tatu[n].name = a.section
    BY <2>1, WrittenTatu
  <2> QED
    BY <1>1, <2>2
<1> QED
  BY <1>2, <1>3, <1>4, <1>5, <1>6, <1>7, ActionsAre, Zenon

\* The VMM: every section of guest memory has one action, at its own address.
LEMMA ActionsAgree ==
  ASSUME IInv, Written
  PROVE  /\ \A k \in Loaded :
              \E j \in DOMAIN spec.actions :
                /\ ActionsOn(headers[k].name) = {j}
                /\ spec.actions[j].gpa = headers[k].virtual_address
                /\ spec.actions[j].op = "fill" => headers[k].raw_size = 0
                /\ headers[k].name \in {".bconf", ".tatu.dtbo"} => spec.actions[j].op = "fill"
         /\ \A j \in DOMAIN spec.actions : Named(spec.actions[j].section) \intersect Loaded # {}
<1>1. ASSUME NEW k \in Loaded
      PROVE  \E j \in DOMAIN spec.actions :
                /\ ActionsOn(headers[k].name) = {j}
                /\ spec.actions[j].gpa = headers[k].virtual_address
                /\ spec.actions[j].op = "fill" => headers[k].raw_size = 0
                /\ headers[k].name \in {".bconf", ".tatu.dtbo"} => spec.actions[j].op = "fill"
  <2>1. k \in DOMAIN headers /\ ~headers[k].non_loaded
    BY DEF Loaded
  <2>2. PICK s, h : s = sections[k] /\ h = headers[k]
    OBVIOUS
  <2>3. /\ s \in ToSet(sections) /\ IsPe(s) /\ h.name = s.name /\ ~s.non_loaded
        /\ h.raw_size = RawSize(s) /\ h.virtual_address = s.vaddr
    BY <2>1, <2>2, HeaderIs, Zenon
  <2>4. PICK a \in ToSet(spec.actions) : ActsOn(a, s)
    BY <2>3, SectionHasAction
  <2>5. PICK j \in DOMAIN spec.actions : ActionsOn(a.section) = {j} /\ spec.actions[j] = a
    BY ActionFound
  <2>6. s.data = 0 => h.raw_size = 0
    <3>1. PICK z : z \in Nat
      OBVIOUS
    <3> QED
      BY <2>3, <3>1, RawFacts DEF is_zero_shape
  <2>7. /\ a.section = s.name /\ a.gpa = s.vaddr /\ (a.op = "fill" => s.data = 0)
        /\ s.name \in {".bconf", ".tatu.dtbo"} => a.op = "fill"
    BY <2>4, Zenon DEF ActsOn
  <2> QED
    BY <2>2, <2>3, <2>5, <2>6, <2>7, Zenon
<1>2. ASSUME NEW j \in DOMAIN spec.actions
      PROVE  Named(spec.actions[j].section) \intersect Loaded # {}
  <2>1. PICK a \in ToSet(spec.actions) : a = spec.actions[j]
    BY DEF ToSet
  <2>2. PICK s \in ToSet(sections) : s.name = a.section /\ s.non_loaded = FALSE
    BY ActionHasSection
  <2>3. PICK k \in DOMAIN sections : s = sections[k]
    BY DEF ToSet
  <2>4. k \in DOMAIN headers
    BY WrittenFile
  <2>5. headers[k].name = a.section /\ headers[k].non_loaded = FALSE
    BY <2>2, <2>3, <2>4, HeaderIs, Zenon
  <2>6. k \in Named(a.section) /\ k \in Loaded
    BY <2>4, <2>5, Zenon DEF Named, Loaded
  <2> QED
    BY <2>1, <2>6, Zenon
<1> QED
  BY <1>1, <1>2, Zenon

\* The manifest: the section it names is the base DTB, whole, and the only one.
LEMMA DtbAgrees ==
  ASSUME IInv, Written
  PROVE  /\ \A n \in spec.dt_dtb : \E k \in Named(n) : headers[k].what = "dtb" /\ headers[k].data = bi.sizes.base_dtb_size
         /\ \A k \in DOMAIN headers : headers[k].what = "dtb" => headers[k].name \in spec.dt_dtb
<1>1. PICK mode : mode = input.dtb_mode
  OBVIOUS
<1>2. /\ mode \in {"Attached", "Detached", "Optional"}
      /\ spec.dt_dtb = attribute(mode)
  BY <1>1, BuildAssumption DEF IInv, BoardInv, SpecInv, Written, WithSections, build_pmi_vm
<1>3. bi.sizes.base_dtb_size = DtbSize(cmdline)
  <2>1. PICK kernel, size, room : /\ kernel = input.kernel /\ size = DtbSize(cmdline)
                                  /\ room = section(tatu, ".tatu.dtbo").virtual_size
    OBVIOUS
  <2>2. bi.sizes = Sizes(kernel, size, room)
    BY <2>1, SizesHold, Zenon DEF NothingIsTruncated
  <2> QED
    BY <2>1, <2>2 DEF Sizes
<1>4. ASSUME NEW name, NEW s, s.name = name, s.what = "dtb", s.data = DtbSize(cmdline), s \in ToSet(sections)
      PROVE  \E k \in Named(name) : headers[k].what = "dtb" /\ headers[k].data = bi.sizes.base_dtb_size
  <2>1. PICK k \in DOMAIN sections : s = sections[k]
    BY <1>4 DEF ToSet
  <2>2. k \in DOMAIN headers
    BY WrittenFile
  <2>3. headers[k].name = name /\ headers[k].what = "dtb" /\ headers[k].data = DtbSize(cmdline)
    BY <1>4, <2>1, <2>2, HeaderIs, Zenon
  <2> QED
    BY <1>3, <2>2, <2>3, Zenon DEF Named
<1>5. \A s \in ToSet(sections) :
        s.what = "dtb" <=> AsDtb(s) \/ (AsTatu(s) /\ s.name = ".tatu.dtb" /\ mode = "Attached")
  <2> SUFFICES ASSUME NEW s \in ToSet(sections)
               PROVE  s.what = "dtb" <=> AsDtb(s) \/ (AsTatu(s) /\ s.name = ".tatu.dtb" /\ mode = "Attached")
    OBVIOUS
  <2>1. AsDtb(s) => s.what = "dtb"
    BY KindFields, Zenon
  <2>2. AsKernel(s) => s.what = "kernel"
    BY KindFields, Zenon
  <2>3. AsInitrd(s) => s.what = "initrd"
    BY KindFields, Zenon
  <2>4. AsBconf(s) => s.what = "zero"
    BY KindFields, Zenon
  <2>5. AsRelocs(s) => s.what = "relocs"
    BY KindFields, Zenon
  <2>6. AsManifest(s) => s.what = "manifest"
    BY KindFields, Zenon
  <2>7. AsTatu(s) => IF s.name = ".tatu.dtb" THEN s.what = IF mode = "Attached" THEN "dtb" ELSE "zero"
                     ELSE s.what \in {"bootinfo", "zero", "tatu"}
    BY <1>1, KindFields, Zenon
  <2>8. AsTatu(s) \/ AsDtb(s) \/ AsKernel(s) \/ AsInitrd(s) \/ AsBconf(s) \/ AsRelocs(s) \/ AsManifest(s)
    BY SectionKinds
  <2> QED
    BY <2>1, <2>2, <2>3, <2>4, <2>5, <2>6, <2>7, <2>8
<1>6. ASSUME NEW n \in spec.dt_dtb
      PROVE  \E k \in Named(n) : headers[k].what = "dtb" /\ headers[k].data = bi.sizes.base_dtb_size
  <2>1. (mode = "Attached" /\ n = ".tatu.dtb") \/ (mode = "Optional" /\ n = ".dtb")
    BY <1>2, <1>6 DEF attribute
  <2>2. CASE mode = "Optional" /\ n = ".dtb"
    <3>1. PICK s : AsDtb(s)
      BY <1>1, <2>2 DEF AsDtb
    <3>2. s \in ToSet(sections)
      BY <3>1, SectionKinds, Zenon
    <3>3. s.name = ".dtb" /\ s.what = "dtb" /\ s.data = DtbSize(cmdline)
      BY <3>1, <3>2, KindFields, KindByName, Zenon
    <3> QED
      BY <1>4, <2>2, <3>2, <3>3, Zenon
  <2>3. CASE mode = "Attached" /\ n = ".tatu.dtb"
    <3>1. PICK m \in DOMAIN tatu : tatu[m].name = ".tatu.dtb"
      BY WrittenTatu, Zenon
    <3>2. PICK sh, size : sh = tatu[m] /\ size = DtbSize(cmdline)
      OBVIOUS
    <3>3. PICK s : s = TatuPe(sh, size, mode)
      OBVIOUS
    <3>4. s \in ToSet(sections)
      BY <1>1, <3>2, <3>3, SectionKinds, Zenon DEF AsTatu
    <3>5. PeOf(TatuPe(sh, size, mode), sh, size, mode)
      BY TatuPeFields
    <3>6. PeOf(s, sh, size, mode)
      BY <3>3, <3>5, Zenon
    <3>7. s.name = ".tatu.dtb" /\ s.what = "dtb" /\ s.data = size
      BY <2>3, <3>1, <3>2, <3>6, Zenon DEF PeOf
    <3> QED
      BY <1>4, <2>3, <3>2, <3>4, <3>7, Zenon
  <2> QED
    BY <2>1, <2>2, <2>3
<1>7. ASSUME NEW k \in DOMAIN headers, headers[k].what = "dtb"
      PROVE  headers[k].name \in spec.dt_dtb
  <2>1. PICK s \in ToSet(sections) : s = sections[k] /\ s.what = "dtb" /\ headers[k].name = s.name
    BY <1>7, HeaderIs, Zenon
  <2>2. AsDtb(s) => s.name = ".dtb" /\ mode = "Optional"
    BY <1>1, KindByName, Zenon DEF AsDtb
  <2>3. (s.name = ".dtb" /\ mode = "Optional") \/ (s.name = ".tatu.dtb" /\ mode = "Attached")
    BY <1>5, <2>1, <2>2, Zenon
  <2> QED
    BY <1>2, <2>1, <2>3 DEF attribute
<1> QED
  BY <1>6, <1>7, Zenon

\* tatu: the boot information points at the kernel, into it, and at the whole
\* relocation table.
LEMMA KernelAgrees ==
  ASSUME IInv, Written, NEW k \in Loaded
  PROVE  /\ headers[k].what = "kernel" =>
              headers[k].virtual_address = bi.kernel_gpa /\ bi.kernel_entry_gpa \in GuestRange(k)
         /\ headers[k].what = "relocs" =>
              /\ headers[k].virtual_address = bi.relocs_gpa
              /\ headers[k].data = 4 * (bi.sizes.relocs64_count + bi.sizes.relocs32neg_count + bi.sizes.relocs32_count)
<1>0. BoardInv /\ LayInv
  BY DEF IInv
<1>1. PICK s, h : s = sections[k] /\ h = headers[k]
  OBVIOUS
<1>2. /\ s \in ToSet(sections) /\ IsPe(s) /\ h.name = s.name /\ h.what = s.what /\ ~s.non_loaded
      /\ h.virtual_size = VirtualSize(s) /\ h.virtual_address = s.vaddr /\ h.data = s.data
  BY <1>1, HeaderIs, Zenon DEF Loaded
<1>3. PICK kernel, l, t, size : kernel = input.kernel /\ l = lay /\ t = tatu /\ size = DtbSize(cmdline)
  OBVIOUS
<1>4. /\ bi.kernel_gpa = l.linux.start /\ bi.kernel_entry_gpa = l.linux.start + kernel.entry_offset
      /\ bi.relocs_gpa = StartOr0(l.relocs)
  <2>1. bi = TatuBootInfo(t, kernel, l, size)
    BY <1>3 DEF IInv, DtbInv, Written, WithDtb, WithSections
  <2> QED
    BY <2>1 DEF TatuBootInfo
<1>5. s.what = "kernel" => AsKernel(s)
  <2>2. AsDtb(s) => s.what = "dtb"
    BY KindFields, Zenon
  <2>3. AsInitrd(s) => s.what = "initrd"
    BY KindFields, Zenon
  <2>4. AsBconf(s) => s.what = "zero"
    BY KindFields, Zenon
  <2>5. AsRelocs(s) => s.what = "relocs"
    BY KindFields, Zenon
  <2>6. AsManifest(s) => s.what = "manifest"
    BY KindFields, Zenon
  <2>7. AsTatu(s) => s.what \in {"dtb", "zero", "bootinfo", "tatu"}
    BY KindFields, Zenon
  <2> QED
    BY <1>2, <2>2, <2>3, <2>4, <2>5, <2>6, <2>7, SectionKinds
<1>6. s.what = "relocs" => AsRelocs(s)
  <2>2. AsDtb(s) => s.what = "dtb"
    BY KindFields, Zenon
  <2>3. AsInitrd(s) => s.what = "initrd"
    BY KindFields, Zenon
  <2>4. AsBconf(s) => s.what = "zero"
    BY KindFields, Zenon
  <2>5. AsKernel(s) => s.what = "kernel"
    BY KindFields, Zenon
  <2>6. AsManifest(s) => s.what = "manifest"
    BY KindFields, Zenon
  <2>7. AsTatu(s) => s.what \in {"dtb", "zero", "bootinfo", "tatu"}
    BY KindFields, Zenon
  <2> QED
    BY <1>2, <2>2, <2>3, <2>4, <2>5, <2>6, <2>7, SectionKinds
<1>7. ASSUME s.what = "kernel"
      PROVE  h.virtual_address = bi.kernel_gpa /\ bi.kernel_entry_gpa \in GuestRange(k)
  <2>1. s.vaddr = l.linux.start /\ s.virtual_size = KernelSize
    BY <1>3, <1>5, <1>7, KindFields, Zenon
  <2>2. PICK g, e, v, n : g = s.vaddr /\ e = kernel.entry_offset /\ v = h.virtual_size /\ n = KernelSize
    OBVIOUS
  <2>3. g \in Nat /\ n \in Nat /\ e \in Nat /\ e < n
    BY <1>0, <1>2, <1>3, <2>2, KernelSizes, BuildAssumption DEF IsPe, BoardInv, KernelSize
  <2>4. v \in Nat /\ n <= v
    <3>1. PICK z, r : z \in Nat /\ r = RawSize(s)
      OBVIOUS
    <3>2. r \in Nat
      BY <1>2, <3>1, RawFacts
    <3> QED
      BY <1>2, <2>1, <2>2, <2>3, <3>1, <3>2 DEF VirtualSize, Larger
  <2>5. g + e \in g..(g + v - 1)
    BY <2>3, <2>4
  <2>6. bi.kernel_gpa = g /\ bi.kernel_entry_gpa = g + e /\ GuestRange(k) = g..(g + v - 1)
    BY <1>1, <1>2, <1>4, <2>1, <2>2, Zenon DEF GuestRange
  <2> QED
    BY <1>2, <2>2, <2>5, <2>6, Zenon
<1>8. ASSUME s.what = "relocs"
      PROVE  /\ h.virtual_address = bi.relocs_gpa
             /\ h.data = 4 * (bi.sizes.relocs64_count + bi.sizes.relocs32neg_count + bi.sizes.relocs32_count)
  <2>1. s.data = TableSize
    BY <1>6, <1>8, KindFields, Zenon
  <2>2. PICK g \in Boundary : l.relocs = {Span(g, TableSize)} /\ s = RelocsSection(g)
    BY <1>3, <1>6, <1>8, Zenon DEF AsRelocs
  <2>3. StartOr0(l.relocs) = g
    <3>1. PICK o : o = l.relocs
      OBVIOUS
    <3>2. o # {} /\ Only(o) = Span(g, TableSize)
      BY <2>2, <3>1, OnlyOne
    <3>3. Only(o).start = g
      BY <3>2 DEF Span
    <3> QED
      BY <3>1, <3>2, <3>3, Zenon DEF StartOr0
  <2>4. s.vaddr = g
    BY <2>2, RelocsFields, Zenon
  <2>5. PICK room : room = section(tatu, ".tatu.dtbo").virtual_size
    OBVIOUS
  <2>6. bi.sizes = Sizes(kernel, size, room)
    BY <1>3, <2>5, SizesHold, Zenon DEF NothingIsTruncated
  <2>7. /\ bi.sizes.relocs64_count = kernel.relocs[1] /\ bi.sizes.relocs32neg_count = kernel.relocs[2]
        /\ bi.sizes.relocs32_count = kernel.relocs[3]
    BY <2>6 DEF Sizes
  <2>8. TableSize = 4 * (kernel.relocs[1] + kernel.relocs[2] + kernel.relocs[3])
    BY <1>3 DEF TableSize, relocs_bytes
  <2> QED
    BY <1>2, <1>4, <2>1, <2>3, <2>4, <2>7, <2>8, Zenon
<1> QED
  BY <1>1, <1>2, <1>7, <1>8, Zenon

\* What is padded to a larger page covers what is padded to a smaller one.
LEMMA AlignUpNested ==
  ASSUME NEW n \in Nat, NEW a \in Nat \ {0}, NEW b \in Nat \ {0}, b % a = 0
  PROVE  AlignUp(n, a) <= AlignUp(n, b)
<1>1. PICK x, y : x = AlignUp(n, a) /\ y = AlignUp(n, b)
  OBVIOUS
<1>2. x \in Nat /\ x < n + a /\ x % a = 0
  BY <1>1, AlignUpFacts
<1>3. y \in Nat /\ n <= y /\ y % b = 0
  BY <1>1, AlignUpFacts
<1>4. PICK i \in Nat : x = a * i
  <2>1. x = a * (x \div a) + (x % a) /\ x \div a \in Nat
    BY <1>2
  <2>2. PICK q \in Nat : q = x \div a
    BY <2>1
  <2>3. x = a * q
    BY <1>2, <2>1, <2>2
  <2> QED
    BY <2>3
<1>5. PICK j \in Nat : y = b * j
  <2>1. y = b * (y \div b) + (y % b) /\ y \div b \in Nat
    BY <1>3
  <2> QED
    BY <1>3, <2>1
<1>6. PICK c \in Nat : b = a * c
  <2>1. b = a * (b \div a) + (b % a) /\ b \div a \in Nat
    OBVIOUS
  <2> QED
    BY <2>1
<1>7. PICK k \in Nat : k = c * j /\ y = a * k
  <2>1. c * j \in Nat /\ (a * c) * j = a * (c * j)
    OBVIOUS
  <2> QED
    BY <1>5, <1>6, <2>1
<1>8. a * i < a * k + a
  BY <1>2, <1>3, <1>4, <1>7
<1>9. a * k + a = a * (k + 1)
  OBVIOUS
<1>10. i <= k
  <2> SUFFICES ASSUME i >= k + 1 PROVE FALSE
    OBVIOUS
  <2>1. PICK d \in Nat : i = (k + 1) + d
    <3>1. i - (k + 1) \in Nat /\ i = (k + 1) + (i - (k + 1))
      OBVIOUS
    <3> QED
      BY <3>1
  <2>2. a * i = a * (k + 1) + a * d /\ a * d \in Nat /\ a * (k + 1) \in Nat
    BY <2>1
  <2> QED
    BY <1>8, <1>9, <2>2
<1>11. a * i <= a * k
  <2>1. PICK d \in Nat : k = i + d
    <3>1. k - i \in Nat /\ k = i + (k - i)
      BY <1>10
    <3> QED
      BY <3>1
  <2>2. a * k = a * i + a * d /\ a * d \in Nat /\ a * i \in Nat
    BY <2>1
  <2> QED
    BY <2>2
<1> QED
  BY <1>1, <1>4, <1>7, <1>11

\* The guest memory of the .initrd section is the padded archive, no more.
LEMMA InitrdRange ==
  ASSUME IInv, Written, NEW n \in Nat, NEW g \in Boundary, NEW k \in DOMAIN headers,
         sections[k] = InitrdSection(g, n)
  PROVE  GuestRange(k) = g..(g + AlignUp(n, LARGE) - 1)
<1>1. PICK s, h : s = sections[k] /\ h = headers[k]
  OBVIOUS
<1>2. s = [name |-> ".initrd", vaddr |-> g, virtual_size |-> AlignUp(n, LARGE), what |-> "initrd",
           data |-> n, kind |-> "initialized", non_loaded |-> FALSE]
  BY <1>1, Zenon DEF InitrdSection, Section
<1>3. s.vaddr = g /\ s.virtual_size = AlignUp(n, LARGE) /\ s.data = n /\ s.non_loaded = FALSE
  BY ONLY <1>2
<1>4. h.virtual_address = g /\ h.virtual_size = VirtualSize(s)
  BY <1>1, <1>3, HeaderIs, Zenon
<1>5. VirtualSize(s) = AlignUp(n, LARGE)
  <2>1. PICK x, y : x = AlignUp(n, LARGE) /\ y = AlignUp(n, FILE_ALIGNMENT)
    OBVIOUS
  <2>2. y <= x /\ x \in Nat /\ y \in Nat
    BY <2>1, PmiAssumption, AlignUpNested, AlignUpFacts
  <2>3. RawSize(s) = y
    BY <1>3, <2>1, Zenon DEF RawSize
  <2>4. Larger(x, y) = x
    BY <2>2 DEF Larger
  <2> QED
    BY <1>3, <2>1, <2>3, <2>4, Zenon DEF VirtualSize
<1> QED
  BY <1>1, <1>4, <1>5, Zenon DEF GuestRange

\* The guest memory of the .bconf section is its reservation.
LEMMA BconfRange ==
  ASSUME IInv, Written, NEW g, NEW k \in DOMAIN headers, sections[k] = BconfSection(g)
  PROVE  GuestRange(k) = g..(g + LARGE - 1)
<1>1. PICK s, h : s = sections[k] /\ h = headers[k]
  OBVIOUS
<1>2. s.vaddr = g /\ s.virtual_size = LARGE /\ s.data = 0 /\ s.non_loaded = FALSE
  BY <1>1, BconfFields, Zenon
<1>3. h.virtual_address = g /\ h.virtual_size = VirtualSize(s)
  BY <1>1, <1>2, HeaderIs, Zenon
<1>4. VirtualSize(s) = LARGE
  BY <1>2, Zenon DEF VirtualSize, is_zero_shape
<1> QED
  BY <1>1, <1>3, <1>4, Zenon DEF GuestRange

\* The headers of a name are those of its sections.
LEMMA NamedAre ==
  ASSUME IInv, Written, NEW k
  PROVE  /\ k \in Named(".initrd") <=> k \in DOMAIN headers /\ AsInitrd(sections[k])
         /\ k \in Named(".bconf") <=> k \in DOMAIN headers /\ AsBconf(sections[k])
<1>1. k \in DOMAIN headers => sections[k] \in ToSet(sections) /\ headers[k].name = sections[k].name
  BY HeaderIs, Zenon
<1> QED
  BY <1>1, KindByName, Zenon DEF Named

\* The addresses of a set of ranges.
Addresses(D) == UNION {r.start..(r.end - 1) : r \in D}

\* The addresses of one range.
LEMMA OneRange ==
  ASSUME NEW D, NEW f, NEW e, D = {[start |-> f, end |-> e]}
  PROVE  Addresses(D) = f..(e - 1)
<1>1. PICK q : q = [start |-> f, end |-> e]
  OBVIOUS
<1>2. q.start = f /\ q.end = e
  BY <1>1
<1>3. PICK X : X = q.start..(q.end - 1)
  OBVIOUS
<1>4. {r.start..(r.end - 1) : r \in D} = {X}
  BY <1>1, <1>3, Zenon
<1>5. UNION {X} = X
  BY Zenon
<1> QED
  BY <1>2, <1>3, <1>4, <1>5 DEF Addresses

\* Linux: the range in the base DTB is .initrd, with .bconf at its end.
LEMMA InitrdAgrees ==
  ASSUME IInv, Written
  PROVE  /\ UNION {r.start..(r.end - 1) : r \in dtb.initrd}
              = UNION {GuestRange(k) : k \in Named(".initrd") \union Named(".bconf")}
         /\ Named(".bconf") # {} => bootconfig_requested(input.cmdline) /\ Named(".initrd") # {}
<1>0. PICK K : K = Named(".initrd") \union Named(".bconf")
  OBVIOUS
<1>1. dtb.initrd = InitrdExtent /\ InitrdPlaced
  BY DEF IInv, DtbInv, LayInv, Written, WithDtb, WithLayout, WithSections
<1>2. \A s : AsInitrd(s) \/ AsBconf(s) => \E k \in DOMAIN headers : sections[k] = s
  <2> SUFFICES ASSUME NEW s, AsInitrd(s) \/ AsBconf(s) PROVE \E k \in DOMAIN headers : sections[k] = s
    OBVIOUS
  <2>1. s \in ToSet(sections)
    BY SectionKinds, Zenon
  <2>2. DOMAIN headers = DOMAIN sections
    BY WrittenFile
  <2> QED
    BY <2>1, <2>2 DEF ToSet
<1>3. CASE initrd = {} /\ lay.initrd = {} /\ lay.bootconfig = {}
  <2>1. \A s : ~AsInitrd(s) /\ ~AsBconf(s)
    BY <1>3 DEF AsInitrd, AsBconf
  <2>2. Named(".initrd") = {} /\ Named(".bconf") = {}
    BY <2>1, NamedAre, Zenon
  <2>3. dtb.initrd = {}
    BY <1>1, <1>3 DEF InitrdExtent
  <2> QED
    BY <2>2, <2>3
<1>4. ASSUME NEW n \in Nat, NEW g \in Boundary, initrd = {n}, lay.initrd = {Span(g, AlignUp(n, LARGE))},
             lay.bootconfig = IF bootconfig THEN {Span(g + AlignUp(n, LARGE), LARGE)} ELSE {}
      PROVE  /\ UNION {r.start..(r.end - 1) : r \in dtb.initrd}
                  = UNION {GuestRange(k) : k \in Named(".initrd") \union Named(".bconf")}
             /\ Named(".bconf") # {} => bootconfig_requested(input.cmdline) /\ Named(".initrd") # {}
  <2>1. PICK a \in Nat : a = AlignUp(n, LARGE)
    BY PmiAssumption, AlignUpFacts
  <2>2. PICK l \in Nat \ {0} : l = LARGE
    BY PmiAssumption
  <2>3. g \in Nat
    BY DEF Boundary
  <2>4. AsInitrd(InitrdSection(g, n))
    BY <1>4, Zenon DEF AsInitrd
  <2>5. PICK i \in DOMAIN headers : sections[i] = InitrdSection(g, n)
    BY <1>2, <2>4, Zenon
  <2>6. i \in Named(".initrd")
    BY <2>4, <2>5, NamedAre, Zenon
  <2>7. GuestRange(i) = g..(g + a - 1)
    BY <2>1, <2>5, InitrdRange
  <2>8. \A k \in Named(".initrd") : GuestRange(k) = g..(g + a - 1)
    <3> SUFFICES ASSUME NEW k \in Named(".initrd") PROVE GuestRange(k) = g..(g + a - 1)
      OBVIOUS
    <3>1. k \in DOMAIN headers /\ AsInitrd(sections[k])
      BY NamedAre, Zenon
    <3>2. sections[k] = InitrdSection(g, n)
      <4>1. PICK m \in Nat, f \in Boundary :
              initrd = {m} /\ lay.initrd = {Span(f, AlignUp(m, LARGE))} /\ sections[k] = InitrdSection(f, m)
        BY <3>1, Zenon DEF AsInitrd
      <4>2. m = n
        BY <1>4, <4>1
      <4>3. f = g
        <5>1. {Span(f, a)} = {Span(g, a)}
          BY <1>4, <2>1, <4>1, <4>2, Zenon
        <5> QED
          BY <5>1, OneSpan
      <4> QED
        BY <4>1, <4>2, <4>3, Zenon
    <3> QED
      BY <2>1, <3>1, <3>2, InitrdRange
  <2>9. CASE ~bootconfig
    <3>1. lay.bootconfig = {}
      BY <1>4, <2>9, Zenon
    <3>2. \A s : ~AsBconf(s)
      BY <2>9 DEF AsBconf
    <3>3. Named(".bconf") = {}
      BY <3>2, NamedAre, Zenon
    <3>4. dtb.initrd = {Span(g, a)}
      BY <1>1, <1>4, <2>1, <3>1, Zenon DEF InitrdExtent
    <3>5. UNION {r.start..(r.end - 1) : r \in dtb.initrd} = g..(g + a - 1)
      <4>1. PICK e \in Nat : e = g + a
        BY <2>3
      <4>2. PICK D : D = dtb.initrd
        OBVIOUS
      <4>3. D = {[start |-> g, end |-> e]}
        BY <3>4, <4>1, <4>2, Zenon DEF Span
      <4>4. Addresses(D) = g..(e - 1)
        BY <4>3, OneRange
      <4>5. Addresses(dtb.initrd) = g..(e - 1)
        BY <4>2, <4>4, Zenon
      <4>6. Addresses(dtb.initrd) = g..(g + a - 1)
        BY <2>3, <4>1, <4>5
      <4> QED
        BY <4>6 DEF Addresses
    <3>6. {GuestRange(k) : k \in K} = {g..(g + a - 1)}
      BY <1>0, <2>6, <2>8, <3>3, Zenon
    <3> QED
      BY <1>0, <3>3, <3>5, <3>6
  <2>10. CASE bootconfig
    <3>1. lay.bootconfig = {Span(g + a, l)}
      BY <1>4, <2>1, <2>2, <2>10, Zenon
    <3>2. PICK o, b : o = lay.initrd /\ b = lay.bootconfig
      OBVIOUS
    <3>3. Only(o) = Span(g, a) /\ Only(b) = Span(g + a, l) /\ b # {}
      BY <1>4, <2>1, <3>1, <3>2, OnlyOne
    <3>4. Only(o).start = g /\ Only(b).end = (g + a) + l
      BY <3>3 DEF Span
    <3>5. dtb.initrd = {[start |-> g, end |-> (g + a) + l]}
      BY <1>1, <3>2, <3>3, <3>4, Zenon DEF InitrdExtent
    <3>6. UNION {r.start..(r.end - 1) : r \in dtb.initrd} = g..((g + a) + l - 1)
      <4>1. PICK e \in Nat : e = (g + a) + l
        BY <2>3
      <4>2. PICK D : D = dtb.initrd
        OBVIOUS
      <4>3. D = {[start |-> g, end |-> e]}
        BY <3>5, <4>1, <4>2, Zenon
      <4>4. Addresses(D) = g..(e - 1)
        BY <4>3, OneRange
      <4>5. Addresses(dtb.initrd) = g..(e - 1)
        BY <4>2, <4>4, Zenon
      <4>6. Addresses(dtb.initrd) = g..((g + a) + l - 1)
        BY <2>3, <4>1, <4>5
      <4> QED
        BY <4>6 DEF Addresses
    <3>7. AsBconf(BconfSection(g + a))
      BY <1>4, <2>1, <2>2, <2>10, <3>1, Zenon DEF AsBconf
    <3>8. PICK j \in DOMAIN headers : sections[j] = BconfSection(g + a)
      BY <1>2, <3>7, Zenon
    <3>9. j \in Named(".bconf")
      BY <3>7, <3>8, NamedAre, Zenon
    <3>10. PICK h \in Nat : h = g + a
      BY <2>3
    <3>11. \A k \in Named(".bconf") : GuestRange(k) = h..(h + l - 1)
      <4> SUFFICES ASSUME NEW k \in Named(".bconf") PROVE GuestRange(k) = h..(h + l - 1)
        OBVIOUS
      <4>1. k \in DOMAIN headers /\ AsBconf(sections[k])
        BY NamedAre, Zenon
      <4>2. PICK f : lay.bootconfig = {Span(f, LARGE)} /\ sections[k] = BconfSection(f)
        BY <4>1, Zenon DEF AsBconf
      <4>3. f = h
        <5>1. {Span(f, l)} = {Span(h, l)}
          BY <2>2, <3>1, <3>10, <4>2, Zenon
        <5> QED
          BY <5>1, OneSpan
      <4> QED
        BY <2>2, <4>1, <4>2, <4>3, BconfRange
    <3>12. {GuestRange(k) : k \in K} = {g..(g + a - 1), h..(h + l - 1)}
      BY <1>0, <2>6, <2>8, <3>9, <3>11, Zenon
    <3>13. g..((g + a) + l - 1) = (g..(g + a - 1)) \union (h..(h + l - 1))
      BY <2>3, <3>10
    <3>14. UNION {g..(g + a - 1), h..(h + l - 1)} = (g..(g + a - 1)) \union (h..(h + l - 1))
      BY Zenon
    <3> QED
      BY <1>0, <2>6, <2>10, <3>6, <3>12, <3>13, <3>14, Zenon DEF bootconfig
  <2> QED
    BY <2>9, <2>10
<1> QED
  BY <1>1, <1>3, <1>4, Zenon DEF InitrdPlaced

\* The three readers of a written image are told what is in it: the VMM by
\* build_actions(), tatu by TatuBootInfo::new(), Linux by base_dtb::build(), of
\* the sections that assemble_sections() makes from the same plan.
THEOREM ImageTellsOneStory == Spec => []ImageMatchesManifest
<1>1. IInv => ImageMatchesManifest
  <2> SUFFICES ASSUME IInv, Written PROVE ImageMatchesManifest
    BY DEF ImageMatchesManifest
  <2> QED
    BY ActionsAgree, DtbAgrees, KernelAgrees, InitrdAgrees, Zenon DEF ImageMatchesManifest
<1> QED
  BY <1>1, Invariance, PTL
=============================================================================
