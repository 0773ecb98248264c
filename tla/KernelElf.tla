----------------------------- MODULE KernelElf -----------------------------
(***************************************************************************)
(* What kernel.rs reads of an x86 vmlinux: the span of its segments, the   *)
(* flat image they load to, and the KASLR relocations in either of their   *)
(* two encodings.                                                          *)
(*                                                                         *)
(* Addresses, offsets and sizes count 32-bit words, and a word has W       *)
(* values: a u32 is a word and a u64 is two.  goblin's view of a file is   *)
(* the record e:                                                           *)
(*   parses, x86    goblin can read it; it is a 64-bit x86-64 ELF          *)
(*   entry, shEnd   e_entry; the end of the section header table           *)
(*   segs           load, paddr, vaddr, off, filesz, memsz                 *)
(*   secs           name, type, alloc, addr, off, size; numbered from 1    *)
(*   syms           name, shndx, value, size                               *)
(*   relas          info: the section they apply to; rels: type, off, sym  *)
(*   words          the file                                               *)
(***************************************************************************)
EXTENDS Naturals, Sequences, FiniteSets, FiniteSetsExt, SequencesExt

CONSTANTS
    W,                          \* number of u32 values
    PAGE,                       \* words of a page
    S_REL,                      \* absolute symbols that move with the image
    INIT_PER_CPU,               \* the symbols called init_per_cpu_...
    Broken                      \* what a refused file gives

Wide == W * W                   \* number of u64 values

SHN_UNDEF == 0
SHN_LORESERVE == W - 3
SHN_ABS == W - 2
SHN_XINDEX == W - 1

RoundUp(n, a) == ((n + a - 1) \div a) * a

----------------------------------------------------------------------------
\* elf_span()
Load(e) == {i \in DOMAIN e.segs : e.segs[i].load /\ e.segs[i].memsz # 0}

HasSpan(e) ==
    /\ Load(e) # {}
    /\ \A i \in Load(e) : e.segs[i].paddr + Max({e.segs[i].filesz, e.segs[i].memsz}) < Wide

min_paddr(e) == Min({e.segs[i].paddr : i \in Load(e)})
max_file_end(e) == Max({e.segs[i].paddr + e.segs[i].filesz : i \in Load(e)})
max_mem_end(e) == Max({e.segs[i].paddr + e.segs[i].memsz : i \in Load(e)})
alloc_size(e) == max_mem_end(e) - min_paddr(e)
entry_offset(e) == e.entry - min_paddr(e)

\* parse(), for an ELF
ParsesElf(e) == e.parses /\ e.x86 /\ HasSpan(e) /\ e.entry \in min_paddr(e)..(max_mem_end(e) - 1)

\* elf_load_image(): a segment with bytes in the file, which must be there.
Copied(p) == p.load /\ p.filesz # 0
InFile(e, p) == p.off + p.filesz <= Len(e.words)

ZeroImage(e) == [o \in 0..(max_file_end(e) - min_paddr(e) - 1) |-> 0]

\* Where a segment starts in the image.
Spot(e, p) == p.paddr - min_paddr(e)

CopySegment(e, flat, spot, p) ==
    [o \in DOMAIN flat |-> IF o \in spot..(spot + p.filesz - 1) THEN e.words[p.off + (o - spot) + 1] ELSE flat[o]]

ContentEnd(flat) == Max({0} \cup {o + 1 : o \in {p \in DOMAIN flat : flat[p] # 0}})

\* The zeros at the end of the image are dropped, up to a page.
Kept(flat) == Min({RoundUp(ContentEnd(flat), PAGE), Cardinality(DOMAIN flat)})

Truncate(flat, n) == [o \in {p \in DOMAIN flat : p < n} |-> flat[o]]

----------------------------------------------------------------------------
\* extract_relocs()
Relocs == [relocs64 : Seq(Nat), relocs32neg : Seq(Nat), relocs32 : Seq(Nat)]
NoRelocs == [relocs64 |-> <<>>, relocs32neg |-> <<>>, relocs32 |-> <<>>]

PcRelative == {"PC32", "PLT32", "REX_GOTPCRELX"}
Absolute == {"64", "32", "32S"}

is_s_rel(name) == name \in S_REL

\* find_percpu(): the section, 0 when there is none or it is linked where it is loaded.
PercpuSection(e) ==
    LET named == {i \in DOMAIN e.secs : e.secs[i].name = ".data..percpu"}
    IN  IF named = {} \/ e.secs[Min(named)].addr # 0 THEN 0 ELSE Min(named)

LoadSymbols(e) == {i \in DOMAIN e.syms : e.syms[i].name = "__per_cpu_load"}
PercpuFound(e) == PercpuSection(e) # 0 => LoadSymbols(e) # {}
PercpuLoad(e) == e.syms[Min(LoadSymbols(e))].value

is_percpu_sym(e, s) ==
    /\ PercpuSection(e) # 0 /\ s.shndx = PercpuSection(e)
    /\ s.name \notin {"__init_begin", "__per_cpu_load"} \cup INIT_PER_CPU

text_vaddr(e) ==
    e.segs[Min({i \in Load(e) : e.segs[i].paddr = min_paddr(e)})].vaddr

Walked(e, rela) == e.secs[rela.info].alloc /\ e.secs[rela.info].type # "NOTE"

\* The entries of the sections that are walked, each with its place.
Entries(e) ==
    FlattenSeq([i \in DOMAIN e.relas |->
      IF ~Walked(e, e.relas[i]) THEN <<>>
      ELSE [j \in DOMAIN e.relas[i].rels |->
              LET rel == e.relas[i].rels[j]
              IN  [type |-> rel.type, sym |-> rel.sym,
                   va |-> IF e.relas[i].info = PercpuSection(e)
                          THEN (rel.off + PercpuLoad(e)) % Wide ELSE rel.off]]])

\* The list an entry goes to.
ListOf(e, x) ==
    LET s == e.syms[x.sym]
        stays == is_percpu_sym(e, s) \/ (s.shndx = SHN_ABS /\ ~is_s_rel(s.name))
    IN  IF x.sym \notin DOMAIN e.syms THEN Broken
        ELSE IF s.shndx = SHN_UNDEF THEN "none"
        ELSE IF s.shndx = SHN_XINDEX THEN Broken
        ELSE
        CASE x.type = "NONE" -> "none"
          [] x.type \in PcRelative -> IF is_percpu_sym(e, s) THEN "relocs32neg" ELSE "none"
          [] x.type = "PC64" -> IF is_percpu_sym(e, s) THEN Broken ELSE "none"
          [] x.type \in Absolute ->
               IF stays THEN "none" ELSE IF x.type = "64" THEN "relocs64" ELSE "relocs32"
          [] OTHER -> Broken

\* to_image_off() fits in a u32.
InReach(e, va) == va >= text_vaddr(e) /\ va - text_vaddr(e) < W

\* What is looked up before the sections are walked.
Walkable(e) == PercpuFound(e) /\ \A i \in DOMAIN e.relas : e.relas[i].info \in DOMAIN e.secs

\* One entry is added to its list, or refused.
Pushed(e, relocs, x) ==
    CASE ListOf(e, x) = "none" -> relocs
      [] ListOf(e, x) # Broken /\ InReach(e, x.va) ->
           [relocs EXCEPT ![ListOf(e, x)] = Append(@, x.va - text_vaddr(e))]
      [] OTHER -> Broken

----------------------------------------------------------------------------
\* The sections, which may follow the header table, are left out.
TableStart_NoSections(e) ==
    Max({e.shEnd} \cup {e.segs[i].off + e.segs[i].filesz : i \in DOMAIN e.segs})

\* The end of the ELF, where the appended table starts.
TableStart(e) ==
    Max({e.shEnd} \cup {e.segs[i].off + e.segs[i].filesz : i \in DOMAIN e.segs}
          \cup {e.secs[i].off + e.secs[i].size : i \in {j \in DOMAIN e.secs : e.secs[j].type # "NOBITS"}})

\* The words of the table, last first.
Table(e) == Reverse(SubSeq(e.words, TableStart(e) + 1, Len(e.words)))

\* A table entry is the low half of an address: as an i32, made a u64.
SignExtend(v) == IF v < W \div 2 THEN v ELSE Wide - W + v

InImage(e, v) == SignExtend(v) >= text_vaddr(e) /\ SignExtend(v) < text_vaddr(e) + alloc_size(e)

\* One word of the table: a zero ends the list that is being read.
Split(e, lists, v) ==
    CASE v = 0 -> Append(lists, <<>>)
      [] v # 0 /\ InImage(e, v) ->
           [lists EXCEPT ![Len(lists)] = Append(@, SignExtend(v) - text_vaddr(e))]
      [] OTHER -> Broken

\* The lists in the order read; what follows the last zero is not one of them.
Named(lists) ==
    CASE Len(lists) = 3 -> [relocs32 |-> lists[1], relocs32neg |-> <<>>, relocs64 |-> lists[2]]
      [] Len(lists) = 4 -> [relocs32 |-> lists[1], relocs32neg |-> lists[2], relocs64 |-> lists[3]]
      [] OTHER -> Broken

to_section_bytes(r) == r.relocs64 \o r.relocs32neg \o r.relocs32
============================================================================
