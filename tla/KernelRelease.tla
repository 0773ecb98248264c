--------------------------- MODULE KernelRelease ---------------------------
(***************************************************************************)
(* kernel_release.rs: the release of a normalised kernel, by which the     *)
(* module tree is chosen.  A banner is the words                           *)
(*     PREFIX, release, IDENTITY, 0                                        *)
(* where a word stands for a run of bytes.                                 *)
(***************************************************************************)
EXTENDS KernelElf

CONSTANTS
    PREFIX,                     \* "Linux version "
    IDENTITY,                   \* " (" up to a ")"
    Name,                       \* of the words that can be a release
    MAX_BANNER, MAX_RELEASE,
    Missing                     \* no release

\* A name is its length, the kinds of its bytes, and whether it is "." or "..".
validate_component(word) ==
    /\ word \in DOMAIN Name
    /\ Name[word].len \in 1..MAX_RELEASE
    /\ ~Name[word].dots
    /\ Name[word].bytes = {"graphic"}

\* The banner at the start of s: its release, or Broken.
parse_banner(s) ==
    LET bounded == SubSeq(s, 1, Min({Len(s), MAX_BANNER + 1}))
        zeros == {i \in DOMAIN bounded : bounded[i] = 0}
        text == SubSeq(bounded, 1, Min(zeros) - 1)
    IN  IF /\ zeros # {}
           /\ Len(text) >= 3 /\ text[1] = PREFIX /\ text[3] = IDENTITY
           /\ validate_component(text[2])
        THEN text[2] ELSE Broken

\* The segments that hold the address of a symbol.
Around(e, s) ==
    {i \in DOMAIN e.segs : /\ e.segs[i].load
                           /\ s.value \in e.segs[i].vaddr..(e.segs[i].vaddr + e.segs[i].memsz - 1)}

\* symbol_bytes(): the symbol is in the bytes of an allocated section ...
InSection(e, s) ==
    /\ s.shndx \in DOMAIN e.secs /\ s.shndx < SHN_LORESERVE
    /\ LET c == e.secs[s.shndx]
       IN  /\ c.type # "NOBITS" /\ c.alloc
           /\ c.addr + c.size < Wide
           /\ c.off + c.size <= Len(e.words)
           /\ s.value \in c.addr..(c.addr + c.size - 1)
           /\ s.size <= c.addr + c.size - s.value

FileOffset(e, s) == e.secs[s.shndx].off + (s.value - e.secs[s.shndx].addr)

\* ... and of each segment around it, at the same place in the file.
Backed(e, s) ==
    /\ Around(e, s) # {}
    /\ \A i \in Around(e, s) :
         LET p == e.segs[i]
             delta == s.value - p.vaddr
         IN  /\ delta < p.filesz /\ p.filesz <= p.memsz
             /\ p.vaddr + p.memsz < Wide
             /\ p.off + p.filesz <= Len(e.words)
             /\ p.off + delta = FileOffset(e, s)
             /\ s.size # 0 => s.size <= p.filesz - delta

SymbolLength(e, s) ==
    Min({IF s.size = 0 THEN e.secs[s.shndx].addr + e.secs[s.shndx].size - s.value ELSE s.size}
          \cup {e.segs[i].filesz - (s.value - e.segs[i].vaddr) : i \in Around(e, s)})

\* The symbol is looked up in its section only.
BannerOf_SectionOnly(e, s) ==
    IF InSection(e, s) THEN parse_banner(SubSeq(e.words, FileOffset(e, s) + 1, Len(e.words))) ELSE Broken

BannerOf(e, s) ==
    IF InSection(e, s) /\ Backed(e, s)
    THEN parse_banner(SubSeq(e.words, FileOffset(e, s) + 1, FileOffset(e, s) + SymbolLength(e, s)))
    ELSE Broken

BannerSymbols(table) == {i \in DOMAIN table : table[i].name = "linux_banner"}

\* The offsets of banners that start the file or follow a zero.
Banners(words) == {o \in DOMAIN words : words[o] = PREFIX /\ (o = 1 \/ words[o - 1] = 0)}

\* What the symbols and the scan of the whole file found.
SymbolReleases(e) ==
    UNION {{BannerOf(e, table[i]) : i \in BannerSymbols(table)} : table \in {e.syms, e.dynsyms} \cup e.symtabs}

ScannedReleases(words) == {parse_banner(SubSeq(words, o, Len(words))) : o \in Banners(words)}

\* merge() of everything found: one release, or none.
Merged(found) ==
    CASE found = {} -> Missing
      [] Cardinality(found) = 1 -> CHOOSE r \in found : TRUE
      [] OTHER -> Broken

\* detect(), on an ELF and on an arm64 Image.  A section of dynamic symbols that
\* cannot be read is an error.
detect_elf(e) ==
    IF e.badDynsym THEN Broken ELSE Merged(SymbolReleases(e) \cup ScannedReleases(e.words))

detect_image(words) == Merged(ScannedReleases(words))
============================================================================
