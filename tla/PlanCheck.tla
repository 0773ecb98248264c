----------------------------- MODULE PlanCheck -----------------------------
(***************************************************************************)
(* The planner and the linter composed: `arma build` plans a layout        *)
(* (Planner), assemble_sections and build_pe turn it into the section      *)
(* headers of a PMI with a base device tree, and `arma check`              *)
(* (LayoutCheck) reads the regions back from both and judges them.         *)
(*                                                                         *)
(* What crosses from one to the other is changed on the way: addresses and *)
(* sizes must fit u32, VirtualSize is raised to whole pages of file data,  *)
(* a section at address 0 is not seen by the linter, and the linter adds   *)
(* the window's burned buddy, which the planner does not know.  File       *)
(* offsets and the headers' other fields are left out.                     *)
(***************************************************************************)
EXTENDS Planner, Sequences, FiniteSets

CONSTANTS
  PAGE,         \* FILE_ALIGNMENT of a PE section's data
  U32_MAX,      \* largest VirtualAddress and VirtualSize
  FixedDevices  \* the reserved ranges that are devices; the others are tatu's

(***************************************************************************)
(* A page divides 2 MiB, and what fits u32 is far below the last u64; the  *)
(* space below and above 2^(A-1) is whole pages, and whole granules unless *)
(* it is smaller than one.  tatu's sections start on pages (tatu.ld), and  *)
(* together with the fixed devices (base_dtb's constants) they are some    *)
(* nonempty ranges that stay apart in whole pages; the lowest fixed device *)
(* (the GIC distributor, the I/O APIC) starts on a granule.                *)
(***************************************************************************)
ASSUME PlanCheckAssumption ==
  /\ PAGE \in Nat \ {0} /\ GRAN % PAGE = 0
  /\ U32_MAX \in Nat /\ 2 * U32_MAX + GRAN <= U64_MAX
  /\ \A i \in Inputs :
       /\ IsFiniteSet(i.reserved)
       /\ Pow2(i.addr_space_bits - 1) % PAGE = 0
       /\ Pow2(i.addr_space_bits - 1) + GRAN <= U64_MAX
       /\ Pow2(i.addr_space_bits - 1) >= GRAN => Pow2(i.addr_space_bits - 1) % GRAN = 0
       /\ \A r \in i.reserved \intersect FixedDevices :
            (\A s \in i.reserved \intersect FixedDevices : r.start <= s.start) => r.start % GRAN = 0
       /\ \A r \in i.reserved :
            /\ r.start < r.end
            /\ r \notin FixedDevices => r.start % PAGE = 0
            /\ \A s \in i.reserved : r # s =>
                 /\ ~Overlap(r, s)
                 /\ r \notin FixedDevices /\ r.end <= s.start => round_up(r.end, PAGE) <= s.start

\* A shift by one more bit doubles: the one fact about 2^n that the proofs need
\* and the provers do not know.
ASSUME ShiftAssumption ==
  \A i \in Inputs : \A n \in 0..(i.addr_space_bits - 1) : Pow2(n + 1) = 2 * Pow2(n)

VARIABLES
  bundled,  \* the PMI carries its base DTB (attached or optional mode)
  regions, phase, at, problems  \* the state of LayoutCheck

Check == INSTANCE LayoutCheck WITH TWO_MIB <- GRAN

checkVars == <<bundled, regions, phase, at, problems>>
allVars == <<in, pc, occupied, layout, virtio, cursor, err, bundled, regions, phase, at, problems>>

-----------------------------------------------------------------------------
Max2(a, b) == IF a > b THEN a ELSE b

VirtualSize_ExtraPage(size, data) == Max2(size, Mask(data + PAGE, PAGE) + PAGE)

\* build_pe raises a section's size to its page-aligned data.
VirtualSize(size, data) == Max2(size, round_up(data, PAGE))

Region(r, size, kind) == [base |-> r.start, size |-> size, kind |-> kind]

Section(r, data) == Region(r, VirtualSize(r.end - r.start, data), "payload")
Device(r) == Region(r, r.end - r.start, "device")

\* A set of ranges as a list, in some order (the linter sorts it); an Option is
\* a set of at most one.
Listed(S) ==
  CHOOSE f \in [1..Cardinality(S) -> S] : \A i, j \in 1..Cardinality(S) : i # j => f[i] # f[j]

Each(s, Op(_)) == [k \in 1..Len(s) |-> Op(s[k])]

(***************************************************************************)
(* The loaded sections, with the bytes each has in the file: tatu's        *)
(* sections and the relocations are full, the kernel may be shorter than   *)
(* the memory it needs, the archive is padded, the bootconfig is empty.    *)
(* Only the ranges of S: the linter does not see them all.                 *)
(***************************************************************************)
assemble_sections(kernel_file_size, S) ==
  LET full(r) == Section(r, r.end - r.start)
      linux(r) == Section(r, kernel_file_size)
      initrd(r) == Section(r, in.initrd_size)
      bconf(r) == Section(r, 0)
  IN Each(Listed((in.reserved \ FixedDevices) \intersect S), full)
       \o Each(Listed(layout["linux"] \intersect S), linux)
       \o Each(Listed(layout["initrd"] \intersect S), initrd)
       \o Each(Listed(layout["bootconfig"] \intersect S), bconf)
       \o Each(Listed(layout["relocs"] \intersect S), full)

\* base_device_regions, on the tree base_dtb::build makes from the layout.
base_device_regions ==
  LET bar(w) == Region(w, w.end - w.start, "window")
      burned(w) == Region(Span(w.end, w.end), w.end - w.start, "burned")
  IN Each(Listed(in.reserved \intersect FixedDevices), Device)
       \o Each(Listed(layout["serial"]), Device)
       \o Each(virtio, Device)
       \o Each(Listed(layout["ecam"]), Device)
       \o Each(Listed(layout["pci_window"]), bar)
       \o Each(Listed(layout["pci_window"]), burned)

\* A section at address 0 is taken for one that is not loaded.
Loaded == {r \in Range : r.start > 0}

FitsU32(s) == \A k \in DOMAIN s : s[k].base <= U32_MAX /\ s[k].size <= U32_MAX

-----------------------------------------------------------------------------
PlanCheckInit ==
  /\ Init
  /\ bundled \in BOOLEAN
  /\ regions = <<>> /\ phase = "build" /\ at = 1 /\ problems = {}

Plan ==
  /\ ~Returned
  /\ Next
  /\ UNCHANGED checkVars

\* Steps 11 and 12 of build, then the head of check.rs run().
Emit ==
  /\ pc = "done" /\ phase = "build"
  /\ \E kernel_file_size \in {1, in.kernel_size} :
       LET sections(S) == assemble_sections(kernel_file_size, S)
       IN IF FitsU32(sections(Range))
          THEN /\ regions' = sections(Loaded)
                               \o (IF bundled THEN base_device_regions ELSE <<>>)
               /\ phase' = "sort"
          ELSE /\ regions' = <<>>
               /\ phase' = "no_image"
  /\ UNCHANGED <<in, pc, occupied, layout, virtio, cursor, err, bundled, at, problems>>

CheckImage ==
  /\ Check!CheckStep
  /\ UNCHANGED <<in, pc, occupied, layout, virtio, cursor, err, bundled>>

Finished == pc = "failed" \/ phase \in {"done", "no_image"}

PlanCheckNext == Plan \/ Emit \/ CheckImage \/ (Finished /\ UNCHANGED allVars)

PlanCheckSpec == PlanCheckInit /\ [][PlanCheckNext]_allVars /\ WF_allVars(PlanCheckNext)

-----------------------------------------------------------------------------
(* Properties.                                                             *)

\* The linter has judged an image that plan() laid out.
Judged == pc = "done" /\ phase = "done"

HasWindow == bundled /\ in.pci_slots > 0

Emitted == in.reserved \union UNION {layout[p] : p \in Payload}

\* Every image the linter judges, planned or not: see LayoutCheck.
EveryOverlapIsSeen == Check!EveryOverlapIsSeen
CleanMapIsBelowWindow == Check!CleanMapIsBelowWindow

\* [2^X - 2^(B+1), 2^X - 2^B)
TopPair ==
  Span(Pow2(in.addr_space_bits) - 2 * Pow2(in.window_bits),
       Pow2(in.addr_space_bits) - Pow2(in.window_bits))

\* check.rs ("A clean `check` is part of what "sane output" means"): of the
\* planned images the linter passes those whose tree shows no window and those
\* whose window is where docs/device-model.md puts it, in a space whose size is
\* a u64, above every section and fixed device, and it passes no other.
CheckAcceptsPlan ==
  Judged =>
    (problems = {} <=>
       (HasWindow => /\ PciWindow = TopPair
                     /\ Pow2(in.addr_space_bits) <= U64_MAX
                     /\ \A r \in Emitted : r.start < high_floor))

\* The sizes build_pe raises keep what the planner separated apart: the only
\* overlaps the linter can report for a planned image are a section or fixed
\* device in the burned buddy, which the planner does not carve out, and a
\* reserved range in the window, which plan() puts at 2^(A-1) without a look at
\* the carve-outs.
OverlapOnlyAtWindow ==
  Judged /\ "overlap" \in problems =>
    /\ HasWindow
    /\ \/ \E r \in Emitted : Overlap(r, Span(PciWindow.end, PciWindow.end + Pow2(in.window_bits)))
       \/ \E r \in in.reserved : Overlap(r, PciWindow)

\* docs/device-model.md, "PCI window and address space": the BAR window is
\* "placed at `[2^X - 2^(B+1), 2^X - 2^B)` - naturally aligned, with nothing
\* emitted above it", of every image a build can emit.
WindowIsTopOfSpace ==
  Judged /\ HasWindow =>
    PciWindow = TopPair /\ \A r \in Emitted : r.start < PciWindow.start
=============================================================================
