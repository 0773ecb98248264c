---------------------------- MODULE LayoutCheck ----------------------------
(***************************************************************************)
(* `arma check`: run() of src/check.rs, from the list of regions it reads  *)
(* out of a PMI to its verdict.                                            *)
(*                                                                         *)
(* The list is sorted by base, then ONE pass over neighbouring pairs looks *)
(* for overlaps, then the rules about the PCIe BAR window and the device   *)
(* island are applied.  Each turn of the pass is a step.  A problem is the *)
(* name of the rule that reported it; the text of the report is left out.  *)
(* Sums of a base and a size are unchecked u64 additions: they wrap.       *)
(***************************************************************************)
EXTENDS U64, Sequences, FiniteSets

CONSTANT TWO_MIB  \* alignment of the device island's low edge

Kinds == {"device", "window", "burned", "payload"}

Region == [base : Nat, size : Nat, kind : Kinds]

VARIABLES
  regions,  \* the Vec<Region>
  phase,    \* which part of run() is next
  at,       \* index of the pair windows(2) yields next
  problems  \* rules that reported a problem

checkVars == <<regions, phase, at, problems>>

Rules == {"overlap", "window_size", "window_align", "not_top_pair",
          "above_window", "above_space", "island_edge"}

-----------------------------------------------------------------------------
End(r) == Wrap(r.base + r.size)

(***************************************************************************)
(* regions.sort_by_key(|r| r.base), a stable sort: element i goes to the   *)
(* place counted by the elements that come before it, or are it.           *)
(***************************************************************************)
UpTo(s, i) ==
  {j \in DOMAIN s : s[j].base < s[i].base \/ (s[j].base = s[i].base /\ j <= i)}

Rank(s, i) == Cardinality(UpTo(s, i))

sort_by_key(s) == [k \in 1..Len(s) |-> s[CHOOSE i \in DOMAIN s : Rank(s, i) = k]]

OfKind(s, kinds) == {s[i] : i \in {j \in DOMAIN s : s[j].kind \in kinds}}

(***************************************************************************)
(* Rule 2, for the BAR window w: its size, its alignment, whether it is    *)
(* the lower buddy of the top pair of a 2^X space, and what lies above it. *)
(***************************************************************************)
window_problems_DevicesOnly(s, w) ==
  LET space_top == Wrap(w.base + 2 * w.size)
      emitted == OfKind(s, {"device"})
  IN (IF ~is_power_of_two(w.size) THEN {"window_size"}
      ELSE IF w.base % w.size # 0 THEN {"window_align"} ELSE {})
     \union (IF is_power_of_two(space_top) THEN {} ELSE {"not_top_pair"})
     \union (IF \E r \in emitted : r.base >= w.base THEN {"above_window"} ELSE {})
     \union (IF \E r \in emitted : End(r) > space_top THEN {"above_space"} ELSE {})

window_problems(s, w) ==
  LET space_top == Wrap(w.base + 2 * w.size)
      emitted == OfKind(s, {"device", "payload"})
  IN (IF ~is_power_of_two(w.size) THEN {"window_size"}
      ELSE IF w.base % w.size # 0 THEN {"window_align"} ELSE {})
     \union (IF is_power_of_two(space_top) THEN {} ELSE {"not_top_pair"})
     \union (IF \E r \in emitted : r.base >= w.base THEN {"above_window"} ELSE {})
     \union (IF \E r \in emitted : End(r) > space_top THEN {"above_space"} ELSE {})

\* The devices of rule 3: those below the window, if there is one.
Island(s) ==
  {d \in OfKind(s, {"device"}) : \A w \in OfKind(s, {"window"}) : d.base < w.base}

island_problems(s) ==
  IF \E lo \in Island(s) : (\A d \in Island(s) : lo.base <= d.base) /\ lo.base % TWO_MIB # 0
  THEN {"island_edge"} ELSE {}

-----------------------------------------------------------------------------
Init ==
  /\ regions \in Seq(Region)
  /\ phase = "sort"
  /\ at = 1
  /\ problems = {}

Sort ==
  /\ phase = "sort"
  /\ regions' = sort_by_key(regions)
  /\ phase' = "scan"
  /\ UNCHANGED <<at, problems>>

ScanPair_Chunks ==
  /\ phase = "scan" /\ at < Len(regions)
  /\ problems' = IF End(regions[at]) > regions[at + 1].base
                 THEN problems \union {"overlap"} ELSE problems
  /\ at' = at + 2
  /\ UNCHANGED <<regions, phase>>

\* Rule 1, one turn of `for w in regions.windows(2)`.
ScanPair ==
  /\ phase = "scan" /\ at < Len(regions)
  /\ problems' = IF End(regions[at]) > regions[at + 1].base
                 THEN problems \union {"overlap"} ELSE problems
  /\ at' = at + 1
  /\ UNCHANGED <<regions, phase>>

ScanEnds ==
  /\ phase = "scan" /\ at >= Len(regions)
  /\ phase' = "window"
  /\ UNCHANGED <<regions, at, problems>>

\* base_device_regions pushes at most one window; find() takes the first.
CheckWindow ==
  /\ phase = "window"
  /\ problems' = problems \union
                   UNION {window_problems(regions, w) : w \in OfKind(regions, {"window"})}
  /\ phase' = "island"
  /\ UNCHANGED <<regions, at>>

CheckIsland ==
  /\ phase = "island"
  /\ problems' = problems \union island_problems(regions)
  /\ phase' = "done"
  /\ UNCHANGED <<regions, at>>

CheckStep == Sort \/ ScanPair \/ ScanEnds \/ CheckWindow \/ CheckIsland

Next == CheckStep \/ (phase = "done" /\ UNCHANGED checkVars)

Spec == Init /\ [][Next]_checkVars

-----------------------------------------------------------------------------
(* Properties.                                                             *)

\* run() keeps a list of regions, a 1-based pair index and known problems.
CheckTypeOK ==
  /\ regions \in Seq(Region)
  /\ phase \in {"sort", "scan", "window", "island", "done"}
  /\ at \in Nat \ {0}
  /\ problems \subseteq Rules

Scanned == phase \in {"window", "island", "done"}

\* Where a region really ends, and whether a u64 can say so.
TrueEnd(r) == r.base + r.size
EndsInU64(r) == TrueEnd(r) <= U64_MAX

\* "1. Disjoint (no overlaps)": the pass compares neighbours only, yet a report
\* is never false, and two regions that overlap are always reported, neighbours
\* or not (one reaches past the base of one that starts no earlier), if the end
\* of the first is a u64: a sum that wraps hides what it runs into.
EveryOverlapIsSeen ==
  LET overlaps(i, j) == i < j /\ TrueEnd(regions[i]) > regions[j].base
  IN Scanned =>
       /\ "overlap" \in problems => \E i, j \in 1..Len(regions) : overlaps(i, j)
       /\ (\E i, j \in 1..Len(regions) : EndsInU64(regions[i]) /\ overlaps(i, j))
            => "overlap" \in problems

\* "2. Window invariants": in a map reported clean a window that ends in u64 is
\* [2^X - 2^(B+1), 2^X - 2^B), with 2^X itself a u64, although the sum rule 2
\* tests may have wrapped, and every device and payload that ends in u64 ENDS
\* at or below its base.  The rules test bases only; that a region does not run
\* into the window takes rule 1 as well.
CleanMapIsBelowWindow ==
  phase = "done" /\ problems = {} =>
    \A w \in OfKind(regions, {"window"}) : EndsInU64(w) =>
      /\ is_power_of_two(w.size) /\ is_power_of_two(w.base + 2 * w.size)
      /\ w.base + 2 * w.size <= U64_MAX
      /\ w.base % w.size = 0
      /\ \A r \in OfKind(regions, {"device", "payload"}) : EndsInU64(r) => TrueEnd(r) <= w.base
=============================================================================
