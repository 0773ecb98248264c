------------------------- MODULE LayoutCheckProofs -------------------------
(***************************************************************************)
(* LayoutCheck, for lists of every length: the sort puts the regions in    *)
(* order and loses none, and the single pass over neighbours then sees     *)
(* every overlap, so that a clean map has nothing in its window.           *)
(***************************************************************************)
EXTENDS LayoutCheck, FiniteSetTheorems, TLAPS

\* s is ordered by base.
Sorted(s) == \A i, j \in 1..Len(s) : i < j => s[i].base <= s[j].base

\* What belongs to a list of regions is a region.
LEMMA BasesAreNat ==
  ASSUME NEW s \in Seq(Region), NEW i \in DOMAIN s
  PROVE  s[i] \in Region /\ s[i].base \in Nat /\ s[i].size \in Nat
<1>1. s[i] \in Region
  OBVIOUS
<1> QED
  BY <1>1 DEF Region

\* A sum that is a u64 is what the code computes, and one that wraps is smaller.
LEMMA WrapFacts ==
  ASSUME NEW n \in Nat
  PROVE  Wrap(n) \in Nat /\ Wrap(n) <= n /\ (n <= U64_MAX => Wrap(n) = n)
<1>1. PICK k \in Nat \ {0} : k = U64_MAX + 1
  BY U64Assumption
<1>2. n % k \in Nat /\ n % k <= n /\ (n < k => n % k = n)
  OBVIOUS
<1> QED
  BY <1>1, <1>2, U64Assumption DEF Wrap

\* UpTo of a later element strictly contains that of an earlier one.
LEMMA UpToGrows ==
  ASSUME NEW s \in Seq(Region), NEW i \in DOMAIN s, NEW j \in DOMAIN s,
         s[i].base < s[j].base \/ (s[i].base = s[j].base /\ i < j)
  PROVE  UpTo(s, i) \subseteq UpTo(s, j) /\ j \in UpTo(s, j) /\ j \notin UpTo(s, i)
<1>1. DOMAIN s = 1..Len(s) /\ Len(s) \in Nat
  OBVIOUS
<1>2. \A k \in DOMAIN s : s[k].base \in Nat
  BY BasesAreNat
<1> QED
  BY <1>1, <1>2 DEF UpTo

\* A rank is a position of the list.
LEMMA RankIsAPosition ==
  ASSUME NEW s \in Seq(Region), NEW i \in DOMAIN s
  PROVE  Rank(s, i) \in 1..Len(s) /\ IsFiniteSet(UpTo(s, i))
<1>1. DOMAIN s = 1..Len(s) /\ Len(s) \in Nat
  OBVIOUS
<1>2. IsFiniteSet(1..Len(s)) /\ Cardinality(1..Len(s)) = Len(s)
  <2>1. 1 \in Int /\ Len(s) \in Int /\ (IF 1 > Len(s) THEN 0 ELSE Len(s) - 1 + 1) = Len(s)
    BY <1>1
  <2> QED
    BY <2>1, FS_Interval
<1>3. UpTo(s, i) \in SUBSET (1..Len(s))
  BY <1>1 DEF UpTo
<1>4. IsFiniteSet(UpTo(s, i)) /\ Cardinality(UpTo(s, i)) <= Len(s)
  BY <1>2, <1>3, FS_Subset
<1>5. i \in UpTo(s, i)
  BY <1>1 DEF UpTo, Region
<1>6. Cardinality(UpTo(s, i)) \in Nat /\ Cardinality(UpTo(s, i)) # 0
  BY <1>4, <1>5, FS_CardinalityType, FS_EmptySet
<1> QED
  BY <1>1, <1>4, <1>6 DEF Rank

\* Ranks follow the order of the bases.
LEMMA RankIsMonotone ==
  ASSUME NEW s \in Seq(Region), NEW i \in DOMAIN s, NEW j \in DOMAIN s,
         s[i].base < s[j].base \/ (s[i].base = s[j].base /\ i < j)
  PROVE  Rank(s, i) < Rank(s, j)
<1>1. UpTo(s, i) \in SUBSET UpTo(s, j) /\ UpTo(s, i) # UpTo(s, j)
  BY UpToGrows
<1>2. IsFiniteSet(UpTo(s, j))
  BY RankIsAPosition
<1>3. Cardinality(UpTo(s, i)) <= Cardinality(UpTo(s, j))
      /\ Cardinality(UpTo(s, i)) # Cardinality(UpTo(s, j))
  BY <1>1, <1>2, FS_Subset
<1>4. Rank(s, i) \in Nat /\ Rank(s, j) \in Nat
  BY RankIsAPosition
<1> QED
  BY <1>3, <1>4 DEF Rank

\* Distinct elements have distinct ranks.
LEMMA RankIsInjective ==
  ASSUME NEW s \in Seq(Region), NEW i \in DOMAIN s, NEW j \in DOMAIN s, i # j
  PROVE  Rank(s, i) # Rank(s, j)
<1>1. DOMAIN s = 1..Len(s) /\ s[i].base \in Nat /\ s[j].base \in Nat
  BY BasesAreNat
<1>2. \/ s[i].base < s[j].base \/ (s[i].base = s[j].base /\ i < j)
      \/ s[j].base < s[i].base \/ (s[j].base = s[i].base /\ j < i)
  BY <1>1
<1>3. Rank(s, i) < Rank(s, j) \/ Rank(s, j) < Rank(s, i)
  BY <1>2, RankIsMonotone
<1>4. Rank(s, i) \in Nat /\ Rank(s, j) \in Nat
  BY RankIsAPosition
<1> QED
  BY <1>3, <1>4

\* Every position is the rank of an element, so the sort's CHOOSE has a witness.
LEMMA EveryPositionIsTaken ==
  ASSUME NEW s \in Seq(Region), NEW k \in 1..Len(s)
  PROVE  \E i \in DOMAIN s : Rank(s, i) = k
<1> DEFINE N == 1..Len(s)
<1> DEFINE f == [i \in N |-> Rank(s, i)]
<1>1. DOMAIN s = N /\ Len(s) \in Nat
  OBVIOUS
<1>2. IsFiniteSet(N)
  BY <1>1, FS_Interval
<1>3. f \in [N -> N]
  BY <1>1, RankIsAPosition
<1>4. \A i, j \in N : f[i] = f[j] => i = j
  BY <1>1, RankIsInjective
<1>5. f \in Injection(N, N)
  BY <1>3, <1>4 DEF Injection, IsInjective
<1>6. f \in Surjection(N, N)
  BY <1>2, <1>5, FS_Injection
<1>7. PICK i \in N : f[i] = k
  BY <1>6 DEF Surjection
<1> QED
  BY <1>1, <1>7

\* sort_by_key returns a list of the same length and regions.
LEMMA SortKeepsRegions ==
  ASSUME NEW s \in Seq(Region)
  PROVE  /\ sort_by_key(s) \in Seq(Region)
         /\ Len(sort_by_key(s)) = Len(s)
         /\ \A k \in 1..Len(s) : \E i \in DOMAIN s :
              Rank(s, i) = k /\ sort_by_key(s)[k] = s[i]
<1> DEFINE pick(k) == CHOOSE i \in DOMAIN s : Rank(s, i) = k
<1>1. DOMAIN s = 1..Len(s) /\ Len(s) \in Nat
  OBVIOUS
<1>2. \A k \in 1..Len(s) : pick(k) \in DOMAIN s /\ Rank(s, pick(k)) = k
  BY EveryPositionIsTaken
<1>3. sort_by_key(s) = [k \in 1..Len(s) |-> s[pick(k)]]
  BY DEF sort_by_key
<1>4. \A k \in 1..Len(s) : s[pick(k)] \in Region
  BY <1>1, <1>2
<1> HIDE DEF pick
<1>5. sort_by_key(s) \in Seq(Region) /\ Len(sort_by_key(s)) = Len(s)
  BY <1>1, <1>3, <1>4
<1> QED
  BY <1>2, <1>3, <1>5

\* The sort of check.rs is a sort: it orders the regions by base and every
\* region of the list is in its result.
THEOREM SortIsASort ==
  ASSUME NEW s \in Seq(Region)
  PROVE  /\ Sorted(sort_by_key(s))
         /\ \A i \in DOMAIN s : \E k \in 1..Len(s) : sort_by_key(s)[k] = s[i]
<1>1. DOMAIN s = 1..Len(s) /\ Len(s) \in Nat /\ Len(sort_by_key(s)) = Len(s)
  BY SortKeepsRegions
<1>2. ASSUME NEW k \in 1..Len(s), NEW m \in 1..Len(s), k < m
      PROVE  sort_by_key(s)[k].base <= sort_by_key(s)[m].base
  <2>1. PICK i \in DOMAIN s : Rank(s, i) = k /\ sort_by_key(s)[k] = s[i]
    BY SortKeepsRegions
  <2>2. PICK j \in DOMAIN s : Rank(s, j) = m /\ sort_by_key(s)[m] = s[j]
    BY SortKeepsRegions
  <2>3. ~(s[j].base < s[i].base)
    <3>1. s[j].base < s[i].base => m < k
      BY <2>1, <2>2, RankIsMonotone
    <3> QED
      BY <3>1, <1>1, <1>2
  <2>4. s[i].base \in Nat /\ s[j].base \in Nat
    BY BasesAreNat
  <2> QED
    BY <2>1, <2>2, <2>3, <2>4
<1>3. ASSUME NEW i \in DOMAIN s
      PROVE  \E k \in 1..Len(s) : sort_by_key(s)[k] = s[i]
  <2>1. Rank(s, i) \in 1..Len(s)
    BY RankIsAPosition
  <2>2. PICK j \in DOMAIN s : Rank(s, j) = Rank(s, i) /\ sort_by_key(s)[Rank(s, i)] = s[j]
    BY <2>1, SortKeepsRegions
  <2>3. j = i
    BY <2>2, RankIsInjective
  <2> QED
    BY <2>1, <2>2, <2>3
<1> QED
  BY <1>1, <1>2, <1>3 DEF Sorted

-----------------------------------------------------------------------------
(***************************************************************************)
(* The inductive invariant.  The list is sorted from the scan on, and      *)
(* "overlap" is reported exactly when a pair already passed overlaps.      *)
(***************************************************************************)
PairOverlaps(k) == End(regions[k]) > regions[k + 1].base

ScanInv ==
  /\ phase # "sort" => Sorted(regions)
  /\ phase = "sort" => at = 1 /\ problems = {}
  /\ Scanned => at >= Len(regions)
  /\ "overlap" \in problems <=>
       \E k \in 1..(Len(regions) - 1) : k < at /\ PairOverlaps(k)

IInv == CheckTypeOK /\ ScanInv

\* Rules 2 and 3 never report "overlap".
LEMMA LaterRulesAreOthers ==
  /\ \A s, w : window_problems(s, w) \subseteq Rules \ {"overlap"}
  /\ \A s : island_problems(s) \subseteq Rules \ {"overlap"}
<1>1. ASSUME NEW s, NEW w
      PROVE  window_problems(s, w) \subseteq Rules \ {"overlap"}
  BY Zenon DEF window_problems, Rules
<1>2. ASSUME NEW s
      PROVE  island_problems(s) \subseteq Rules \ {"overlap"}
  BY DEF island_problems, Rules
<1> QED
  BY <1>1, <1>2

\* The invariant holds when run() has read the regions.
LEMMA InitEstablishes == Init => IInv
<1> SUFFICES ASSUME Init PROVE IInv
  OBVIOUS
<1>1. regions \in Seq(Region) /\ Len(regions) \in Nat
  BY DEF Init
<1>2. ~\E k \in 1..(Len(regions) - 1) : k < at
  BY <1>1 DEF Init
<1> QED
  BY <1>1, <1>2 DEF Init, IInv, CheckTypeOK, ScanInv, Rules, Scanned

\* The sort keeps the invariant: no pair has been passed yet.
LEMMA SortPreserves == IInv /\ Sort => IInv'
<1> SUFFICES ASSUME IInv, Sort PROVE IInv'
  OBVIOUS
<1>1. regions \in Seq(Region)
  BY DEF IInv, CheckTypeOK
<1>2. regions' \in Seq(Region) /\ Sorted(regions)' /\ Len(regions') \in Nat
  <2>1. PICK t : t = sort_by_key(regions)
    OBVIOUS
  <2>2. t \in Seq(Region) /\ Sorted(t)
    BY <1>1, <2>1, SortKeepsRegions, SortIsASort
  <2>3. regions' = t
    BY <2>1 DEF Sort
  <2> QED
    BY <2>2, <2>3 DEF Sorted
<1>3. at' = 1 /\ problems' = {} /\ phase' = "scan"
  BY DEF Sort, IInv, ScanInv
<1>4. ~\E k \in 1..(Len(regions') - 1) : k < at'
  BY <1>2, <1>3
<1> QED
  BY <1>2, <1>3, <1>4 DEF IInv, CheckTypeOK, ScanInv, Rules, Scanned

\* One turn of the pass keeps the invariant: the pair at `at` joins the others.
LEMMA ScanPreserves == IInv /\ ScanPair => IInv'
<1> SUFFICES ASSUME IInv, ScanPair PROVE IInv'
  OBVIOUS
<1>1. /\ regions \in Seq(Region) /\ Len(regions) \in Nat
      /\ at \in Nat \ {0} /\ at < Len(regions) /\ at' = at + 1
      /\ regions' = regions /\ phase' = phase /\ phase = "scan"
      /\ problems' = IF PairOverlaps(at) THEN problems \union {"overlap"} ELSE problems
  BY DEF IInv, CheckTypeOK, ScanPair, PairOverlaps
<1>2. CheckTypeOK'
  BY <1>1 DEF IInv, CheckTypeOK, Rules
<1>3. "overlap" \in problems' <=> PairOverlaps(at) \/ "overlap" \in problems
  BY <1>1
<1>4. "overlap" \in problems <=>
        \E k \in 1..(Len(regions) - 1) : k < at /\ PairOverlaps(k)
  BY DEF IInv, ScanInv
<1>5. \A k \in 1..(Len(regions) - 1) : k < at + 1 <=> k < at \/ k = at
  BY <1>1
<1>6. at \in 1..(Len(regions) - 1)
  BY <1>1
<1>7. "overlap" \in problems' <=>
        \E k \in 1..(Len(regions) - 1) : k < at + 1 /\ PairOverlaps(k)
  BY <1>3, <1>4, <1>5, <1>6
<1>8. (\A k \in 1..(Len(regions) - 1) : PairOverlaps(k)' <=> PairOverlaps(k))
  BY <1>1 DEF PairOverlaps
<1>9. Sorted(regions)'
  BY <1>1 DEF IInv, ScanInv, Sorted
<1> QED
  BY <1>1, <1>2, <1>7, <1>8, <1>9 DEF IInv, ScanInv, Scanned

\* The end of the pass and the rules after it keep the invariant.
LEMMA LaterStepsPreserve ==
  IInv /\ (ScanEnds \/ CheckWindow \/ CheckIsland \/ UNCHANGED checkVars) => IInv'
<1> SUFFICES ASSUME IInv, ScanEnds \/ CheckWindow \/ CheckIsland \/ UNCHANGED checkVars
             PROVE  IInv'
  OBVIOUS
<1>1. regions' = regions /\ at' = at
  BY DEF ScanEnds, CheckWindow, CheckIsland, checkVars
<1>2. problems' \subseteq Rules /\ ("overlap" \in problems' <=> "overlap" \in problems)
  <2>1. problems \subseteq Rules
    BY DEF IInv, CheckTypeOK
  <2>2. CASE ScanEnds \/ UNCHANGED checkVars
    BY <2>1, <2>2 DEF ScanEnds, checkVars
  <2>3. CASE CheckWindow
    <3>1. UNION {window_problems(regions, w) : w \in OfKind(regions, {"window"})}
            \subseteq Rules \ {"overlap"}
      BY LaterRulesAreOthers
    <3> QED
      BY <2>1, <2>3, <3>1 DEF CheckWindow
  <2>4. CASE CheckIsland
    <3>1. island_problems(regions) \subseteq Rules \ {"overlap"}
      BY LaterRulesAreOthers
    <3> QED
      BY <2>1, <2>4, <3>1 DEF CheckIsland
  <2> QED
    BY <2>2, <2>3, <2>4
<1>3. CheckTypeOK'
  BY <1>1, <1>2 DEF IInv, CheckTypeOK, ScanEnds, CheckWindow, CheckIsland, checkVars
<1>4. \A k \in 1..(Len(regions) - 1) : PairOverlaps(k)' <=> PairOverlaps(k)
  BY <1>1 DEF PairOverlaps
<1>5. Sorted(regions)' <=> Sorted(regions)
  BY <1>1 DEF Sorted
<1> QED
  BY <1>1, <1>2, <1>3, <1>4, <1>5
     DEF IInv, ScanInv, Scanned, ScanEnds, CheckWindow, CheckIsland, checkVars

\* Every step of run() keeps the invariant.
LEMMA NextPreserves == IInv /\ [Next]_checkVars => IInv'
  BY SortPreserves, ScanPreserves, LaterStepsPreserve DEF Next, CheckStep

\* The invariant holds throughout every check.
THEOREM CheckInvariance == Spec => []IInv
  BY InitEstablishes, NextPreserves, PTL DEF Spec

\* run() keeps a well-formed list, position and set of problems.
THEOREM CheckTypeCorrect == Spec => []CheckTypeOK
<1>1. IInv => CheckTypeOK
  BY DEF IInv
<1> QED
  BY <1>1, CheckInvariance, PTL

\* Sorted, neighbours stand for all pairs.
LEMMA PassIsComplete == IInv => EveryOverlapIsSeen
<1> DEFINE overlaps(i, j) == i < j /\ TrueEnd(regions[i]) > regions[j].base
<1> SUFFICES ASSUME IInv, Scanned
             PROVE  /\ "overlap" \in problems => \E i, j \in 1..Len(regions) : overlaps(i, j)
                    /\ (\E i, j \in 1..Len(regions) : EndsInU64(regions[i]) /\ overlaps(i, j))
                         => "overlap" \in problems
  BY DEF EveryOverlapIsSeen
<1>1. /\ Sorted(regions) /\ at \in Nat /\ at >= Len(regions)
      /\ regions \in Seq(Region) /\ Len(regions) \in Nat
  BY DEF IInv, CheckTypeOK, ScanInv, Scanned
<1>2. "overlap" \in problems <=> \E k \in 1..(Len(regions) - 1) : PairOverlaps(k)
  BY <1>1 DEF IInv, ScanInv
<1>3. \A k \in 1..Len(regions) : regions[k].base \in Nat /\ regions[k].size \in Nat
  BY <1>1, BasesAreNat
<1>4. \A k \in 1..Len(regions) :
        /\ TrueEnd(regions[k]) \in Nat /\ End(regions[k]) \in Nat
        /\ End(regions[k]) <= TrueEnd(regions[k])
        /\ EndsInU64(regions[k]) => End(regions[k]) = TrueEnd(regions[k])
  <2> SUFFICES ASSUME NEW k \in 1..Len(regions)
               PROVE  /\ TrueEnd(regions[k]) \in Nat /\ End(regions[k]) \in Nat
                      /\ End(regions[k]) <= TrueEnd(regions[k])
                      /\ EndsInU64(regions[k]) => End(regions[k]) = TrueEnd(regions[k])
    OBVIOUS
  <2>1. TrueEnd(regions[k]) \in Nat
    BY <1>3 DEF TrueEnd
  <2>2. End(regions[k]) = Wrap(TrueEnd(regions[k]))
    BY DEF End, TrueEnd
  <2> QED
    BY <2>1, <2>2, WrapFacts DEF EndsInU64
<1>5. ASSUME NEW k \in 1..(Len(regions) - 1), PairOverlaps(k)
      PROVE  \E i, j \in 1..Len(regions) : overlaps(i, j)
  <2>1. k \in 1..Len(regions) /\ k + 1 \in 1..Len(regions) /\ k < k + 1
    BY <1>1
  <2>2. TrueEnd(regions[k]) > regions[k + 1].base
    BY <1>3, <1>4, <1>5, <2>1 DEF PairOverlaps
  <2> QED
    BY <2>1, <2>2
<1>6. ASSUME NEW i \in 1..Len(regions), NEW j \in 1..Len(regions),
             EndsInU64(regions[i]), overlaps(i, j)
      PROVE  \E k \in 1..(Len(regions) - 1) : PairOverlaps(k)
  <2>1. i \in 1..(Len(regions) - 1) /\ i + 1 \in 1..Len(regions) /\ (i + 1 = j \/ i + 1 < j)
    BY <1>1, <1>6
  <2>2. i + 1 = j \/ regions[i + 1].base <= regions[j].base
    BY <1>1, <2>1 DEF Sorted
  <2>3. End(regions[i]) > regions[i + 1].base
    BY <1>3, <1>4, <1>6, <2>1, <2>2
  <2> QED
    BY <2>1, <2>3 DEF PairOverlaps
<1> QED
  BY <1>2, <1>5, <1>6

\* The pass over neighbours reports an overlap only when two regions overlap,
\* and then always when the end of the first is a u64, for lists of every
\* length.
THEOREM PassSeesEveryOverlap == Spec => []EveryOverlapIsSeen
  BY PassIsComplete, CheckInvariance, PTL

-----------------------------------------------------------------------------
(***************************************************************************)
(* Rule 2.  Once CheckWindow has run, whatever it found is among the       *)
(* problems, and nothing after it takes a problem away.                    *)
(***************************************************************************)
WindowInv ==
  phase \in {"island", "done"} =>
    \A w \in OfKind(regions, {"window"}) : window_problems(regions, w) \subseteq problems

\* Every step of run() keeps WindowInv.
LEMMA WindowStep == WindowInv /\ [Next]_checkVars => WindowInv'
<1> SUFFICES ASSUME WindowInv, [Next]_checkVars PROVE WindowInv'
  OBVIOUS
<1>1. CASE Sort \/ ScanPair \/ ScanEnds
  <2>1. phase' \in {"scan", "window"}
    BY <1>1 DEF Sort, ScanPair, ScanEnds
  <2> QED
    BY <2>1 DEF WindowInv
<1>2. CASE CheckWindow
  <2>1. /\ regions' = regions
        /\ problems' = problems \union
             UNION {window_problems(regions, w) : w \in OfKind(regions, {"window"})}
    BY <1>2 DEF CheckWindow
  <2>2. \A w \in OfKind(regions, {"window"}) : window_problems(regions, w) \subseteq problems'
    BY <2>1
  <2> QED
    BY <2>1, <2>2 DEF WindowInv
<1>3. CASE CheckIsland
  <2>1. regions' = regions /\ problems \subseteq problems' /\ phase = "island"
    BY <1>3 DEF CheckIsland
  <2>2. \A w \in OfKind(regions, {"window"}) : window_problems(regions, w) \subseteq problems'
    BY <2>1 DEF WindowInv
  <2> QED
    BY <2>1, <2>2 DEF WindowInv
<1>4. CASE UNCHANGED checkVars
  <2>1. regions' = regions /\ problems' = problems /\ phase' = phase
    BY <1>4 DEF checkVars
  <2> QED
    BY <2>1 DEF WindowInv
<1> QED
  BY <1>1, <1>2, <1>3, <1>4 DEF Next, CheckStep

\* What rule 2 establishes of a window when it reports nothing.
LEMMA QuietWindow ==
  ASSUME NEW s, NEW w, window_problems(s, w) = {}
  PROVE  /\ is_power_of_two(w.size) /\ is_power_of_two(Wrap(w.base + 2 * w.size))
         /\ w.base % w.size = 0
         /\ \A r \in OfKind(s, {"device", "payload"}) : ~(r.base >= w.base)
<1> DEFINE top == Wrap(w.base + 2 * w.size)
<1>1. is_power_of_two(w.size) \in BOOLEAN /\ is_power_of_two(top) \in BOOLEAN
  BY DEF is_power_of_two
<1>2. (IF ~is_power_of_two(w.size) THEN {"window_size"}
       ELSE IF w.base % w.size # 0 THEN {"window_align"} ELSE {}) = {}
  BY Zenon DEF window_problems
<1>3. (IF is_power_of_two(top) THEN {} ELSE {"not_top_pair"}) = {}
  BY Zenon DEF window_problems
<1>4. (IF \E r \in OfKind(s, {"device", "payload"}) : r.base >= w.base
       THEN {"above_window"} ELSE {}) = {}
  BY Zenon DEF window_problems
<1>5. is_power_of_two(w.size) /\ w.base % w.size = 0
  BY <1>1, <1>2, Zenon
<1>6. is_power_of_two(top)
  BY <1>1, <1>3, Zenon
<1>7. ~\E r \in OfKind(s, {"device", "payload"}) : r.base >= w.base
  BY <1>4, Zenon
<1> QED
  BY <1>5, <1>6, <1>7

\* Multiples of z that are apart are z apart.
LEMMA MultiplesAreApart ==
  ASSUME NEW z \in Nat \ {0}, NEW x \in Nat, NEW y \in Nat, x % z = 0, y % z = 0, x < y
  PROVE  x + z <= y
<1> DEFINE p == x \div z
           q == y \div z
<1>1. x = z * p /\ p \in Nat /\ y = z * q /\ q \in Nat
  OBVIOUS
<1> HIDE DEF p, q
<1>2. p < q
  BY <1>1
<1>3. z * (p + 1) = z * p + z /\ z * (p + 1) <= z * q
  BY <1>1, <1>2
<1> QED
  BY <1>1, <1>3

\* A window of 2^B that is 2^B-aligned and ends in u64 has a top no higher than
\* 2^64; at 2^64 the sum wraps to 0, which is no power of two.
LEMMA QuietTopIsExact ==
  ASSUME NEW b \in Nat, NEW z \in Nat, b + z <= U64_MAX,
         is_power_of_two(z), b % z = 0, is_power_of_two(Wrap(b + 2 * z))
  PROVE  b + 2 * z <= U64_MAX /\ Wrap(b + 2 * z) = b + 2 * z
<1>1. PICK k \in Nat \ {0} : k = U64_MAX + 1
  BY U64Assumption
<1>2. z \in 1..U64_MAX /\ U64_MAX \in Nat
  BY U64Assumption DEF is_power_of_two
<1>3. k % z = 0
  BY <1>1, <1>2, U64Assumption
<1>4. (b + z) % z = 0
  <2>1. z \in Nat \ {0}
    BY <1>2
  <2>2. b = z * (b \div z) + (b % z) /\ b \div z \in Nat
    BY <2>1
  <2>3. PICK p \in Nat : b = z * p
    BY <2>2
  <2>4. b + z = z * (p + 1)
    BY <2>3
  <2>5. (z * (p + 1)) % z = 0
    BY <2>1
  <2> QED
    BY <2>4, <2>5
<1>5. (b + z) + z <= k
  <2>1. z \in Nat \ {0} /\ b + z \in Nat /\ b + z < k
    BY <1>1, <1>2
  <2> QED
    BY <1>3, <1>4, <2>1, MultiplesAreApart
<1>6. b + 2 * z # k
  <2>1. k % k = 0
    OBVIOUS
  <2>2. ~is_power_of_two(0)
    BY DEF is_power_of_two
  <2> QED
    BY <1>1, <2>1, <2>2 DEF Wrap
<1>7. b + 2 * z \in Nat /\ b + 2 * z <= U64_MAX
  BY <1>1, <1>2, <1>5, <1>6
<1> QED
  BY <1>7, WrapFacts

\* What no rule has reported, in a sorted list.
LEMMA CleanIsBelow == IInv /\ EveryOverlapIsSeen /\ WindowInv => CleanMapIsBelowWindow
<1> SUFFICES ASSUME IInv, EveryOverlapIsSeen, WindowInv, phase = "done", problems = {},
                    NEW w \in OfKind(regions, {"window"}), EndsInU64(w)
             PROVE  /\ is_power_of_two(w.size) /\ is_power_of_two(w.base + 2 * w.size)
                    /\ w.base + 2 * w.size <= U64_MAX
                    /\ w.base % w.size = 0
                    /\ \A r \in OfKind(regions, {"device", "payload"}) :
                         EndsInU64(r) => TrueEnd(r) <= w.base
  BY DEF CleanMapIsBelowWindow
<1>1. window_problems(regions, w) = {}
  BY DEF WindowInv
<1>2. regions \in Seq(Region) /\ Len(regions) \in Nat /\ DOMAIN regions = 1..Len(regions)
  BY DEF IInv, CheckTypeOK
<1>3. Sorted(regions)
  BY DEF IInv, ScanInv
<1>4. \A i, j \in 1..Len(regions) :
        i < j /\ EndsInU64(regions[i]) => ~(TrueEnd(regions[i]) > regions[j].base)
  BY DEF EveryOverlapIsSeen, Scanned
<1>5. PICK j \in DOMAIN regions : w = regions[j]
  BY DEF OfKind
<1>6. ASSUME NEW r \in OfKind(regions, {"device", "payload"}), EndsInU64(r)
      PROVE  TrueEnd(r) <= w.base
  <2>1. PICK i \in DOMAIN regions : r = regions[i]
    BY DEF OfKind
  <2>2. r.base \in Nat /\ r.size \in Nat /\ w.base \in Nat
    BY <1>2, <1>5, <2>1, BasesAreNat
  <2>3. ~(r.base >= w.base)
    BY <1>1, QuietWindow
  <2>4. i < j
    <3>1. ~(j < i)
      BY <1>2, <1>3, <1>5, <2>1, <2>2, <2>3 DEF Sorted
    <3>2. i # j
      BY <1>5, <2>1, <2>2, <2>3
    <3> QED
      BY <1>2, <3>1, <3>2
  <2>5. ~(TrueEnd(regions[i]) > regions[j].base)
    BY <1>2, <1>4, <1>6, <2>1, <2>4
  <2> QED
    BY <1>5, <2>1, <2>2, <2>5 DEF TrueEnd
<1>7. /\ is_power_of_two(w.size) /\ is_power_of_two(Wrap(w.base + 2 * w.size))
      /\ w.base % w.size = 0
  BY <1>1, QuietWindow
<1>8. w.base \in Nat /\ w.size \in Nat /\ w.base + w.size <= U64_MAX
  BY <1>2, <1>5, BasesAreNat DEF EndsInU64, TrueEnd
<1>9. w.base + 2 * w.size <= U64_MAX /\ Wrap(w.base + 2 * w.size) = w.base + 2 * w.size
  BY <1>7, <1>8, QuietTopIsExact
<1> QED
  BY <1>6, <1>7, <1>9

\* In a map reported clean a window that ends in u64 is the lower half of the
\* top pair of a 2^X space, 2^X < 2^64, and every device and payload that ends
\* in u64 ends at or below its base, for lists of every length: rule 2 tests
\* bases only, and the end follows from the sort and from the pass over
\* neighbours having seen no overlap.
THEOREM CleanMapClearsWindow == Spec => []CleanMapIsBelowWindow
<1>1. Init => WindowInv
  BY DEF Init, WindowInv
<1> QED
  BY <1>1, CleanIsBelow, WindowStep, CheckInvariance, PassSeesEveryOverlap, PTL DEF Spec
=============================================================================
