--------------------------- MODULE Dtb2AcpiProofs ---------------------------
(***************************************************************************)
(* The SLIT, for every tree: whatever the order of the distances given,    *)
(* the emitter fails exactly on those that are no symmetric matrix over    *)
(* the domains, and the matrix it writes is the one that was given.        *)
(***************************************************************************)
EXTENDS Dtb2Acpi, TLAPS

Wf == INSTANCE WellFoundedInduction

Triple == [from : Nat, to : Nat, val : Nat]

\* Domains::insert() keeps each domain once.
DomainsInv ==
    /\ \E S : domains \in Seq(S)
    /\ \A i, j \in 1..Len(domains) : domains[i] = domains[j] => i = j

Counting == pc \in {"cpus", "devices", "memory"}

\* count_numa() announces distances only if there are some and they have a use.
TallyInv ==
    /\ DOMAIN tally = {"vcpu", "cpu", "tagged", "untagged", "regions", "memories", "memory_tagged",
                       "has_numa", "has_distances"}
    /\ Counting => tally.has_distances = FALSE
    /\ tally.has_distances =>
         "distance_map" \in DOMAIN tree /\ "distance_matrix" \in DOMAIN tree.distance_map

InSlit == pc \in {"SLIT", "distances"}

Written == pc \notin {"cpus", "devices", "memory", "layout"}

\* The slot of the SLIT is that of its matrix.
SlotsInv ==
    /\ Written /\ tally.has_distances => slots["SLIT"].len = 44 + N * N
    /\ ~Written => DOMAIN slots = {}

\* What has been read of the matrix is a matrix.
ReadInv ==
    pc = "distances" =>
      /\ k \in Nat /\ k <= Len(given.triples)
      /\ given.whole /\ given.triples # <<>>
      /\ matrix \in [1..N -> [1..N -> Nat]]
      /\ \A m \in 1..k :
           LET t == given.triples[m]
           IN /\ InSeq(t.from, domains) /\ InSeq(t.to, domains)
              /\ t.val \in 10..DISTANCE_MAX /\ (t.from = t.to => t.val = 10)

\* The triples read so far that give the distance of x and y, in either direction.
Told(x, y) == {m \in 1..k : {given.triples[m].from, given.triples[m].to} = {x, y}}

\* The triples of a distance matrix come in any order, a pair may be given once,
\* in both directions or again, and 0 stands for "not yet": whatever has been
\* read, each cell and its mirror hold what every triple of that pair said, and
\* only cells no triple spoke of are still empty.
DistancesSoFar ==
    pc = "distances" =>
      \A i, j \in 1..N :
        /\ Told(domains[i], domains[j]) = {} => matrix[i][j] = IF i = j THEN 10 ELSE 0
        /\ \A m \in Told(domains[i], domains[j]) : matrix[i][j] = given.triples[m].val

SlitInv == tree \in Trees /\ DomainsInv /\ TallyInv /\ SlotsInv
           /\ (InSlit => tally.has_distances) /\ ReadInv /\ DistancesSoFar

-----------------------------------------------------------------------------
LEMMA NumbersAssumed == U8_MAX \in Nat /\ DISTANCE_MAX = 255
BY AcpiAssumption DEF DISTANCE_MAX

LEMMA DomainsAreASequence ==
  ASSUME DomainsInv
  PROVE  N \in Nat /\ DOMAIN domains = 1..N
BY DEF DomainsInv, N

\* The triples of a tree with distances.
LEMMA TriplesAre ==
  ASSUME tree \in Trees, TallyInv, tally.has_distances
  PROVE  given.triples \in Seq(Triple)
<1>1. "distance_map" \in DOMAIN tree /\ "distance_matrix" \in DOMAIN tree.distance_map
  BY DEF TallyInv
<1> QED
  BY <1>1, AcpiAssumption DEF given, Triple

LEMMA IndexIs ==
  ASSUME DomainsInv, NEW d, InSeq(d, domains)
  PROVE  index_of(d) \in 1..N /\ domains[index_of(d)] = d /\ \A i \in 1..N : domains[i] = d => i = index_of(d)
<1>1. N \in Nat /\ DOMAIN domains = 1..N
  BY DomainsAreASequence
<1>2. PICK i \in 1..N : domains[i] = d
  BY <1>1 DEF InSeq
<1>3. \A a, b \in 1..N : domains[a] = domains[b] => a = b
  BY DEF DomainsInv, N
<1>4. \A j \in 1..(i - 1) : domains[j] # d
  <2> SUFFICES ASSUME NEW j \in 1..(i - 1), domains[j] = d PROVE FALSE
    OBVIOUS
  <2>1. j \in 1..N /\ j # i
    BY <1>1, <1>2
  <2> QED
    BY <1>2, <1>3, <2>1
<1>5. \E x \in DOMAIN domains : domains[x] = d /\ \A j \in 1..(x - 1) : domains[j] # d
  BY <1>1, <1>2, <1>4
<1>6. index_of(d) \in DOMAIN domains /\ domains[index_of(d)] = d
  BY <1>5 DEF index_of
<1> QED
  BY <1>1, <1>3, <1>6

\* Domains::insert()
LEMMA InsertKeepsDomains ==
  ASSUME DomainsInv, NEW n, domains' = Inserted(n)
  PROVE  DomainsInv'
<1>1. CASE domains' = domains
  BY <1>1 DEF DomainsInv
<1>2. CASE domains' # domains
  <2> DEFINE x == n.numa_node_id[1]
  <2>1. domains' = Append(domains, x) /\ ~InSeq(x, domains)
    BY <1>2 DEF Inserted
  <2>2. PICK S : domains \in Seq(S)
    BY DEF DomainsInv
  <2> HIDE DEF x
  <2>3. /\ domains' \in Seq(S \union {x}) /\ Len(domains') = Len(domains) + 1 /\ Len(domains) \in Nat
        /\ domains'[Len(domains) + 1] = x /\ \A i \in 1..Len(domains) : domains'[i] = domains[i]
    <3>1. domains \in Seq(S \union {x})
      BY <2>2
    <3> QED
      BY <2>1, <3>1
  <2>4. \A i \in 1..Len(domains) : domains[i] # x
    BY <2>1, <2>2 DEF InSeq
  <2>5. ASSUME NEW i \in 1..Len(domains'), NEW j \in 1..Len(domains'), domains'[i] = domains'[j]
        PROVE  i = j
    <3>1. \A a, b \in 1..Len(domains) : domains[a] = domains[b] => a = b
      BY DEF DomainsInv
    <3> QED
      BY <2>3, <2>4, <2>5, <3>1
  <2> QED
    BY <2>3, <2>5 DEF DomainsInv
<1> QED
  BY <1>1, <1>2

-----------------------------------------------------------------------------
LEMMA InitSlit == Init => SlitInv
<1> SUFFICES ASSUME Init PROVE SlitInv
  OBVIOUS
<1>1. DomainsInv
  <2>1. domains \in Seq({}) /\ Len(domains) = 0
    BY DEF Init
  <2> QED
    BY <2>1 DEF DomainsInv
<1>2. TallyInv
  BY DEF Init, TallyInv, Counting
<1>3. SlotsInv
  BY DEF Init, SlotsInv, Written
<1> QED
  BY <1>1, <1>2, <1>3 DEF Init, SlitInv, InSlit, ReadInv, DistancesSoFar

\* Steps that leave what has been counted and do not read distances.
LEMMA OtherStep ==
  ASSUME SlitInv, UNCHANGED <<tree, domains, tally, slots>>,
         pc' \notin {"cpus", "devices", "memory", "layout", "distances"},
         pc' = "SLIT" => tally.has_distances,
         Written \/ Counting
  PROVE  SlitInv'
<1>1. DomainsInv' /\ (tree \in Trees)'
  BY DEF SlitInv, DomainsInv
<1>2. TallyInv'
  BY DEF SlitInv, TallyInv, Counting
<1>3. SlotsInv'
  BY DEF SlitInv, TallyInv, SlotsInv, Written, Counting, N
<1> QED
  BY <1>1, <1>2, <1>3 DEF SlitInv, InSlit, ReadInv, DistancesSoFar

\* Steps of the first pass.
LEMMA CountingStep ==
  ASSUME SlitInv, Counting, UNCHANGED <<tree, slots>>, pc' \in {"cpus", "devices", "memory", "layout"},
         DomainsInv', TallyInv'
  PROVE  SlitInv'
<1>1. SlotsInv'
  BY DEF SlitInv, SlotsInv, Written, Counting
<1> QED
  BY <1>1 DEF SlitInv, InSlit, ReadInv, DistancesSoFar

LEMMA RefuseStep ==
  ASSUME SlitInv, Counting, Refuse
  PROVE  SlitInv'
BY OtherStep DEF Refuse

LEMMA WalkCpuStep ==
  ASSUME SlitInv, WalkCpu
  PROVE  SlitInv'
<1>1. DomainsInv'
  BY InsertKeepsDomains DEF WalkCpu, SlitInv
<1>2. DOMAIN tally' = DOMAIN tally /\ tally'.has_distances = tally.has_distances
  BY DEF WalkCpu, SlitInv, TallyInv
<1>3. TallyInv'
  BY <1>2 DEF WalkCpu, SlitInv, TallyInv, Counting
<1> QED
  BY <1>1, <1>3, CountingStep DEF WalkCpu, Counting

LEMMA WalkMemoryStep ==
  ASSUME SlitInv, WalkMemory
  PROVE  SlitInv'
<1>1. DomainsInv'
  BY InsertKeepsDomains DEF WalkMemory, SlitInv
<1>2. DOMAIN tally' = DOMAIN tally /\ tally'.has_distances = tally.has_distances
  BY DEF WalkMemory, SlitInv, TallyInv
<1>3. TallyInv'
  BY <1>2 DEF WalkMemory, SlitInv, TallyInv, Counting
<1> QED
  BY <1>1, <1>3, CountingStep DEF WalkMemory, Counting

LEMMA MemoriesWalkedStep ==
  ASSUME SlitInv, MemoriesWalked
  PROVE  SlitInv'
<1>1. DomainsInv'
  BY DEF MemoriesWalked, SlitInv, DomainsInv
<1>2. DOMAIN tally' = DOMAIN tally /\ tally'.has_distances = Distances
  BY DEF MemoriesWalked, SlitInv, TallyInv
<1>3. TallyInv'
  <2>1. Distances => "distance_map" \in DOMAIN tree /\ "distance_matrix" \in DOMAIN tree.distance_map
    BY DEF MemoriesWalked, NumaOk, Distances, Has
  <2> QED
    BY <1>2, <2>1 DEF MemoriesWalked, SlitInv, TallyInv, Counting
<1> QED
  BY <1>1, <1>3, CountingStep DEF MemoriesWalked, Counting

LEMMA LayoutStep ==
  ASSUME SlitInv, Layout
  PROVE  SlitInv'
<1>1. DomainsInv' /\ (tree \in Trees)'
  BY DEF Layout, SlitInv, DomainsInv
<1>2. TallyInv'
  BY DEF Layout, SlitInv, TallyInv, Counting
<1>3. pc' \in {"RSDP", "too_small"}
  BY DEF Layout
<1>4. total_size("SLIT") = 44 + N * N
  BY DEF total_size, N
<1>5. tally.has_distances => slots'["SLIT"].len = total_size("SLIT")
  BY DEF Layout, Carved, Present
<1>6. SlotsInv'
  BY <1>3, <1>4, <1>5 DEF Layout, SlotsInv, Written, N
<1> QED
  BY <1>1, <1>2, <1>3, <1>6 DEF SlitInv, InSlit, ReadInv, DistancesSoFar

-----------------------------------------------------------------------------
\* The tables after a table.
LEMMA LeastOne ==
  ASSUME NEW S, S \subseteq Nat, S # {}
  PROVE  Min(S) \in S
<1> DEFINE R == {ss \in Nat \X Nat : ss[1] < ss[2]}
<1>1. Wf!IsWellFoundedOn(R, Nat)
  BY Wf!NatLessThanWellFounded DEF Wf!OpToRel
<1>2. \A x, y \in Nat : <<y, x>> \in R <=> y < x
  OBVIOUS
<1> HIDE DEF R
<1>3. PICK x \in S : \A y \in S : ~(<<y, x>> \in R)
  BY <1>1, Wf!WFMin
<1>4. ASSUME NEW y \in S PROVE x <= y
  <2>1. x \in Nat /\ y \in Nat
    OBVIOUS
  <2>2. ~(y < x)
    BY <1>2, <1>3, <2>1
  <2> QED
    BY <2>1, <2>2
<1> QED
  BY <1>4 DEF Min

LEMMA PresentTables ==
  /\ Present \subseteq {"RSDP", "DSDT", "FADT", "MADT", "MCFG", "SPCR", "SRAT", "SLIT", "XSDT"}
  /\ "SLIT" \in Present <=> tally.has_distances
BY DEF Present

LEMMA AfterIs ==
  ASSUME NEW t
  PROVE  After(t) \in Present \union {"done"}
<1> DEFINE later == {i \in DOMAIN Order : Order[i] \in Present /\ \A j \in i..Len(Order) : Order[j] # t}
<1>1. DOMAIN Order = 1..9
  BY DEF Order
<1>2. After(t) = IF later = {} THEN "done" ELSE Order[Min(later)]
  BY DEF After
<1>3. later \subseteq Nat
  BY <1>1
<1>4. \A i \in later : Order[i] \in Present
  OBVIOUS
<1> HIDE DEF later
<1> QED
  BY <1>2, <1>3, <1>4, LeastOne

LEMMA AfterStep ==
  ASSUME SlitInv, Written, NEW t, pc' = After(t), UNCHANGED <<tree, domains, tally, slots>>
  PROVE  SlitInv'
<1>1. pc' \notin {"cpus", "devices", "memory", "layout", "distances"}
  BY AfterIs, PresentTables
<1>2. pc' = "SLIT" => tally.has_distances
  BY AfterIs, PresentTables
<1> QED
  BY <1>1, <1>2, OtherStep

LEMMA BreakStep ==
  ASSUME SlitInv, Written, Break
  PROVE  SlitInv'
BY OtherStep DEF Break

LEMMA EmitStep ==
  ASSUME SlitInv, NEW t \in DOMAIN slots, Emit(t) \/ EmitFails(t)
  PROVE  SlitInv'
<1>1. Written
  BY DEF SlitInv, SlotsInv
<1>2. CASE Emit(t)
  BY <1>1, <1>2, AfterStep DEF Emit
<1>3. CASE EmitFails(t)
  BY <1>1, <1>3, BreakStep DEF EmitFails
<1> QED
  BY <1>2, <1>3

LEMMA EmitSlitHeaderStep ==
  ASSUME SlitInv, EmitSlitHeader
  PROVE  SlitInv'
<1>1. DomainsInv' /\ (tree \in Trees)'
  BY DEF EmitSlitHeader, SlitInv, DomainsInv
<1>2. TallyInv' /\ tally.has_distances
  BY DEF EmitSlitHeader, SlitInv, TallyInv, Counting, InSlit
<1>3. SlotsInv'
  BY DEF EmitSlitHeader, SlitInv, SlotsInv, Written, N
<1>4. N \in Nat /\ DOMAIN domains = 1..N /\ N' = N
  BY DomainsAreASequence DEF SlitInv, EmitSlitHeader, N
<1>5. given.triples \in Seq(Triple)
  BY <1>2, TriplesAre DEF SlitInv
<1>6. given' = given
  BY DEF given, EmitSlitHeader
<1>7. matrix' = [i \in 1..N |-> [j \in 1..N |-> IF i = j THEN 10 ELSE 0]] /\ k' = 0
  BY DEF EmitSlitHeader
<1>8. ReadInv'
  <2>1. Len(given.triples) \in Nat
    BY <1>5
  <2>2. given.whole /\ given.triples # <<>>
    BY DEF EmitSlitHeader, MatrixOk
  <2>3. matrix' \in [1..N -> [1..N -> Nat]]
    BY <1>7
  <2> QED
    BY <1>4, <1>6, <1>7, <2>1, <2>2, <2>3 DEF ReadInv
<1>9. DistancesSoFar'
  <2>1. ASSUME NEW x, NEW y PROVE Told(x, y)' = {}
    BY <1>7 DEF Told
  <2> QED
    BY <1>4, <1>7, <2>1 DEF DistancesSoFar
<1> QED
  BY <1>1, <1>2, <1>3, <1>8, <1>9 DEF SlitInv, InSlit, EmitSlitHeader

-----------------------------------------------------------------------------
\* x, y is a, b in one of the directions.
Same(x, y, a, b) == (x = a /\ y = b) \/ (x = b /\ y = a)

LEMMA SameIs == \A x, y, a, b : Same(x, y, a, b) <=> {x, y} = {a, b}
BY DEF Same

\* Reading one triple: t says something of the cells of its pair only.
LEMMA PairIs ==
  ASSUME DomainsInv, NEW x, NEW y, InSeq(x, domains), InSeq(y, domains),
         NEW a \in 1..N, NEW b \in 1..N
  PROVE  Same(x, y, domains[a], domains[b]) <=> Same(index_of(x), index_of(y), a, b)
<1> DEFINE i == index_of(x)
           j == index_of(y)
<1>1. i \in 1..N /\ domains[i] = x /\ j \in 1..N /\ domains[j] = y
  BY IndexIs
<1>2. \A c, d \in 1..N : domains[c] = domains[d] => c = d
  BY DEF DomainsInv, N
<1> HIDE DEF i, j
<1>3. x = domains[a] <=> i = a
  BY <1>1, <1>2
<1>4. x = domains[b] <=> i = b
  BY <1>1, <1>2
<1>5. y = domains[a] <=> j = a
  BY <1>1, <1>2
<1>6. y = domains[b] <=> j = b
  BY <1>1, <1>2
<1>7. Same(x, y, domains[a], domains[b]) <=> Same(i, j, a, b)
  BY <1>3, <1>4, <1>5, <1>6 DEF Same
<1> QED
  BY <1>7 DEF i, j

\* The diagonal stays 10.
LEMMA DiagonalIs ==
  ASSUME SlitInv, pc = "distances", NEW a \in 1..N
  PROVE  matrix[a][a] = 10
<1>1. CASE Told(domains[a], domains[a]) = {}
  BY <1>1 DEF SlitInv, DistancesSoFar
<1>2. CASE Told(domains[a], domains[a]) # {}
  <2>1. PICK m \in Told(domains[a], domains[a]) : TRUE
    BY <1>2
  <2>2. matrix[a][a] = given.triples[m].val
    BY <2>1 DEF SlitInv, DistancesSoFar
  <2>3. m \in 1..k /\ {given.triples[m].from, given.triples[m].to} = {domains[a], domains[a]}
    BY <2>1 DEF Told
  <2>4. given.triples[m].from = given.triples[m].to
    BY <2>3
  <2>5. given.triples[m].val = 10
    BY <2>3, <2>4 DEF SlitInv, ReadInv
  <2> QED
    BY <2>2, <2>5
<1> QED
  BY <1>1, <1>2

\* What DistanceOk() accepts, whichever branch it takes.
LEMMA AcceptedTriple ==
  ASSUME SlitInv, pc = "distances", NEW t \in Triple, DistanceOk(t)
  PROVE  /\ InSeq(t.from, domains) /\ InSeq(t.to, domains)
         /\ t.val \in 10..DISTANCE_MAX /\ (t.from = t.to => t.val = 10)
<1>1. t.val \in Nat /\ t.val <= DISTANCE_MAX /\ DISTANCE_MAX \in Nat
  BY NumbersAssumed DEF DistanceOk, Triple
<1>2. InSeq(t.from, domains) /\ InSeq(t.to, domains)
  BY DEF DistanceOk
<1>3. t.val >= 10
  BY <1>1 DEF DistanceOk
<1>4. t.from = t.to => t.val = 10
  BY DEF DistanceOk
<1> QED
  BY <1>1, <1>2, <1>3, <1>4

LEMMA PutIs ==
  ASSUME DomainsInv, matrix \in [1..N -> [1..N -> Nat]], NEW i \in 1..N, NEW j \in 1..N, i # j, NEW v \in Nat
  PROVE  /\ Put(i, j, v) \in [1..N -> [1..N -> Nat]]
         /\ \A a, b \in 1..N : Put(i, j, v)[a][b] = IF Same(i, j, a, b) THEN v ELSE matrix[a][b]
<1>1. PICK M \in [1..N -> [1..N -> Nat]] : M = [matrix EXCEPT ![i] = [matrix[i] EXCEPT ![j] = v]]
  OBVIOUS
<1>2. \A a, b \in 1..N : M[a][b] = IF a = i /\ b = j THEN v ELSE matrix[a][b]
  BY <1>1
<1>3. PICK L \in [1..N -> [1..N -> Nat]] : L = [M EXCEPT ![j] = [M[j] EXCEPT ![i] = v]]
  BY <1>1
<1>4. \A a, b \in 1..N : L[a][b] = IF a = j /\ b = i THEN v ELSE M[a][b]
  BY <1>3
<1>5. Put(i, j, v) = L
  BY <1>1, <1>3 DEF Put
<1>7. ASSUME NEW a \in 1..N, NEW b \in 1..N
      PROVE  L[a][b] = IF Same(i, j, a, b) THEN v ELSE matrix[a][b]
  BY <1>2, <1>4 DEF Same
<1> QED
  BY <1>5, <1>7

LEMMA PutDistanceStep ==
  ASSUME SlitInv, PutDistance
  PROVE  SlitInv'
<1>a. PICK D : D = given.triples
  OBVIOUS
<1>b. PICK t : t = D[k + 1]
  OBVIOUS
<1>c. PICK i, j, v : i = index_of(t.from) /\ j = index_of(t.to) /\ v = t.val
  OBVIOUS
<1>1. DomainsInv /\ DomainsInv' /\ (tree \in Trees)'
  BY DEF PutDistance, SlitInv, DomainsInv
<1>2. TallyInv /\ TallyInv' /\ tally.has_distances /\ pc = "distances" /\ pc' = pc /\ tally' = tally
  BY DEF PutDistance, SlitInv, TallyInv, Counting, InSlit
<1>3. SlotsInv'
  BY DEF PutDistance, SlitInv, SlotsInv, Written, N
<1>4. N \in Nat /\ N' = N /\ given' = given /\ domains' = domains /\ k' = k + 1
  BY <1>1, DomainsAreASequence DEF PutDistance, N, given
<1>5. D \in Seq(Triple)
  BY <1>a, <1>2, TriplesAre DEF SlitInv
<1>6. k \in Nat /\ k + 1 \in 1..Len(D) /\ k < Len(D)
  BY <1>a, <1>2, <1>5 DEF SlitInv, ReadInv, PutDistance
<1>7. t \in Triple
  BY <1>b, <1>5, <1>6
<1>8. DistanceOk(t) /\ matrix' = IF i = j THEN matrix ELSE Put(i, j, v)
  BY <1>a, <1>b, <1>c DEF PutDistance
<1>9. /\ InSeq(t.from, domains) /\ InSeq(t.to, domains)
      /\ t.val \in 10..DISTANCE_MAX /\ (t.from = t.to => t.val = 10)
  BY <1>2, <1>7, <1>8, AcceptedTriple
<1>10. /\ i \in 1..N /\ domains[i] = t.from /\ j \in 1..N /\ domains[j] = t.to
  BY <1>c, <1>1, <1>9, IndexIs
<1>11. matrix \in [1..N -> [1..N -> Nat]]
  BY <1>2 DEF SlitInv, ReadInv
<1>12. v \in Nat /\ v = t.val
  BY <1>c, <1>7 DEF Triple
<1>13. /\ matrix' \in [1..N -> [1..N -> Nat]]
       /\ \A a, b \in 1..N : matrix'[a][b] = IF i # j /\ Same(i, j, a, b) THEN v ELSE matrix[a][b]
  <2>1. CASE i = j
    BY <1>8, <1>11, <2>1
  <2>2. CASE i # j
    <3>1. /\ Put(i, j, v) \in [1..N -> [1..N -> Nat]]
          /\ \A a, b \in 1..N : Put(i, j, v)[a][b] = IF Same(i, j, a, b) THEN v ELSE matrix[a][b]
      BY <1>1, <1>10, <1>11, <1>12, <2>2, PutIs
    <3> QED
      BY <1>8, <2>2, <3>1
  <2> QED
    BY <2>1, <2>2
<1>14. i # j => matrix[i][j] \in {0, v} /\ matrix[j][i] \in {0, v}
  BY <1>c, <1>8 DEF DistanceOk
<1>15. ReadInv'
  <2>1. \A m \in 1..k :
          /\ InSeq(D[m].from, domains) /\ InSeq(D[m].to, domains)
          /\ D[m].val \in 10..DISTANCE_MAX /\ (D[m].from = D[m].to => D[m].val = 10)
    BY <1>a, <1>2 DEF SlitInv, ReadInv
  <2>2. \A m \in 1..(k + 1) :
          /\ InSeq(D[m].from, domains) /\ InSeq(D[m].to, domains)
          /\ D[m].val \in 10..DISTANCE_MAX /\ (D[m].from = D[m].to => D[m].val = 10)
    <3> SUFFICES ASSUME NEW m \in 1..(k + 1)
                 PROVE  /\ InSeq(D[m].from, domains) /\ InSeq(D[m].to, domains)
                        /\ D[m].val \in 10..DISTANCE_MAX /\ (D[m].from = D[m].to => D[m].val = 10)
      OBVIOUS
    <3>1. m \in 1..k \/ m = k + 1
      BY <1>6
    <3> QED
      BY <1>b, <1>9, <2>1, <3>1
  <2>3. given.whole /\ given.triples # <<>>
    BY <1>2 DEF SlitInv, ReadInv
  <2>4. k + 1 \in Nat /\ k + 1 <= Len(D)
    BY <1>6
  <2> QED
    BY <1>a, <1>4, <1>13, <2>2, <2>3, <2>4 DEF ReadInv, InSeq
<1>16. ASSUME NEW a \in 1..N, NEW b \in 1..N
       PROVE  /\ Told(domains[a], domains[b])' = {} => matrix'[a][b] = IF a = b THEN 10 ELSE 0
              /\ \A m \in Told(domains[a], domains[b])' : matrix'[a][b] = D[m].val
  <2>a. PICK x, y : x = domains[a] /\ y = domains[b]
    OBVIOUS
  <2>b. PICK T, U : T = Told(x, y) /\ U = Told(x, y)'
    OBVIOUS
  <2>1. U = {m \in 1..(k + 1) : Same(D[m].from, D[m].to, x, y)}
    BY <1>a, <1>4, <2>b, SameIs DEF Told
  <2>2. T = {m \in 1..k : Same(D[m].from, D[m].to, x, y)}
    BY <1>a, <2>b, SameIs DEF Told
  <2>3. Same(t.from, t.to, x, y) <=> Same(i, j, a, b)
    <3>1. Same(t.from, t.to, domains[a], domains[b]) <=> Same(index_of(t.from), index_of(t.to), a, b)
      BY <1>1, <1>9, PairIs
    <3> QED
      BY <1>c, <2>a, <3>1, Zenon
  <2>4. /\ T = {} => matrix[a][b] = IF a = b THEN 10 ELSE 0
        /\ \A m \in T : matrix[a][b] = D[m].val
    BY <1>a, <1>2, <2>a, <2>b DEF SlitInv, DistancesSoFar
  <2>5. T \subseteq U
    BY <1>6, <2>1, <2>2
  <2>6. \A m \in U : m \in T \/ (m = k + 1 /\ Same(t.from, t.to, x, y))
    <3> SUFFICES ASSUME NEW m \in U, m \notin T
                 PROVE  m = k + 1 /\ Same(t.from, t.to, x, y)
      OBVIOUS
    <3>1. m \in 1..(k + 1) /\ Same(D[m].from, D[m].to, x, y) /\ m \notin 1..k
      BY <2>1, <2>2
    <3>2. m = k + 1
      BY <1>6, <3>1
    <3> QED
      BY <1>b, <3>1, <3>2
  <2>7. Same(t.from, t.to, x, y) => k + 1 \in U
    BY <1>b, <1>6, <2>1
  <2>8. \A m \in T : D[m].val \in 10..DISTANCE_MAX
    BY <1>a, <1>2, <2>2 DEF SlitInv, ReadInv
  <2>9. matrix'[a][b] = IF i # j /\ Same(i, j, a, b) THEN v ELSE matrix[a][b]
    BY <1>13
  <2>10. /\ U = {} => matrix'[a][b] = IF a = b THEN 10 ELSE 0
         /\ \A m \in U : matrix'[a][b] = D[m].val
    <3>1. CASE ~Same(i, j, a, b)
      <4>1. matrix'[a][b] = matrix[a][b] /\ U = T
        BY <2>3, <2>5, <2>6, <2>9, <3>1
      <4> QED
        BY <2>4, <4>1
    <3>2. CASE Same(i, j, a, b) /\ i = j
      <4>1. a = b /\ i = a /\ j = a
        BY <3>2 DEF Same
      <4>2. matrix'[a][b] = 10
        BY <1>2, <2>9, <3>2, <4>1, DiagonalIs
      <4>3. D[k + 1].val = 10
        BY <1>b, <1>9, <1>10, <3>2
      <4>4. \A m \in T : D[m].val = 10
        BY <1>2, <2>4, <4>1, DiagonalIs
      <4> QED
        BY <2>6, <4>1, <4>2, <4>3, <4>4
    <3>3. CASE Same(i, j, a, b) /\ i # j
      <4>1. k + 1 \in U
        BY <2>3, <2>7, <3>3
      <4>2. matrix'[a][b] = v /\ D[k + 1].val = v
        BY <1>b, <1>12, <2>9, <3>3
      <4>3. matrix[a][b] \in {0, v}
        <5>1. (a = i /\ b = j) \/ (a = j /\ b = i)
          BY <3>3 DEF Same
        <5> QED
          BY <1>14, <3>3, <5>1
      <4>4. ASSUME NEW m \in T PROVE D[m].val = v
        <5>1. D[m].val # 0 /\ matrix[a][b] = D[m].val
          BY <2>4, <2>8, NumbersAssumed
        <5> QED
          BY <4>3, <5>1
      <4> QED
        BY <2>6, <4>1, <4>2, <4>4
    <3> QED
      BY <3>1, <3>2, <3>3
  <2> QED
    BY <2>a, <2>b, <2>10, <1>4
<1>17. DistancesSoFar'
  BY <1>a, <1>4, <1>16 DEF DistancesSoFar
<1> QED
  BY <1>1, <1>2, <1>3, <1>15, <1>17 DEF SlitInv, InSlit

-----------------------------------------------------------------------------
LEMMA StutterStep ==
  ASSUME SlitInv, UNCHANGED acpiVars
  PROVE  SlitInv'
<1>1. UNCHANGED <<tree, pc, k, domains, tally, slots, matrix>>
  BY DEF acpiVars
<1>2. DomainsInv' /\ TallyInv' /\ SlotsInv' /\ (tree \in Trees)'
  BY <1>1 DEF SlitInv, DomainsInv, TallyInv, Counting, SlotsInv, Written, N
<1>3. given' = given /\ N' = N
  BY <1>1 DEF given, N
<1>4. ReadInv'
  BY <1>1, <1>3 DEF SlitInv, ReadInv, InSeq
<1>5. \A x, y : Told(x, y)' = Told(x, y)
  BY <1>1, <1>3 DEF Told
<1>6. DistancesSoFar'
  BY <1>1, <1>3, <1>5 DEF SlitInv, DistancesSoFar
<1> QED
  BY <1>1, <1>2, <1>4, <1>6 DEF SlitInv, InSlit

LEMMA NextSlit == SlitInv /\ [Next]_acpiVars => SlitInv'
<1> SUFFICES ASSUME SlitInv, [Next]_acpiVars PROVE SlitInv'
  OBVIOUS
<1>1. CASE WalkCpu
  BY <1>1, WalkCpuStep
<1>2. CASE CpusWalked
  <2>1. DomainsInv' /\ TallyInv'
    BY <1>2 DEF CpusWalked, SlitInv, DomainsInv, TallyInv, Counting
  <2> QED
    BY <1>2, <2>1, CountingStep DEF CpusWalked, Counting
<1>3. CASE CpusRefused
  BY <1>3, RefuseStep DEF CpusRefused, Counting
<1>4. CASE CountDevices
  <2>1. DomainsInv' /\ TallyInv'
    BY <1>4 DEF CountDevices, SlitInv, DomainsInv, TallyInv, Counting
  <2> QED
    BY <1>4, <2>1, CountingStep DEF CountDevices, Counting
<1>5. CASE DevicesRefused
  BY <1>5, RefuseStep DEF DevicesRefused, Counting
<1>6. CASE WalkMemory
  BY <1>6, WalkMemoryStep
<1>7. CASE MemoriesWalked
  BY <1>7, MemoriesWalkedStep
<1>8. CASE MemoryRefused
  BY <1>8, RefuseStep DEF MemoryRefused, Counting
<1>9. CASE Layout
  BY <1>9, LayoutStep
<1>10. CASE \E t \in DOMAIN slots : Emit(t) \/ EmitFails(t)
  BY <1>10, EmitStep
<1>11. CASE EmitSlitHeader
  BY <1>11, EmitSlitHeaderStep
<1>12. CASE PutDistance
  BY <1>12, PutDistanceStep
<1>13. CASE FillDistances
  BY <1>13, AfterStep DEF FillDistances, Written
<1>14. CASE SlitFails
  BY <1>14, BreakStep DEF SlitFails, Written
<1>15. CASE Returned \/ UNCHANGED acpiVars
  BY <1>15, StutterStep DEF Returned
<1> QED
  BY <1>1, <1>2, <1>3, <1>4, <1>5, <1>6, <1>7, <1>8, <1>9, <1>10, <1>11, <1>12, <1>13, <1>14, <1>15
  DEF Next

LEMMA SlitInvariant == Spec => []SlitInv
BY InitSlit, NextSlit, PTL DEF Spec

(***************************************************************************)
(* Whatever the tree, and in whichever order and however often it gives    *)
(* its distances: each cell of the matrix that the SLIT's emitter has      *)
(* built, and its mirror, hold what every triple read of that pair said    *)
(* (emit/slit.rs, the loop over the triples).                              *)
(***************************************************************************)
THEOREM DistancesAreWhatWasTold == Spec => []DistancesSoFar
<1>1. SlitInv => DistancesSoFar
  BY DEF SlitInv
<1> QED
  BY <1>1, SlitInvariant, PTL

-----------------------------------------------------------------------------
\* Two triples that say different things of one pair, or one that says what no
\* matrix can hold.
LEMMA FailureIsBad ==
  ASSUME SlitInv, SlitFails
  PROVE  BadDistances(Range(domains))
<1>1. DomainsInv /\ TallyInv /\ tally.has_distances /\ slots["SLIT"].len = 44 + N * N
  BY DEF SlitInv, SlitFails, InSlit, SlotsInv, Written
<1>2. N \in Nat /\ DOMAIN domains = 1..N
  BY <1>1, DomainsAreASequence
<1>3. CASE pc = "SLIT" /\ ~MatrixOk
  <2>1. N * N \in Nat
    BY <1>2
  <2>2. 44 <= slots["SLIT"].len
    BY <1>1, <2>1
  <2> QED
    BY <1>3, <2>2 DEF MatrixOk, BadDistances
<1>4. CASE pc = "distances" /\ k < Len(given.triples) /\ ~DistanceOk(given.triples[k + 1])
  <2>1. PICK D : D = given.triples
    OBVIOUS
  <2>2. D \in Seq(Triple)
    BY <1>1, <2>1, TriplesAre DEF SlitInv
  <2>3. k \in Nat /\ k + 1 \in 1..Len(D)
    BY <1>4, <2>1, <2>2 DEF SlitInv, ReadInv
  <2>4. PICK t \in Triple : t = D[k + 1]
    BY <2>2, <2>3
  <2>5. \A m \in 1..Len(D) : D[m] \in Range(D)
    BY <2>2 DEF Range
  <2>6. t \in Range(D)
    BY <2>3, <2>4, <2>5
  <2>7. \A x : x \in Range(domains) => InSeq(x, domains)
    BY DEF Range, InSeq
  <2>8. SUFFICES ASSUME {t.from, t.to} \subseteq Range(domains), t.val >= 10, t.val <= DISTANCE_MAX,
                        t.from = t.to => t.val = 10,
                        \A m \in 1..Len(D) : {t.from, t.to} = {D[m].from, D[m].to} => t.val = D[m].val
                 PROVE  FALSE
    <3>1. t.val \in Nat /\ DISTANCE_MAX \in Nat
      BY NumbersAssumed DEF Triple
    <3>2. t.val < 10 <=> ~(t.val >= 10)
      BY <3>1
    <3>3. t.val > DISTANCE_MAX <=> ~(t.val <= DISTANCE_MAX)
      BY <3>1
    <3> QED
      BY <2>1, <2>5, <2>6, <3>2, <3>3 DEF BadDistances
  <2>9. PICK i, j : i = index_of(t.from) /\ j = index_of(t.to)
    OBVIOUS
  <2>10. InSeq(t.from, domains) /\ InSeq(t.to, domains)
    BY <2>7, <2>8
  <2>11. i \in 1..N /\ domains[i] = t.from /\ j \in 1..N /\ domains[j] = t.to
    BY <1>1, <2>9, <2>10, IndexIs
  <2>12. ASSUME NEW a \in 1..N, NEW b \in 1..N, a # b, {domains[a], domains[b]} = {t.from, t.to}
         PROVE  matrix[a][b] \in {0, t.val}
    <3>1. CASE Told(domains[a], domains[b]) = {}
      BY <1>4, <2>12, <3>1 DEF SlitInv, DistancesSoFar
    <3>2. CASE Told(domains[a], domains[b]) # {}
      <4>1. PICK m \in Told(domains[a], domains[b]) : TRUE
        BY <3>2
      <4>2. matrix[a][b] = D[m].val
        BY <1>4, <2>1, <4>1 DEF SlitInv, DistancesSoFar
      <4>3. m \in 1..k /\ {D[m].from, D[m].to} = {domains[a], domains[b]}
        BY <2>1, <4>1 DEF Told
      <4>4. m \in 1..Len(D)
        BY <2>3, <4>3
      <4> QED
        BY <2>8, <2>12, <4>2, <4>3, <4>4
    <3> QED
      BY <3>1, <3>2
  <2>13. i # j => matrix[i][j] \in {0, t.val} /\ matrix[j][i] \in {0, t.val}
    BY <2>11, <2>12
  <2>14. i = j => t.val = 10
    BY <2>8, <2>11
  <2>15. DistanceOk(t)
    BY <2>8, <2>9, <2>10, <2>13, <2>14 DEF DistanceOk
  <2> QED
    BY <1>4, <2>1, <2>4, <2>15
<1> QED
  BY <1>3, <1>4 DEF SlitFails

LEMMA SuccessIsGood ==
  ASSUME SlitInv, FillDistances
  PROVE  /\ ~BadDistances(Range(domains)) /\ 44 + N * N <= slots["SLIT"].len
         /\ \A i, j \in 1..N : Filled[i][j] = Filled[j][i] /\ Filled[i][j] \in 10..DISTANCE_MAX
<1>1. /\ DomainsInv /\ TallyInv /\ tally.has_distances /\ slots["SLIT"].len = 44 + N * N
      /\ pc = "distances" /\ k = Len(given.triples)
  BY DEF SlitInv, FillDistances, InSlit, SlotsInv, Written
<1>2. N \in Nat /\ DOMAIN domains = 1..N
  BY <1>1, DomainsAreASequence
<1>3. PICK D : D = given.triples
  OBVIOUS
<1>4. D \in Seq(Triple)
  BY <1>1, <1>3, TriplesAre DEF SlitInv
<1>5. \A m \in 1..k :
        /\ InSeq(D[m].from, domains) /\ InSeq(D[m].to, domains)
        /\ D[m].val \in 10..DISTANCE_MAX /\ (D[m].from = D[m].to => D[m].val = 10)
  BY <1>1, <1>3 DEF SlitInv, ReadInv
<1>6. given.whole /\ D # <<>>
  BY <1>1, <1>3 DEF SlitInv, ReadInv
<1>7. \A s \in Range(D) : \E m \in 1..k : s = D[m]
  BY <1>1, <1>3, <1>4 DEF Range
<1>8. \A m \in 1..k : {D[m].from, D[m].to} \subseteq Range(domains)
  BY <1>5 DEF InSeq, Range
<1>9. \A a, b \in 1..N : \A m \in Told(domains[a], domains[b]) : matrix[a][b] = D[m].val
  BY <1>1, <1>3 DEF SlitInv, DistancesSoFar
<1>10. \A x, y : Told(x, y) = {m \in 1..k : {D[m].from, D[m].to} = {x, y}}
  BY <1>3 DEF Told
<1>11. ASSUME NEW l \in 1..k, NEW m \in 1..k, {D[l].from, D[l].to} = {D[m].from, D[m].to}
       PROVE  D[l].val = D[m].val
  <2>1. PICK a \in 1..N, b \in 1..N : domains[a] = D[l].from /\ domains[b] = D[l].to
    BY <1>2, <1>5 DEF InSeq
  <2>2. l \in Told(domains[a], domains[b]) /\ m \in Told(domains[a], domains[b])
    BY <1>10, <1>11, <2>1
  <2> QED
    BY <1>9, <2>2
<1>12. ~BadDistances(Range(domains))
  <2>1. ASSUME NEW s \in Range(D)
        PROVE  /\ {s.from, s.to} \subseteq Range(domains) /\ ~(s.val < 10) /\ ~(s.val > DISTANCE_MAX)
               /\ (s.from = s.to => s.val = 10)
               /\ \A t \in Range(D) : {s.from, s.to} = {t.from, t.to} => s.val = t.val
    <3>1. PICK l \in 1..k : s = D[l]
      BY <1>7
    <3>2. {s.from, s.to} \subseteq Range(domains) /\ s.val \in 10..DISTANCE_MAX /\ (s.from = s.to => s.val = 10)
      BY <1>5, <1>8, <3>1
    <3>3. ~(s.val < 10) /\ ~(s.val > DISTANCE_MAX)
      BY <3>2, NumbersAssumed
    <3>4. ASSUME NEW t \in Range(D), {s.from, s.to} = {t.from, t.to} PROVE s.val = t.val
      <4>1. PICK m \in 1..k : t = D[m]
        BY <1>7
      <4> QED
        BY <1>11, <3>1, <3>4, <4>1
    <3> QED
      BY <3>2, <3>3, <3>4
  <2> QED
    BY <1>3, <1>6, <2>1 DEF BadDistances
<1>13. 44 + N * N <= slots["SLIT"].len
  <2>1. N * N \in Nat
    BY <1>2
  <2> QED
    BY <1>1, <2>1
<1>14. ASSUME NEW i \in 1..N, NEW j \in 1..N
       PROVE  matrix[i][j] = matrix[j][i] /\ (matrix[i][j] = 0 \/ matrix[i][j] \in 10..DISTANCE_MAX)
  <2>1. Told(domains[i], domains[j]) = Told(domains[j], domains[i])
    BY DEF Told
  <2>2. CASE Told(domains[i], domains[j]) = {}
    <3>1. /\ matrix[i][j] = IF i = j THEN 10 ELSE 0
          /\ matrix[j][i] = IF j = i THEN 10 ELSE 0
      BY <1>1, <2>1, <2>2 DEF SlitInv, DistancesSoFar
    <3>2. 10 \in 10..DISTANCE_MAX
      BY NumbersAssumed
    <3> QED
      BY <3>1, <3>2
  <2>3. CASE Told(domains[i], domains[j]) # {}
    <3>1. PICK m : m \in Told(domains[i], domains[j])
      BY <2>3
    <3>2. matrix[i][j] = D[m].val /\ matrix[j][i] = D[m].val
      BY <1>9, <2>1, <3>1
    <3>3. m \in 1..k
      BY <1>10, <3>1
    <3> QED
      BY <1>5, <3>2, <3>3
  <2> QED
    BY <2>2, <2>3
<1>15. ASSUME NEW i \in 1..N, NEW j \in 1..N
       PROVE  Filled[i][j] = Filled[j][i] /\ Filled[i][j] \in 10..DISTANCE_MAX
  <2>1. /\ Filled[i][j] = IF matrix[i][j] = 0 THEN 20 ELSE matrix[i][j]
        /\ Filled[j][i] = IF matrix[j][i] = 0 THEN 20 ELSE matrix[j][i]
    BY DEF Filled
  <2>2. 20 \in 10..DISTANCE_MAX
    BY NumbersAssumed
  <2> QED
    BY <1>14, <2>1, <2>2
<1> QED
  BY <1>12, <1>13, <1>15

(***************************************************************************)
(* Whatever the tree: the emitter of the SLIT fails exactly on distances   *)
(* that are no symmetric matrix over the domains counted, and the matrix   *)
(* it writes otherwise fits its slot, is symmetric and has no empty cell   *)
(* (emit/slit.rs, which compares a triple with two cells only).            *)
(***************************************************************************)
THEOREM SlitFailsOnBadDistances == Spec => SlitVerdict
<1>1. SlitInv => (SlitFails => BadDistances(Range(domains)))
  BY FailureIsBad
<1>2. SlitInv => (FillDistances =>
            /\ ~BadDistances(Range(domains)) /\ 44 + N * N <= slots["SLIT"].len
            /\ \A i, j \in 1..N : Filled[i][j] = Filled[j][i] /\ Filled[i][j] \in 10..DISTANCE_MAX)
  BY SuccessIsGood
<1> QED
  BY <1>1, <1>2, SlitInvariant, PTL DEF SlitVerdict
=============================================================================
