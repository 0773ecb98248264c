-------------------------- MODULE PlanCheckProofs --------------------------
(***************************************************************************)
(* An image from plan() to `arma check`, for every input: the regions the  *)
(* linter reads are apart, but for what lies in the window's buddy or is   *)
(* fixed inside the window; and the linter accepts exactly the images      *)
(* whose window is the lower buddy of the top pair, above everything else. *)
(***************************************************************************)
EXTENDS PlanCheck, PlannerProofs

Finite == INSTANCE FiniteSetTheorems

CheckProofs == INSTANCE LayoutCheckProofs WITH TWO_MIB <- GRAN

InBaseOrder(s) == \A i, j \in 1..Len(s) : i < j => s[i].base <= s[j].base

\* The sort of the linter keeps the regions, each at one place, and orders them.
LEMMA SortFacts ==
  ASSUME NEW s \in Seq(Check!Region)
  PROVE  /\ Check!sort_by_key(s) \in Seq(Check!Region)
         /\ Len(Check!sort_by_key(s)) = Len(s)
         /\ \A k \in 1..Len(s) : \E i \in DOMAIN s :
              Check!Rank(s, i) = k /\ Check!sort_by_key(s)[k] = s[i]
         /\ InBaseOrder(Check!sort_by_key(s))
<1>1. CheckProofs!Region = Check!Region
  BY DEF CheckProofs!Region, Check!Region, CheckProofs!Kinds, Check!Kinds
<1>3. \A S : CheckProofs!Cardinality(S) = Check!Cardinality(S)
  BY DEF CheckProofs!Cardinality, Check!Cardinality
<1>6. \A t, i : CheckProofs!Rank(t, i) = Check!Rank(t, i)
  BY <1>3 DEF CheckProofs!Rank, Check!Rank, CheckProofs!UpTo, Check!UpTo
<1>2. CheckProofs!sort_by_key(s) = Check!sort_by_key(s)
  BY DEF CheckProofs!sort_by_key, Check!sort_by_key, CheckProofs!Rank, Check!Rank, CheckProofs!UpTo, Check!UpTo,
         CheckProofs!Cardinality, Check!Cardinality
<1>4. /\ U64_MAX \in Nat
      /\ \A n \in 1..U64_MAX : CheckProofs!is_power_of_two(n) => (U64_MAX + 1) % n = 0
  BY U64Assumption DEF is_power_of_two, CheckProofs!is_power_of_two
<1>5. /\ CheckProofs!sort_by_key(s) \in Seq(CheckProofs!Region)
      /\ Len(CheckProofs!sort_by_key(s)) = Len(s)
      /\ \A k \in 1..Len(s) : \E i \in DOMAIN s :
              CheckProofs!Rank(s, i) = k /\ CheckProofs!sort_by_key(s)[k] = s[i]
  BY <1>1, <1>4, CheckProofs!SortKeepsRegions
<1>7. CheckProofs!Sorted(CheckProofs!sort_by_key(s))
  BY <1>1, <1>4, CheckProofs!SortIsASort
<1>8. InBaseOrder(Check!sort_by_key(s))
  BY <1>2, <1>7 DEF CheckProofs!Sorted, InBaseOrder
<1> QED
  BY <1>1, <1>2, <1>6, <1>5, <1>8

\* A finite set is listed without repetition.
LEMMA ListedFacts ==
  ASSUME NEW S, IsFiniteSet(S)
  PROVE  /\ Listed(S) \in Seq(S) /\ Len(Listed(S)) = Cardinality(S) /\ Cardinality(S) \in Nat
         /\ DOMAIN Listed(S) = 1..Cardinality(S)
         /\ \A i, j \in 1..Cardinality(S) : i # j => Listed(S)[i] # Listed(S)[j]
<1>1. Finite!IsFiniteSet(S) /\ Finite!Cardinality(S) = Cardinality(S)
  BY DEF Finite!IsFiniteSet, IsFiniteSet, Finite!Cardinality, Cardinality
<1>2. Cardinality(S) \in Nat /\ Finite!ExistsBijection(1..Cardinality(S), S)
  BY <1>1, Finite!FS_CardinalityType
<1>3. \E f \in [1..Cardinality(S) -> S] : \A i, j \in 1..Cardinality(S) : i # j => f[i] # f[j]
  BY <1>2 DEF Finite!ExistsBijection, Finite!Bijection, Finite!Injection, Finite!IsInjective
<1>4. /\ Listed(S) \in [1..Cardinality(S) -> S]
      /\ \A i, j \in 1..Cardinality(S) : i # j => Listed(S)[i] # Listed(S)[j]
  BY <1>3 DEF Listed
<1> QED
  BY <1>2, <1>4

-----------------------------------------------------------------------------
(* What plan() places, beyond what its own proofs needed.                  *)

OneOfEach == \A p \in Regions : \A r, s \in layout[p] : r = s

PayloadPlaced ==
  /\ \A p \in Payload : \A r \in layout[p] : r.start % GRAN = 0 /\ r.start < r.end
  /\ \A r \in layout["linux"] : r.end = r.start + in.kernel_size
  /\ \A r \in layout["initrd"] : r.start + in.initrd_size <= r.end

BelowFloor(r) == r.start < r.end /\ r.end <= high_floor

DevicesPlaced ==
  /\ \A p \in {"ecam", "serial"} : \A r \in layout[p] : BelowFloor(r)
  /\ \A n \in DOMAIN virtio : BelowFloor(virtio[n])

WindowPlaced == layout["pci_window"] # {} => in.pci_slots > 0 /\ in.window_bits + 2 <= in.addr_space_bits

Placed == OneOfEach /\ PayloadPlaced /\ DevicesPlaced /\ WindowPlaced

\* A step that leaves the layout leaves all of it.
LEMMA PlacedFrame ==
  ASSUME Placed, UNCHANGED <<in, layout, virtio>>
  PROVE  Placed'
BY DEF Placed, OneOfEach, PayloadPlaced, DevicesPlaced, WindowPlaced, BelowFloor, high_floor

\* The kernel, the archive, its fill and the relocations are nonempty and start
\* on a granule.
LEMMA PlaceKeepsPlaced ==
  ASSUME IInv, Placed, NEW region \in Searched, Place(region)
  PROVE  Placed'
<1> DEFINE found == Candidate(region, cursor)
           archive == Span(cursor, cursor + ArchiveSize)
           fill == Span(cursor + ArchiveSize, found.end)
<1>0. /\ pc = region /\ cursor # Idle /\ in' = in /\ virtio' = virtio
      /\ layout' = [layout EXCEPT
           ![region] = IF region = "initrd" THEN {archive} ELSE {found},
           !["bootconfig"] = IF region = "initrd" /\ in.bootconfig THEN {fill} ELSE @]
  BY DEF Place
<1>1. in \in Inputs /\ layout \in [Regions -> SUBSET Range] /\ cursor \in Nat /\ Wanted(region)
  BY <1>0, GranFacts DEF IInv, TypeOK, Progress, Address
<1>2. /\ Size(region) \in Nat /\ Size(region) > 0 /\ ArchiveSize \in Nat /\ ArchiveSize % GRAN = 0
      /\ FillSize \in Nat /\ Size("initrd") = ArchiveSize + FillSize
      /\ GRAN \in Nat \ {0}
  BY <1>1, RequestFacts, GranFacts
<1>3. cursor % GRAN = 0
  <2>1. Align(region) \in Nat \ {0} /\ Align(region) % GRAN = 0
    BY <1>1, RequestFacts
  <2>2. cursor % Align(region) = 0
    BY <1>0 DEF IInv, Progress
  <2> QED
    BY <1>1, <2>1, <2>2, GranFacts, MultipleTrans
<1>4. found.start = cursor /\ found.end = cursor + Size(region) /\ found.start % GRAN = 0 /\ found.start < found.end
  <2>1. found.start = cursor /\ found.end = cursor + Size(region)
    BY DEF Candidate, Span
  <2> QED
    BY <1>1, <1>2, <1>3, <2>1
<1>5. region = "linux" => found.end = found.start + in.kernel_size
  BY <1>4 DEF Size
<1>6. ASSUME region = "initrd"
      PROVE  /\ archive.start % GRAN = 0 /\ archive.start < archive.end
             /\ archive.start + in.initrd_size <= archive.end
             /\ in.bootconfig => fill.start % GRAN = 0 /\ fill.start < fill.end
  <2>1. archive.start = cursor /\ archive.end = cursor + ArchiveSize
        /\ fill.start = cursor + ArchiveSize /\ fill.end = cursor + Size(region)
    BY <1>4 DEF Span
  <2>2. in.initrd_size \in Nat /\ in.initrd_size > 0
    <3>1. in \in PlannerInput
      BY <1>1, InputFacts
    <3> QED
      BY <1>1, <1>6, <3>1, GranFacts DEF Wanted, PlannerInput, Address
  <2>3. in.initrd_size <= ArchiveSize
    BY <2>2, GranFacts, AlignUpIsCeiling DEF ArchiveSize
  <2>4. (cursor + ArchiveSize) % GRAN = 0
    BY <1>1, <1>2, <1>3, MultipleSum
  <2>5. in.bootconfig => FillSize = GRAN
    BY DEF FillSize
  <2>6. Size(region) = ArchiveSize + FillSize
    BY <1>2, <1>6
  <2> QED
    BY <1>1, <1>2, <1>3, <2>1, <2>2, <2>3, <2>4, <2>5, <2>6
<1> HIDE DEF found, archive, fill
<1>7. /\ layout'["linux"] = IF region = "linux" THEN {found} ELSE layout["linux"]
      /\ layout'["relocs"] = IF region = "relocs" THEN {found} ELSE layout["relocs"]
      /\ layout'["initrd"] = IF region = "initrd" THEN {archive} ELSE layout["initrd"]
      /\ layout'["bootconfig"] = IF region = "initrd" /\ in.bootconfig THEN {fill} ELSE layout["bootconfig"]
      /\ \A p \in Regions : p \notin Payload => layout'[p] = layout[p]
  BY <1>0, <1>1 DEF Searched, Regions, Payload
<1>8. OneOfEach'
  <2>1. \A p \in Regions : layout'[p] = layout[p] \/ \E x : layout'[p] = {x}
    BY <1>7 DEF Regions, Searched, Payload
  <2> QED
    BY <2>1 DEF OneOfEach, Placed
<1>9. PayloadPlaced'
  <2>1. \A r \in layout'["linux"] : r.start % GRAN = 0 /\ r.start < r.end /\ r.end = r.start + in.kernel_size
    BY <1>4, <1>5, <1>7 DEF Placed, PayloadPlaced, Payload
  <2>2. \A r \in layout'["initrd"] : r.start % GRAN = 0 /\ r.start < r.end /\ r.start + in.initrd_size <= r.end
    BY <1>6, <1>7 DEF Placed, PayloadPlaced, Payload
  <2>3. \A r \in layout'["bootconfig"] : r.start % GRAN = 0 /\ r.start < r.end
    BY <1>6, <1>7 DEF Placed, PayloadPlaced, Payload
  <2>4. \A r \in layout'["relocs"] : r.start % GRAN = 0 /\ r.start < r.end
    BY <1>4, <1>7 DEF Placed, PayloadPlaced, Payload
  <2> QED
    BY <1>0, <2>1, <2>2, <2>3, <2>4 DEF PayloadPlaced, Payload
<1>10. layout'["ecam"] = layout["ecam"] /\ layout'["serial"] = layout["serial"] /\ layout'["pci_window"] = layout["pci_window"]
  BY <1>7 DEF Regions, Searched, Payload
<1>11. DevicesPlaced' /\ WindowPlaced'
  BY <1>0, <1>10 DEF Placed, DevicesPlaced, WindowPlaced, BelowFloor, high_floor
<1> QED
  BY <1>8, <1>9, <1>11 DEF Placed

\* The device band is below 2^(A-1) and its parts are nonempty.
LEMMA BandKeepsPlaced ==
  ASSUME IInv, Placed, PlaceBand
  PROVE  Placed'
<1> DEFINE base == high_floor - band_size
           serial == base + EcamSize
           first == serial + SerialSize
           k == in.mmio_slots
<1>0. /\ high_floor >= band_size /\ in' = in
      /\ layout' = [layout EXCEPT
           !["ecam"]   = IF in.pci_slots > 0 THEN {Span(base, base + ECAM_SIZE)} ELSE {},
           !["serial"] = IF in.serial THEN {Span(serial, serial + SERIAL_SIZE)} ELSE {}]
      /\ virtio' = [n \in 1..k |->
                      Span(first + (n - 1) * VIRTIO_SIZE, first + n * VIRTIO_SIZE)]
  BY DEF PlaceBand, carve_band
<1>1. /\ in \in Inputs /\ layout \in [Regions -> SUBSET Range]
      /\ high_floor \in Nat /\ k \in Nat /\ in.pci_slots \in Nat /\ in.serial \in BOOLEAN
  BY InputFacts, GranFacts DEF IInv, TypeOK, Address
<1>2. /\ ECAM_SIZE \in Nat \ {0} /\ SERIAL_SIZE \in Nat \ {0} /\ VIRTIO_SIZE \in Nat \ {0}
      /\ EcamSize \in Nat /\ SerialSize \in Nat
      /\ in.pci_slots > 0 => EcamSize = ECAM_SIZE
      /\ in.serial => SerialSize = SERIAL_SIZE
  BY SizeAssumption DEF EcamSize, SerialSize
<1>3. k * VIRTIO_SIZE \in Nat
  BY <1>1, <1>2
<1>4. /\ band_size \in Nat /\ EcamSize + SerialSize + k * VIRTIO_SIZE <= band_size
  <2> DEFINE total == EcamSize + SerialSize + k * VIRTIO_SIZE
  <2>1. total \in Nat
    BY <1>2, <1>3
  <2>2. band_size = AlignUp(total, GRAN)
    BY DEF band_size, AlignUp, round_up
  <2> HIDE DEF total
  <2>3. AlignUp(total, GRAN) \in Nat /\ total <= AlignUp(total, GRAN)
    BY <2>1, GranFacts, AlignUpIsCeiling
  <2> QED
    BY <2>2, <2>3 DEF total
<1>5. /\ base \in Nat /\ serial \in Nat /\ first \in Nat
      /\ first + k * VIRTIO_SIZE <= high_floor
  BY <1>0, <1>1, <1>2, <1>3, <1>4
<1> DEFINE E == Span(base, base + ECAM_SIZE)
           S == Span(serial, serial + SERIAL_SIZE)
<1>6. in.pci_slots > 0 => BelowFloor(E)
  BY <1>1, <1>2, <1>3, <1>5 DEF BelowFloor, Span
<1>7. in.serial => BelowFloor(S)
  BY <1>1, <1>2, <1>3, <1>5 DEF BelowFloor, Span
<1>8. /\ layout'["ecam"] = IF in.pci_slots > 0 THEN {E} ELSE {}
      /\ layout'["serial"] = IF in.serial THEN {S} ELSE {}
      /\ \A p \in Regions : p \notin {"ecam", "serial"} => layout'[p] = layout[p]
  BY <1>0, <1>1 DEF Regions
<1>9. high_floor' = high_floor
  BY <1>0 DEF high_floor
<1>10. \A n \in 1..k : BelowFloor(virtio'[n])
  <2> SUFFICES ASSUME NEW n \in 1..k PROVE BelowFloor(virtio'[n])
    OBVIOUS
  <2> DEFINE u == (n - 1) * VIRTIO_SIZE
             w == n * VIRTIO_SIZE
             z == k * VIRTIO_SIZE
  <2>1. u \in Nat /\ w \in Nat /\ z \in Nat /\ w <= z
    BY <1>1, StrideFacts
  <2>2. u < w
    BY <1>1, <1>2
  <2>3. first + z <= high_floor /\ first \in Nat
    BY <1>5
  <2>4. virtio'[n].start = first + u /\ virtio'[n].end = first + w
    BY <1>0 DEF Span
  <2> HIDE DEF u, w, z, first
  <2> QED
    BY <1>1, <2>1, <2>2, <2>3, <2>4 DEF BelowFloor
<1>11. DOMAIN virtio' = 1..k
  BY <1>0
<1> HIDE DEF base, serial, first, E, S, k
<1>12. OneOfEach'
  <2>1. \A p \in Regions : layout'[p] = layout[p] \/ layout'[p] = {} \/ \E x : layout'[p] = {x}
    BY <1>8
  <2> QED
    BY <2>1 DEF OneOfEach, Placed
<1>13. DevicesPlaced'
  <2>1. \A r : BelowFloor(r)' <=> BelowFloor(r)
    BY <1>9 DEF BelowFloor
  <2>2. \A p \in {"ecam", "serial"} : \A r \in layout'[p] : BelowFloor(r)
    BY <1>6, <1>7, <1>8
  <2>3. \A p \in {"ecam", "serial"} : \A r \in layout'[p] : r.start < r.end /\ r.end <= high_floor'
    BY <1>9, <2>2 DEF BelowFloor
  <2>4. \A n \in 1..k : virtio'[n].start < virtio'[n].end /\ virtio'[n].end <= high_floor'
    BY <1>9, <1>10 DEF BelowFloor
  <2> QED
    BY <1>11, <2>3, <2>4 DEF DevicesPlaced, BelowFloor
<1>14. \A p \in Payload \union {"pci_window"} : layout'[p] = layout[p]
  BY <1>8 DEF Payload, Regions, Searched
<1>15. PayloadPlaced' /\ WindowPlaced'
  BY <1>0, <1>14 DEF Placed, PayloadPlaced, WindowPlaced, Payload
<1> QED
  BY <1>12, <1>13, <1>15 DEF Placed

\* Every step of plan() keeps Placed.
LEMMA PlanKeepsPlaced ==
  ASSUME IInv, Placed, Next
  PROVE  Placed'
<1>1. CASE UNCHANGED <<in, layout, virtio>>
  BY <1>1, PlacedFrame
<1>2. CASE PlaceWindow
  <2>1. /\ in' = in /\ virtio' = virtio /\ layout \in [Regions -> SUBSET Range]
        /\ layout' = [layout EXCEPT !["pci_window"] = IF in.pci_slots > 0 THEN {PciWindow} ELSE {}]
        /\ in.pci_slots > 0 => in.window_bits + 2 <= in.addr_space_bits
    BY <1>2 DEF PlaceWindow, IInv, TypeOK
  <2>2. /\ layout'["pci_window"] = IF in.pci_slots > 0 THEN {PciWindow} ELSE {}
        /\ \A p \in Regions : p # "pci_window" => layout'[p] = layout[p]
    BY <2>1 DEF Regions
  <2>3. OneOfEach'
    <3>1. \A p \in Regions : layout'[p] = layout[p] \/ layout'[p] = {} \/ \E x : layout'[p] = {x}
      BY <2>2
    <3> QED
      BY <3>1 DEF OneOfEach, Placed
  <2>4. \A p \in Payload \union {"ecam", "serial"} : layout'[p] = layout[p]
    BY <2>2 DEF Payload, Regions, Searched
  <2>5. PayloadPlaced'
    BY <2>1, <2>4 DEF Placed, PayloadPlaced, Payload
  <2>6. DevicesPlaced'
    BY <2>1, <2>4 DEF Placed, DevicesPlaced, BelowFloor, high_floor
  <2>7. WindowPlaced'
    BY <2>1, <2>2 DEF WindowPlaced
  <2> QED
    BY <2>3, <2>5, <2>6, <2>7 DEF Placed
<1>3. CASE \E region \in Searched : Place(region)
  BY <1>3, PlaceKeepsPlaced
<1>4. CASE PlaceBand
  BY <1>4, BandKeepsPlaced
<1> QED
  BY <1>1, <1>2, <1>3, <1>4 DEF Next, Search, WindowTooLarge, Skip, Begin, BeginFails, Hop, HopFails, NoBand,
       BandFails, Fail, vars

-----------------------------------------------------------------------------
(* The list of regions.  AtWindow is what OverlapOnlyAtWindow allows.      *)

AtWindow ==
  /\ HasWindow
  /\ \/ \E r \in Emitted : Overlap(r, Span(PciWindow.end, PciWindow.end + Pow2(in.window_bits)))
     \/ \E r \in in.reserved : Overlap(r, PciWindow)

Sep(x, y) == x.base + x.size <= y.base \/ y.base + y.size <= x.base

Good(x, y) == Sep(x, y) \/ AtWindow

\* A list of nonempty regions of E, any two of them apart.
Holds(s, E) ==
  /\ s \in Seq(Check!Region)
  /\ \A i \in DOMAIN s : s[i] \in E /\ s[i].size > 0
  /\ \A i, j \in DOMAIN s : i # j => Good(s[i], s[j])

\* One list after another, apart from each other.
LEMMA HoldsBoth ==
  ASSUME NEW s, NEW t, NEW E, NEW F, Holds(s, E), Holds(t, F),
         \A x \in E, y \in F : Good(x, y) /\ Good(y, x)
  PROVE  Holds(s \o t, E \union F)
<1>1. /\ s \in Seq(Check!Region) /\ t \in Seq(Check!Region)
      /\ \A i \in DOMAIN s : s[i] \in E /\ s[i].size > 0
      /\ \A i \in DOMAIN t : t[i] \in F /\ t[i].size > 0
      /\ \A i, j \in DOMAIN s : i # j => Good(s[i], s[j])
      /\ \A i, j \in DOMAIN t : i # j => Good(t[i], t[j])
  BY DEF Holds
<1>2. /\ s \o t \in Seq(Check!Region) /\ Len(s) \in Nat /\ Len(t) \in Nat
      /\ DOMAIN s = 1..Len(s) /\ DOMAIN t = 1..Len(t) /\ DOMAIN (s \o t) = 1..(Len(s) + Len(t))
      /\ \A i \in 1..(Len(s) + Len(t)) : (s \o t)[i] = IF i <= Len(s) THEN s[i] ELSE t[i - Len(s)]
  BY <1>1
<1>3. \A i \in DOMAIN (s \o t) :
        \/ i \in DOMAIN s /\ (s \o t)[i] = s[i]
        \/ i - Len(s) \in DOMAIN t /\ (s \o t)[i] = t[i - Len(s)]
  BY <1>2
<1>4. \A i \in DOMAIN (s \o t) : (s \o t)[i] \in E \union F /\ (s \o t)[i].size > 0
  BY <1>1, <1>3
<1>5. ASSUME NEW i \in DOMAIN (s \o t), NEW j \in DOMAIN (s \o t), i # j
      PROVE  Good((s \o t)[i], (s \o t)[j])
  <2>1. i \in Int /\ j \in Int
    BY <1>2
  <2>2. i - Len(s) # j - Len(s)
    BY <1>2, <1>5, <2>1
  <2> QED
    BY <1>1, <1>3, <1>5, <2>2
<1> QED
  BY <1>2, <1>4, <1>5 DEF Holds

\* A finite set of ranges, turned into regions one by one.
LEMMA EachHolds ==
  ASSUME NEW S, IsFiniteSet(S), NEW E, NEW g,
         \A r \in S : g[r] \in Check!Region /\ g[r] \in E /\ g[r].size > 0,
         \A r, q \in S : r # q => Good(g[r], g[q])
  PROVE  Holds([k \in 1..Len(Listed(S)) |-> g[Listed(S)[k]]], E)
<1> DEFINE t == [k \in 1..Len(Listed(S)) |-> g[Listed(S)[k]]]
<1>1. /\ Len(Listed(S)) \in Nat
      /\ \A k \in 1..Len(Listed(S)) : Listed(S)[k] \in S
      /\ \A i, j \in 1..Len(Listed(S)) : i # j => Listed(S)[i] # Listed(S)[j]
  BY ListedFacts
<1>2. DOMAIN t = 1..Len(Listed(S)) /\ \A k \in DOMAIN t : t[k] = g[Listed(S)[k]] /\ t[k] \in Check!Region
  BY <1>1
<1>3. t \in Seq(Check!Region)
  BY <1>1, <1>2
<1> HIDE DEF t
<1>4. Holds(t, E)
  BY <1>1, <1>2, <1>3 DEF Holds
<1> QED
  BY <1>4 DEF t

\* At most one range.
LEMMA OneIsFinite ==
  ASSUME NEW S, \A r, s \in S : r = s
  PROVE  IsFiniteSet(S)
<1>1. CASE S = {}
  <2>1. Finite!IsFiniteSet({})
    BY Finite!FS_EmptySet
  <2> QED
    BY <1>1, <2>1 DEF Finite!IsFiniteSet, IsFiniteSet
<1>2. CASE S # {}
  <2>1. PICK r : S = {r}
    BY <1>2
  <2>2. Finite!IsFiniteSet({r})
    BY Finite!FS_Singleton
  <2> QED
    BY <2>1, <2>2 DEF Finite!IsFiniteSet, IsFiniteSet
<1> QED
  BY <1>1, <1>2

\* A part of a finite set.
LEMMA PartIsFinite ==
  ASSUME NEW S, IsFiniteSet(S), NEW T, T \subseteq S
  PROVE  IsFiniteSet(T)
<1>1. Finite!IsFiniteSet(S)
  BY DEF Finite!IsFiniteSet, IsFiniteSet
<1>2. Finite!IsFiniteSet(T)
  BY <1>1, Finite!FS_Subset
<1> QED
  BY <1>2 DEF Finite!IsFiniteSet, IsFiniteSet

\* What fits u32 fits it in every part of the list.
LEMMA FitsBoth ==
  ASSUME NEW s \in Seq(Check!Region), NEW t \in Seq(Check!Region), FitsU32(s \o t)
  PROVE  FitsU32(s) /\ FitsU32(t)
<1>1. /\ Len(s) \in Nat /\ Len(t) \in Nat
      /\ DOMAIN s = 1..Len(s) /\ DOMAIN t = 1..Len(t) /\ DOMAIN (s \o t) = 1..(Len(s) + Len(t))
      /\ \A i \in 1..(Len(s) + Len(t)) : (s \o t)[i] = IF i <= Len(s) THEN s[i] ELSE t[i - Len(s)]
  OBVIOUS
<1>2. \A i \in DOMAIN s : i \in DOMAIN (s \o t) /\ (s \o t)[i] = s[i]
  BY <1>1
<1>3. \A i \in DOMAIN t : i + Len(s) \in DOMAIN (s \o t) /\ (s \o t)[i + Len(s)] = t[i]
  BY <1>1
<1> QED
  BY <1>2, <1>3 DEF FitsU32

-----------------------------------------------------------------------------
(* The region of a range: it starts where the range does and ends with it  *)
(* or with its last page.                                                  *)

Covering(x, r) ==
  /\ x \in Check!Region /\ x.size > 0
  /\ x.base = r.start /\ r.end <= x.base + x.size /\ x.base + x.size <= round_up(r.end, PAGE)

Exact(x, r) == Covering(x, r) /\ x.base + x.size = r.end

Sections(R) == {x \in Check!Region : \E r \in R : Covering(x, r)}
Devices(R) == {x \in Check!Region : \E r \in R : Exact(x, r)}

\* A range with bytes.
Solid(r) == r.start \in Nat /\ r.end \in Nat /\ r.start < r.end

LEMMA PageFacts ==
  /\ PAGE \in Nat \ {0} /\ GRAN \in Nat \ {0} /\ GRAN % PAGE = 0
  /\ \A v \in Nat : /\ round_up(v, PAGE) \in Nat /\ v <= round_up(v, PAGE)
                    /\ \A m \in Nat : m % PAGE = 0 /\ v <= m => round_up(v, PAGE) <= m
<1>1. PAGE \in Nat \ {0} /\ GRAN \in Nat \ {0} /\ GRAN % PAGE = 0
  BY PlanCheckAssumption, GranFacts
<1> QED
  BY <1>1, AlignUpIsCeiling

\* build_pe's VirtualSize stays within the pages of the range.
LEMMA SectionCovers ==
  ASSUME NEW r, Solid(r), r.start % PAGE = 0, NEW data \in Nat, r.start + data <= r.end
  PROVE  Covering(Section(r, data), r)
<1> DEFINE n == r.end - r.start
           u == round_up(n, PAGE)
           d == round_up(data, PAGE)
           v == VirtualSize(n, data)
<1>1. r.start \in Nat /\ r.end \in Nat /\ n \in Nat /\ n > 0 /\ data <= n /\ r.end = r.start + n
  BY DEF Solid
<1> HIDE DEF n
<1>2. u \in Nat /\ n <= u /\ d \in Nat /\ u % PAGE = 0 /\ d <= u
  <2>1. u \in Nat /\ n <= u /\ d \in Nat
    BY <1>1, PageFacts
  <2>2. u % PAGE = 0
    <3>1. AlignUp(n, PAGE) % PAGE = 0 /\ AlignUp(n, PAGE) = round_up(n, PAGE)
      BY <1>1, PageFacts, AlignUpIsCeiling
    <3> QED
      BY <3>1
  <2>3. d <= u
    BY <1>1, <2>1, <2>2, PageFacts
  <2> QED
    BY <2>1, <2>2, <2>3
<1>3. v \in Nat /\ n <= v /\ v <= u
  BY <1>1, <1>2 DEF VirtualSize, Max2
<1>4. r.start + u <= round_up(r.end, PAGE)
  <2> DEFINE m == round_up(r.end, PAGE)
  <2>0. AlignUp(r.end, PAGE) % PAGE = 0 /\ AlignUp(r.end, PAGE) = round_up(r.end, PAGE)
    BY <1>1, PageFacts, AlignUpIsCeiling
  <2>1. m \in Nat /\ r.end <= m /\ m % PAGE = 0
    BY <1>1, <2>0, PageFacts
  <2> HIDE DEF m
  <2>2. m - r.start \in Nat /\ n <= m - r.start
    BY <1>1, <2>1
  <2>3. (m - r.start) % PAGE = 0
    <3> DEFINE j == m \div PAGE
               k == r.start \div PAGE
    <3>1. m = PAGE * j /\ r.start = PAGE * k /\ j \in Nat /\ k \in Nat
      BY <1>1, <2>1, PageFacts
    <3> HIDE DEF j, k
    <3>2. m - r.start = PAGE * (j - k) /\ j - k \in Int
      BY <3>1, PageFacts
    <3>3. (PAGE * (j - k)) % PAGE = 0
      BY <3>2, PageFacts
    <3> QED
      BY <3>2, <3>3
  <2>4. u <= m - r.start
    BY <1>1, <2>2, <2>3, PageFacts
  <2>5. r.start + u <= m
    BY <1>1, <1>2, <2>1, <2>4
  <2> QED
    BY <2>5 DEF m
<1>5. /\ Section(r, data) = [base |-> r.start, size |-> v, kind |-> "payload"]
      /\ Section(r, data) \in Check!Region
  BY <1>1, <1>3 DEF Section, Region, Check!Region, Check!Kinds, n
<1>6. round_up(r.end, PAGE) \in Nat
  BY <1>1, PageFacts
<1> HIDE DEF u, v, d
<1>7. Section(r, data).base = r.start /\ Section(r, data).size = v
  BY <1>5
<1> QED
  BY <1>1, <1>2, <1>3, <1>4, <1>5, <1>6, <1>7 DEF Covering

\* A device of the tree, and the window, are their ranges.
LEMMA DeviceCovers ==
  ASSUME NEW r, Solid(r), NEW kind \in Check!Kinds
  PROVE  Exact(Region(r, r.end - r.start, kind), r)
<1>1. r.start \in Nat /\ r.end \in Nat /\ r.end - r.start \in Nat /\ r.end - r.start > 0
  BY DEF Solid
<1>2. /\ Region(r, r.end - r.start, kind) = [base |-> r.start, size |-> r.end - r.start, kind |-> kind]
      /\ Region(r, r.end - r.start, kind) \in Check!Region
  BY <1>1 DEF Region, Check!Region
<1>3. r.end <= round_up(r.end, PAGE) /\ round_up(r.end, PAGE) \in Nat
  BY <1>1, PageFacts
<1>4. r.start + (r.end - r.start) = r.end
  BY <1>1
<1> QED
  BY <1>1, <1>2, <1>3, <1>4 DEF Exact, Covering

\* The base and the size of a region are numbers.
LEMMA RegionFacts ==
  ASSUME NEW x \in Check!Region
  PROVE  x.base \in Nat /\ x.size \in Nat
BY DEF Check!Region

\* Ranges that share no granule have regions that are apart.
LEMMA UnitsSep ==
  ASSUME NEW r, NEW s, Solid(r), Solid(s), FarBelowMax(r), FarBelowMax(s), Apart(r, s),
         NEW x, NEW y, Covering(x, r), Covering(y, s)
  PROVE  Sep(x, y)
<1>1. ~SharesUnit(r, s)
  BY DEF Apart
<1>2. ASSUME NEW q, Solid(q), NEW z, Covering(z, q)
      PROVE  /\ Units(q).start \in Nat /\ Units(q).end \in Nat /\ Units(q).start < Units(q).end
             /\ Units(q).start <= z.base /\ z.base + z.size <= Units(q).end
             /\ z.base \in Nat /\ z.size \in Nat
  <2>1. q.start \in Nat /\ q.end \in Nat /\ q.start < q.end
    BY <1>2 DEF Solid
  <2>2. /\ Units(q).start \in Nat /\ Units(q).start <= q.start
        /\ Units(q).end \in Nat /\ q.end <= Units(q).end
    BY <2>1, UnitsFacts
  <2>3. Units(q).end % PAGE = 0
    <3>1. Units(q).end = round_up(q.end, GRAN)
      BY DEF Units, Span
    <3>2. AlignUp(q.end, GRAN) % GRAN = 0 /\ AlignUp(q.end, GRAN) = round_up(q.end, GRAN)
      BY <2>1, PageFacts, AlignUpIsCeiling
    <3>3. Units(q).end % GRAN = 0
      BY <3>1, <3>2
    <3> QED
      BY <2>2, <3>3, PageFacts, MultipleTrans
  <2>4. round_up(q.end, PAGE) <= Units(q).end /\ round_up(q.end, PAGE) \in Nat
    BY <2>1, <2>2, <2>3, PageFacts
  <2>5. z.base \in Nat /\ z.size \in Nat /\ z.base = q.start /\ z.base + z.size <= round_up(q.end, PAGE)
    BY <1>2, RegionFacts DEF Covering
  <2> QED
    BY <2>1, <2>2, <2>4, <2>5
<1>3. PICK a, b, c, d : a = Units(r).start /\ b = Units(r).end /\ c = Units(s).start /\ d = Units(s).end
  OBVIOUS
<1>4. /\ a \in Nat /\ b \in Nat /\ c \in Nat /\ d \in Nat /\ a < b /\ c < d
      /\ a <= x.base /\ x.base + x.size <= b /\ c <= y.base /\ y.base + y.size <= d
      /\ x.base \in Nat /\ x.size \in Nat /\ y.base \in Nat /\ y.size \in Nat
  BY <1>2, <1>3
<1>5. ~(a < d /\ c < b)
  BY <1>1, <1>3, <1>4 DEF SharesUnit, Overlap
<1> QED
  BY <1>4, <1>5 DEF Sep

\* Regions of disjoint ranges, when they are exact.
LEMMA ExactSep ==
  ASSUME NEW r, NEW s, Solid(r), Solid(s), ~Overlap(r, s), NEW x, NEW y, Exact(x, r), Exact(y, s)
  PROVE  Sep(x, y)
<1>1. /\ x.base = r.start /\ x.base + x.size = r.end /\ y.base = s.start /\ y.base + y.size = s.end
      /\ r.start \in Nat /\ r.end \in Nat /\ s.start \in Nat /\ s.end \in Nat
      /\ r.start < r.end /\ s.start < s.end
  BY DEF Exact, Covering, Solid
<1>2. ~(r.start < s.end /\ s.start < r.end)
  BY DEF Overlap
<1> QED
  BY <1>1, <1>2 DEF Sep

LEMMA GoodIsSymmetric == \A x, y : Good(x, y) => Good(y, x)
BY DEF Good, Sep

-----------------------------------------------------------------------------
(* Any two regions of a planned image.                                     *)

\* The planner is done, and what it placed is far below the last address.
Ready ==
  /\ IInv /\ Placed /\ bundled \in BOOLEAN
  /\ \A p \in Payload : \A r \in layout[p] : FarBelowMax(r)

\* The ranges are ranges, with bytes.
LEMMA PlacedIsSolid ==
  ASSUME IInv, Placed
  PROVE  /\ \A r \in in.reserved : Solid(r) /\ FarBelowMax(r) /\ r \in Range
         /\ \A p \in Payload \union {"ecam", "serial"} : \A r \in layout[p] : Solid(r) /\ r \in Range
         /\ \A p \in Payload : \A r \in layout[p] : r.start % PAGE = 0
         /\ \A n \in DOMAIN virtio : Solid(virtio[n])
<1>1. in \in Inputs /\ layout \in [Regions -> SUBSET Range] /\ virtio \in [1..in.mmio_slots -> Range] \union {<<>>}
  BY DEF IInv, TypeOK
<1>2. \A r \in Range : r.start \in Nat /\ r.end \in Nat
  BY GranFacts DEF Range, Address
<1>3. \A r \in in.reserved : Solid(r) /\ FarBelowMax(r) /\ r \in Range
  BY <1>1, InputFacts, PlanCheckAssumption DEF Solid
<1>4. \A p \in Payload \union {"ecam", "serial"} : \A r \in layout[p] : r \in Range
  BY <1>1 DEF Payload, Regions, Searched
<1>5. \A p \in Payload : \A r \in layout[p] : r.start < r.end /\ r.start % GRAN = 0
  BY DEF Placed, PayloadPlaced
<1>6. \A p \in {"ecam", "serial"} : \A r \in layout[p] : r.start < r.end
  BY DEF Placed, DevicesPlaced, BelowFloor
<1>7. \A n \in DOMAIN virtio : virtio[n] \in Range /\ virtio[n].start < virtio[n].end
  <2>1. \A n \in DOMAIN virtio : virtio[n] \in Range
    <3>1. CASE virtio \in [1..in.mmio_slots -> Range]
      BY <3>1
    <3>2. CASE virtio = <<>>
      BY <3>2
    <3> QED
      BY <1>1, <3>1, <3>2
  <2>2. \A n \in DOMAIN virtio : BelowFloor(virtio[n])
    BY Zenon DEF Placed, DevicesPlaced
  <2> QED
    BY <2>1, <2>2 DEF BelowFloor
<1>8. ASSUME NEW p \in Payload, NEW r \in layout[p]
      PROVE  r.start % PAGE = 0
  <2>1. r.start \in Nat /\ r.start % GRAN = 0
    BY <1>2, <1>4, <1>5
  <2> QED
    BY <2>1, PageFacts, MultipleTrans
<1> QED
  BY <1>2, <1>3, <1>4, <1>5, <1>6, <1>7, <1>8 DEF Solid

LEMMA RangesAreSolid ==
  ASSUME Ready
  PROVE  /\ \A r \in in.reserved : Solid(r) /\ FarBelowMax(r) /\ r \in Range
         /\ \A p \in Payload \union {"ecam", "serial"} : \A r \in layout[p] : Solid(r) /\ r \in Range
         /\ \A p \in Payload : \A r \in layout[p] : r.start % PAGE = 0
         /\ \A n \in DOMAIN virtio : Solid(virtio[n])
<1>1. IInv /\ Placed
  BY DEF Ready
<1> QED
  BY <1>1, PlacedIsSolid

\* The devices of the band are far below the last address too.
LEMMA DevicesAreFar ==
  ASSUME Ready
  PROVE  /\ \A p \in {"ecam", "serial"} : \A r \in layout[p] : FarBelowMax(r) /\ r.end <= high_floor
         /\ \A n \in DOMAIN virtio : FarBelowMax(virtio[n]) /\ virtio[n].end <= high_floor
         /\ high_floor \in Nat /\ high_floor % PAGE = 0
<1>1. in \in Inputs
  BY DEF Ready, IInv
<1>2. high_floor \in Nat /\ high_floor % PAGE = 0 /\ high_floor + GRAN <= U64_MAX
  BY <1>1, InputFacts, GranFacts, PlanCheckAssumption DEF high_floor, Address
<1>3. ASSUME NEW r, Solid(r), r.end <= high_floor
      PROVE  FarBelowMax(r)
  BY <1>2, <1>3, GranFacts DEF FarBelowMax, Solid
<1>4. \A p \in {"ecam", "serial"} : \A r \in layout[p] : Solid(r) /\ r.end <= high_floor
  BY RangesAreSolid DEF Ready, Placed, DevicesPlaced, BelowFloor
<1>5. \A n \in DOMAIN virtio : Solid(virtio[n]) /\ virtio[n].end <= high_floor
  BY RangesAreSolid, Zenon DEF Ready, Placed, DevicesPlaced, BelowFloor
<1> QED
  BY <1>2, <1>3, <1>4, <1>5

\* The window, when there is one.
LEMMA WindowFacts ==
  ASSUME Ready, NEW w \in layout["pci_window"]
  PROVE  /\ w = PciWindow /\ Solid(w) /\ FarBelowMax(w) /\ w.start = high_floor
         /\ w.end = high_floor + Pow2(in.window_bits) /\ Pow2(in.window_bits) \in Nat \ {0}
         /\ in.pci_slots > 0
<1>1. /\ in \in Inputs /\ w = PciWindow /\ in.pci_slots > 0
      /\ in.window_bits + 2 <= in.addr_space_bits
  BY DEF Ready, IInv, Progress, Placed, WindowPlaced
<1>2. high_floor \in Nat
  BY DevicesAreFar
<1>3. Pow2(in.window_bits) \in Nat \ {0} /\ high_floor + Pow2(in.window_bits) + GRAN <= U64_MAX
  BY <1>1, InputAssumption DEF high_floor
<1>4. w.start = high_floor /\ w.end = high_floor + Pow2(in.window_bits)
  BY <1>1 DEF PciWindow, Span
<1> QED
  BY <1>1, <1>2, <1>3, <1>4, GranFacts DEF Solid, FarBelowMax

\* Two reserved ranges: the linker and the tables of devices keep them apart.
LEMMA ReservedApart ==
  ASSUME Ready, NEW r \in in.reserved, NEW s \in in.reserved, r # s, NEW x, NEW y,
         IF r \in FixedDevices THEN Exact(x, r) ELSE Covering(x, r),
         IF s \in FixedDevices THEN Exact(y, s) ELSE Covering(y, s)
  PROVE  Sep(x, y)
<1>1. /\ ~Overlap(r, s)
      /\ r \notin FixedDevices /\ r.end <= s.start => round_up(r.end, PAGE) <= s.start
      /\ s \notin FixedDevices /\ s.end <= r.start => round_up(s.end, PAGE) <= r.start
  BY PlanCheckAssumption DEF Ready, IInv
<1>2. Solid(r) /\ Solid(s)
  BY RangesAreSolid
<1>3. /\ r.start \in Nat /\ r.end \in Nat /\ r.start < r.end
      /\ s.start \in Nat /\ s.end \in Nat /\ s.start < s.end
  BY <1>2 DEF Solid
<1>4. round_up(r.end, PAGE) \in Nat /\ round_up(s.end, PAGE) \in Nat
  BY <1>3, PageFacts
<1>5. /\ x.base = r.start /\ x.base + x.size <= round_up(r.end, PAGE)
      /\ y.base = s.start /\ y.base + y.size <= round_up(s.end, PAGE)
      /\ x.base \in Nat /\ x.size \in Nat /\ y.base \in Nat /\ y.size \in Nat
      /\ r \in FixedDevices => x.base + x.size = r.end
      /\ s \in FixedDevices => y.base + y.size = s.end
  BY RegionFacts DEF Exact, Covering
<1>6. r.end <= s.start \/ s.end <= r.start
  BY <1>1, <1>3 DEF Overlap
<1> QED
  BY <1>1, <1>3, <1>4, <1>5, <1>6 DEF Sep

\* A payload and anything else that the planner knows.
LEMMA PayloadApart ==
  ASSUME Ready, NEW p \in Payload, NEW r \in layout[p], NEW x, Covering(x, r)
  PROVE  /\ \A q \in Regions : q # p => \A s \in layout[q] : \A y : Covering(y, s) => Sep(x, y)
         /\ \A n \in DOMAIN virtio : \A y : Covering(y, virtio[n]) => Sep(x, y)
         /\ \A s \in in.reserved : \A y : Covering(y, s) => Sep(x, y)
<1>1. Solid(r) /\ FarBelowMax(r) /\ NoSharedUnit
  BY RangesAreSolid DEF Ready, IInv
<1>2. ASSUME NEW q \in Regions, q # p, NEW s \in layout[q], NEW y, Covering(y, s)
      PROVE  Sep(x, y)
  <2>1. q \in Payload \/ q \in {"ecam", "serial"} \/ q = "pci_window"
    BY DEF Regions, Payload, Searched
  <2>2. Solid(s) /\ FarBelowMax(s)
    BY <2>1, RangesAreSolid, DevicesAreFar, WindowFacts DEF Ready
  <2>3. Apart(r, s)
    BY <1>1, <1>2 DEF NoSharedUnit
  <2> QED
    BY <1>1, <1>2, <2>2, <2>3, UnitsSep
<1>3. ASSUME NEW n \in DOMAIN virtio, NEW y, Covering(y, virtio[n])
      PROVE  Sep(x, y)
  <2>1. Solid(virtio[n]) /\ FarBelowMax(virtio[n])
    BY RangesAreSolid, DevicesAreFar
  <2>2. Apart(r, virtio[n])
    BY <1>1 DEF NoSharedUnit
  <2> QED
    BY <1>1, <1>3, <2>1, <2>2, UnitsSep
<1>4. ASSUME NEW s \in in.reserved, NEW y, Covering(y, s)
      PROVE  Sep(x, y)
  <2>1. Solid(s) /\ FarBelowMax(s)
    BY RangesAreSolid
  <2>2. Apart(r, s)
    BY <1>1 DEF NoSharedUnit
  <2> QED
    BY <1>1, <1>4, <2>1, <2>2, UnitsSep
<1> QED
  BY <1>2, <1>3, <1>4

\* A reserved range and the devices of the band.
LEMMA BandApart ==
  ASSUME Ready, NEW s \in in.reserved, NEW y, Covering(y, s)
  PROVE  /\ \A p \in {"ecam", "serial"} : \A r \in layout[p] : \A x : Covering(x, r) => Sep(x, y)
         /\ \A n \in DOMAIN virtio : \A x : Covering(x, virtio[n]) => Sep(x, y)
<1>1. Solid(s) /\ FarBelowMax(s) /\ NoSharedUnit
  BY RangesAreSolid DEF Ready, IInv
<1>2. ASSUME NEW p \in {"ecam", "serial"}, NEW r \in layout[p], NEW x, Covering(x, r)
      PROVE  Sep(x, y)
  <2>1. Solid(r) /\ FarBelowMax(r)
    BY RangesAreSolid, DevicesAreFar
  <2>2. Apart(r, s)
    BY <1>1 DEF NoSharedUnit
  <2> QED
    BY <1>1, <1>2, <2>1, <2>2, UnitsSep
<1>3. ASSUME NEW n \in DOMAIN virtio, NEW x, Covering(x, virtio[n])
      PROVE  Sep(x, y)
  <2>1. Solid(virtio[n]) /\ FarBelowMax(virtio[n])
    BY RangesAreSolid, DevicesAreFar
  <2>2. Apart(virtio[n], s)
    BY <1>1 DEF NoSharedUnit
  <2> QED
    BY <1>1, <1>3, <2>1, <2>2, UnitsSep
<1> QED
  BY <1>2, <1>3

\* A region of a range that ends below an address of whole pages does too.
LEMMA CoveringEnds ==
  ASSUME NEW r, Solid(r), NEW x, Covering(x, r), NEW m \in Nat, m % PAGE = 0, r.end <= m
  PROVE  x.base + x.size <= m
<1>1. r.end \in Nat /\ x.base \in Nat /\ x.size \in Nat /\ x.base + x.size <= round_up(r.end, PAGE)
  BY RegionFacts DEF Solid, Covering
<1>2. round_up(r.end, PAGE) \in Nat /\ round_up(r.end, PAGE) <= m
  BY <1>1, PageFacts
<1> QED
  BY <1>1, <1>2

Buddy == Span(PciWindow.end, PciWindow.end + Pow2(in.window_bits))

\* Where the tree shows a window, a reserved range is below it or reported.
LEMMA ReservedAndWindow ==
  ASSUME Ready, bundled, NEW w \in layout["pci_window"], NEW r \in in.reserved,
         NEW x, Covering(x, r), NEW y, Exact(y, w)
  PROVE  Good(x, y)
<1>1. /\ w = PciWindow /\ Solid(w) /\ w.start = high_floor /\ in.pci_slots > 0 /\ Solid(r)
      /\ high_floor \in Nat /\ high_floor % PAGE = 0
  BY WindowFacts, RangesAreSolid, DevicesAreFar
<1>2. CASE Overlap(r, PciWindow)
  BY <1>1, <1>2 DEF Good, AtWindow, HasWindow
<1>3. CASE ~Overlap(r, PciWindow)
  <2>1. /\ r.start \in Nat /\ r.end \in Nat /\ w.start \in Nat /\ w.end \in Nat /\ r.start < r.end /\ w.start < w.end
        /\ y.base = w.start /\ y.base + y.size = w.end /\ x.base = r.start
    BY <1>1 DEF Solid, Exact, Covering
  <2>2. r.end <= high_floor \/ w.end <= r.start
    BY <1>1, <1>3, <2>1 DEF Overlap
  <2>3. CASE r.end <= high_floor
    BY <1>1, <2>1, <2>3, CoveringEnds DEF Good, Sep
  <2>4. CASE w.end <= r.start
    BY <2>1, <2>4 DEF Good, Sep
  <2> QED
    BY <2>2, <2>3, <2>4
<1> QED
  BY <1>2, <1>3

\* What is emitted and clear of the window is clear of its buddy or reported.
LEMMA EmittedAndBuddy ==
  ASSUME Ready, bundled, NEW w \in layout["pci_window"], NEW r \in Emitted, Solid(r),
         NEW x, Covering(x, r), NEW y, Exact(y, w), Good(x, y), NEW z, Exact(z, Buddy)
  PROVE  Good(x, z)
<1> DEFINE n == Pow2(in.window_bits)
<1>1. /\ w = PciWindow /\ Solid(w) /\ w.end = high_floor + n /\ n \in Nat \ {0}
      /\ in.pci_slots > 0
  BY WindowFacts
<1> HIDE DEF n
<1>2. CASE Overlap(r, Buddy)
  BY <1>1, <1>2 DEF Good, AtWindow, HasWindow, Buddy
<1>3. CASE ~Overlap(r, Buddy)
  <2>1. SUFFICES ASSUME Sep(x, y) PROVE Sep(x, z)
    BY DEF Good
  <2>2. Buddy.start = w.end /\ Buddy.end = w.end + n
    BY <1>1 DEF Buddy, Span, n
  <2>3. /\ r.start \in Nat /\ r.end \in Nat /\ w.start \in Nat /\ w.end \in Nat /\ r.start < r.end /\ w.start < w.end
        /\ y.base = w.start /\ y.base + y.size = w.end /\ x.base = r.start /\ r.end <= x.base + x.size
        /\ z.base = w.end /\ z.base + z.size = w.end + n
        /\ x.base \in Nat /\ x.size \in Nat
    BY <1>1, <2>2, RegionFacts DEF Solid, Exact, Covering
  <2>4. r.end <= w.end \/ w.end + n <= r.start
    BY <1>1, <1>3, <2>2, <2>3 DEF Overlap
  <2>5. x.base + x.size <= w.start \/ w.end <= x.base
    BY <2>1, <2>3 DEF Sep
  <2> QED
    BY <1>1, <2>3, <2>4, <2>5 DEF Sep
<1> QED
  BY <1>2, <1>3

-----------------------------------------------------------------------------
(* The lists that assemble_sections and base_device_regions join.          *)

TatuSections == Sections(in.reserved \ FixedDevices)
PayloadSections == UNION {Sections(layout[p]) : p \in Payload}
FixedRegions == Devices(in.reserved \intersect FixedDevices)
Transports == {virtio[n] : n \in DOMAIN virtio}
BandRegions == Devices(layout["serial"] \union layout["ecam"] \union Transports)
WindowRegions == Devices(layout["pci_window"])
BuddyRegions == Devices({Buddy : w \in layout["pci_window"]})

\* The sections of an image are apart from each other.
LEMMA SectionsApart ==
  ASSUME Ready
  PROVE  /\ \A p, q \in Payload : p # q =>
              \A x \in Sections(layout[p]), y \in Sections(layout[q]) : Good(x, y) /\ Good(y, x)
         /\ \A x \in PayloadSections, y \in Sections(in.reserved) : Good(x, y) /\ Good(y, x)
<1>1. ASSUME NEW p \in Payload, NEW q \in Payload, p # q, NEW x \in Sections(layout[p]), NEW y \in Sections(layout[q])
      PROVE  Good(x, y)
  <2>1. q \in Regions
    BY DEF Payload, Regions, Searched
  <2>2. PICK r \in layout[p] : Covering(x, r)
    BY DEF Sections
  <2>3. PICK s \in layout[q] : Covering(y, s)
    BY DEF Sections
  <2>4. Sep(x, y)
    BY <1>1, <2>1, <2>2, <2>3, PayloadApart
  <2> QED
    BY <2>4 DEF Good
<1>2. ASSUME NEW x \in PayloadSections, NEW y \in Sections(in.reserved)
      PROVE  Good(x, y)
  <2>1. PICK p \in Payload : x \in Sections(layout[p])
    BY DEF PayloadSections
  <2>2. PICK r \in layout[p] : Covering(x, r)
    BY <2>1 DEF Sections
  <2>3. PICK s \in in.reserved : Covering(y, s)
    BY DEF Sections
  <2>4. Sep(x, y)
    BY <2>2, <2>3, PayloadApart
  <2> QED
    BY <2>4 DEF Good
<1> QED
  BY <1>1, <1>2, GoodIsSymmetric

\* A range of the band is one of the devices plan() placed.
LEMMA BandIsPlaced ==
  ASSUME NEW y \in BandRegions
  PROVE  \/ \E p \in {"ecam", "serial"} : \E s \in layout[p] : Exact(y, s)
         \/ \E n \in DOMAIN virtio : Exact(y, virtio[n])
BY DEF BandRegions, Devices, Transports

\* The sections and what the tree describes.
LEMMA SectionsAndDevices ==
  ASSUME Ready, bundled, NEW x \in TatuSections \union PayloadSections,
         NEW y \in FixedRegions \union BandRegions \union WindowRegions \union BuddyRegions
  PROVE  Good(x, y) /\ Good(y, x)
<1> SUFFICES Good(x, y)
  BY GoodIsSymmetric
<1>1. PICK r \in Emitted : /\ Covering(x, r) /\ Solid(r)
                           /\ \/ r \in in.reserved \ FixedDevices
                              \/ \E p \in Payload : r \in layout[p]
  <2>1. CASE x \in TatuSections
    <3>1. PICK r \in in.reserved \ FixedDevices : Covering(x, r)
      BY <2>1 DEF TatuSections, Sections
    <3> QED
      BY <3>1, RangesAreSolid DEF Emitted
  <2>2. CASE x \in PayloadSections
    <3>1. PICK p \in Payload : \E r \in layout[p] : Covering(x, r)
      BY <2>2 DEF PayloadSections, Sections
    <3> QED
      BY <3>1, RangesAreSolid DEF Emitted
  <2> QED
    BY <2>1, <2>2
<1>2. CASE y \in FixedRegions
  <2>1. PICK s \in in.reserved \intersect FixedDevices : Exact(y, s)
    BY <1>2 DEF FixedRegions, Devices
  <2>2. CASE r \in in.reserved \ FixedDevices
    <3>1. r # s /\ r \in in.reserved /\ s \in in.reserved /\ r \notin FixedDevices /\ s \in FixedDevices
      BY <2>1, <2>2
    <3>2. Sep(x, y)
      BY <1>1, <2>1, <3>1, ReservedApart, Zenon
    <3> QED
      BY <3>2 DEF Good
  <2>3. CASE \E p \in Payload : r \in layout[p]
    <3>1. Covering(y, s) /\ s \in in.reserved /\ Covering(x, r)
      BY <1>1, <2>1 DEF Exact
    <3>2. Sep(x, y)
      BY <2>3, <3>1, PayloadApart, Zenon
    <3> QED
      BY <3>2 DEF Good
  <2> QED
    BY <1>1, <2>2, <2>3
<1>3. CASE y \in BandRegions
  <2>1. \/ \E p \in {"ecam", "serial"} : \E s \in layout[p] : Covering(y, s)
        \/ \E n \in DOMAIN virtio : Covering(y, virtio[n])
    BY <1>3, BandIsPlaced DEF Exact
  <2>2. CASE r \in in.reserved \ FixedDevices
    <3>1. Sep(y, x)
      BY <1>1, <2>1, <2>2, BandApart
    <3> QED
      BY <3>1, GoodIsSymmetric DEF Good
  <2>3. CASE \E p \in Payload : r \in layout[p]
    <3>1. PICK p \in Payload : r \in layout[p]
      BY <2>3
    <3>2. \A q \in {"ecam", "serial"} : q \in Regions /\ q # p
      BY DEF Payload, Regions
    <3>3. Sep(x, y)
      BY <1>1, <2>1, <3>1, <3>2, PayloadApart, Zenon
    <3> QED
      BY <3>3 DEF Good
  <2> QED
    BY <1>1, <2>2, <2>3
<1>4. ASSUME NEW w \in layout["pci_window"], NEW v, Exact(v, w)
      PROVE  Good(x, v)
  <2>1. CASE r \in in.reserved \ FixedDevices
    <3>1. r \in in.reserved /\ Covering(x, r)
      BY <1>1, <2>1
    <3> QED
      BY <1>4, <3>1, ReservedAndWindow, Zenon
  <2>2. CASE \E p \in Payload : r \in layout[p]
    <3>1. PICK p \in Payload : r \in layout[p]
      BY <2>2
    <3>2. "pci_window" \in Regions /\ "pci_window" # p /\ Covering(v, w)
      BY <1>4 DEF Payload, Regions, Exact
    <3>3. Sep(x, v)
      BY <1>1, <1>4, <3>1, <3>2, PayloadApart, Zenon
    <3> QED
      BY <3>3 DEF Good
  <2> QED
    BY <1>1, <2>1, <2>2
<1>5. CASE y \in WindowRegions
  <2>1. PICK w \in layout["pci_window"] : Exact(y, w)
    BY <1>5 DEF WindowRegions, Devices
  <2> QED
    BY <2>1, <1>4
<1>6. CASE y \in BuddyRegions
  <2>1. PICK w \in layout["pci_window"] : Exact(y, Buddy)
    BY <1>6 DEF BuddyRegions, Devices
  <2>2. PICK v : Exact(v, w)
    <3>1. Solid(w) /\ "window" \in Check!Kinds
      BY WindowFacts DEF Check!Kinds
    <3> QED
      BY <3>1, DeviceCovers
  <2>3. Good(x, v)
    BY <1>4, <2>2
  <2> QED
    BY <1>1, <2>1, <2>2, <2>3, EmittedAndBuddy, Zenon
<1> QED
  BY <1>2, <1>3, <1>5, <1>6

\* The buddy follows the window.
LEMMA BuddyFacts ==
  ASSUME Ready, NEW w \in layout["pci_window"]
  PROVE  Solid(Buddy) /\ Buddy.start = w.end /\ Buddy.end = w.end + (w.end - w.start)
<1> DEFINE n == Pow2(in.window_bits)
<1>1. w = PciWindow /\ w.start = high_floor /\ w.end = high_floor + n /\ n \in Nat \ {0} /\ high_floor \in Nat
  BY WindowFacts, DevicesAreFar
<1>2. Buddy.start = w.end /\ Buddy.end = w.end + n
  BY <1>1 DEF Buddy, Span
<1> HIDE DEF n
<1> QED
  BY <1>1, <1>2 DEF Solid

\* The devices of the band do not reach the window.
LEMMA BandAndWindow ==
  ASSUME Ready, NEW x \in BandRegions, NEW y \in WindowRegions \union BuddyRegions
  PROVE  Good(x, y) /\ Good(y, x)
<1>1. PICK r : Exact(x, r) /\ Solid(r) /\ r.end <= high_floor
  BY BandIsPlaced, RangesAreSolid, DevicesAreFar
<1>2. PICK w \in layout["pci_window"] : Exact(y, w) \/ Exact(y, Buddy)
  BY DEF WindowRegions, BuddyRegions, Devices
<1>3. /\ w.start = high_floor /\ Solid(w) /\ Buddy.start = w.end
  BY WindowFacts, BuddyFacts
<1>4. y.base = w.start \/ y.base = w.end
  BY <1>2, <1>3 DEF Exact, Covering
<1>5. x.base + x.size = r.end /\ r.end \in Nat /\ w.start \in Nat /\ w.end \in Nat /\ w.start < w.end
  BY <1>1, <1>3 DEF Exact, Covering, Solid
<1>6. x.base + x.size <= y.base
  BY <1>1, <1>3, <1>4, <1>5
<1> QED
  BY <1>6 DEF Good, Sep

LEMMA WindowAndBuddy ==
  ASSUME Ready, NEW x \in WindowRegions, NEW y \in BuddyRegions
  PROVE  Good(x, y) /\ Good(y, x)
<1>1. PICK w \in layout["pci_window"] : Exact(x, w)
  BY DEF WindowRegions, Devices
<1>2. Exact(y, Buddy)
  BY DEF BuddyRegions, Devices
<1>3. x.base + x.size = w.end /\ y.base = w.end /\ w.end \in Nat
  BY <1>1, <1>2, WindowFacts, BuddyFacts DEF Exact, Covering, Solid
<1> QED
  BY <1>3 DEF Good, Sep

\* A device at a fixed address and the devices plan() placed.
LEMMA FixedAndDevices ==
  ASSUME Ready, bundled, NEW x \in FixedRegions, NEW y \in BandRegions \union WindowRegions \union BuddyRegions
  PROVE  Good(x, y) /\ Good(y, x)
<1> SUFFICES Good(x, y)
  BY GoodIsSymmetric
<1>1. PICK r \in in.reserved : Covering(x, r)
  BY DEF FixedRegions, Devices, Exact
<1>2. Solid(r) /\ r \in Emitted
  BY RangesAreSolid DEF Emitted
<1>3. CASE y \in BandRegions
  <2>1. \/ \E p \in {"ecam", "serial"} : \E s \in layout[p] : Covering(y, s)
        \/ \E n \in DOMAIN virtio : Covering(y, virtio[n])
    BY <1>3, BandIsPlaced DEF Exact
  <2>2. Sep(y, x)
    BY <1>1, <2>1, BandApart
  <2> QED
    BY <2>2, GoodIsSymmetric DEF Good
<1>4. ASSUME NEW w \in layout["pci_window"], NEW v, Exact(v, w)
      PROVE  Good(x, v)
  BY <1>1, <1>4, ReservedAndWindow, Zenon
<1>5. CASE y \in WindowRegions
  <2>1. PICK w \in layout["pci_window"] : Exact(y, w)
    BY <1>5 DEF WindowRegions, Devices
  <2> QED
    BY <2>1, <1>4
<1>6. CASE y \in BuddyRegions
  <2>1. PICK w \in layout["pci_window"] : Exact(y, Buddy)
    BY <1>6 DEF BuddyRegions, Devices
  <2>2. PICK v : Exact(v, w)
    <3>1. Solid(w) /\ "window" \in Check!Kinds
      BY WindowFacts DEF Check!Kinds
    <3> QED
      BY <3>1, DeviceCovers
  <2>3. Good(x, v)
    BY <1>4, <2>2
  <2> QED
    BY <1>1, <1>2, <2>1, <2>2, <2>3, EmittedAndBuddy, Zenon
<1> QED
  BY <1>3, <1>5, <1>6

\* The devices of the band among themselves.
LEMMA BandIsApart ==
  ASSUME Ready
  PROVE  /\ \A x \in Devices(layout["serial"]), y \in Devices(Transports) \union Devices(layout["ecam"]) :
              Good(x, y) /\ Good(y, x)
         /\ \A x \in Devices(Transports), y \in Devices(layout["ecam"]) : Good(x, y) /\ Good(y, x)
         /\ \A m, n \in DOMAIN virtio : m # n =>
              \A x, y : Exact(x, virtio[m]) /\ Exact(y, virtio[n]) => Good(x, y)
<1>1. /\ \A r \in layout["serial"], s \in layout["ecam"] : ~Overlap(r, s)
      /\ \A m \in DOMAIN virtio : \A p \in {"ecam", "serial"} : \A r \in layout[p] : ~Overlap(virtio[m], r)
      /\ \A m, n \in DOMAIN virtio : m # n => ~Overlap(virtio[m], virtio[n])
  BY Zenon DEF Ready, IInv, DevicesDisjoint, Mmio
<1>2. /\ \A r \in layout["serial"] \union layout["ecam"] : Solid(r)
      /\ \A n \in DOMAIN virtio : Solid(virtio[n])
  BY RangesAreSolid
<1>3. ASSUME NEW R, NEW S, NEW x \in Devices(R), NEW y \in Devices(S),
             \A r \in R, s \in S : Solid(r) /\ Solid(s) /\ ~Overlap(r, s)
      PROVE  Good(x, y) /\ Good(y, x)
  <2>1. PICK r \in R : Exact(x, r)
    BY DEF Devices
  <2>2. PICK s \in S : Exact(y, s)
    BY DEF Devices
  <2>3. Sep(x, y)
    BY <1>3, <2>1, <2>2, ExactSep
  <2> QED
    BY <2>3, GoodIsSymmetric DEF Good
<1>4. \A r \in layout["serial"], s \in layout["ecam"] : Solid(r) /\ Solid(s) /\ ~Overlap(r, s)
  BY <1>1, <1>2
<1>5. \A r \in Transports : \A s \in layout["serial"] \union layout["ecam"] : Solid(r) /\ Solid(s) /\ ~Overlap(r, s)
  BY <1>1, <1>2 DEF Transports
<1>6. ASSUME NEW m \in DOMAIN virtio, NEW n \in DOMAIN virtio, m # n, NEW x, NEW y,
             Exact(x, virtio[m]), Exact(y, virtio[n])
      PROVE  Good(x, y)
  <2>1. Sep(x, y)
    BY <1>1, <1>2, <1>6, ExactSep, Zenon
  <2> QED
    BY <2>1 DEF Good
<1>7. \A x \in Devices(Transports), y \in Devices(layout["serial"]) \union Devices(layout["ecam"]) :
        Good(x, y) /\ Good(y, x)
  BY <1>3, <1>5
<1>8. \A x \in Devices(layout["serial"]), y \in Devices(layout["ecam"]) : Good(x, y) /\ Good(y, x)
  BY <1>3, <1>4
<1> QED
  BY <1>6, <1>7, <1>8

-----------------------------------------------------------------------------
(* assemble_sections, list by list: d has the file data of each range.     *)

Sectioned(T, d) == [k \in 1..Len(Listed(T)) |-> Section(Listed(T)[k], d[Listed(T)[k]])]

Fillable(T, d) ==
  /\ IsFiniteSet(T)
  /\ \A r \in T : Solid(r) /\ r.start % PAGE = 0 /\ d[r] \in Nat /\ r.start + d[r] <= r.end

LEMMA SectionedCovers ==
  ASSUME NEW T, NEW d, Fillable(T, d)
  PROVE  /\ Sectioned(T, d) \in Seq(Check!Region)
         /\ \A r \in T : Covering(Section(r, d[r]), r)
<1>1. \A r \in T : Covering(Section(r, d[r]), r)
  BY SectionCovers DEF Fillable
<1>2. \A r \in T : Section(r, d[r]) \in Check!Region
  BY <1>1 DEF Covering
<1>3. Len(Listed(T)) \in Nat /\ \A k \in 1..Len(Listed(T)) : Listed(T)[k] \in T
  BY ListedFacts DEF Fillable
<1>4. \A k \in 1..Len(Listed(T)) : Section(Listed(T)[k], d[Listed(T)[k]]) \in Check!Region
  BY <1>2, <1>3
<1>5. Sectioned(T, d) \in Seq(Check!Region)
  BY <1>3, <1>4 DEF Sectioned
<1> QED
  BY <1>1, <1>5

LEMMA SectionedHolds ==
  ASSUME NEW T, NEW d, Fillable(T, d),
         \A r, s \in T : r # s => \A x, y : Covering(x, r) /\ Covering(y, s) => Good(x, y)
  PROVE  Holds(Sectioned(T, d), Sections(T))
<1> DEFINE g == [r \in T |-> Section(r, d[r])]
<1>1. \A r \in T : g[r] = Section(r, d[r])
  OBVIOUS
<1>2. IsFiniteSet(T) /\ \A r \in T : Covering(Section(r, d[r]), r)
  BY SectionedCovers DEF Fillable
<1>3. \A r \in T : Covering(g[r], r)
  BY <1>1, <1>2
<1>4. Len(Listed(T)) \in Nat /\ \A k \in 1..Len(Listed(T)) : Listed(T)[k] \in T
  BY <1>2, ListedFacts
<1>5. Sectioned(T, d) = [k \in 1..Len(Listed(T)) |-> g[Listed(T)[k]]]
  BY <1>1, <1>4 DEF Sectioned
<1> HIDE DEF g
<1>6. \A r \in T : g[r] \in Check!Region /\ g[r] \in Sections(T) /\ g[r].size > 0
  BY <1>3 DEF Covering, Sections
<1>7. \A r, s \in T : r # s => Good(g[r], g[s])
  BY <1>3
<1>8. Holds([k \in 1..Len(Listed(T)) |-> g[Listed(T)[k]]], Sections(T))
  BY <1>2, <1>6, <1>7, EachHolds
<1> QED
  BY <1>5, <1>8

Tatu(S) == (in.reserved \ FixedDevices) \intersect S
Full(T) == [r \in T |-> r.end - r.start]
Filled(T, n) == [r \in T |-> n]

\* The five lists, each with the data it may have.
LEMMA AssembleIs ==
  ASSUME IInv, Placed, NEW S, NEW n \in {1, in.kernel_size}
  PROVE  /\ assemble_sections(n, S) =
              Sectioned(Tatu(S), Full(Tatu(S)))
                \o Sectioned(layout["linux"] \intersect S, Filled(layout["linux"] \intersect S, n))
                \o Sectioned(layout["initrd"] \intersect S, Filled(layout["initrd"] \intersect S, in.initrd_size))
                \o Sectioned(layout["bootconfig"] \intersect S, Filled(layout["bootconfig"] \intersect S, 0))
                \o Sectioned(layout["relocs"] \intersect S, Full(layout["relocs"] \intersect S))
         /\ Fillable(Tatu(S), Full(Tatu(S)))
         /\ Fillable(layout["linux"] \intersect S, Filled(layout["linux"] \intersect S, n))
         /\ Fillable(layout["initrd"] \intersect S, Filled(layout["initrd"] \intersect S, in.initrd_size))
         /\ Fillable(layout["bootconfig"] \intersect S, Filled(layout["bootconfig"] \intersect S, 0))
         /\ Fillable(layout["relocs"] \intersect S, Full(layout["relocs"] \intersect S))
<1>1. /\ in \in Inputs /\ in.kernel_size \in Nat \ {0} /\ in.initrd_size \in Nat
      /\ n \in Nat /\ n <= in.kernel_size
  <2>1. in \in Inputs /\ in \in PlannerInput
    BY InputFacts DEF IInv
  <2>2. in.kernel_size \in Nat \ {0} /\ in.initrd_size \in Nat
    BY <2>1, GranFacts DEF PlannerInput, Address
  <2> QED
    BY <2>1, <2>2
<1>2. \A T : \A r \in T : /\ Full(T)[r] = r.end - r.start
                          /\ \A c : Filled(T, c)[r] = c
  BY DEF Full, Filled
<1>3. IsFiniteSet(Tatu(S)) /\ \A p \in Payload : IsFiniteSet(layout[p] \intersect S)
  <2>1. IsFiniteSet(in.reserved) /\ Tatu(S) \subseteq in.reserved
    BY <1>1, PlanCheckAssumption DEF Tatu
  <2>2. IsFiniteSet(Tatu(S))
    BY <2>1, PartIsFinite
  <2>3. \A p \in Payload : \A r, s \in layout[p] \intersect S : r = s
    BY DEF Placed, OneOfEach, Payload, Regions, Searched
  <2>4. \A p \in Payload : IsFiniteSet(layout[p] \intersect S)
    BY <2>3, OneIsFinite
  <2> QED
    BY <2>2, <2>4
<1>4. /\ \A r \in Tatu(S) : Solid(r) /\ r.start % PAGE = 0
      /\ \A p \in Payload : \A r \in layout[p] \intersect S : Solid(r) /\ r.start % PAGE = 0
  <2>1. \A r \in Tatu(S) : r \in in.reserved /\ r \notin FixedDevices
    BY DEF Tatu
  <2>2. \A r \in in.reserved : r \notin FixedDevices => r.start % PAGE = 0
    BY <1>1, PlanCheckAssumption
  <2> QED
    BY <2>1, <2>2, PlacedIsSolid
<1>5. \A r : Solid(r) => r.end - r.start \in Nat /\ r.start + (r.end - r.start) <= r.end
                         /\ r.start + 0 <= r.end /\ r.start \in Nat
  BY DEF Solid
<1>6. /\ \A r \in layout["linux"] : r.end = r.start + in.kernel_size
      /\ \A r \in layout["initrd"] : r.start + in.initrd_size <= r.end
  BY DEF Placed, PayloadPlaced
<1>7. {"linux", "initrd", "bootconfig", "relocs"} \subseteq Payload
  BY DEF Payload
<1>8. Fillable(Tatu(S), Full(Tatu(S)))
  BY <1>2, <1>3, <1>4, <1>5 DEF Fillable
<1>9. Fillable(layout["linux"] \intersect S, Filled(layout["linux"] \intersect S, n))
  <2> DEFINE T == layout["linux"] \intersect S
  <2>1. IsFiniteSet(T) /\ \A r \in T : Solid(r) /\ r.start % PAGE = 0
    BY <1>3, <1>4, <1>7
  <2>2. \A r \in T : r.start \in Nat /\ r.end = r.start + in.kernel_size
    BY <1>5, <1>6, <2>1
  <2>3. \A r \in T : r.start + n <= r.end
    BY <1>1, <2>2
  <2> HIDE DEF T
  <2>4. \A r \in T : Filled(T, n)[r] = n
    BY DEF Filled
  <2>5. Fillable(T, Filled(T, n))
    BY <1>1, <2>1, <2>3, <2>4 DEF Fillable
  <2> QED
    BY <2>5 DEF T
<1>10. Fillable(layout["initrd"] \intersect S, Filled(layout["initrd"] \intersect S, in.initrd_size))
  <2> DEFINE T == layout["initrd"] \intersect S
  <2>1. IsFiniteSet(T) /\ \A r \in T : Solid(r) /\ r.start % PAGE = 0
    BY <1>3, <1>4, <1>7
  <2>2. \A r \in T : r.start + in.initrd_size <= r.end
    BY <1>6
  <2> HIDE DEF T
  <2>3. \A r \in T : Filled(T, in.initrd_size)[r] = in.initrd_size
    BY DEF Filled
  <2>4. Fillable(T, Filled(T, in.initrd_size))
    BY <1>1, <2>1, <2>2, <2>3 DEF Fillable
  <2> QED
    BY <2>4 DEF T
<1>11. Fillable(layout["bootconfig"] \intersect S, Filled(layout["bootconfig"] \intersect S, 0))
  <2> DEFINE T == layout["bootconfig"] \intersect S
  <2>1. IsFiniteSet(T) /\ \A r \in T : Solid(r) /\ r.start % PAGE = 0
    BY <1>3, <1>4, <1>7
  <2> HIDE DEF T
  <2>2. \A r \in T : Filled(T, 0)[r] = 0
    BY DEF Filled
  <2>3. Fillable(T, Filled(T, 0))
    BY <1>5, <2>1, <2>2 DEF Fillable
  <2> QED
    BY <2>3 DEF T
<1>12. Fillable(layout["relocs"] \intersect S, Full(layout["relocs"] \intersect S))
  <2> DEFINE T == layout["relocs"] \intersect S
  <2>1. IsFiniteSet(T) /\ \A r \in T : Solid(r) /\ r.start % PAGE = 0
    BY <1>3, <1>4, <1>7
  <2> HIDE DEF T
  <2>2. Fillable(T, Full(T))
    BY <1>2, <1>5, <2>1 DEF Fillable
  <2> QED
    BY <2>2 DEF T
<1>13. ASSUME NEW T, IsFiniteSet(T), NEW c
       PROVE  /\ Sectioned(T, Full(T)) = [k \in 1..Len(Listed(T)) |-> Section(Listed(T)[k], Listed(T)[k].end - Listed(T)[k].start)]
              /\ Sectioned(T, Filled(T, c)) = [k \in 1..Len(Listed(T)) |-> Section(Listed(T)[k], c)]
  <2>1. \A k \in 1..Len(Listed(T)) : Listed(T)[k] \in T
    BY <1>13, ListedFacts
  <2>2. \A k \in 1..Len(Listed(T)) : /\ Full(T)[Listed(T)[k]] = Listed(T)[k].end - Listed(T)[k].start
                                      /\ Filled(T, c)[Listed(T)[k]] = c
    BY <2>1 DEF Full, Filled
  <2> QED
    BY <2>2, Zenon DEF Sectioned
<1>14. assemble_sections(n, S) =
              Sectioned(Tatu(S), Full(Tatu(S)))
                \o Sectioned(layout["linux"] \intersect S, Filled(layout["linux"] \intersect S, n))
                \o Sectioned(layout["initrd"] \intersect S, Filled(layout["initrd"] \intersect S, in.initrd_size))
                \o Sectioned(layout["bootconfig"] \intersect S, Filled(layout["bootconfig"] \intersect S, 0))
                \o Sectioned(layout["relocs"] \intersect S, Full(layout["relocs"] \intersect S))
  <2> DEFINE A == Tatu(S)
             B == layout["linux"] \intersect S
             C == layout["initrd"] \intersect S
             D == layout["bootconfig"] \intersect S
             E == layout["relocs"] \intersect S
  <2>1. IsFiniteSet(A) /\ IsFiniteSet(B) /\ IsFiniteSet(C) /\ IsFiniteSet(D) /\ IsFiniteSet(E)
    BY <1>3, <1>7
  <2>2. assemble_sections(n, S) =
          [k \in 1..Len(Listed(A)) |-> Section(Listed(A)[k], Listed(A)[k].end - Listed(A)[k].start)]
            \o [k \in 1..Len(Listed(B)) |-> Section(Listed(B)[k], n)]
            \o [k \in 1..Len(Listed(C)) |-> Section(Listed(C)[k], in.initrd_size)]
            \o [k \in 1..Len(Listed(D)) |-> Section(Listed(D)[k], 0)]
            \o [k \in 1..Len(Listed(E)) |-> Section(Listed(E)[k], Listed(E)[k].end - Listed(E)[k].start)]
    BY Zenon DEF assemble_sections, Each, Tatu
  <2> HIDE DEF A, B, C, D, E
  <2>3. /\ Sectioned(A, Full(A)) = [k \in 1..Len(Listed(A)) |-> Section(Listed(A)[k], Listed(A)[k].end - Listed(A)[k].start)]
        /\ Sectioned(E, Full(E)) = [k \in 1..Len(Listed(E)) |-> Section(Listed(E)[k], Listed(E)[k].end - Listed(E)[k].start)]
    BY <1>13, <2>1, Zenon
  <2>4. /\ Sectioned(B, Filled(B, n)) = [k \in 1..Len(Listed(B)) |-> Section(Listed(B)[k], n)]
        /\ Sectioned(C, Filled(C, in.initrd_size)) = [k \in 1..Len(Listed(C)) |-> Section(Listed(C)[k], in.initrd_size)]
        /\ Sectioned(D, Filled(D, 0)) = [k \in 1..Len(Listed(D)) |-> Section(Listed(D)[k], 0)]
    <3>1. Sectioned(B, Filled(B, n)) = [k \in 1..Len(Listed(B)) |-> Section(Listed(B)[k], n)]
      BY <1>13, <2>1, Zenon
    <3>2. Sectioned(C, Filled(C, in.initrd_size)) = [k \in 1..Len(Listed(C)) |-> Section(Listed(C)[k], in.initrd_size)]
      <4>1. PICK c : c = in.initrd_size
        OBVIOUS
      <4>2. Sectioned(C, Filled(C, c)) = [k \in 1..Len(Listed(C)) |-> Section(Listed(C)[k], c)]
        BY <1>13, <2>1, Zenon
      <4> QED
        BY <4>1, <4>2, Zenon
    <3>3. Sectioned(D, Filled(D, 0)) = [k \in 1..Len(Listed(D)) |-> Section(Listed(D)[k], 0)]
      BY <1>13, <2>1, Zenon
    <3> QED
      BY <3>1, <3>2, <3>3
  <2>5. assemble_sections(n, S) = Sectioned(A, Full(A)) \o Sectioned(B, Filled(B, n))
          \o Sectioned(C, Filled(C, in.initrd_size)) \o Sectioned(D, Filled(D, 0)) \o Sectioned(E, Full(E))
    BY <2>2, <2>3, <2>4, Zenon
  <2> QED
    BY <2>5 DEF A, B, C, D, E
<1> QED
  BY <1>8, <1>9, <1>10, <1>11, <1>12, <1>14

\* A range whose section fits u32 ends far below the last address.
LEMMA OneFits ==
  ASSUME NEW T, NEW d, Fillable(T, d), FitsU32(Sectioned(T, d)), NEW r \in T, \A s \in T : s = r
  PROVE  FarBelowMax(r)
<1>1. T = {r}
  OBVIOUS
<1>2. Cardinality(T) = 1
  <2>1. Finite!Cardinality({r}) = 1
    BY Finite!FS_Singleton
  <2>2. Finite!Cardinality({r}) = Cardinality({r})
    BY DEF Finite!Cardinality, Cardinality
  <2> QED
    BY <1>1, <2>1, <2>2
<1>3. Len(Listed(T)) = 1 /\ Listed(T)[1] \in T
  <2>1. Listed(T) \in Seq(T) /\ Len(Listed(T)) = Cardinality(T)
    BY ListedFacts DEF Fillable
  <2> QED
    BY <1>2, <2>1
<1>4. 1 \in DOMAIN Sectioned(T, d) /\ Sectioned(T, d)[1] = Section(r, d[r])
  BY <1>1, <1>3 DEF Sectioned
<1>5. PICK x : x = Section(r, d[r])
  OBVIOUS
<1>6. x.base <= U32_MAX /\ x.size <= U32_MAX
  BY <1>4, <1>5 DEF FitsU32
<1>7. Covering(x, r) /\ Solid(r)
  BY <1>5, SectionedCovers DEF Fillable
<1>8. x.base \in Nat /\ x.size \in Nat /\ r.end <= x.base + x.size /\ r.end \in Nat
  BY <1>7, RegionFacts DEF Covering, Solid
<1>9. U32_MAX \in Nat /\ 2 * U32_MAX + GRAN <= U64_MAX /\ GRAN \in Nat /\ U64_MAX \in Nat
  BY PlanCheckAssumption, GranFacts
<1> QED
  BY <1>6, <1>8, <1>9 DEF FarBelowMax

\* build_pe's u32 fields keep the payload far below the last address.
LEMMA PayloadsFit ==
  ASSUME IInv, Placed, bundled \in BOOLEAN, NEW n \in {1, in.kernel_size}, FitsU32(assemble_sections(n, Range))
  PROVE  Ready
<1> DEFINE A == Sectioned(Tatu(Range), Full(Tatu(Range)))
           B == Sectioned(layout["linux"] \intersect Range, Filled(layout["linux"] \intersect Range, n))
           C == Sectioned(layout["initrd"] \intersect Range, Filled(layout["initrd"] \intersect Range, in.initrd_size))
           D == Sectioned(layout["bootconfig"] \intersect Range, Filled(layout["bootconfig"] \intersect Range, 0))
           E == Sectioned(layout["relocs"] \intersect Range, Full(layout["relocs"] \intersect Range))
<1>1. /\ Fillable(layout["linux"] \intersect Range, Filled(layout["linux"] \intersect Range, n))
      /\ Fillable(layout["initrd"] \intersect Range, Filled(layout["initrd"] \intersect Range, in.initrd_size))
      /\ Fillable(layout["bootconfig"] \intersect Range, Filled(layout["bootconfig"] \intersect Range, 0))
      /\ Fillable(layout["relocs"] \intersect Range, Full(layout["relocs"] \intersect Range))
      /\ Fillable(Tatu(Range), Full(Tatu(Range)))
  BY AssembleIs, Zenon
<1>2. FitsU32(A \o B \o C \o D \o E)
  <2>1. assemble_sections(n, Range) = A \o B \o C \o D \o E
    BY AssembleIs, Zenon
  <2> QED
    BY <2>1, Zenon
<1>3. /\ A \in Seq(Check!Region) /\ B \in Seq(Check!Region) /\ C \in Seq(Check!Region)
      /\ D \in Seq(Check!Region) /\ E \in Seq(Check!Region)
  BY <1>1, SectionedCovers, Zenon
<1> HIDE DEF A, B, C, D, E
<1>4. FitsU32(B) /\ FitsU32(C) /\ FitsU32(D) /\ FitsU32(E)
  <2>1. A \o B \in Seq(Check!Region) /\ A \o B \o C \in Seq(Check!Region) /\ A \o B \o C \o D \in Seq(Check!Region)
    BY <1>3
  <2>2. FitsU32(A \o B \o C \o D) /\ FitsU32(E)
    BY <1>2, <1>3, <2>1, FitsBoth, Zenon
  <2>3. FitsU32(A \o B \o C) /\ FitsU32(D)
    BY <1>3, <2>1, <2>2, FitsBoth, Zenon
  <2>4. FitsU32(A \o B) /\ FitsU32(C)
    BY <1>3, <2>1, <2>3, FitsBoth, Zenon
  <2> QED
    BY <1>3, <2>2, <2>3, <2>4, FitsBoth, Zenon
<1>5. ASSUME NEW p \in Payload, NEW r \in layout[p]
      PROVE  r \in layout[p] \intersect Range /\ \A s \in layout[p] \intersect Range : s = r
  <2>1. p \in Regions /\ layout \in [Regions -> SUBSET Range]
    BY DEF Payload, Regions, Searched, IInv, TypeOK
  <2> QED
    BY <2>1 DEF Placed, OneOfEach
<1>6. ASSUME NEW p \in Payload, NEW r \in layout[p]
      PROVE  FarBelowMax(r)
  <2>1. p = "linux" \/ p = "initrd" \/ p = "bootconfig" \/ p = "relocs"
    BY DEF Payload
  <2>2. CASE p = "linux"
    <3> DEFINE T == layout["linux"] \intersect Range
    <3>1. r \in T /\ \A s \in T : s = r
      BY <1>5, <2>2
    <3>2. Fillable(T, Filled(T, n)) /\ FitsU32(Sectioned(T, Filled(T, n)))
      BY <1>1, <1>4 DEF B
    <3> HIDE DEF T
    <3> QED
      BY <3>1, <3>2, OneFits
  <2>3. CASE p = "initrd"
    <3> DEFINE T == layout["initrd"] \intersect Range
    <3>1. r \in T /\ \A s \in T : s = r
      BY <1>5, <2>3
    <3>2. Fillable(T, Filled(T, in.initrd_size)) /\ FitsU32(Sectioned(T, Filled(T, in.initrd_size)))
      BY <1>1, <1>4 DEF C
    <3> HIDE DEF T
    <3> QED
      BY <3>1, <3>2, OneFits
  <2>4. CASE p = "bootconfig"
    <3> DEFINE T == layout["bootconfig"] \intersect Range
    <3>1. r \in T /\ \A s \in T : s = r
      BY <1>5, <2>4
    <3>2. Fillable(T, Filled(T, 0)) /\ FitsU32(Sectioned(T, Filled(T, 0)))
      BY <1>1, <1>4 DEF D
    <3> HIDE DEF T
    <3> QED
      BY <3>1, <3>2, OneFits
  <2>5. CASE p = "relocs"
    <3> DEFINE T == layout["relocs"] \intersect Range
    <3>1. r \in T /\ \A s \in T : s = r
      BY <1>5, <2>5
    <3>2. Fillable(T, Full(T)) /\ FitsU32(Sectioned(T, Full(T)))
      BY <1>1, <1>4 DEF E
    <3> HIDE DEF T
    <3> QED
      BY <3>1, <3>2, OneFits
  <2> QED
    BY <2>1, <2>2, <2>3, <2>4, <2>5
<1> QED
  BY <1>6 DEF Ready

LEMMA HoldsInMore ==
  ASSUME NEW s, NEW E, NEW F, Holds(s, E), E \subseteq F
  PROVE  Holds(s, F)
BY DEF Holds

\* The sections of a planned image, all of them or the loaded ones.
LEMMA SectionsHold ==
  ASSUME Ready, NEW S, NEW n \in {1, in.kernel_size}
  PROVE  Holds(assemble_sections(n, S), TatuSections \union PayloadSections)
<1> DEFINE A == Sectioned(Tatu(S), Full(Tatu(S)))
           B == Sectioned(layout["linux"] \intersect S, Filled(layout["linux"] \intersect S, n))
           C == Sectioned(layout["initrd"] \intersect S, Filled(layout["initrd"] \intersect S, in.initrd_size))
           D == Sectioned(layout["bootconfig"] \intersect S, Filled(layout["bootconfig"] \intersect S, 0))
           E == Sectioned(layout["relocs"] \intersect S, Full(layout["relocs"] \intersect S))
           L(p) == Sections(layout[p])
<1>0. IInv /\ Placed
  BY DEF Ready
<1>1. /\ Fillable(layout["linux"] \intersect S, Filled(layout["linux"] \intersect S, n))
      /\ Fillable(layout["initrd"] \intersect S, Filled(layout["initrd"] \intersect S, in.initrd_size))
      /\ Fillable(layout["bootconfig"] \intersect S, Filled(layout["bootconfig"] \intersect S, 0))
      /\ Fillable(layout["relocs"] \intersect S, Full(layout["relocs"] \intersect S))
      /\ Fillable(Tatu(S), Full(Tatu(S)))
  BY <1>0, AssembleIs, Zenon
<1>2. assemble_sections(n, S) = A \o B \o C \o D \o E
  BY <1>0, AssembleIs, Zenon
<1>3. \A R, T : T \subseteq R => Sections(T) \subseteq Sections(R)
  BY DEF Sections
<1>4. Holds(A, TatuSections)
  <2>1. \A r, s \in Tatu(S) : r # s => \A x, y : Covering(x, r) /\ Covering(y, s) => Good(x, y)
    <3>1. \A r \in Tatu(S) : r \in in.reserved /\ r \notin FixedDevices
      BY DEF Tatu
    <3>2. \A r, s \in Tatu(S) : r # s => \A x, y : Covering(x, r) /\ Covering(y, s) => Sep(x, y)
      BY <3>1, ReservedApart, Zenon
    <3> QED
      BY <3>2, Zenon DEF Good
  <2>2. Holds(A, Sections(Tatu(S)))
    BY <1>1, <2>1, SectionedHolds, Zenon
  <2>3. Sections(Tatu(S)) \subseteq TatuSections
    BY <1>3 DEF TatuSections, Tatu
  <2> QED
    BY <2>2, <2>3, HoldsInMore, Zenon
<1>5. ASSUME NEW p \in Payload, NEW d, Fillable(layout[p] \intersect S, d)
      PROVE  Holds(Sectioned(layout[p] \intersect S, d), L(p))
  <2> DEFINE T == layout[p] \intersect S
  <2>1. \A r, s \in T : r = s
    BY <1>0 DEF Placed, OneOfEach, Payload, Regions, Searched
  <2>2. Sections(T) \subseteq L(p)
    BY <1>3
  <2>3. Fillable(T, d)
    BY <1>5
  <2> HIDE DEF T, L
  <2>4. Holds(Sectioned(T, d), Sections(T))
    BY <2>1, <2>3, SectionedHolds, Zenon
  <2>5. Holds(Sectioned(T, d), L(p))
    BY <2>2, <2>4, HoldsInMore, Zenon
  <2> QED
    BY <2>5 DEF T
<1>6. /\ "linux" \in Payload /\ "initrd" \in Payload /\ "bootconfig" \in Payload /\ "relocs" \in Payload
  BY DEF Payload
<1>7. Holds(B, L("linux"))
  BY <1>1, <1>5, <1>6, Zenon
<1>8. Holds(C, L("initrd"))
  BY <1>1, <1>5, <1>6, Zenon
<1>9. Holds(D, L("bootconfig"))
  BY <1>1, <1>5, <1>6, Zenon
<1>10. Holds(E, L("relocs"))
  BY <1>1, <1>5, <1>6, Zenon
<1>11. \A p, q \in Payload : p # q => \A x \in L(p), y \in L(q) : Good(x, y) /\ Good(y, x)
  BY SectionsApart, Zenon
<1>12. \A p \in Payload : \A x \in TatuSections, y \in L(p) : Good(x, y) /\ Good(y, x)
  <2>1. \A p \in Payload : L(p) \subseteq PayloadSections
    BY DEF PayloadSections
  <2>2. TatuSections \subseteq Sections(in.reserved)
    BY <1>3 DEF TatuSections
  <2> QED
    BY <2>1, <2>2, SectionsApart
<1>13. UNION {L(p) : p \in Payload} = PayloadSections
  BY DEF PayloadSections
<1> HIDE DEF A, B, C, D, E, L
<1>14. Holds(A \o B, TatuSections \union L("linux"))
  BY <1>4, <1>6, <1>7, <1>12, HoldsBoth, Zenon
<1>15. Holds(A \o B \o C, TatuSections \union L("linux") \union L("initrd"))
  <2>1. \A x \in TatuSections \union L("linux"), y \in L("initrd") : Good(x, y) /\ Good(y, x)
    BY <1>6, <1>11, <1>12
  <2> QED
    BY <1>8, <1>14, <2>1, HoldsBoth, Zenon
<1>16. Holds(A \o B \o C \o D, TatuSections \union L("linux") \union L("initrd") \union L("bootconfig"))
  <2>1. \A x \in TatuSections \union L("linux") \union L("initrd"), y \in L("bootconfig") : Good(x, y) /\ Good(y, x)
    BY <1>6, <1>11, <1>12
  <2> QED
    BY <1>9, <1>15, <2>1, HoldsBoth, Zenon
<1>17. Holds(A \o B \o C \o D \o E,
             TatuSections \union L("linux") \union L("initrd") \union L("bootconfig") \union L("relocs"))
  <2>1. \A x \in TatuSections \union L("linux") \union L("initrd") \union L("bootconfig"), y \in L("relocs") :
          Good(x, y) /\ Good(y, x)
    BY <1>6, <1>11, <1>12
  <2> QED
    BY <1>10, <1>16, <2>1, HoldsBoth, Zenon
<1>18. TatuSections \union L("linux") \union L("initrd") \union L("bootconfig") \union L("relocs")
         \subseteq TatuSections \union PayloadSections
  BY <1>6, <1>13
<1>19. Holds(A \o B \o C \o D \o E, TatuSections \union PayloadSections)
  BY <1>17, <1>18, HoldsInMore, Zenon
<1> QED
  BY <1>2, <1>19 DEF A, B, C, D, E

-----------------------------------------------------------------------------
(* base_device_regions, list by list.                                      *)

Described(T, kind) ==
  [k \in 1..Len(Listed(T)) |-> Region(Listed(T)[k], Listed(T)[k].end - Listed(T)[k].start, kind)]

Burned(T) ==
  [k \in 1..Len(Listed(T)) |->
     Region(Span(Listed(T)[k].end, Listed(T)[k].end), Listed(T)[k].end - Listed(T)[k].start, "burned")]

LEMMA DescribedHolds ==
  ASSUME NEW T, IsFiniteSet(T), NEW kind \in Check!Kinds, \A r \in T : Solid(r),
         \A r, s \in T : r # s => \A x, y : Exact(x, r) /\ Exact(y, s) => Good(x, y)
  PROVE  Holds(Described(T, kind), Devices(T))
<1> DEFINE g == [r \in T |-> Region(r, r.end - r.start, kind)]
<1>1. \A r \in T : g[r] = Region(r, r.end - r.start, kind)
  OBVIOUS
<1>2. \A r \in T : Exact(g[r], r)
  BY <1>1, DeviceCovers
<1>3. Len(Listed(T)) \in Nat /\ \A k \in 1..Len(Listed(T)) : Listed(T)[k] \in T
  BY ListedFacts
<1>4. Described(T, kind) = [k \in 1..Len(Listed(T)) |-> g[Listed(T)[k]]]
  BY <1>1, <1>3 DEF Described
<1> HIDE DEF g
<1>5. \A r \in T : g[r] \in Check!Region /\ g[r] \in Devices(T) /\ g[r].size > 0
  BY <1>2 DEF Exact, Covering, Devices
<1>6. \A r, s \in T : r # s => Good(g[r], g[s])
  BY <1>2
<1>7. Holds([k \in 1..Len(Listed(T)) |-> g[Listed(T)[k]]], Devices(T))
  BY <1>5, <1>6, EachHolds
<1> QED
  BY <1>4, <1>7

LEMMA BurnedHolds ==
  ASSUME Ready
  PROVE  Holds(Burned(layout["pci_window"]), BuddyRegions)
<1> DEFINE T == layout["pci_window"]
           g == [w \in T |-> Region(Span(w.end, w.end), w.end - w.start, "burned")]
<1>1. \A w \in T : g[w] = Region(Span(w.end, w.end), w.end - w.start, "burned")
  OBVIOUS
<1>2. ASSUME NEW w \in T
      PROVE  Exact(g[w], Buddy)
  <2>1. Solid(Buddy) /\ Buddy.start = w.end /\ Buddy.end = w.end + (w.end - w.start)
    BY BuddyFacts
  <2>2. w.start \in Nat /\ w.end \in Nat
    BY WindowFacts DEF Solid
  <2>3. Buddy.end - Buddy.start = w.end - w.start
    BY <2>1, <2>2
  <2>4. Region(Buddy, Buddy.end - Buddy.start, "burned") = g[w]
    BY <1>1, <2>1, <2>3 DEF Region, Span
  <2>5. "burned" \in Check!Kinds
    BY DEF Check!Kinds
  <2>6. Exact(Region(Buddy, Buddy.end - Buddy.start, "burned"), Buddy)
    BY <2>1, <2>5, DeviceCovers
  <2> QED
    BY <2>4, <2>6
<1>3. (\A r, s \in T : r = s) /\ IsFiniteSet(T)
  <2>1. \A r, s \in T : r = s
    BY DEF Ready, Placed, OneOfEach, Regions
  <2> QED
    BY <2>1, OneIsFinite
<1>4. Len(Listed(T)) \in Nat /\ \A k \in 1..Len(Listed(T)) : Listed(T)[k] \in T
  BY <1>3, ListedFacts
<1>5. Burned(T) = [k \in 1..Len(Listed(T)) |-> g[Listed(T)[k]]]
  BY <1>1, <1>4 DEF Burned
<1>6. BuddyRegions = Devices({Buddy : w \in T})
  BY DEF BuddyRegions
<1> HIDE DEF g, T
<1>7. \A w \in T : g[w] \in Check!Region /\ g[w] \in BuddyRegions /\ g[w].size > 0
  BY <1>2, <1>6 DEF Exact, Covering, Devices
<1>8. \A r, s \in T : r # s => Good(g[r], g[s])
  BY <1>3
<1>9. Holds([k \in 1..Len(Listed(T)) |-> g[Listed(T)[k]]], BuddyRegions)
  BY <1>3, <1>7, <1>8, EachHolds
<1> QED
  BY <1>5, <1>9 DEF T

\* The transports are a list already.
LEMMA TransportsHold ==
  ASSUME Ready
  PROVE  Holds([k \in 1..Len(virtio) |-> Device(virtio[k])], Devices(Transports))
<1> DEFINE t == [k \in 1..Len(virtio) |-> Device(virtio[k])]
<1>1. DOMAIN virtio = 1..Len(virtio) /\ Len(virtio) \in Nat
  <2>1. virtio \in [1..in.mmio_slots -> Range] \union {<<>>} /\ in.mmio_slots \in Nat
    BY InputFacts DEF Ready, IInv, TypeOK
  <2>2. CASE virtio \in [1..in.mmio_slots -> Range]
    BY <2>1, <2>2
  <2>3. CASE virtio = <<>>
    BY <2>3
  <2> QED
    BY <2>1, <2>2, <2>3
<1>2. \A k \in DOMAIN virtio : Solid(virtio[k])
  BY RangesAreSolid
<1>3. "device" \in Check!Kinds
  BY DEF Check!Kinds
<1>4. \A k \in DOMAIN virtio : Exact(Device(virtio[k]), virtio[k])
  BY <1>2, <1>3, DeviceCovers DEF Device
<1>5. DOMAIN t = DOMAIN virtio /\ \A k \in DOMAIN virtio : t[k] = Device(virtio[k])
  BY <1>1
<1>6. \A k \in DOMAIN virtio : Exact(t[k], virtio[k]) /\ t[k] \in Check!Region /\ t[k].size > 0
  BY <1>4, <1>5 DEF Exact, Covering
<1>7. t \in Seq(Check!Region)
  BY <1>1, <1>6
<1> HIDE DEF t
<1>8. \A k \in DOMAIN virtio : t[k] \in Devices(Transports)
  BY <1>6 DEF Devices, Transports
<1>9. \A i, j \in DOMAIN virtio : i # j => Good(t[i], t[j])
  BY <1>6, BandIsApart, Zenon
<1>10. Holds(t, Devices(Transports))
  BY <1>5, <1>6, <1>7, <1>8, <1>9 DEF Holds
<1> QED
  BY <1>10 DEF t

\* What the tree describes.
LEMMA DevicesHold ==
  ASSUME Ready, bundled
  PROVE  Holds(base_device_regions, FixedRegions \union BandRegions \union WindowRegions \union BuddyRegions)
<1> DEFINE F == Described(in.reserved \intersect FixedDevices, "device")
           S == Described(layout["serial"], "device")
           V == [k \in 1..Len(virtio) |-> Device(virtio[k])]
           E == Described(layout["ecam"], "device")
           W == Described(layout["pci_window"], "window")
           B == Burned(layout["pci_window"])
           DS == Devices(layout["serial"])
           DV == Devices(Transports)
           DE == Devices(layout["ecam"])
<1>1. base_device_regions = F \o S \o V \o E \o W \o B
  BY Zenon DEF base_device_regions, Each, Device, Described, Burned
<1>2. "device" \in Check!Kinds /\ "window" \in Check!Kinds
  BY DEF Check!Kinds
<1>3. Holds(F, FixedRegions)
  <2> DEFINE T == in.reserved \intersect FixedDevices
  <2>1. IsFiniteSet(T) /\ \A r \in T : Solid(r) /\ r \in in.reserved /\ r \in FixedDevices
    <3>1. IsFiniteSet(in.reserved) /\ T \subseteq in.reserved
      BY PlanCheckAssumption DEF Ready, IInv
    <3> QED
      BY <3>1, PartIsFinite, RangesAreSolid
  <2>2. \A r, s \in T : r # s => \A x, y : Exact(x, r) /\ Exact(y, s) => Sep(x, y)
    BY <2>1, ReservedApart, Zenon
  <2>3. \A r, s \in T : r # s => \A x, y : Exact(x, r) /\ Exact(y, s) => Good(x, y)
    BY <2>2, Zenon DEF Good
  <2> HIDE DEF T
  <2>4. Holds(Described(T, "device"), Devices(T))
    BY <1>2, <2>1, <2>3, DescribedHolds, Zenon
  <2> QED
    BY <2>4 DEF T, FixedRegions
<1>4. ASSUME NEW p \in Mmio, NEW kind \in Check!Kinds
      PROVE  Holds(Described(layout[p], kind), Devices(layout[p]))
  <2>1. \A r, s \in layout[p] : r = s
    BY DEF Ready, Placed, OneOfEach, Regions, Mmio
  <2>2. IsFiniteSet(layout[p])
    BY <2>1, OneIsFinite
  <2>3. \A r \in layout[p] : Solid(r)
    BY RangesAreSolid, WindowFacts DEF Mmio
  <2> QED
    BY <2>1, <2>2, <2>3, DescribedHolds, Zenon
<1>5. Holds(S, DS) /\ Holds(E, DE) /\ Holds(W, WindowRegions)
  <2>1. "serial" \in Mmio /\ "ecam" \in Mmio /\ "pci_window" \in Mmio
    BY DEF Mmio
  <2>2. Holds(W, Devices(layout["pci_window"]))
    BY <1>2, <1>4, <2>1, Zenon
  <2>3. Holds(S, DS) /\ Holds(E, DE)
    BY <1>2, <1>4, <2>1, Zenon
  <2> QED
    BY <2>2, <2>3 DEF WindowRegions
<1>6. Holds(V, DV) /\ Holds(B, BuddyRegions)
  BY TransportsHold, BurnedHolds, Zenon
<1>7. DS \subseteq BandRegions /\ DV \subseteq BandRegions /\ DE \subseteq BandRegions
  BY DEF BandRegions, Devices
<1>8. /\ \A x \in DS, y \in DV \union DE : Good(x, y) /\ Good(y, x)
      /\ \A x \in DV, y \in DE : Good(x, y) /\ Good(y, x)
  BY BandIsApart, Zenon
<1>9. \A x \in FixedRegions, y \in BandRegions \union WindowRegions \union BuddyRegions : Good(x, y) /\ Good(y, x)
  BY FixedAndDevices, Zenon
<1>10. \A x \in BandRegions, y \in WindowRegions \union BuddyRegions : Good(x, y) /\ Good(y, x)
  BY BandAndWindow, Zenon
<1>11. \A x \in WindowRegions, y \in BuddyRegions : Good(x, y) /\ Good(y, x)
  BY WindowAndBuddy, Zenon
<1> HIDE DEF F, S, V, E, W, B, DS, DV, DE
<1>12. Holds(F \o S, FixedRegions \union DS)
  <2>1. \A x \in FixedRegions, y \in DS : Good(x, y) /\ Good(y, x)
    BY <1>7, <1>9
  <2> QED
    BY <1>3, <1>5, <2>1, HoldsBoth, Zenon
<1>13. Holds(F \o S \o V, FixedRegions \union DS \union DV)
  <2>1. \A x \in FixedRegions \union DS, y \in DV : Good(x, y) /\ Good(y, x)
    BY <1>7, <1>8, <1>9
  <2> QED
    BY <1>6, <1>12, <2>1, HoldsBoth, Zenon
<1>14. Holds(F \o S \o V \o E, FixedRegions \union DS \union DV \union DE)
  <2>1. \A x \in FixedRegions \union DS \union DV, y \in DE : Good(x, y) /\ Good(y, x)
    BY <1>7, <1>8, <1>9
  <2> QED
    BY <1>5, <1>13, <2>1, HoldsBoth, Zenon
<1>15. Holds(F \o S \o V \o E, FixedRegions \union BandRegions)
  <2>1. FixedRegions \union DS \union DV \union DE \subseteq FixedRegions \union BandRegions
    BY <1>7
  <2> QED
    BY <1>14, <2>1, HoldsInMore, Zenon
<1>16. Holds(F \o S \o V \o E \o W, FixedRegions \union BandRegions \union WindowRegions)
  <2>1. \A x \in FixedRegions \union BandRegions, y \in WindowRegions : Good(x, y) /\ Good(y, x)
    BY <1>9, <1>10
  <2> QED
    BY <1>5, <1>15, <2>1, HoldsBoth, Zenon
<1>17. Holds(F \o S \o V \o E \o W \o B, FixedRegions \union BandRegions \union WindowRegions \union BuddyRegions)
  <2>1. \A x \in FixedRegions \union BandRegions \union WindowRegions, y \in BuddyRegions : Good(x, y) /\ Good(y, x)
    BY <1>9, <1>10, <1>11
  <2> QED
    BY <1>6, <1>16, <2>1, HoldsBoth, Zenon
<1> QED
  BY <1>1, <1>17 DEF F, S, V, E, W, B

AllRegions ==
  TatuSections \union PayloadSections
    \union (FixedRegions \union BandRegions \union WindowRegions \union BuddyRegions)

\* The list `arma check` starts from.
LEMMA ImageHolds ==
  ASSUME Ready, NEW S, NEW n \in {1, in.kernel_size}
  PROVE  Holds(assemble_sections(n, S) \o (IF bundled THEN base_device_regions ELSE <<>>), AllRegions)
<1>1. Holds(assemble_sections(n, S), TatuSections \union PayloadSections)
  BY SectionsHold
<1>2. CASE bundled
  <2>1. Holds(base_device_regions, FixedRegions \union BandRegions \union WindowRegions \union BuddyRegions)
    BY <1>2, DevicesHold, Zenon
  <2>2. \A x \in TatuSections \union PayloadSections,
           y \in FixedRegions \union BandRegions \union WindowRegions \union BuddyRegions :
          Good(x, y) /\ Good(y, x)
    BY <1>2, SectionsAndDevices, Zenon
  <2>3. Holds(assemble_sections(n, S) \o base_device_regions, AllRegions)
    BY <1>1, <2>1, <2>2, HoldsBoth, Zenon DEF AllRegions
  <2> QED
    BY <1>2, <2>3
<1>3. CASE ~bundled
  <2>1. TatuSections \union PayloadSections \subseteq AllRegions
    BY DEF AllRegions
  <2>2. Holds(assemble_sections(n, S), AllRegions)
    BY <1>1, <2>1, HoldsInMore, Zenon
  <2>3. assemble_sections(n, S) \o <<>> = assemble_sections(n, S)
    <3>1. PICK s : s = assemble_sections(n, S)
      OBVIOUS
    <3>2. s \in Seq(Check!Region)
      BY <1>1, <3>1 DEF Holds
    <3>3. s \o <<>> = s
      BY <3>2
    <3> QED
      BY <3>1, <3>3
  <2> QED
    BY <1>3, <2>2, <2>3
<1> QED
  BY <1>2, <1>3

-----------------------------------------------------------------------------
(* From plan() to the verdict.                                             *)

Checked == phase \in {"sort", "scan", "window", "island", "done"}

CInv ==
  /\ IInv /\ Placed /\ bundled \in BOOLEAN
  /\ Checked \/ phase \in {"build", "no_image"}
  /\ phase # "build" => pc = "done"
  /\ Checked => Holds(regions, Check!Region)
  /\ phase = "scan" => InBaseOrder(regions)
  /\ at \in Nat \ {0}
  /\ "overlap" \in problems => Checked /\ AtWindow

LEMMA PlanCheckInitEstablishes == PlanCheckInit => CInv
<1> SUFFICES ASSUME PlanCheckInit PROVE CInv
  OBVIOUS
<1>1. IInv
  BY InitEstablishes DEF PlanCheckInit
<1>2. (\A p \in Regions : layout[p] = {}) /\ DOMAIN virtio = {}
  BY DEF PlanCheckInit, Init
<1>3. Placed
  <2>1. \A p \in Payload \union {"ecam", "serial", "pci_window"} : layout[p] = {}
    BY <1>2 DEF Payload, Regions, Searched
  <2>2. OneOfEach
    BY <1>2 DEF OneOfEach
  <2>3. PayloadPlaced
    BY <2>1 DEF PayloadPlaced, Payload
  <2>4. DevicesPlaced /\ WindowPlaced
    BY <1>2, <2>1 DEF DevicesPlaced, WindowPlaced
  <2> QED
    BY <2>2, <2>3, <2>4 DEF Placed
<1>4. bundled \in BOOLEAN /\ phase = "build" /\ at = 1 /\ problems = {}
  BY DEF PlanCheckInit
<1> QED
  BY <1>1, <1>3, <1>4 DEF CInv, Checked

\* What the layout allows stays allowed while the layout stays.
LEMMA AtWindowFrame ==
  ASSUME UNCHANGED <<in, layout, bundled>>
  PROVE  /\ AtWindow' <=> AtWindow
         /\ \A x, y : Good(x, y)' <=> Good(x, y)
         /\ \A s, E : Holds(s, E)' <=> Holds(s, E)
<1>1. AtWindow' <=> AtWindow
  BY DEF AtWindow, HasWindow, Emitted, PciWindow, high_floor
<1>2. \A x, y : Good(x, y)' <=> Good(x, y)
  BY <1>1 DEF Good, Sep
<1>3. \A s, E : Holds(s, E)' <=> Holds(s, E)
  BY <1>2 DEF Holds, Check!Region, Check!Kinds
<1> QED
  BY <1>1, <1>2, <1>3

LEMMA PlanPreserves == CInv /\ Plan => CInv'
<1> SUFFICES ASSUME CInv, Plan PROVE CInv'
  OBVIOUS
<1>1. /\ IInv /\ Placed /\ Next /\ pc # "done"
      /\ bundled' = bundled /\ regions' = regions /\ phase' = phase /\ at' = at /\ problems' = problems
  BY DEF CInv, Plan, Returned, checkVars
<1>2. IInv' /\ Placed'
  BY <1>1, NextPreserves, PlanKeepsPlaced
<1>3. phase = "build" /\ ~Checked /\ "overlap" \notin problems
  BY <1>1 DEF CInv, Checked
<1> QED
  BY <1>1, <1>2, <1>3 DEF CInv, Checked

LEMMA EmitPreserves == CInv /\ Emit => CInv'
<1> SUFFICES ASSUME CInv, Emit PROVE CInv'
  OBVIOUS
<1>1. /\ pc = "done" /\ phase = "build"
      /\ UNCHANGED <<in, pc, occupied, layout, virtio, cursor, err, bundled, at, problems>>
  BY DEF Emit
<1>2. PICK n \in {1, in.kernel_size} :
        \/ /\ FitsU32(assemble_sections(n, Range))
           /\ regions' = assemble_sections(n, Loaded) \o (IF bundled THEN base_device_regions ELSE <<>>)
           /\ phase' = "sort"
        \/ phase' = "no_image"
  BY DEF Emit
<1>3. IInv /\ Placed /\ bundled \in BOOLEAN /\ at \in Nat \ {0} /\ "overlap" \notin problems
  BY <1>1 DEF CInv, Checked
<1>4. IInv' /\ Placed'
  <2>1. UNCHANGED vars
    BY <1>1 DEF vars
  <2>2. [Next]_vars
    BY <2>1
  <2> QED
    BY <1>1, <1>3, <2>2, NextPreserves, PlacedFrame
<1>5. phase' = "sort" => Holds(regions, Check!Region)'
  <2> SUFFICES ASSUME phase' = "sort" PROVE Holds(regions, Check!Region)'
    OBVIOUS
  <2>1. /\ FitsU32(assemble_sections(n, Range))
        /\ regions' = assemble_sections(n, Loaded) \o (IF bundled THEN base_device_regions ELSE <<>>)
    BY <1>2
  <2>2. Ready
    BY <1>3, <2>1, PayloadsFit
  <2>3. PICK s : s = assemble_sections(n, Loaded) \o (IF bundled THEN base_device_regions ELSE <<>>)
    OBVIOUS
  <2>4. Holds(s, AllRegions)
    BY <2>2, <2>3, ImageHolds
  <2>5. Holds(s, Check!Region)
    <3>1. \A R : Sections(R) \subseteq Check!Region /\ Devices(R) \subseteq Check!Region
      BY DEF Sections, Devices
    <3>2. AllRegions \subseteq Check!Region
      BY <3>1 DEF AllRegions, TatuSections, PayloadSections, FixedRegions, BandRegions, WindowRegions, BuddyRegions
    <3> QED
      BY <2>4, <3>2, HoldsInMore
  <2>6. Holds(s, Check!Region)'
    BY <1>1, <2>5, AtWindowFrame DEF Check!Region, Check!Kinds
  <2> QED
    BY <2>1, <2>3, <2>6
<1> QED
  BY <1>1, <1>2, <1>3, <1>4, <1>5 DEF CInv, Checked

\* The sort moves the regions and leaves them apart.
LEMMA SortKeepsHolds ==
  ASSUME NEW s, Holds(s, Check!Region)
  PROVE  Holds(Check!sort_by_key(s), Check!Region) /\ InBaseOrder(Check!sort_by_key(s))
<1>1. /\ s \in Seq(Check!Region)
      /\ \A i \in DOMAIN s : s[i] \in Check!Region /\ s[i].size > 0
      /\ \A i, j \in DOMAIN s : i # j => Good(s[i], s[j])
  BY DEF Holds
<1>2. PICK t : t = Check!sort_by_key(s)
  OBVIOUS
<1>3. /\ t \in Seq(Check!Region) /\ Len(t) = Len(s) /\ InBaseOrder(t)
      /\ \A k \in 1..Len(s) : \E i \in DOMAIN s : Check!Rank(s, i) = k /\ t[k] = s[i]
  BY <1>1, <1>2, SortFacts
<1>4. DOMAIN t = 1..Len(s)
  BY <1>3
<1>5. \A k \in DOMAIN t : t[k] \in Check!Region /\ t[k].size > 0
  BY <1>1, <1>3, <1>4
<1>6. ASSUME NEW k \in DOMAIN t, NEW m \in DOMAIN t, k # m
      PROVE  Good(t[k], t[m])
  <2>1. PICK i \in DOMAIN s : Check!Rank(s, i) = k /\ t[k] = s[i]
    BY <1>3, <1>4
  <2>2. PICK j \in DOMAIN s : Check!Rank(s, j) = m /\ t[m] = s[j]
    BY <1>3, <1>4
  <2>3. i # j
    BY <1>6, <2>1, <2>2
  <2> QED
    BY <1>1, <2>1, <2>2, <2>3
<1>7. Holds(t, Check!Region)
  BY <1>3, <1>5, <1>6 DEF Holds
<1> QED
  BY <1>2, <1>3, <1>7

\* A region's end as the linter computes it is never too high, and is exact
\* when it is a u64.
LEMMA WrapFacts ==
  ASSUME NEW n \in Nat
  PROVE  Check!Wrap(n) \in Nat /\ Check!Wrap(n) <= n /\ (n <= U64_MAX => Check!Wrap(n) = n)
<1>1. PICK k \in Nat \ {0} : k = U64_MAX + 1
  BY U64Assumption
<1>2. n % k \in Nat /\ n % k <= n /\ (n < k => n % k = n)
  OBVIOUS
<1> QED
  BY <1>1, <1>2, U64Assumption DEF Check!Wrap

\* Neighbours that overlap in the sorted list are what AtWindow allows.
LEMMA NeighboursAreApart ==
  ASSUME NEW s, Holds(s, Check!Region), InBaseOrder(s), NEW k \in Nat \ {0}, k < Len(s),
         Check!End(s[k]) > s[k + 1].base
  PROVE  AtWindow
<1>1. s \in Seq(Check!Region) /\ Len(s) \in Nat /\ DOMAIN s = 1..Len(s)
  BY DEF Holds
<1>2. k \in DOMAIN s /\ k + 1 \in DOMAIN s /\ k # k + 1 /\ k < k + 1
  BY <1>1
<1>3. Good(s[k], s[k + 1]) /\ s[k + 1].size > 0 /\ s[k].base <= s[k + 1].base
  BY <1>1, <1>2 DEF Holds, InBaseOrder
<1>4. PICK x, y : x = s[k] /\ y = s[k + 1]
  OBVIOUS
<1>5. x.base \in Nat /\ x.size \in Nat /\ y.base \in Nat /\ y.size \in Nat
  <2>1. x \in Check!Region /\ y \in Check!Region
    BY <1>1, <1>2, <1>4
  <2> QED
    BY <2>1, RegionFacts
<1>6. Check!End(x) \in Nat /\ Check!End(x) <= x.base + x.size
  <2>1. x.base + x.size \in Nat
    BY <1>5
  <2> QED
    BY <2>1, WrapFacts DEF Check!End
<1>7. x.base + x.size > y.base
  BY <1>4, <1>5, <1>6
<1>8. ~Sep(x, y)
  BY <1>3, <1>4, <1>5, <1>7 DEF Sep
<1> QED
  BY <1>3, <1>4, <1>8 DEF Good

LEMMA CheckPreserves == CInv /\ CheckImage => CInv'
<1> SUFFICES ASSUME CInv, CheckImage PROVE CInv'
  OBVIOUS
<1>1. UNCHANGED <<in, pc, occupied, layout, virtio, cursor, err, bundled>> /\ Check!CheckStep
  BY DEF CheckImage
<1>2. Checked /\ Checked' /\ at \in Nat \ {0} /\ at' \in Nat \ {0}
  <2>1. at \in Nat \ {0}
    BY DEF CInv
  <2> QED
    BY <1>1, <2>1 DEF Check!CheckStep, Check!Sort, Check!ScanPair, Check!ScanEnds, Check!CheckWindow,
         Check!CheckIsland, Checked
<1>3. pc = "done" /\ IInv /\ Placed /\ bundled \in BOOLEAN /\ Holds(regions, Check!Region)
  BY <1>2 DEF CInv, Checked
<1>4. IInv' /\ Placed'
  <2>1. UNCHANGED vars
    BY <1>1 DEF vars
  <2>2. [Next]_vars
    BY <2>1
  <2> QED
    BY <1>1, <1>3, <2>2, NextPreserves, PlacedFrame
<1>5. (AtWindow' <=> AtWindow) /\ \A s, E : Holds(s, E)' <=> Holds(s, E)
  BY <1>1, AtWindowFrame
<1>6. ("overlap" \in problems' => AtWindow) /\ Holds(regions', Check!Region) /\ (phase' = "scan" => InBaseOrder(regions'))
  <2>0. "overlap" \in problems => AtWindow
    BY DEF CInv
  <2>1. CASE Check!Sort
    BY <1>3, <2>0, <2>1, SortKeepsHolds DEF Check!Sort
  <2>2. CASE Check!ScanPair
    <3>1. /\ regions' = regions /\ phase = "scan" /\ at < Len(regions) /\ InBaseOrder(regions)
          /\ problems' = IF Check!End(regions[at]) > regions[at + 1].base
                         THEN problems \union {"overlap"} ELSE problems
      BY <2>2 DEF Check!ScanPair, CInv
    <3>2. Check!End(regions[at]) > regions[at + 1].base => AtWindow
      BY <1>2, <1>3, <3>1, NeighboursAreApart
    <3> QED
      BY <1>3, <2>0, <3>1, <3>2
  <2>3. CASE Check!ScanEnds
    BY <1>3, <2>0, <2>3 DEF Check!ScanEnds
  <2>4. CASE Check!CheckWindow
    <3>1. \A s, w : "overlap" \notin Check!window_problems(s, w)
      BY Zenon DEF Check!window_problems
    <3>2. /\ regions' = regions /\ phase' = "island"
          /\ problems' = problems \union
               UNION {Check!window_problems(regions, w) : w \in Check!OfKind(regions, {"window"})}
      BY <2>4 DEF Check!CheckWindow
    <3>3. "overlap" \in problems' => "overlap" \in problems
      BY <3>1, <3>2
    <3> QED
      BY <1>3, <2>0, <3>2, <3>3
  <2>5. CASE Check!CheckIsland
    <3>1. \A s : "overlap" \notin Check!island_problems(s)
      BY Zenon DEF Check!island_problems
    <3>2. regions' = regions /\ phase' = "done" /\ problems' = problems \union Check!island_problems(regions)
      BY <2>5 DEF Check!CheckIsland
    <3>3. "overlap" \in problems' => "overlap" \in problems
      BY <3>1, <3>2
    <3> QED
      BY <1>3, <2>0, <3>2, <3>3
  <2> QED
    BY <1>1, <2>1, <2>2, <2>3, <2>4, <2>5 DEF Check!CheckStep
<1>7. Holds(regions, Check!Region)'
  <2>1. PICK s : s = regions'
    OBVIOUS
  <2>2. Holds(s, Check!Region)'
    BY <1>5, <1>6, <2>1 DEF Check!Region, Check!Kinds
  <2> QED
    BY <2>1, <2>2
<1>8. InBaseOrder(regions)' <=> InBaseOrder(regions')
  BY DEF InBaseOrder
<1> QED
  BY <1>1, <1>2, <1>3, <1>4, <1>5, <1>6, <1>7, <1>8 DEF CInv, Checked

LEMMA StutterPreserves == CInv /\ UNCHANGED allVars => CInv'
<1> SUFFICES ASSUME CInv, UNCHANGED allVars PROVE CInv'
  OBVIOUS
<1>1. UNCHANGED <<in, pc, occupied, layout, virtio, cursor, err, bundled, regions, phase, at, problems>>
  BY DEF allVars
<1>2. [Next]_vars /\ UNCHANGED <<in, layout, virtio>> /\ UNCHANGED <<in, layout, bundled>>
  BY <1>1 DEF vars
<1>3. IInv' /\ Placed'
  BY <1>2, NextPreserves, PlacedFrame DEF CInv
<1>4. (AtWindow' <=> AtWindow) /\ \A s, E : Holds(s, E)' <=> Holds(s, E)
  BY <1>2, AtWindowFrame
<1>5. Checked' => Holds(regions, Check!Region)'
  <2>1. Checked' => Holds(regions, Check!Region)
    BY <1>1 DEF CInv, Checked
  <2>2. PICK s : s = regions
    OBVIOUS
  <2>3. s = regions'
    BY <1>1, <2>2
  <2>4. Holds(s, Check!Region)' <=> Holds(s, Check!Region)
    BY <1>4 DEF Check!Region, Check!Kinds
  <2> QED
    BY <2>1, <2>2, <2>3, <2>4
<1>6. phase' = "scan" => InBaseOrder(regions)'
  BY <1>1 DEF CInv, InBaseOrder
<1> QED
  BY <1>1, <1>3, <1>4, <1>5, <1>6 DEF CInv, Checked

\* The invariant holds from plan() to the linter's verdict.
THEOREM PlanCheckInvariance == PlanCheckSpec => []CInv
<1>1. CInv /\ [PlanCheckNext]_allVars => CInv'
  BY PlanPreserves, EmitPreserves, CheckPreserves, StutterPreserves DEF PlanCheckNext
<1> QED
  BY <1>1, PlanCheckInitEstablishes, PTL DEF PlanCheckSpec

\* Whatever build_pe adds to the sizes the planner separated, `arma check`
\* reports an overlap in a planned image only for a section or a fixed device
\* in the window's burned buddy, or for a reserved range in the window.
THEOREM OverlapsAreAtWindow == PlanCheckSpec => []OverlapOnlyAtWindow
<1>1. CInv => OverlapOnlyAtWindow
  BY DEF CInv, OverlapOnlyAtWindow, AtWindow, Judged
<1> QED
  BY <1>1, PlanCheckInvariance, PTL

\* The linter's own invariants, on the list of an image that was built.
Linted ==
  /\ phase = "build" => at = 1 /\ problems = {}
  /\ Checked => CheckProofs!IInv /\ CheckProofs!WindowInv

\* The assumption under which the linter's lemmas hold.
LEMMA LinterAssumption ==
  /\ U64_MAX \in Nat
  /\ \A n \in 1..U64_MAX : CheckProofs!is_power_of_two(n) => (U64_MAX + 1) % n = 0
  BY U64Assumption DEF is_power_of_two, CheckProofs!is_power_of_two

\* The list that Emit makes is one that run() may read.
LEMMA EmitIsLinted == CInv /\ CInv' /\ Linted /\ Emit => Linted'
<1> SUFFICES ASSUME CInv, CInv', Linted, Emit PROVE Linted'
  OBVIOUS
<1>1. phase = "build" /\ phase' \in {"sort", "no_image"} /\ at' = 1 /\ problems' = {}
  BY DEF Emit, Linted
<1>2. CASE phase' = "no_image"
  BY <1>2 DEF Linted, Checked
<1>3. CASE phase' = "sort"
  <2>1. regions' \in Seq(CheckProofs!Region) /\ Len(regions') \in Nat
    BY <1>3 DEF CInv, Checked, Holds, Check!Region, Check!Kinds, CheckProofs!Region, CheckProofs!Kinds
  <2>2. ~\E n \in 1..(Len(regions') - 1) : n < at'
    BY <1>1, <2>1
  <2>3. CheckProofs!IInv'
    BY <1>1, <1>3, <2>1, <2>2
       DEF CheckProofs!IInv, CheckProofs!CheckTypeOK, CheckProofs!ScanInv, CheckProofs!Scanned, CheckProofs!Rules
  <2>4. CheckProofs!WindowInv'
    BY <1>3 DEF CheckProofs!WindowInv
  <2> QED
    BY <1>3, <2>3, <2>4 DEF Linted
<1> QED
  BY <1>1, <1>2, <1>3

\* A step of the linter is one of run().
LEMMA CheckIsLinted == Linted /\ CheckImage => Linted'
<1> SUFFICES ASSUME Linted, CheckImage PROVE Linted'
  OBVIOUS
<1>1. Check!CheckStep
  BY DEF CheckImage
<1>2. Checked /\ phase' # "build"
  BY <1>1 DEF Check!CheckStep, Check!Sort, Check!ScanPair, Check!ScanEnds, Check!CheckWindow,
       Check!CheckIsland, Checked
<1>3. CheckProofs!Next
  <2>1. CASE Check!Sort
    <3>1. CheckProofs!sort_by_key(regions) = Check!sort_by_key(regions)
      BY DEF CheckProofs!sort_by_key, Check!sort_by_key, CheckProofs!Rank, Check!Rank, CheckProofs!UpTo,
             Check!UpTo, CheckProofs!Cardinality, Check!Cardinality
    <3> QED
      BY <2>1, <3>1 DEF Check!Sort, CheckProofs!Sort, CheckProofs!CheckStep, CheckProofs!Next
  <2>2. CASE Check!ScanPair
    BY <2>2 DEF Check!ScanPair, CheckProofs!ScanPair, Check!End, CheckProofs!End, Check!Wrap, CheckProofs!Wrap,
         CheckProofs!CheckStep, CheckProofs!Next
  <2>3. CASE Check!ScanEnds
    BY <2>3 DEF Check!ScanEnds, CheckProofs!ScanEnds, CheckProofs!CheckStep, CheckProofs!Next
  <2>4. CASE Check!CheckWindow
    <3>1. Check!OfKind(regions, {"window"}) = CheckProofs!OfKind(regions, {"window"})
      BY DEF Check!OfKind, CheckProofs!OfKind
    <3>2. \A n : Check!is_power_of_two(n) <=> CheckProofs!is_power_of_two(n)
      BY DEF Check!is_power_of_two, CheckProofs!is_power_of_two
    <3>3. \A n : Check!Wrap(n) = CheckProofs!Wrap(n)
      BY DEF Check!Wrap, CheckProofs!Wrap
    <3>4. \A K : Check!OfKind(regions, K) = CheckProofs!OfKind(regions, K)
      BY Zenon DEF Check!OfKind, CheckProofs!OfKind
    <3>5. ASSUME NEW w
          PROVE  Check!window_problems(regions, w) = CheckProofs!window_problems(regions, w)
      <4>1. \A r : Check!End(r) = CheckProofs!End(r)
        BY <3>3 DEF Check!End, CheckProofs!End
      <4> QED
        BY <3>2, <3>3, <3>4, <4>1 DEF Check!window_problems, CheckProofs!window_problems
    <3>6. {Check!window_problems(regions, w) : w \in Check!OfKind(regions, {"window"})}
            = {CheckProofs!window_problems(regions, w) : w \in CheckProofs!OfKind(regions, {"window"})}
      BY <3>1, <3>5
    <3> QED
      BY <2>4, <3>6 DEF Check!CheckWindow, CheckProofs!CheckWindow, CheckProofs!CheckStep, CheckProofs!Next
  <2>5. CASE Check!CheckIsland
    BY <2>5 DEF Check!CheckIsland, CheckProofs!CheckIsland, CheckProofs!CheckStep, CheckProofs!Next,
         Check!OfKind, CheckProofs!OfKind, Check!island_problems, CheckProofs!island_problems,
         Check!Island, CheckProofs!Island
  <2> QED
    BY <1>1, <2>1, <2>2, <2>3, <2>4, <2>5 DEF Check!CheckStep
<1>4. CheckProofs!IInv /\ CheckProofs!WindowInv
  BY <1>2 DEF Linted
<1>5. CheckProofs!IInv'
  BY <1>3, <1>4, LinterAssumption, CheckProofs!NextPreserves
<1>6. CheckProofs!WindowInv'
  BY <1>3, <1>4, LinterAssumption, CheckProofs!WindowStep
<1> QED
  BY <1>2, <1>5, <1>6 DEF Linted

\* What does not touch the linter's variables leaves its invariants.
LEMMA OthersAreLinted == Linted /\ UNCHANGED checkVars => Linted'
<1> SUFFICES ASSUME Linted, UNCHANGED checkVars PROVE Linted'
  OBVIOUS
<1>1. UNCHANGED <<regions, phase, at, problems>>
  BY DEF checkVars
<1>2. CASE Checked
  <2>1. UNCHANGED CheckProofs!checkVars
    BY <1>1 DEF CheckProofs!checkVars
  <2>2. CheckProofs!IInv /\ CheckProofs!WindowInv
    BY <1>2 DEF Linted
  <2>3. CheckProofs!IInv' /\ CheckProofs!WindowInv'
    BY <2>1, <2>2, LinterAssumption, CheckProofs!NextPreserves, CheckProofs!WindowStep
  <2> QED
    BY <1>1, <2>3 DEF Linted
<1>3. CASE ~Checked
  BY <1>1, <1>3 DEF Linted, Checked
<1> QED
  BY <1>2, <1>3

LEMMA LinterInvariance == PlanCheckSpec => []Linted
<1>1. PlanCheckInit => Linted
  BY DEF PlanCheckInit, Linted, Checked
<1>2. CInv /\ CInv' /\ Linted /\ [PlanCheckNext]_allVars => Linted'
  <2>1. Plan => UNCHANGED checkVars
    BY DEF Plan
  <2>2. UNCHANGED allVars => UNCHANGED checkVars
    BY DEF allVars, checkVars
  <2> QED
    BY <2>1, <2>2, EmitIsLinted, CheckIsLinted, OthersAreLinted DEF PlanCheckNext
<1> QED
  BY <1>1, <1>2, PlanCheckInvariance, PTL DEF PlanCheckSpec

\* Of every image that plan() laid out and build_pe wrote, `arma check` reports
\* an overlap only when two regions overlap, and always when the first of them
\* ends in u64.
THEOREM OverlapsOfPlansAreSeen == PlanCheckSpec => []EveryOverlapIsSeen
<1>1. Linted => EveryOverlapIsSeen
  <2> SUFFICES ASSUME Linted PROVE Check!EveryOverlapIsSeen
    BY DEF EveryOverlapIsSeen
  <2>1. CASE Checked
    <3>1. CheckProofs!EveryOverlapIsSeen
      BY <2>1, LinterAssumption, CheckProofs!PassIsComplete DEF Linted
    <3> QED
      BY <3>1 DEF Check!EveryOverlapIsSeen, CheckProofs!EveryOverlapIsSeen, Check!Scanned, CheckProofs!Scanned,
           Check!TrueEnd, CheckProofs!TrueEnd, Check!EndsInU64, CheckProofs!EndsInU64
  <2>2. CASE ~Checked
    BY <2>2 DEF Checked, Check!EveryOverlapIsSeen, Check!Scanned
  <2> QED
    BY <2>1, <2>2
<1> QED
  BY <1>1, LinterInvariance, PTL

\* In every image that plan() laid out and `arma check` reports nothing about,
\* devices and payload end at or below the window, which is the lower half of
\* the top pair.
THEOREM CleanPlansAreBelowWindow == PlanCheckSpec => []CleanMapIsBelowWindow
<1>1. Linted => CleanMapIsBelowWindow
  <2> SUFFICES ASSUME Linted PROVE Check!CleanMapIsBelowWindow
    BY DEF CleanMapIsBelowWindow
  <2>1. CASE Checked
    <3>1. CheckProofs!CleanMapIsBelowWindow
      BY <2>1, LinterAssumption, CheckProofs!PassIsComplete, CheckProofs!CleanIsBelow DEF Linted
    <3> QED
      BY <3>1 DEF Check!CleanMapIsBelowWindow, CheckProofs!CleanMapIsBelowWindow, Check!OfKind, CheckProofs!OfKind,
           Check!TrueEnd, CheckProofs!TrueEnd, Check!EndsInU64, CheckProofs!EndsInU64,
           Check!is_power_of_two, CheckProofs!is_power_of_two
  <2>2. CASE ~Checked
    BY <2>2 DEF Checked, Check!CleanMapIsBelowWindow
  <2> QED
    BY <2>1, <2>2
<1> QED
  BY <1>1, LinterInvariance, PTL

-----------------------------------------------------------------------------
(* Powers of two, from the one assumption on shifts.  A proof that would   *)
(* go by induction takes the least number for which the claim fails.       *)

Wf == INSTANCE WellFoundedInduction

LEMMA LeastOne ==
  ASSUME NEW S, S \subseteq Nat, S # {}
  PROVE  \E x \in S : \A y \in S : x <= y
<1> DEFINE R == {ss \in Nat \X Nat : ss[1] < ss[2]}
<1>1. Wf!IsWellFoundedOn(R, Nat)
  BY Wf!NatLessThanWellFounded DEF Wf!OpToRel
<1>2. \A x, y \in Nat : <<y, x>> \in R <=> y < x
  OBVIOUS
<1> HIDE DEF R
<1>3. PICK x \in S : \A y \in S : ~(<<y, x>> \in R)
  BY <1>1, Wf!WFMin
<1>4. ASSUME NEW y \in S PROVE x <= y
  <2>1. x \in Nat /\ y \in Nat
    OBVIOUS
  <2>2. ~(y < x)
    BY <1>2, <1>3, <2>1
  <2> QED
    BY <2>1, <2>2
<1> QED
  BY <1>4

\* The shifts up to n.
Shifts(n) == n \in Nat /\ \A k \in 0..(n - 1) : Pow2(k + 1) = 2 * Pow2(k)

\* The claims below hold at 0 or at b, and from one shift to the next.
LEMMA ShiftInduction ==
  ASSUME NEW b \in Nat, NEW n \in Nat, NEW T, b \in T,
         \A k \in b..(n - 1) : k \in T => k + 1 \in T
  PROVE  \A k \in b..n : k \in T
<1> SUFFICES ASSUME \E k \in b..n : k \notin T PROVE FALSE
  OBVIOUS
<1> DEFINE S == {k \in b..n : k \notin T}
<1>1. S \subseteq Nat /\ S # {}
  OBVIOUS
<1> HIDE DEF S
<1>2. PICK x \in S : \A y \in S : x <= y
  BY <1>1, LeastOne
<1>3. x \in b..n /\ x \notin T /\ x # b
  BY DEF S
<1>4. x - 1 \in b..(n - 1) /\ x - 1 \in b..n
  BY <1>3
<1>5. x - 1 \notin S
  BY <1>1, <1>2, <1>3
<1>6. x - 1 \in T
  BY <1>4, <1>5 DEF S
<1>7. (x - 1) + 1 \in T
  BY <1>4, <1>6
<1> QED
  BY <1>3, <1>7

LEMMA PowersAreNat ==
  ASSUME NEW n, Shifts(n)
  PROVE  \A k \in 0..n : Pow2(k) \in Nat \ {0}
<1> DEFINE T == {k \in Nat : Pow2(k) \in Nat \ {0}}
<1>1. Pow2(0) = 1
  BY DEF Pow2
<1>2. \A k \in 0..(n - 1) : k \in T => k + 1 \in T
  BY DEF Shifts
<1>3. 0 \in T /\ n \in Nat
  BY <1>1 DEF Shifts
<1> HIDE DEF T
<1>4. \A k \in 0..n : k \in T
  BY <1>2, <1>3, ShiftInduction
<1> QED
  BY <1>4 DEF T

\* A larger power of two is a multiple of a smaller one.
LEMMA PowersDivide ==
  ASSUME NEW n, Shifts(n), NEW b \in 0..n
  PROVE  \A k \in b..n : \E q \in Nat \ {0} : Pow2(k) = q * Pow2(b)
<1> DEFINE T == {k \in 0..n : \E q \in Nat \ {0} : Pow2(k) = q * Pow2(b)}
<1>0. \A k \in 0..n : Pow2(k) \in Nat \ {0}
  BY PowersAreNat, Zenon
<1>1. n \in Nat /\ b \in Nat /\ Pow2(b) \in Nat \ {0}
  BY <1>0 DEF Shifts
<1>2. b \in T
  <2>1. Pow2(b) = 1 * Pow2(b) /\ 1 \in Nat \ {0}
    BY <1>1
  <2> QED
    BY <2>1
<1>3. ASSUME NEW k \in b..(n - 1), k \in T
      PROVE  k + 1 \in T
  <2>1. PICK q \in Nat \ {0} : Pow2(k) = q * Pow2(b)
    BY <1>3
  <2>2. Pow2(k + 1) = 2 * Pow2(k) /\ k + 1 \in 0..n
    BY <1>1 DEF Shifts
  <2>3. 2 * (q * Pow2(b)) = (2 * q) * Pow2(b) /\ 2 * q \in Nat \ {0}
    BY <1>1
  <2>4. Pow2(k + 1) = (2 * q) * Pow2(b)
    BY <2>1, <2>2, <2>3
  <2> QED
    BY <2>2, <2>3, <2>4
<1> HIDE DEF T
<1>4. \A k \in b..n : k \in T
  BY <1>1, <1>2, <1>3, ShiftInduction
<1> QED
  BY <1>4 DEF T

\* An odd divisor of twice a number divides the number.
LEMMA OddDivisor ==
  ASSUME NEW d \in Nat \ {0}, d % 2 = 1, NEW p \in Nat \ {0}, (2 * p) % d = 0
  PROVE  p % d = 0 /\ d <= p
<1> DEFINE q == (2 * p) \div d
           e == d \div 2
<1>1. 2 * p = d * q /\ q \in Nat /\ d = 2 * e + 1 /\ e \in Nat
  OBVIOUS
<1> HIDE DEF q, e
<1> DEFINE h == p - e * q
<1>2. e * q \in Nat /\ d * q = 2 * (e * q) + q
  BY <1>1
<1>3. q = 2 * h /\ h \in Int
  BY <1>1, <1>2
<1> HIDE DEF h
<1>4. d * q = 2 * (d * h) /\ d * h \in Int
  BY <1>3
<1>5. p = d * h
  BY <1>1, <1>4
<1>6. h > 0
  <2>1. ASSUME h <= 0 PROVE d * h <= 0
    BY <1>3, <2>1
  <2> QED
    BY <1>3, <1>4, <1>5, <2>1
<1>7. (d * h) % d = 0 /\ d <= d * h
  BY <1>3, <1>6
<1> QED
  BY <1>5, <1>7

\* is_power_of_two is true of them.
LEMMA PowersArePowers ==
  ASSUME NEW n, Shifts(n)
  PROVE  \A k \in 0..n : Check!is_power_of_two(Pow2(k))
<1> DEFINE T == {k \in 0..n : Check!is_power_of_two(Pow2(k))}
<1>0. \A k \in 0..n : Pow2(k) \in Nat \ {0}
  BY PowersAreNat, Zenon
<1>1. n \in Nat /\ (\A k \in 0..n : Pow2(k) \in Nat \ {0}) /\ Pow2(0) = 1
  BY <1>0 DEF Shifts, Pow2
<1>2. 0 \in T
  BY <1>1 DEF Check!is_power_of_two
<1>3. ASSUME NEW k \in 0..(n - 1), k \in T
      PROVE  k + 1 \in T
  <2> DEFINE p == Pow2(k)
  <2>1. Pow2(k + 1) = 2 * p /\ k + 1 \in 0..n /\ p \in Nat \ {0} /\ Check!is_power_of_two(p)
    BY <1>1, <1>3 DEF Shifts
  <2> HIDE DEF p
  <2>2. ASSUME NEW d \in 2..(2 * p), (2 * p) % d = 0, d % 2 # 0
        PROVE  FALSE
    <3>1. d \in Nat \ {0} /\ d % 2 = 1
      BY <2>1, <2>2
    <3>2. p % d = 0 /\ d <= p
      BY <2>1, <2>2, <3>1, OddDivisor
    <3>3. d \in 2..p
      BY <2>1, <3>1, <3>2
    <3> QED
      BY <2>1, <2>2, <3>2, <3>3 DEF Check!is_power_of_two
  <2>3. Check!is_power_of_two(2 * p)
    BY <2>1, <2>2 DEF Check!is_power_of_two
  <2> QED
    BY <2>1, <2>3
<1> HIDE DEF T
<1>4. \A k \in 0..n : k \in T
  BY <1>1, <1>2, <1>3, ShiftInduction
<1> QED
  BY <1>4 DEF T

\* The top of the pair of buddies from 2^(a-1) up, 2^b bytes each, is a power of
\* two only when the pair fills the upper half of the space.
LEMMA TrueTopIsAPower ==
  ASSUME NEW a, Shifts(a), NEW b \in Nat, b + 2 <= a
  PROVE  /\ Check!is_power_of_two(Pow2(b)) /\ Pow2(a - 1) % Pow2(b) = 0
         /\ Check!is_power_of_two(Pow2(a - 1) + 2 * Pow2(b)) <=> a = b + 2
<1>1. a \in Nat /\ a - 1 \in 0..(a - 1) /\ (a - 1) + 1 = a /\ b \in 0..a /\ b + 1 \in 0..a /\ a \in 0..a /\ a - 1 \in b..a
  BY DEF Shifts
<1>2. Pow2(b + 1) = 2 * Pow2(b)
  BY <1>1 DEF Shifts
<1>3. Pow2(a) = 2 * Pow2(a - 1)
  <2>1. Pow2((a - 1) + 1) = 2 * Pow2(a - 1)
    BY <1>1 DEF Shifts
  <2> QED
    BY <1>1, <2>1
<1>4. Pow2(b) \in Nat \ {0} /\ Pow2(b + 1) \in Nat \ {0} /\ Pow2(a - 1) \in Nat \ {0}
  BY <1>1, PowersAreNat
<1>5. Check!is_power_of_two(Pow2(b)) /\ Check!is_power_of_two(Pow2(a))
  BY <1>1, PowersArePowers
<1>6. Pow2(a - 1) % Pow2(b) = 0
  <2>1. PICK q \in Nat \ {0} : Pow2(a - 1) = q * Pow2(b)
    BY <1>1, PowersDivide
  <2>2. PICK p \in Nat \ {0} : p = Pow2(b)
    BY <1>4
  <2>3. (q * p) % p = 0
    OBVIOUS
  <2> QED
    BY <2>1, <2>2, <2>3
<1>7. ASSUME a = b + 2 PROVE Check!is_power_of_two(Pow2(a - 1) + 2 * Pow2(b))
  <2>1. a - 1 = b + 1
    BY <1>1, <1>7
  <2>2. Pow2(a - 1) + 2 * Pow2(b) = Pow2(a)
    BY <1>2, <1>3, <1>4, <2>1
  <2> QED
    BY <1>5, <2>2
<1>8. ASSUME a # b + 2 PROVE ~Check!is_power_of_two(Pow2(a - 1) + 2 * Pow2(b))
  <2>1. b + 2 \in 0..a /\ a - 1 \in (b + 2)..a /\ b + 1 \in 0..(a - 1) /\ (b + 1) + 1 = b + 2
    BY <1>1, <1>8
  <2>2. PICK q \in Nat \ {0} : Pow2(a - 1) = q * Pow2(b + 2)
    BY <2>1, PowersDivide
  <2>3. Pow2((b + 1) + 1) = 2 * Pow2(b + 1)
    BY <2>1 DEF Shifts
  <2>4. PICK p \in Nat \ {0} : p = Pow2(b + 1)
    BY <1>4
  <2> DEFINE d == 2 * q + 1
  <2>5. d \in Nat /\ d >= 2 /\ d % 2 = 1
    OBVIOUS
  <2>6. q * (2 * p) + p = d * p
    OBVIOUS
  <2> HIDE DEF d
  <2>7. Pow2(a - 1) + 2 * Pow2(b) = d * p
    BY <1>2, <2>1, <2>2, <2>3, <2>4, <2>6
  <2>8. d <= d * p /\ (d * p) % d = 0 /\ d * p \in Nat
    BY <2>5
  <2>9. d \in 2..(d * p)
    BY <2>5, <2>8
  <2>10. ~Check!is_power_of_two(d * p)
    BY <2>5, <2>8, <2>9 DEF Check!is_power_of_two
  <2> QED
    BY <2>7, <2>10
<1> QED
  BY <1>5, <1>6, <1>7, <1>8

\* A loose pair ends below three quarters of the space.
LEMMA LoosePairIsLow ==
  ASSUME NEW a, Shifts(a), NEW b \in Nat, b + 2 < a
  PROVE  2 * (2 * Pow2(b)) <= Pow2(a - 1)
<1>1. a \in Nat /\ b + 2 \in 0..a /\ a - 1 \in (b + 2)..a /\ b \in 0..(a - 1) /\ b + 1 \in 0..(a - 1)
      /\ (b + 1) + 1 = b + 2
  BY DEF Shifts
<1>2. PICK q \in Nat \ {0} : Pow2(a - 1) = q * Pow2(b + 2)
  BY <1>1, PowersDivide
<1>3. Pow2((b + 1) + 1) = 2 * Pow2(b + 1) /\ Pow2(b + 1) = 2 * Pow2(b)
  BY <1>1 DEF Shifts
<1>4. Pow2(b + 2) = 2 * (2 * Pow2(b))
  BY <1>1, <1>3
<1>5. Pow2(b + 2) \in Nat
  BY <1>1, PowersAreNat
<1>6. PICK p \in Nat : p = Pow2(b + 2)
  BY <1>5
<1>7. p <= q * p
  OBVIOUS
<1> QED
  BY <1>2, <1>4, <1>6, <1>7

\* A power of two that is a u64 is at most half of 2^64.
LEMMA PowerIsHalf ==
  ASSUME NEW a, Shifts(a), NEW h \in Nat \ {0}, a >= 1, h = Pow2(a - 1), h <= U64_MAX
  PROVE  2 * h <= U64_MAX + 1
<1>1. a \in Nat /\ a - 1 \in 0..a
  BY DEF Shifts
<1>2. Check!is_power_of_two(h)
  BY <1>1, PowersArePowers
<1>3. is_power_of_two(h)
  BY <1>2 DEF is_power_of_two, Check!is_power_of_two
<1>4. h \in 1..U64_MAX /\ U64_MAX \in Nat
  BY U64Assumption
<1>5. (U64_MAX + 1) % h = 0
  BY <1>3, <1>4, U64Assumption
<1>6. h % h = 0 /\ h < U64_MAX + 1 /\ U64_MAX + 1 \in Nat
  BY <1>4
<1>7. h + h <= U64_MAX + 1
  BY <1>5, <1>6, MultipleGap
<1> QED
  BY <1>4, <1>7

\* The same of the top the linter computes: the pair that fills the upper half
\* of a space of 2^64 ends at 0, which is no power of two; and the window is in
\* its documented place exactly when the pair fills the upper half.
LEMMA TopIsAPower ==
  ASSUME NEW a, Shifts(a), NEW b \in Nat, b + 2 <= a, Pow2(a - 1) <= U64_MAX
  PROVE  /\ Check!is_power_of_two(Pow2(b)) /\ Pow2(a - 1) % Pow2(b) = 0
         /\ Check!is_power_of_two(Check!Wrap(Pow2(a - 1) + 2 * Pow2(b)))
              <=> a = b + 2 /\ Pow2(a) <= U64_MAX
         /\ a = b + 2 /\ Pow2(a) <= U64_MAX =>
              Check!Wrap(Pow2(a - 1) + 2 * Pow2(b)) = Pow2(a - 1) + 2 * Pow2(b)
         /\ Pow2(a) = 2 * Pow2(a - 1)
         /\ Pow2(a - 1) = Pow2(a) - 2 * Pow2(b) <=> a = b + 2
<1>1. a \in Nat /\ a >= 1 /\ a - 1 \in 0..a /\ a - 1 \in 0..(a - 1) /\ (a - 1) + 1 = a /\ b \in 0..a
      /\ b \in 0..(a - 1) /\ U64_MAX \in Nat
  BY U64Assumption DEF Shifts
<1>2. Pow2((a - 1) + 1) = 2 * Pow2(a - 1) /\ Pow2(b + 1) = 2 * Pow2(b)
  BY <1>1 DEF Shifts
<1>3. Pow2(a) = 2 * Pow2(a - 1)
  BY <1>1, <1>2
<1>4. PICK h \in Nat \ {0} : h = Pow2(a - 1)
  BY <1>1, PowersAreNat
<1>5. PICK p \in Nat \ {0} : p = Pow2(b)
  BY <1>1, PowersAreNat
<1>6. /\ Check!is_power_of_two(p) /\ h % p = 0
      /\ Check!is_power_of_two(h + 2 * p) <=> a = b + 2
  BY <1>4, <1>5, TrueTopIsAPower
<1>7. 2 * h <= U64_MAX + 1
  BY <1>1, <1>4, PowerIsHalf
<1>8. a = b + 2 => h = 2 * p
  <2>1. a = b + 2 => a - 1 = b + 1
    BY <1>1
  <2> QED
    BY <1>2, <1>4, <1>5, <2>1
<1>9. a # b + 2 => 2 * (2 * p) <= h
  BY <1>1, <1>5, <1>4, LoosePairIsLow
<1>10. h + 2 * p \in Nat /\ (h + 2 * p <= U64_MAX => Check!Wrap(h + 2 * p) = h + 2 * p)
  BY WrapFacts
<1>11. Check!is_power_of_two(Check!Wrap(h + 2 * p)) <=> a = b + 2 /\ 2 * h <= U64_MAX
  <2>1. CASE a # b + 2
    <3>1. h + 2 * p <= U64_MAX
      BY <1>1, <1>7, <1>9, <2>1
    <3> QED
      BY <1>6, <1>10, <2>1, <3>1
  <2>2. CASE a = b + 2 /\ 2 * h <= U64_MAX
    <3>1. h + 2 * p <= U64_MAX
      BY <1>8, <2>2
    <3> QED
      BY <1>6, <1>10, <2>2, <3>1
  <2>3. CASE a = b + 2 /\ ~(2 * h <= U64_MAX)
    <3>1. PICK k \in Nat \ {0} : k = U64_MAX + 1
      BY <1>1
    <3>2. h + 2 * p = k
      BY <1>1, <1>7, <1>8, <2>3, <3>1
    <3>3. k % k = 0
      OBVIOUS
    <3>4. Check!Wrap(h + 2 * p) = 0
      BY <3>1, <3>2, <3>3 DEF Check!Wrap
    <3>5. ~Check!is_power_of_two(0)
      BY DEF Check!is_power_of_two
    <3> QED
      BY <2>3, <3>4, <3>5
  <2> QED
    BY <2>1, <2>2, <2>3
<1>12. a = b + 2 /\ 2 * h <= U64_MAX => Check!Wrap(h + 2 * p) = h + 2 * p
  BY <1>1, <1>8, <1>10
<1>13. h = 2 * h - 2 * p <=> a = b + 2
  BY <1>8, <1>9
<1> QED
  BY <1>3, <1>4, <1>5, <1>6, <1>11, <1>12, <1>13

-----------------------------------------------------------------------------
(* What plan() has settled when it returns: the window is there when there *)
(* are slots, and the band starts on a granule, with a device, and is      *)
(* clear of the carve-outs.                                                *)

BandRanges == layout["ecam"] \union layout["serial"] \union Transports

BandSettled ==
  /\ band_size <= high_floor /\ (high_floor - band_size) % GRAN = 0
  /\ \A r \in BandRanges : high_floor - band_size <= r.start
  /\ \E r \in BandRanges : r.start = high_floor - band_size

Settled ==
  /\ in.pci_slots > 0 /\ pc \notin {"pci_window", "failed"} => PciWindow \in layout["pci_window"]
  /\ pc = "done" /\ BandRanges # {} => BandSettled
  /\ pc = "done" /\ in.pci_slots > 0 => 0 < band_size /\ band_size <= high_floor /\ ~BandConflict

LEMMA SettledFrame ==
  ASSUME Settled, UNCHANGED <<in, pc, occupied, layout, virtio>>
  PROVE  Settled'
<1>1. BandRanges' = BandRanges /\ high_floor' = high_floor /\ PciWindow' = PciWindow
  BY DEF BandRanges, Transports, high_floor, PciWindow
<1>2. band_size' = band_size
  BY DEF band_size, EcamSize, SerialSize
<1>3. BandConflict' <=> BandConflict
  BY <1>1, <1>2 DEF BandConflict, Band
<1>4. BandSettled' <=> BandSettled
  BY <1>1, <1>2 DEF BandSettled
<1> QED
  BY <1>1, <1>2, <1>3, <1>4 DEF Settled

\* The size of the band is the devices' sizes in whole granules.
LEMMA BandSizeFacts ==
  ASSUME in \in Inputs
  PROVE  /\ EcamSize \in Nat /\ SerialSize \in Nat /\ in.mmio_slots \in Nat
         /\ band_size \in Nat /\ band_size % GRAN = 0
         /\ band_size > 0 => band_size >= GRAN
         /\ in.pci_slots > 0 => EcamSize = ECAM_SIZE /\ band_size > 0
         /\ ~(in.pci_slots > 0) => EcamSize = 0
         /\ ~in.serial => SerialSize = 0
         /\ band_size > 0 => in.pci_slots > 0 \/ in.serial \/ in.mmio_slots > 0
<1>1. in.mmio_slots \in Nat /\ in.pci_slots \in Nat /\ in.serial \in BOOLEAN
  BY InputFacts
<1>2. /\ ECAM_SIZE \in Nat \ {0} /\ SERIAL_SIZE \in Nat \ {0} /\ VIRTIO_SIZE \in Nat \ {0}
      /\ EcamSize \in Nat /\ SerialSize \in Nat
      /\ in.pci_slots > 0 => EcamSize = ECAM_SIZE
      /\ ~(in.pci_slots > 0) => EcamSize = 0
      /\ ~in.serial => SerialSize = 0
  BY <1>1, SizeAssumption DEF EcamSize, SerialSize
<1>3. in.mmio_slots * VIRTIO_SIZE \in Nat /\ (in.mmio_slots = 0 => in.mmio_slots * VIRTIO_SIZE = 0)
  BY <1>1, <1>2
<1> DEFINE total == EcamSize + SerialSize + in.mmio_slots * VIRTIO_SIZE
<1>4. /\ total \in Nat /\ (in.pci_slots > 0 => total > 0)
      /\ total > 0 => in.pci_slots > 0 \/ in.serial \/ in.mmio_slots > 0
  BY <1>1, <1>2, <1>3
<1>5. band_size = round_up(total, GRAN)
  BY DEF band_size
<1> HIDE DEF total
<1>6. /\ AlignUp(total, GRAN) \in Nat /\ total <= AlignUp(total, GRAN) /\ AlignUp(total, GRAN) % GRAN = 0
      /\ AlignUp(total, GRAN) = round_up(total, GRAN) /\ AlignUp(total, GRAN) < total + GRAN
  BY <1>4, GranFacts, AlignUpIsCeiling
<1>7. /\ band_size \in Nat /\ band_size % GRAN = 0 /\ total <= band_size /\ band_size < total + GRAN
  BY <1>5, <1>6
<1>8. band_size > 0 => band_size >= GRAN
  BY <1>7, GranFacts, MultipleGap
<1>9. band_size > 0 => total > 0
  BY <1>4, <1>7, <1>8, GranFacts
<1> QED
  BY <1>1, <1>2, <1>4, <1>7, <1>8, <1>9

LEMMA BandSettles ==
  ASSUME IInv, Settled, PlaceBand
  PROVE  Settled'
<1> DEFINE base == high_floor - band_size
           serial == base + EcamSize
           first == serial + SerialSize
           k == in.mmio_slots
           E == Span(base, base + ECAM_SIZE)
           S == Span(serial, serial + SERIAL_SIZE)
<1>0. /\ high_floor >= band_size /\ in' = in /\ occupied' = occupied /\ pc = "band" /\ pc' = "done"
      /\ band_size > 0 /\ ~BandConflict
      /\ layout' = [layout EXCEPT
           !["ecam"]   = IF in.pci_slots > 0 THEN {E} ELSE {},
           !["serial"] = IF in.serial THEN {S} ELSE {}]
      /\ virtio' = [n \in 1..k |->
                      Span(first + (n - 1) * VIRTIO_SIZE, first + n * VIRTIO_SIZE)]
  BY DEF PlaceBand, carve_band
<1>1. /\ in \in Inputs /\ layout \in [Regions -> SUBSET Range]
      /\ high_floor \in Nat /\ k \in Nat /\ in.pci_slots \in Nat /\ in.serial \in BOOLEAN
      /\ high_floor >= GRAN => high_floor % GRAN = 0
      /\ VIRTIO_SIZE \in Nat \ {0}
  BY InputFacts, GranFacts, SizeAssumption, PlanCheckAssumption DEF IInv, TypeOK, Address, high_floor
<1>2. /\ EcamSize \in Nat /\ SerialSize \in Nat
      /\ band_size \in Nat /\ band_size % GRAN = 0 /\ (band_size > 0 => band_size >= GRAN)
      /\ ~(in.pci_slots > 0) => EcamSize = 0
      /\ ~in.serial => SerialSize = 0
      /\ band_size > 0 => in.pci_slots > 0 \/ in.serial \/ in.mmio_slots > 0
  BY <1>1, BandSizeFacts
<1>3. base \in Nat /\ base % GRAN = 0
  <2>1. PICK h \in Nat, z \in Nat : h = high_floor /\ z = band_size
    BY <1>1, <1>2
  <2>2. z <= h /\ h % GRAN = 0 /\ z % GRAN = 0 /\ GRAN \in Nat \ {0}
    BY <1>0, <1>1, <1>2, <2>1, GranFacts
  <2>3. (h - z) % GRAN = 0 /\ h - z \in Nat
    <3> DEFINE i == h \div GRAN
               j == z \div GRAN
    <3>1. h = GRAN * i /\ z = GRAN * j /\ i \in Nat /\ j \in Nat
      BY <2>2
    <3> HIDE DEF i, j
    <3>2. h - z = GRAN * (i - j) /\ i - j \in Int
      BY <2>2, <3>1
    <3>3. (GRAN * (i - j)) % GRAN = 0
      BY <2>2, <3>2
    <3> QED
      BY <2>2, <3>2, <3>3
  <2> QED
    BY <2>1, <2>3
<1>4. serial \in Nat /\ first \in Nat /\ base <= serial /\ serial <= first
  BY <1>2, <1>3
<1>5. /\ high_floor' = high_floor /\ band_size' = band_size /\ PciWindow' = PciWindow
      /\ BandConflict' <=> BandConflict
  BY <1>0 DEF high_floor, band_size, EcamSize, SerialSize, PciWindow, BandConflict, Band
<1>6. /\ layout'["ecam"] = IF in.pci_slots > 0 THEN {E} ELSE {}
      /\ layout'["serial"] = IF in.serial THEN {S} ELSE {}
      /\ layout'["pci_window"] = layout["pci_window"]
  BY <1>0, <1>1 DEF Regions
<1>7. E.start = base /\ S.start = serial
  BY DEF Span
<1>8. ASSUME NEW n \in 1..k
      PROVE  first <= virtio'[n].start /\ (n = 1 => virtio'[n].start = first)
  <2>1. virtio'[n].start = first + (n - 1) * VIRTIO_SIZE
    BY <1>0 DEF Span
  <2>2. (n - 1) * VIRTIO_SIZE \in Nat /\ (n = 1 => (n - 1) * VIRTIO_SIZE = 0)
    BY <1>1
  <2> QED
    BY <1>4, <2>1, <2>2
<1>9. DOMAIN virtio' = 1..k
  BY <1>0
<1>10. BandRanges' = layout'["ecam"] \union layout'["serial"] \union {virtio'[n] : n \in 1..k}
  BY <1>9 DEF BandRanges, Transports
<1> HIDE DEF E, S
<1>11. \A r \in BandRanges' : base <= r.start
  <2>1. \A n \in 1..k : base <= virtio'[n].start
    <3>1. PICK b \in Nat, f \in Nat : b = base /\ f = first /\ b <= f
      BY <1>3, <1>4
    <3>2. ASSUME NEW n \in 1..k PROVE b <= virtio'[n].start
      <4>1. f <= virtio'[n].start /\ virtio'[n].start = f + (n - 1) * VIRTIO_SIZE
        BY <1>0, <1>8, <3>1 DEF Span
      <4>2. (n - 1) * VIRTIO_SIZE \in Nat
        BY <1>1
      <4> QED
        BY <3>1, <4>1, <4>2
    <3> QED
      BY <3>1, <3>2
  <2>2. base <= base
    BY <1>3
  <2> QED
    BY <1>4, <1>6, <1>7, <1>10, <2>1, <2>2
<1>12. \E r \in BandRanges' : r.start = base
  <2>1. CASE in.pci_slots > 0
    BY <1>6, <1>7, <1>10, <2>1
  <2>2. CASE ~(in.pci_slots > 0) /\ in.serial
    <3>1. serial = base
      BY <1>2, <1>3, <2>2
    <3> QED
      BY <1>6, <1>7, <1>10, <2>2, <3>1
  <2>3. CASE ~(in.pci_slots > 0) /\ ~in.serial
    <3>1. first = base /\ 1 \in 1..k
      BY <1>0, <1>1, <1>2, <1>3, <2>3
    <3>2. virtio'[1].start = base /\ virtio'[1] \in BandRanges'
      BY <1>8, <1>10, <3>1
    <3> QED
      BY <3>2
  <2> QED
    BY <2>1, <2>2, <2>3
<1>13. BandSettled'
  <2>1. /\ \A r \in BandRanges' : high_floor' - band_size' <= r.start
        /\ \E r \in BandRanges' : r.start = high_floor' - band_size'
    BY <1>5, <1>11, <1>12
  <2>2. (high_floor' - band_size') % GRAN = 0 /\ band_size' <= high_floor'
    BY <1>0, <1>3, <1>5
  <2> QED
    BY <2>1, <2>2 DEF BandSettled
<1>14. in.pci_slots > 0 => PciWindow \in layout["pci_window"]
  BY <1>0 DEF Settled
<1>15. /\ in'.pci_slots > 0 => PciWindow' \in layout'["pci_window"]
       /\ 0 < band_size' /\ band_size' <= high_floor' /\ ~BandConflict'
  BY <1>0, <1>5, <1>6, <1>14
<1> QED
  BY <1>13, <1>15 DEF Settled

\* Every step of plan() keeps Settled.
LEMMA PlanSettles ==
  ASSUME IInv, Settled, Next, pc # "done"
  PROVE  Settled'
<1>0. in \in Inputs /\ layout \in [Regions -> SUBSET Range] /\ in' = in
  BY DEF IInv, TypeOK, Next, Search, PlaceWindow, WindowTooLarge, Skip, Begin, BeginFails, Hop, HopFails, Place,
         PlaceBand, NoBand, BandFails, Fail, vars
<1>1. CASE pc' = "failed"
  BY <1>1 DEF Settled
<1>2. CASE PlaceWindow
  <2>1. /\ pc' = "linux" /\ layout' = [layout EXCEPT !["pci_window"] = IF in.pci_slots > 0 THEN {PciWindow} ELSE {}]
    BY <1>2 DEF PlaceWindow
  <2>2. in.pci_slots > 0 => PciWindow \in layout'["pci_window"]
    BY <1>0, <2>1 DEF Regions
  <2>3. PciWindow' = PciWindow
    BY <1>0 DEF PciWindow, high_floor
  <2> QED
    BY <1>0, <2>1, <2>2, <2>3 DEF Settled
<1>3. CASE \E region \in Searched : Skip(region) \/ Begin(region) \/ Hop(region) \/ Place(region)
  <2>1. PICK region \in Searched : Skip(region) \/ Begin(region) \/ Hop(region) \/ Place(region)
    BY <1>3
  <2>2. pc = region /\ pc' \in {"linux", "initrd", "relocs", "band"} /\ pc # "failed" /\ pc # "pci_window"
    BY <2>1 DEF Skip, Begin, Hop, Place, After, Searched
  <2>3. layout'["pci_window"] = layout["pci_window"]
    BY <1>0, <2>1 DEF Skip, Begin, Hop, Place, Regions, Searched
  <2>4. PciWindow' = PciWindow
    BY <1>0 DEF PciWindow, high_floor
  <2> QED
    BY <1>0, <2>2, <2>3, <2>4 DEF Settled
<1>4. CASE PlaceBand
  BY <1>4, BandSettles
<1>5. CASE NoBand
  <2>1. pc = "band" /\ pc' = "done" /\ band_size = 0 /\ layout' = layout /\ virtio' = virtio
    BY <1>5 DEF NoBand
  <2>2. ~(in.pci_slots > 0)
    BY <1>0, <2>1, BandSizeFacts
  <2>3. layout["ecam"] = {} /\ layout["serial"] = {} /\ virtio = <<>>
    BY <2>1 DEF IInv, Progress
  <2>4. BandRanges' = {}
    BY <2>1, <2>3 DEF BandRanges, Transports
  <2> QED
    BY <1>0, <2>1, <2>2, <2>4 DEF Settled
<1>6. CASE WindowTooLarge \/ BandFails \/ \E region \in Searched : BeginFails(region) \/ HopFails(region)
  <2>1. pc' = "failed"
    BY <1>6 DEF WindowTooLarge, BandFails, BeginFails, HopFails, Fail
  <2> QED
    BY <1>1, <2>1
<1>7. CASE UNCHANGED vars
  BY <1>7, SettledFrame DEF vars
<1> QED
  BY <1>2, <1>3, <1>4, <1>5, <1>6, <1>7 DEF Next, Search

\* What plan() placed below the window ends below it: the band, which is there
\* with the window, leaves no carve-out across 2^(A-1).
LEMMA BelowIsWhollyBelow ==
  ASSUME Ready, Settled, pc = "done", in.pci_slots > 0, NEW r \in Emitted, r.start < high_floor
  PROVE  r.end <= high_floor
<1>1. PciWindow \in layout["pci_window"] /\ 0 < band_size /\ band_size <= high_floor /\ ~BandConflict
  BY DEF Settled
<1>2. in \in Inputs /\ IInv /\ NoSharedUnit /\ CarvedOut /\ occupied \subseteq Range
  BY DEF Ready, IInv, TypeOK
<1>3. /\ Solid(PciWindow) /\ FarBelowMax(PciWindow) /\ PciWindow.start = high_floor /\ high_floor \in Nat
  BY <1>1, WindowFacts, DevicesAreFar
<1>4. band_size \in Nat
  BY <1>2, BandSizeFacts
<1>5. CASE r \in in.reserved
  <2>1. Solid(r) /\ FarBelowMax(r)
    BY <1>5, RangesAreSolid
  <2>2. PICK o \in occupied : Covers(o, r)
    BY <1>2, <1>5, <2>1 DEF CarvedOut, Covered
  <2>3. ~Overlap(o, Band) /\ o.start \in Nat /\ o.end \in Nat
    BY <1>1, <1>2, <2>2, GranFacts DEF BandConflict, Range, Address
  <2>4. Band.start = high_floor - band_size /\ Band.end = high_floor
    BY DEF Band, Span
  <2>5. o.start <= r.start /\ r.end <= o.end /\ r.start \in Nat /\ r.end \in Nat
    BY <2>1, <2>2, <2>3, UnitsFacts DEF Covers, Solid
  <2>6. o.start < high_floor
    BY <1>3, <2>3, <2>5
  <2>7. o.end <= high_floor - band_size
    BY <1>3, <1>4, <2>3, <2>4, <2>6 DEF Overlap
  <2> QED
    BY <1>3, <1>4, <2>3, <2>5, <2>7
<1>6. CASE \E p \in Payload : r \in layout[p]
  <2>1. PICK p \in Payload : r \in layout[p]
    BY <1>6
  <2>2. Solid(r) /\ FarBelowMax(r) /\ p \in Payload /\ p # "pci_window" /\ "pci_window" \in Regions
    BY <2>1, RangesAreSolid DEF Ready, Payload, Regions
  <2>3. Apart(r, PciWindow)
    BY <1>1, <1>2, <2>1, <2>2 DEF NoSharedUnit
  <2>4. ~SharesUnit(r, PciWindow)
    BY <1>3, <2>2, <2>3 DEF Apart
  <2>5. /\ r.start \in Nat /\ r.end \in Nat /\ r.start < r.end
        /\ PciWindow.start \in Nat /\ PciWindow.end \in Nat /\ PciWindow.start < PciWindow.end
    BY <1>3, <2>2 DEF Solid
  <2>6. /\ Units(r).start \in Nat /\ Units(r).start <= r.start /\ Units(r).end \in Nat /\ r.end <= Units(r).end
        /\ Units(PciWindow).start \in Nat /\ Units(PciWindow).start <= PciWindow.start
        /\ Units(PciWindow).end \in Nat /\ PciWindow.end <= Units(PciWindow).end
    BY <2>5, UnitsFacts
  <2>7. Units(r).end <= Units(PciWindow).start \/ Units(PciWindow).end <= Units(r).start
    BY <2>4, <2>5, <2>6 DEF SharesUnit, Overlap
  <2> QED
    BY <1>3, <2>5, <2>6, <2>7
<1> QED
  BY <1>5, <1>6 DEF Emitted

-----------------------------------------------------------------------------
(* What the linter reads: a region for everything the image and the tree   *)
(* show, and nothing else.                                                 *)

Elems(s) == {s[i] : i \in DOMAIN s}

LEMMA ElemsBoth ==
  ASSUME NEW X, NEW s \in Seq(X), NEW t \in Seq(X)
  PROVE  Elems(s \o t) = Elems(s) \union Elems(t) /\ s \o t \in Seq(X)
<1>1. /\ Len(s) \in Nat /\ Len(t) \in Nat
      /\ DOMAIN s = 1..Len(s) /\ DOMAIN t = 1..Len(t) /\ DOMAIN (s \o t) = 1..(Len(s) + Len(t))
      /\ \A i \in 1..(Len(s) + Len(t)) : (s \o t)[i] = IF i <= Len(s) THEN s[i] ELSE t[i - Len(s)]
  OBVIOUS
<1>2. \A i \in DOMAIN (s \o t) :
        \/ i \in DOMAIN s /\ (s \o t)[i] = s[i]
        \/ i - Len(s) \in DOMAIN t /\ (s \o t)[i] = t[i - Len(s)]
  BY <1>1
<1>3. \A i \in DOMAIN s : i \in DOMAIN (s \o t) /\ (s \o t)[i] = s[i]
  BY <1>1
<1>4. \A i \in DOMAIN t : i + Len(s) \in DOMAIN (s \o t) /\ (s \o t)[i + Len(s)] = t[i]
  BY <1>1
<1>5. Elems(s \o t) \subseteq Elems(s) \union Elems(t)
  BY <1>2 DEF Elems
<1>6. Elems(s) \subseteq Elems(s \o t) /\ Elems(t) \subseteq Elems(s \o t)
  BY <1>3, <1>4 DEF Elems
<1> QED
  BY <1>5, <1>6

\* The sort keeps them.
LEMMA ElemsSorted ==
  ASSUME NEW s \in Seq(Check!Region)
  PROVE  Elems(Check!sort_by_key(s)) = Elems(s)
<1>1. CheckProofs!Region = Check!Region
  BY DEF CheckProofs!Region, Check!Region, CheckProofs!Kinds, Check!Kinds
<1>2. CheckProofs!sort_by_key(s) = Check!sort_by_key(s)
  BY DEF CheckProofs!sort_by_key, Check!sort_by_key, CheckProofs!Rank, Check!Rank, CheckProofs!UpTo, Check!UpTo,
         CheckProofs!Cardinality, Check!Cardinality
<1>3. /\ U64_MAX \in Nat
      /\ \A n \in 1..U64_MAX : CheckProofs!is_power_of_two(n) => (U64_MAX + 1) % n = 0
  BY U64Assumption DEF is_power_of_two, CheckProofs!is_power_of_two
<1>4. \A i \in DOMAIN s : \E k \in 1..Len(s) : CheckProofs!sort_by_key(s)[k] = s[i]
  BY <1>1, <1>3, CheckProofs!SortIsASort
<1>5. PICK t : t = Check!sort_by_key(s)
  OBVIOUS
<1>6. /\ \A i \in DOMAIN s : \E k \in 1..Len(s) : t[k] = s[i]
      /\ t \in Seq(Check!Region) /\ Len(t) = Len(s)
      /\ \A k \in 1..Len(s) : \E i \in DOMAIN s : t[k] = s[i]
  BY <1>2, <1>4, <1>5, SortFacts
<1>7. DOMAIN t = 1..Len(s)
  BY <1>6
<1>8. Elems(t) \subseteq Elems(s)
  BY <1>6, <1>7 DEF Elems
<1>9. Elems(s) \subseteq Elems(t)
  <2>1. \A i \in DOMAIN s : \E k \in DOMAIN t : t[k] = s[i]
    BY <1>6, <1>7
  <2>2. \A i \in DOMAIN s : s[i] \in {t[k] : k \in DOMAIN t}
    BY <2>1, Zenon
  <2> QED
    BY <2>2, Zenon DEF Elems
<1> QED
  BY <1>5, <1>8, <1>9

\* A list of a set has all of it.
LEMMA ListedIsAll ==
  ASSUME NEW S, IsFiniteSet(S)
  PROVE  \A r \in S : \E k \in 1..Len(Listed(S)) : Listed(S)[k] = r
<1>1. Finite!IsFiniteSet(S) /\ Finite!Cardinality(S) = Cardinality(S)
  BY DEF Finite!IsFiniteSet, IsFiniteSet, Finite!Cardinality, Cardinality
<1>2. /\ Listed(S) \in Seq(S) /\ Len(Listed(S)) = Cardinality(S) /\ Cardinality(S) \in Nat
      /\ DOMAIN Listed(S) = 1..Cardinality(S)
      /\ \A i, j \in 1..Cardinality(S) : i # j => Listed(S)[i] # Listed(S)[j]
  BY ListedFacts
<1> DEFINE N == 1..Cardinality(S)
<1>3. PICK f \in [N -> S] : f = Listed(S)
  BY <1>2
<1>4. f \in Finite!Injection(N, S)
  BY <1>2, <1>3 DEF Finite!Injection, Finite!IsInjective
<1>5. Finite!Cardinality(N) = Cardinality(S)
  <2>1. 1 \in Int /\ Cardinality(S) \in Int
    BY <1>2
  <2>2. Finite!Cardinality(1..Cardinality(S)) = IF 1 > Cardinality(S) THEN 0 ELSE Cardinality(S) - 1 + 1
    BY <2>1, Finite!FS_Interval
  <2> QED
    BY <1>2, <2>2
<1> HIDE DEF N
<1>6. f \in Finite!Surjection(N, S)
  BY <1>1, <1>4, <1>5, Finite!FS_Injection
<1>7. \A r \in S : \E k \in N : f[k] = r
  BY <1>6 DEF Finite!Surjection
<1> QED
  BY <1>2, <1>3, <1>7 DEF N

\* The regions of a set of ranges, turned into a list one by one.
LEMMA EachElems ==
  ASSUME NEW S, IsFiniteSet(S), NEW g
  PROVE  Elems([k \in 1..Len(Listed(S)) |-> g[Listed(S)[k]]]) = {g[r] : r \in S}
<1> DEFINE t == [k \in 1..Len(Listed(S)) |-> g[Listed(S)[k]]]
<1>1. \A k \in 1..Len(Listed(S)) : Listed(S)[k] \in S
  BY ListedFacts
<1>2. DOMAIN t = 1..Len(Listed(S)) /\ \A k \in DOMAIN t : t[k] = g[Listed(S)[k]]
  OBVIOUS
<1> HIDE DEF t
<1>3. Elems(t) \subseteq {g[r] : r \in S}
  BY <1>1, <1>2 DEF Elems
<1>4. {g[r] : r \in S} \subseteq Elems(t)
  <2>1. ASSUME NEW r \in S PROVE g[r] \in Elems(t)
    <3>1. PICK k \in 1..Len(Listed(S)) : Listed(S)[k] = r
      BY ListedIsAll
    <3>2. t[k] = g[r] /\ k \in DOMAIN t
      BY <1>2, <3>1
    <3> QED
      BY <3>2 DEF Elems
  <2> QED
    BY <2>1
<1> QED
  BY <1>3, <1>4 DEF t

LEMMA SectionedElems ==
  ASSUME NEW T, NEW d, Fillable(T, d)
  PROVE  /\ Sectioned(T, d) \in Seq(Check!Region)
         /\ \A x \in Elems(Sectioned(T, d)) : x.kind = "payload" /\ \E r \in T : Covering(x, r)
         /\ \A r \in T : \E x \in Elems(Sectioned(T, d)) : x.base = r.start
<1> DEFINE g == [r \in T |-> Section(r, d[r])]
<1>1. \A r \in T : g[r] = Section(r, d[r])
  OBVIOUS
<1>2. /\ IsFiniteSet(T) /\ Sectioned(T, d) \in Seq(Check!Region)
      /\ \A r \in T : Covering(Section(r, d[r]), r)
  BY SectionedCovers DEF Fillable
<1>3. \A k \in 1..Len(Listed(T)) : Listed(T)[k] \in T
  BY <1>2, ListedFacts
<1>4. Sectioned(T, d) = [k \in 1..Len(Listed(T)) |-> g[Listed(T)[k]]]
  BY <1>1, <1>3 DEF Sectioned
<1>5. \A r : Section(r, d[r]).kind = "payload"
  BY DEF Section, Region
<1>6. \A r \in T : Covering(g[r], r) /\ g[r].kind = "payload" /\ g[r].base = r.start
  <2>1. \A r \in T : Covering(g[r], r) /\ g[r].kind = "payload"
    BY <1>1, <1>2, <1>5
  <2> QED
    BY <2>1 DEF Covering
<1> HIDE DEF g
<1>7. Elems([k \in 1..Len(Listed(T)) |-> g[Listed(T)[k]]]) = {g[r] : r \in T}
  BY <1>2, EachElems
<1>8. Elems(Sectioned(T, d)) = {g[r] : r \in T}
  BY <1>4, <1>7
<1>9. \A x \in Elems(Sectioned(T, d)) : \E r \in T : x = g[r]
  BY <1>8
<1>10. \A r \in T : g[r] \in Elems(Sectioned(T, d))
  BY <1>8
<1> QED
  BY <1>2, <1>6, <1>9, <1>10

LEMMA DescribedElems ==
  ASSUME NEW T, IsFiniteSet(T), NEW kind \in Check!Kinds, \A r \in T : Solid(r)
  PROVE  /\ Described(T, kind) \in Seq(Check!Region)
         /\ \A x \in Elems(Described(T, kind)) : x.kind = kind /\ \E r \in T : Exact(x, r)
         /\ \A r \in T : \E x \in Elems(Described(T, kind)) : x.base = r.start
<1> DEFINE g == [r \in T |-> Region(r, r.end - r.start, kind)]
<1>1. \A r \in T : g[r] = Region(r, r.end - r.start, kind)
  OBVIOUS
<1>2. \A r \in T : Exact(g[r], r)
  BY <1>1, DeviceCovers
<1>3. Len(Listed(T)) \in Nat /\ \A k \in 1..Len(Listed(T)) : Listed(T)[k] \in T
  BY ListedFacts
<1>4. Described(T, kind) = [k \in 1..Len(Listed(T)) |-> g[Listed(T)[k]]]
  BY <1>1, <1>3 DEF Described
<1>5. \A r : Region(r, r.end - r.start, kind).kind = kind
  BY DEF Region
<1>6. \A r \in T : Exact(g[r], r) /\ g[r].kind = kind /\ g[r].base = r.start /\ g[r] \in Check!Region
  <2>1. \A r \in T : g[r].kind = kind
    BY <1>1, <1>5
  <2> QED
    BY <1>2, <2>1 DEF Exact, Covering
<1> HIDE DEF g
<1>7. Elems([k \in 1..Len(Listed(T)) |-> g[Listed(T)[k]]]) = {g[r] : r \in T}
  BY EachElems
<1>8. Elems(Described(T, kind)) = {g[r] : r \in T}
  BY <1>4, <1>7
<1>9. \A x \in Elems(Described(T, kind)) : \E r \in T : x = g[r]
  BY <1>8
<1>10. \A r \in T : g[r] \in Elems(Described(T, kind))
  BY <1>8
<1>11. Described(T, kind) \in Seq(Check!Region)
  <2>1. \A k \in 1..Len(Listed(T)) : g[Listed(T)[k]] \in Check!Region
    BY <1>3, <1>6
  <2> QED
    BY <1>3, <1>4, <2>1
<1> QED
  BY <1>6, <1>9, <1>10, <1>11

\* The window's buddy is the only region of its kind.
LEMMA BurnedElems ==
  ASSUME Ready
  PROVE  /\ Burned(layout["pci_window"]) \in Seq(Check!Region)
         /\ \A x \in Elems(Burned(layout["pci_window"])) : x.kind = "burned"
<1>1. Burned(layout["pci_window"]) \in Seq(Check!Region)
  BY BurnedHolds DEF Holds
<1>2. \A k \in DOMAIN Burned(layout["pci_window"]) : Burned(layout["pci_window"])[k].kind = "burned"
  BY DEF Burned, Region
<1> QED
  BY <1>1, <1>2 DEF Elems

LEMMA TransportElems ==
  ASSUME Ready
  PROVE  /\ [k \in 1..Len(virtio) |-> Device(virtio[k])] \in Seq(Check!Region)
         /\ \A x \in Elems([k \in 1..Len(virtio) |-> Device(virtio[k])]) :
              x.kind = "device" /\ \E r \in Transports : Exact(x, r)
         /\ \A r \in Transports : \E x \in Elems([k \in 1..Len(virtio) |-> Device(virtio[k])]) : x.base = r.start
<1> DEFINE t == [k \in 1..Len(virtio) |-> Device(virtio[k])]
<1>1. DOMAIN virtio = 1..Len(virtio) /\ Len(virtio) \in Nat
  <2>1. virtio \in [1..in.mmio_slots -> Range] \union {<<>>} /\ in.mmio_slots \in Nat
    BY InputFacts DEF Ready, IInv, TypeOK
  <2>2. CASE virtio \in [1..in.mmio_slots -> Range]
    BY <2>1, <2>2
  <2>3. CASE virtio = <<>>
    BY <2>3
  <2> QED
    BY <2>1, <2>2, <2>3
<1>2. \A k \in DOMAIN virtio : Solid(virtio[k])
  BY RangesAreSolid
<1>3. "device" \in Check!Kinds
  BY DEF Check!Kinds
<1>4. \A k \in DOMAIN virtio : Exact(Device(virtio[k]), virtio[k])
  BY <1>2, <1>3, DeviceCovers DEF Device
<1>5. \A r : Device(r).kind = "device" /\ Device(r).base = r.start
  BY DEF Device, Region
<1>6. DOMAIN t = DOMAIN virtio /\ \A k \in DOMAIN virtio : t[k] = Device(virtio[k])
  BY <1>1
<1>7. t \in Seq(Check!Region)
  BY TransportsHold DEF Holds
<1> HIDE DEF t
<1>8. \A k \in DOMAIN virtio : Exact(t[k], virtio[k]) /\ t[k].kind = "device" /\ t[k].base = virtio[k].start
  BY <1>4, <1>5, <1>6
<1>9. \A x \in Elems(t) : \E k \in DOMAIN virtio : x = t[k]
  BY <1>6 DEF Elems
<1>10. \A k \in DOMAIN virtio : t[k] \in Elems(t)
  BY <1>6 DEF Elems
<1>11. \A x \in Elems(t) : x.kind = "device" /\ \E r \in Transports : Exact(x, r)
  BY <1>8, <1>9 DEF Transports
<1>12. \A r \in Transports : \E x \in Elems(t) : x.base = r.start
  BY <1>8, <1>10 DEF Transports
<1> QED
  BY <1>7, <1>11, <1>12 DEF t

\* The devices of the tree.
Shown == (in.reserved \intersect FixedDevices) \union BandRanges

\* Lists put together have what each of them has.
LEMMA ElemsJoin ==
  ASSUME NEW s \in Seq(Check!Region), NEW t \in Seq(Check!Region)
  PROVE  s \o t \in Seq(Check!Region) /\ Elems(s \o t) = Elems(s) \union Elems(t)
BY ElemsBoth

\* A section for each loaded range of tatu and of the payload.
LEMMA SectionsShow ==
  ASSUME Ready, NEW n \in {1, in.kernel_size}
  PROVE  /\ assemble_sections(n, Loaded) \in Seq(Check!Region)
         /\ \A x \in Elems(assemble_sections(n, Loaded)) : x.kind = "payload" /\ \E r \in Emitted : Covering(x, r)
         /\ \A r \in Emitted : \/ r.start = 0 \/ r \in in.reserved \intersect FixedDevices
                               \/ \E x \in Elems(assemble_sections(n, Loaded)) : x.base = r.start
<1> DEFINE L(p) == layout[p] \intersect Loaded
           A == Sectioned(Tatu(Loaded), Full(Tatu(Loaded)))
           B == Sectioned(L("linux"), Filled(L("linux"), n))
           C == Sectioned(L("initrd"), Filled(L("initrd"), in.initrd_size))
           D == Sectioned(L("bootconfig"), Filled(L("bootconfig"), 0))
           E == Sectioned(L("relocs"), Full(L("relocs")))
<1>0. IInv /\ Placed
  BY DEF Ready
<1>1. /\ Fillable(Tatu(Loaded), Full(Tatu(Loaded))) /\ Fillable(L("linux"), Filled(L("linux"), n))
      /\ Fillable(L("initrd"), Filled(L("initrd"), in.initrd_size))
      /\ Fillable(L("bootconfig"), Filled(L("bootconfig"), 0)) /\ Fillable(L("relocs"), Full(L("relocs")))
  BY <1>0, AssembleIs, Zenon
<1>2. assemble_sections(n, Loaded) = A \o B \o C \o D \o E
  BY <1>0, AssembleIs, Zenon
<1>3. /\ A \in Seq(Check!Region)
      /\ \A x \in Elems(A) : x.kind = "payload" /\ \E r \in Tatu(Loaded) : Covering(x, r)
      /\ \A r \in Tatu(Loaded) : \E x \in Elems(A) : x.base = r.start
  BY <1>1, SectionedElems, Zenon
<1>4. /\ B \in Seq(Check!Region)
      /\ \A x \in Elems(B) : x.kind = "payload" /\ \E r \in L("linux") : Covering(x, r)
      /\ \A r \in L("linux") : \E x \in Elems(B) : x.base = r.start
  BY <1>1, SectionedElems, Zenon
<1>5. /\ C \in Seq(Check!Region)
      /\ \A x \in Elems(C) : x.kind = "payload" /\ \E r \in L("initrd") : Covering(x, r)
      /\ \A r \in L("initrd") : \E x \in Elems(C) : x.base = r.start
  BY <1>1, SectionedElems, Zenon
<1>6. /\ D \in Seq(Check!Region)
      /\ \A x \in Elems(D) : x.kind = "payload" /\ \E r \in L("bootconfig") : Covering(x, r)
      /\ \A r \in L("bootconfig") : \E x \in Elems(D) : x.base = r.start
  BY <1>1, SectionedElems, Zenon
<1>7. /\ E \in Seq(Check!Region)
      /\ \A x \in Elems(E) : x.kind = "payload" /\ \E r \in L("relocs") : Covering(x, r)
      /\ \A r \in L("relocs") : \E x \in Elems(E) : x.base = r.start
  BY <1>1, SectionedElems, Zenon
<1>8. Tatu(Loaded) \subseteq Emitted /\ \A p \in Payload : L(p) \subseteq Emitted
  BY DEF Tatu, Emitted
<1>9. ASSUME NEW r \in Emitted, r.start # 0, r \notin in.reserved \intersect FixedDevices
      PROVE  r \in Tatu(Loaded) \/ \E p \in Payload : r \in L(p)
  <2>1. r \in Range /\ r.start \in Nat
    BY RangesAreSolid DEF Emitted, Solid
  <2>2. r \in Loaded
    BY <1>9, <2>1 DEF Loaded
  <2> QED
    BY <1>9, <2>2 DEF Emitted, Tatu
<1>10. \A p \in Payload : p \in {"linux", "initrd", "bootconfig", "relocs"}
  BY DEF Payload
<1> HIDE DEF A, B, C, D, E, L
<1>11. /\ A \o B \o C \o D \o E \in Seq(Check!Region)
       /\ Elems(A \o B \o C \o D \o E) = Elems(A) \union Elems(B) \union Elems(C) \union Elems(D) \union Elems(E)
  <2>1. PICK u : u = A \o B
    OBVIOUS
  <2>2. u \in Seq(Check!Region) /\ Elems(u) = Elems(A) \union Elems(B)
    BY <1>3, <1>4, <2>1, ElemsJoin
  <2>3. PICK v : v = u \o C
    OBVIOUS
  <2>4. v \in Seq(Check!Region) /\ Elems(v) = Elems(u) \union Elems(C)
    BY <1>5, <2>2, <2>3, ElemsJoin
  <2>5. PICK w : w = v \o D
    OBVIOUS
  <2>6. w \in Seq(Check!Region) /\ Elems(w) = Elems(v) \union Elems(D)
    BY <1>6, <2>4, <2>5, ElemsJoin
  <2>7. w \o E \in Seq(Check!Region) /\ Elems(w \o E) = Elems(w) \union Elems(E)
    BY <1>7, <2>6, ElemsJoin
  <2>8. w \o E = A \o B \o C \o D \o E
    BY <2>1, <2>3, <2>5
  <2> QED
    BY <2>2, <2>4, <2>6, <2>7, <2>8
<1>12. PICK e : e = Elems(A \o B \o C \o D \o E)
  OBVIOUS
<1>13. \A x \in e : x.kind = "payload" /\ \E r \in Emitted : Covering(x, r)
  <2>1. \A p \in {"linux", "initrd", "bootconfig", "relocs"} : L(p) \subseteq Emitted
    BY <1>8 DEF Payload
  <2>2. /\ \A x \in Elems(A) : x.kind = "payload" /\ \E r \in Emitted : Covering(x, r)
        /\ \A x \in Elems(B) : x.kind = "payload" /\ \E r \in Emitted : Covering(x, r)
        /\ \A x \in Elems(C) : x.kind = "payload" /\ \E r \in Emitted : Covering(x, r)
        /\ \A x \in Elems(D) : x.kind = "payload" /\ \E r \in Emitted : Covering(x, r)
        /\ \A x \in Elems(E) : x.kind = "payload" /\ \E r \in Emitted : Covering(x, r)
    BY <1>3, <1>4, <1>5, <1>6, <1>7, <1>8, <2>1
  <2> QED
    BY <1>11, <1>12, <2>2
<1>14. /\ \A r \in Tatu(Loaded) : \E x \in e : x.base = r.start
       /\ \A p \in Payload : \A r \in L(p) : \E x \in e : x.base = r.start
  BY <1>3, <1>4, <1>5, <1>6, <1>7, <1>10, <1>11, <1>12
<1>15. \A r \in Emitted : \/ r.start = 0 \/ r \in in.reserved \intersect FixedDevices
                          \/ \E x \in e : x.base = r.start
  BY <1>9, <1>14
<1> QED
  BY <1>2, <1>11, <1>12, <1>13, <1>15

\* A device for each fixed one and each of the band, and the window.
LEMMA DevicesShow ==
  ASSUME Ready
  PROVE  /\ base_device_regions \in Seq(Check!Region)
         /\ \A x \in Elems(base_device_regions) :
              \/ x.kind = "device" /\ \E r \in Shown : Exact(x, r)
              \/ x.kind = "window" /\ \E w \in layout["pci_window"] : Exact(x, w)
              \/ x.kind = "burned"
         /\ \A r \in Shown : \E x \in Elems(base_device_regions) : x.kind = "device" /\ x.base = r.start
         /\ \A w \in layout["pci_window"] : \E x \in Elems(base_device_regions) : x.kind = "window"
<1> DEFINE F == Described(in.reserved \intersect FixedDevices, "device")
           S == Described(layout["serial"], "device")
           V == [k \in 1..Len(virtio) |-> Device(virtio[k])]
           E == Described(layout["ecam"], "device")
           W == Described(layout["pci_window"], "window")
           B == Burned(layout["pci_window"])
<1>1. base_device_regions = F \o S \o V \o E \o W \o B
  BY Zenon DEF base_device_regions, Each, Device, Described, Burned
<1>2. "device" \in Check!Kinds /\ "window" \in Check!Kinds
  BY DEF Check!Kinds
<1>3. ASSUME NEW p \in Mmio
      PROVE  IsFiniteSet(layout[p]) /\ \A r \in layout[p] : Solid(r)
  <2>1. \A r, s \in layout[p] : r = s
    BY DEF Ready, Placed, OneOfEach, Regions, Mmio
  <2> QED
    BY <2>1, OneIsFinite, RangesAreSolid, WindowFacts DEF Mmio
<1>4. "serial" \in Mmio /\ "ecam" \in Mmio /\ "pci_window" \in Mmio
  BY DEF Mmio
<1>5. IsFiniteSet(in.reserved \intersect FixedDevices) /\ \A r \in in.reserved \intersect FixedDevices : Solid(r)
  <2>1. IsFiniteSet(in.reserved) /\ in.reserved \intersect FixedDevices \subseteq in.reserved
    BY PlanCheckAssumption DEF Ready, IInv
  <2> QED
    BY <2>1, PartIsFinite, RangesAreSolid
<1>6. /\ F \in Seq(Check!Region)
      /\ \A x \in Elems(F) : x.kind = "device" /\ \E r \in in.reserved \intersect FixedDevices : Exact(x, r)
      /\ \A r \in in.reserved \intersect FixedDevices : \E x \in Elems(F) : x.base = r.start
  <2>1. PICK f : f = in.reserved \intersect FixedDevices
    OBVIOUS
  <2>2. IsFiniteSet(f) /\ \A r \in f : Solid(r)
    BY <1>5, <2>1, Zenon
  <2>3. /\ Described(f, "device") \in Seq(Check!Region)
        /\ \A x \in Elems(Described(f, "device")) : x.kind = "device" /\ \E r \in f : Exact(x, r)
        /\ \A r \in f : \E x \in Elems(Described(f, "device")) : x.base = r.start
    BY <1>2, <2>2, DescribedElems
  <2> QED
    BY <2>1, <2>3, Zenon
<1>7. /\ S \in Seq(Check!Region)
      /\ \A x \in Elems(S) : x.kind = "device" /\ \E r \in layout["serial"] : Exact(x, r)
      /\ \A r \in layout["serial"] : \E x \in Elems(S) : x.base = r.start
  BY <1>2, <1>3, <1>4, DescribedElems
<1>8. /\ V \in Seq(Check!Region)
      /\ \A x \in Elems(V) : x.kind = "device" /\ \E r \in Transports : Exact(x, r)
      /\ \A r \in Transports : \E x \in Elems(V) : x.base = r.start
  BY TransportElems, Zenon
<1>9. /\ E \in Seq(Check!Region)
      /\ \A x \in Elems(E) : x.kind = "device" /\ \E r \in layout["ecam"] : Exact(x, r)
      /\ \A r \in layout["ecam"] : \E x \in Elems(E) : x.base = r.start
  BY <1>2, <1>3, <1>4, DescribedElems
<1>10. /\ W \in Seq(Check!Region)
       /\ \A x \in Elems(W) : x.kind = "window" /\ \E r \in layout["pci_window"] : Exact(x, r)
       /\ \A r \in layout["pci_window"] : \E x \in Elems(W) : x.base = r.start
  BY <1>2, <1>3, <1>4, DescribedElems
<1>11. B \in Seq(Check!Region) /\ \A x \in Elems(B) : x.kind = "burned"
  BY BurnedElems, Zenon
<1> HIDE DEF F, S, V, E, W, B
<1>12. /\ F \o S \o V \o E \o W \o B \in Seq(Check!Region)
       /\ Elems(F \o S \o V \o E \o W \o B) =
            Elems(F) \union Elems(S) \union Elems(V) \union Elems(E) \union Elems(W) \union Elems(B)
  <2>1. PICK u : u = F \o S
    OBVIOUS
  <2>2. u \in Seq(Check!Region) /\ Elems(u) = Elems(F) \union Elems(S)
    BY <1>6, <1>7, <2>1, ElemsJoin
  <2>3. PICK v : v = u \o V
    OBVIOUS
  <2>4. v \in Seq(Check!Region) /\ Elems(v) = Elems(u) \union Elems(V)
    BY <1>8, <2>2, <2>3, ElemsJoin
  <2>5. PICK w : w = v \o E
    OBVIOUS
  <2>6. w \in Seq(Check!Region) /\ Elems(w) = Elems(v) \union Elems(E)
    BY <1>9, <2>4, <2>5, ElemsJoin
  <2>7. PICK x : x = w \o W
    OBVIOUS
  <2>8. x \in Seq(Check!Region) /\ Elems(x) = Elems(w) \union Elems(W)
    BY <1>10, <2>6, <2>7, ElemsJoin
  <2>9. x \o B \in Seq(Check!Region) /\ Elems(x \o B) = Elems(x) \union Elems(B)
    BY <1>11, <2>8, ElemsJoin
  <2>10. x \o B = F \o S \o V \o E \o W \o B
    BY <2>1, <2>3, <2>5, <2>7
  <2> QED
    BY <2>2, <2>4, <2>6, <2>8, <2>9, <2>10
<1>13. PICK e : e = Elems(F \o S \o V \o E \o W \o B)
  OBVIOUS
<1>14. /\ in.reserved \intersect FixedDevices \subseteq Shown /\ layout["serial"] \subseteq Shown
       /\ layout["ecam"] \subseteq Shown /\ Transports \subseteq Shown
       /\ \A r \in Shown : r \in in.reserved \intersect FixedDevices \/ r \in layout["serial"]
                           \/ r \in layout["ecam"] \/ r \in Transports
  BY DEF Shown, BandRanges
<1>15. \A x \in e : \/ x.kind = "device" /\ \E r \in Shown : Exact(x, r)
                    \/ x.kind = "window" /\ \E w \in layout["pci_window"] : Exact(x, w)
                    \/ x.kind = "burned"
  <2>1. /\ \A x \in Elems(F) : x.kind = "device" /\ \E r \in Shown : Exact(x, r)
        /\ \A x \in Elems(S) : x.kind = "device" /\ \E r \in Shown : Exact(x, r)
        /\ \A x \in Elems(V) : x.kind = "device" /\ \E r \in Shown : Exact(x, r)
        /\ \A x \in Elems(E) : x.kind = "device" /\ \E r \in Shown : Exact(x, r)
    BY <1>6, <1>7, <1>8, <1>9, <1>14
  <2> QED
    BY <1>10, <1>11, <1>12, <1>13, <2>1
<1>16. \A r \in Shown : \E x \in e : x.kind = "device" /\ x.base = r.start
  <2>1. Elems(F) \subseteq e /\ Elems(S) \subseteq e /\ Elems(V) \subseteq e /\ Elems(E) \subseteq e
    BY <1>12, <1>13
  <2> QED
    BY <1>6, <1>7, <1>8, <1>9, <1>14, <2>1
<1>17. \A w \in layout["pci_window"] : \E x \in e : x.kind = "window"
  BY <1>10, <1>12, <1>13
<1> QED
  BY <1>1, <1>12, <1>13, <1>15, <1>16, <1>17

-----------------------------------------------------------------------------
(* The list is true to the plan: what each region stands for, and what has *)
(* a region.                                                               *)

Faithful(E) ==
  /\ \A x \in E :
       /\ x.kind = "payload" => \E r \in Emitted : Covering(x, r)
       /\ x.kind = "device" => bundled /\ \E r \in Shown : Exact(x, r)
       /\ x.kind = "window" => bundled /\ \E w \in layout["pci_window"] : Exact(x, w)
  /\ bundled =>
       /\ \A r \in Emitted : r.start = 0 \/ \E x \in E : x.kind \in {"device", "payload"} /\ x.base = r.start
       /\ \A r \in Shown : \E x \in E : x.kind = "device" /\ x.base = r.start
       /\ \A w \in layout["pci_window"] : \E x \in E : x.kind = "window"

LEMMA FaithfulFrame ==
  ASSUME UNCHANGED <<in, layout, virtio, bundled>>
  PROVE  \A E : Faithful(E)' <=> Faithful(E)
<1>1. Shown' = Shown /\ Emitted' = Emitted
  BY DEF Shown, Emitted, BandRanges, Transports
<1>2. \A x, r : (Covering(x, r)' <=> Covering(x, r)) /\ (Exact(x, r)' <=> Exact(x, r))
  BY DEF Covering, Exact, Check!Region, Check!Kinds
<1> QED
  BY <1>1, <1>2 DEF Faithful

\* The list arma check reads out of the image is true to the plan.
LEMMA ImageIsFaithful ==
  ASSUME Ready, NEW n \in {1, in.kernel_size}
  PROVE  Faithful(Elems(assemble_sections(n, Loaded) \o (IF bundled THEN base_device_regions ELSE <<>>)))
<1>1. PICK s : s = assemble_sections(n, Loaded)
  OBVIOUS
<1>2. /\ s \in Seq(Check!Region)
      /\ \A x \in Elems(s) : x.kind = "payload" /\ \E r \in Emitted : Covering(x, r)
      /\ \A r \in Emitted : \/ r.start = 0 \/ r \in in.reserved \intersect FixedDevices
                            \/ \E x \in Elems(s) : x.base = r.start
  BY <1>1, SectionsShow
<1>3. CASE bundled
  <2>1. PICK d : d = base_device_regions
    OBVIOUS
  <2>2. /\ d \in Seq(Check!Region)
        /\ \A x \in Elems(d) :
              \/ x.kind = "device" /\ \E r \in Shown : Exact(x, r)
              \/ x.kind = "window" /\ \E w \in layout["pci_window"] : Exact(x, w)
              \/ x.kind = "burned"
        /\ \A r \in Shown : \E x \in Elems(d) : x.kind = "device" /\ x.base = r.start
        /\ \A w \in layout["pci_window"] : \E x \in Elems(d) : x.kind = "window"
    BY <2>1, DevicesShow, Zenon
  <2>3. Elems(s \o d) = Elems(s) \union Elems(d)
    BY <1>2, <2>2, ElemsBoth
  <2>4. PICK e : e = Elems(s \o d)
    OBVIOUS
  <2>5. in.reserved \intersect FixedDevices \subseteq Shown
    BY DEF Shown
  <2>6. \A x \in e : /\ x.kind = "payload" => \E r \in Emitted : Covering(x, r)
                     /\ x.kind = "device" => \E r \in Shown : Exact(x, r)
                     /\ x.kind = "window" => \E w \in layout["pci_window"] : Exact(x, w)
    BY <1>2, <2>2, <2>3, <2>4
  <2>7. \A r \in Emitted : r.start = 0 \/ \E x \in e : x.kind \in {"device", "payload"} /\ x.base = r.start
    BY <1>2, <2>2, <2>3, <2>4, <2>5
  <2>8. Faithful(e)
    BY <1>3, <2>2, <2>3, <2>4, <2>6, <2>7 DEF Faithful
  <2> QED
    BY <1>1, <1>3, <2>1, <2>4, <2>8
<1>4. CASE ~bundled
  <2>1. s \o <<>> = s
    BY <1>2
  <2>2. Faithful(Elems(s))
    BY <1>2, <1>4 DEF Faithful
  <2> QED
    BY <1>1, <1>4, <2>1, <2>2
<1> QED
  BY <1>3, <1>4

-----------------------------------------------------------------------------
(* The rules, on a list that is true to the plan.                          *)

WindowFound(s) == UNION {Check!window_problems(s, w) : w \in Check!OfKind(s, {"window"})}

\* OfKind selects from the list's elements.
LEMMA OfKindIs == \A s, K : Check!OfKind(s, K) = {x \in Elems(s) : x.kind \in K}
<1> SUFFICES ASSUME NEW s, NEW K PROVE Check!OfKind(s, K) = {x \in Elems(s) : x.kind \in K}
  OBVIOUS
<1> QED
  BY DEF Check!OfKind, Elems

\* Rule 2 has nothing to report.
WindowQuiet(s, w) ==
  /\ Check!is_power_of_two(w.size) /\ w.base % w.size = 0
  /\ Check!is_power_of_two(Check!Wrap(w.base + 2 * w.size))
  /\ \A x \in Elems(s) : x.kind \in {"device", "payload"} =>
       ~(x.base >= w.base) /\ ~(Check!End(x) > Check!Wrap(w.base + 2 * w.size))

\* It reports nothing exactly then.
LEMMA QuietIsEmpty ==
  ASSUME NEW s, NEW w
  PROVE  Check!window_problems(s, w) = {} <=> WindowQuiet(s, w)
<1> DEFINE top == Check!Wrap(w.base + 2 * w.size)
           shown == Check!OfKind(s, {"device", "payload"})
           p1 == Check!is_power_of_two(w.size)
           p2 == w.base % w.size # 0
           p3 == Check!is_power_of_two(top)
           p4 == \E r \in shown : r.base >= w.base
           p5 == \E r \in shown : Check!End(r) > top
           A == IF ~p1 THEN {"window_size"} ELSE IF p2 THEN {"window_align"} ELSE {}
           B == IF p3 THEN {} ELSE {"not_top_pair"}
           C == IF p4 THEN {"above_window"} ELSE {}
           D == IF p5 THEN {"above_space"} ELSE {}
<1>1. Check!window_problems(s, w) = A \union B \union C \union D
  BY Zenon DEF Check!window_problems
<1>2. shown = {x \in Elems(s) : x.kind \in {"device", "payload"}}
  BY OfKindIs
<1>3. WindowQuiet(s, w) <=> p1 /\ ~p2 /\ p3 /\ ~p4 /\ ~p5
  BY <1>2, Zenon DEF WindowQuiet
<1> HIDE DEF p1, p2, p3, p4, p5
<1>4. /\ A = {} <=> p1 /\ ~p2
      /\ B = {} <=> p3
      /\ C = {} <=> ~p4
      /\ D = {} <=> ~p5
  OBVIOUS
<1> HIDE DEF A, B, C, D
<1>5. A \union B \union C \union D = {} <=> A = {} /\ B = {} /\ C = {} /\ D = {}
  OBVIOUS
<1> QED
  BY <1>1, <1>3, <1>4, <1>5

\* No window, no report about one.
LEMMA NoWindowIsQuiet ==
  ASSUME Ready, ~HasWindow, NEW s, Faithful(Elems(s))
  PROVE  WindowFound(s) = {}
<1>1. ASSUME NEW w \in Check!OfKind(s, {"window"}) PROVE FALSE
  <2>1. w \in Elems(s) /\ w.kind = "window"
    BY <1>1, OfKindIs
  <2>2. bundled /\ \E v \in layout["pci_window"] : Exact(w, v)
    BY <2>1 DEF Faithful
  <2> QED
    BY <2>2, WindowFacts DEF HasWindow
<1> QED
  BY <1>1 DEF WindowFound

\* The window the tree shows.
LEMMA WindowIs ==
  ASSUME Ready, NEW E, Faithful(E), NEW w \in E, w.kind = "window"
  PROVE  /\ w.base = high_floor /\ w.size = Pow2(in.window_bits)
         /\ high_floor \in Nat /\ Pow2(in.window_bits) \in Nat \ {0}
         /\ in.window_bits + 2 <= in.addr_space_bits
<1>1. PICK v \in layout["pci_window"] : Exact(w, v)
  BY DEF Faithful
<1>2. /\ v.start = high_floor /\ v.end = high_floor + Pow2(in.window_bits)
      /\ Pow2(in.window_bits) \in Nat \ {0} /\ high_floor \in Nat
  BY WindowFacts, DevicesAreFar
<1>3. w.base = v.start /\ w.base + w.size = v.end /\ w.base \in Nat /\ w.size \in Nat
  BY <1>1, RegionFacts DEF Exact, Covering
<1>4. in.window_bits + 2 <= in.addr_space_bits
  BY DEF Ready, Placed, WindowPlaced
<1> QED
  BY <1>2, <1>3, <1>4

\* The window is in its documented place, in a space whose size is a u64.
InPlace == PciWindow = TopPair /\ Pow2(in.addr_space_bits) <= U64_MAX

\* Rule 2 accepts exactly the window that is in place with everything below it.
LEMMA WindowVerdict ==
  ASSUME Ready, Settled, pc = "done", HasWindow, NEW s, Faithful(Elems(s))
  PROVE  WindowFound(s) = {} <=> InPlace /\ \A r \in Emitted : r.start < high_floor
<1>1. PICK E : E = Elems(s)
  OBVIOUS
<1>2. bundled /\ in.pci_slots > 0 /\ in \in Inputs /\ PciWindow \in layout["pci_window"]
  BY DEF HasWindow, Ready, IInv, Settled
<1>3. PICK w \in E : w.kind = "window"
  BY <1>1, <1>2 DEF Faithful
<1>4. \A v \in E : v.kind = "window" =>
        /\ v.base = high_floor /\ v.size = Pow2(in.window_bits)
        /\ high_floor \in Nat /\ Pow2(in.window_bits) \in Nat \ {0}
        /\ in.window_bits + 2 <= in.addr_space_bits
  BY <1>1, WindowIs
<1>5. Check!OfKind(s, {"window"}) = {x \in E : x.kind = "window"}
  BY <1>1, OfKindIs
<1>6. WindowFound(s) = {} <=> \A v \in E : v.kind = "window" => WindowQuiet(s, v)
  <2>1. WindowFound(s) = {} <=> \A v \in E : v.kind = "window" => Check!window_problems(s, v) = {}
    BY <1>5 DEF WindowFound
  <2> QED
    BY <2>1, QuietIsEmpty
<1> DEFINE a == in.addr_space_bits
           b == in.window_bits
           n == Pow2(b)
<1> DEFINE top == Check!Wrap(high_floor + 2 * n)
<1>7. /\ Check!is_power_of_two(n) /\ high_floor % n = 0
      /\ Check!is_power_of_two(top) <=> InPlace
      /\ InPlace => top = high_floor + 2 * n
  <2>1. a \in Nat /\ b \in Nat /\ b + 2 <= a
    BY <1>2, <1>3, <1>4, InputFacts DEF PlannerInput
  <2>2. Shifts(a)
    BY <1>2, <2>1, ShiftAssumption DEF Shifts
  <2>3. Pow2(a - 1) <= U64_MAX
    BY <1>2, InputFacts, U64Assumption DEF high_floor, Address
  <2>4. PICK h, m : h = Pow2(a - 1) /\ m = Pow2(a)
    OBVIOUS
  <2>5. /\ Check!is_power_of_two(n) /\ h % n = 0
        /\ Check!is_power_of_two(Check!Wrap(h + 2 * n)) <=> a = b + 2 /\ m <= U64_MAX
        /\ a = b + 2 /\ m <= U64_MAX => Check!Wrap(h + 2 * n) = h + 2 * n
        /\ m = 2 * h
        /\ h = m - 2 * n <=> a = b + 2
    BY <2>1, <2>2, <2>3, <2>4, TopIsAPower
  <2>6. high_floor = h /\ h \in Nat /\ n \in Nat \ {0}
    BY <1>3, <1>4, <2>4 DEF high_floor
  <2>7. PciWindow = TopPair <=> h = m - 2 * n
    <3>1. PciWindow = Span(h, h + n) /\ TopPair = Span(m - 2 * n, m - n)
      BY <2>4, <2>6 DEF PciWindow, TopPair
    <3>2. Span(h, h + n) = Span(m - 2 * n, m - n) <=> h = m - 2 * n /\ h + n = m - n
      BY DEF Span
    <3> QED
      BY <2>5, <2>6, <3>1, <3>2
  <2>8. InPlace <=> a = b + 2 /\ m <= U64_MAX
    BY <2>4, <2>5, <2>7 DEF InPlace
  <2> QED
    BY <2>5, <2>6, <2>8
<1> DEFINE Low == \A r \in Emitted : r.start < high_floor
<1>8. \A x \in E : x.kind \in {"device", "payload"} => x.base \in Nat /\ x.size \in Nat
  BY <1>1, RegionFacts DEF Faithful, Exact, Covering
<1>9. \A r \in Emitted : r.start \in Nat
  BY RangesAreSolid DEF Emitted, Solid
<1>10. high_floor \in Nat /\ n \in Nat \ {0} /\ high_floor % PAGE = 0
  BY <1>3, <1>4, DevicesAreFar
<1>11. ASSUME \A x \in E : x.kind \in {"device", "payload"} => ~(x.base >= high_floor)
       PROVE  Low
  <2> SUFFICES ASSUME NEW r \in Emitted PROVE r.start < high_floor
    OBVIOUS
  <2>1. r.start = 0 \/ \E x \in E : x.kind \in {"device", "payload"} /\ x.base = r.start
    BY <1>1, <1>2 DEF Faithful
  <2>2. CASE r.start = 0
    <3>1. 0 < band_size /\ band_size <= high_floor /\ band_size \in Nat
      BY <1>2, BandSizeFacts DEF Settled
    <3> QED
      BY <1>10, <2>2, <3>1
  <2>3. CASE \E x \in E : x.kind \in {"device", "payload"} /\ x.base = r.start
    BY <1>9, <1>10, <1>11, <2>3
  <2> QED
    BY <2>1, <2>2, <2>3
<1>12. ASSUME Low, InPlace, NEW x \in E, x.kind \in {"device", "payload"}
       PROVE  ~(x.base >= high_floor) /\ ~(Check!End(x) > top)
  <2>1. PICK r : r \in Emitted \union BandRanges /\ Covering(x, r)
    <3>1. CASE x.kind = "payload"
      BY <1>1, <1>12, <3>1 DEF Faithful
    <3>2. CASE x.kind = "device"
      <4>1. PICK q \in Shown : Exact(x, q)
        BY <1>1, <1>12, <3>2 DEF Faithful
      <4>2. q \in Emitted \union BandRanges
        BY DEF Shown, Emitted
      <4> QED
        BY <4>1, <4>2 DEF Exact
    <3> QED
      BY <1>12, <3>1, <3>2
  <2>2. Solid(r) /\ r.end <= high_floor
    <3>1. CASE r \in Emitted
      <4>1. r.start < high_floor
        BY <1>12, <3>1
      <4>2. Solid(r)
        BY <3>1, RangesAreSolid DEF Emitted
      <4> QED
        BY <1>2, <3>1, <4>1, <4>2, BelowIsWhollyBelow
    <3>2. CASE r \in BandRanges
      BY <3>2, RangesAreSolid, DevicesAreFar DEF BandRanges, Transports
    <3> QED
      BY <2>1, <3>1, <3>2
  <2>3. x.base + x.size <= high_floor /\ x.base = r.start
    BY <1>10, <2>1, <2>2, CoveringEnds DEF Covering
  <2>4. x.base \in Nat /\ x.size \in Nat /\ r.start < r.end /\ r.start \in Nat /\ r.end \in Nat
    BY <1>8, <1>12, <2>2 DEF Solid
  <2>5. Check!End(x) \in Nat /\ Check!End(x) <= x.base + x.size
    <3>1. x.base + x.size \in Nat
      BY <2>4
    <3> QED
      BY <3>1, WrapFacts DEF Check!End
  <2>6. top = high_floor + 2 * n
    BY <1>7, <1>12
  <2> HIDE DEF n, top
  <2> QED
    BY <1>10, <2>2, <2>3, <2>4, <2>5, <2>6
<1> HIDE DEF n, a, b, Low, top
<1>13. ASSUME NEW v \in E, v.kind = "window"
       PROVE  WindowQuiet(s, v) <=> InPlace /\ Low
  <2>1. v.base = high_floor /\ v.size = n
    BY <1>4, <1>13 DEF n, b
  <2>2. WindowQuiet(s, v) <=>
          /\ InPlace
          /\ \A x \in E : x.kind \in {"device", "payload"} =>
               ~(x.base >= high_floor) /\ ~(Check!End(x) > top)
    BY <1>1, <1>7, <2>1 DEF WindowQuiet, top
  <2> QED
    BY <1>11, <1>12, <2>2
<1> QED
  BY <1>3, <1>6, <1>13 DEF Low

\* The lowest device below the window starts on a granule: it is the lowest
\* fixed device or the band's first.
LEMMA IslandIsQuiet ==
  ASSUME Ready, Settled, pc = "done", NEW s, Faithful(Elems(s))
  PROVE  Check!island_problems(s) = {}
<1>1. PICK E : E = Elems(s)
  OBVIOUS
<1>2. Check!Island(s) = {x \in E : x.kind = "device" /\ \A w \in E : w.kind = "window" => x.base < w.base}
  BY <1>1, OfKindIs DEF Check!Island
<1>3. PICK I : I = Check!Island(s)
  OBVIOUS
<1>4. \A x \in I : x \in E /\ x.kind = "device" /\ \A w \in E : w.kind = "window" => x.base < w.base
  BY <1>2, <1>3
<1>5. \A x \in E : (x.kind = "device" /\ \A w \in E : w.kind = "window" => x.base < w.base) => x \in I
  BY <1>2, <1>3
<1>6. \A x \in E : x.kind = "device" => bundled /\ \E r \in Shown : Exact(x, r)
  BY <1>1 DEF Faithful
<1>7. \A x \in E : x.kind = "device" => x.base \in Nat
  BY <1>6, RegionFacts DEF Exact, Covering
<1>8. \A w \in E : w.kind = "window" => w.base \in Nat
  BY <1>1, WindowIs
<1>9. ASSUME NEW lo \in I, \A d \in I : lo.base <= d.base
      PROVE  lo.base % GRAN = 0
  <2>1. lo \in E /\ lo.kind = "device" /\ lo.base \in Nat /\ \A w \in E : w.kind = "window" => lo.base < w.base
    BY <1>4, <1>7
  <2>2. PICK r \in Shown : Exact(lo, r)
    BY <1>6, <2>1
  <2>3. bundled /\ lo.base = r.start
    BY <1>6, <2>1, <2>2 DEF Exact, Covering
  <2>4. \A q \in Shown : \E x \in E : x.kind = "device" /\ x.base = q.start
    BY <1>1, <2>3 DEF Faithful
  \* What is shown is no lower.
  <2>5. ASSUME NEW q \in Shown PROVE lo.base <= q.start
    <3>1. PICK x \in E : x.kind = "device" /\ x.base = q.start
      BY <2>4
    <3>2. x.base \in Nat
      BY <1>7, <3>1
    <3>3. CASE x \in I
      BY <1>9, <3>1, <3>3
    <3>4. CASE x \notin I
      <4>1. PICK w \in E : w.kind = "window" /\ ~(x.base < w.base)
        BY <1>5, <3>1, <3>4
      <4>2. lo.base < w.base /\ w.base \in Nat
        BY <1>8, <2>1, <4>1
      <4> QED
        BY <2>1, <3>1, <3>2, <4>1, <4>2
    <3> QED
      BY <3>3, <3>4
  <2>6. CASE r \in in.reserved \intersect FixedDevices
    <3>1. \A q \in in.reserved \intersect FixedDevices : r.start <= q.start
      BY <2>3, <2>5 DEF Shown
    <3>2. in \in Inputs
      BY DEF Ready, IInv
    <3> QED
      BY <2>3, <2>6, <3>1, <3>2, PlanCheckAssumption
  <2>7. CASE r \in BandRanges
    <3>1. BandSettled
      BY <2>7 DEF Settled
    <3>2. PICK q \in BandRanges : q.start = high_floor - band_size
      BY <3>1 DEF BandSettled
    <3>3. high_floor - band_size <= r.start /\ (high_floor - band_size) % GRAN = 0
      BY <2>7, <3>1 DEF BandSettled
    <3>4. lo.base <= q.start
      BY <2>5, <3>2 DEF Shown
    <3>5. high_floor \in Nat /\ band_size \in Nat
      BY DevicesAreFar, BandSizeFacts DEF Ready, IInv
    <3>6. lo.base = high_floor - band_size
      BY <2>1, <2>3, <3>2, <3>3, <3>4, <3>5
    <3> QED
      BY <3>3, <3>6
  <2> QED
    BY <2>6, <2>7 DEF Shown
<1> QED
  BY <1>3, <1>9 DEF Check!island_problems

\* With everything below the window, nothing is reported to overlap.
LEMMA LowIsClear ==
  ASSUME Ready, Settled, pc = "done", HasWindow, \A r \in Emitted : r.start < high_floor
  PROVE  ~AtWindow
<1>1. in.pci_slots > 0 /\ PciWindow \in layout["pci_window"]
  BY DEF HasWindow, Settled
<1>2. \A r \in Emitted : r.end <= high_floor /\ r.end \in Nat
  <2>1. \A r \in Emitted : r.end <= high_floor
    BY <1>1, BelowIsWhollyBelow
  <2> QED
    BY <2>1, RangesAreSolid DEF Emitted, Solid
<1>3. /\ PciWindow.start = high_floor /\ PciWindow.end = high_floor + Pow2(in.window_bits)
      /\ Pow2(in.window_bits) \in Nat \ {0} /\ high_floor \in Nat
  BY <1>1, WindowFacts, DevicesAreFar
<1>4. PICK n \in Nat \ {0} : n = Pow2(in.window_bits)
  BY <1>3
<1>5. PICK u, v : u = PciWindow /\ v = Span(PciWindow.end, PciWindow.end + n)
  OBVIOUS
<1>6. u.start = high_floor /\ v.start = high_floor + n
  BY <1>3, <1>4, <1>5 DEF Span
<1>7. \A r \in Emitted : ~Overlap(r, u) /\ ~Overlap(r, v)
  BY <1>2, <1>3, <1>6 DEF Overlap
<1> QED
  BY <1>4, <1>5, <1>7 DEF AtWindow, Emitted

-----------------------------------------------------------------------------
(* The verdict, rule by rule: until a rule has run its report is missing,  *)
(* and once it has run its report is what it finds.                        *)

Found ==
  /\ phase \notin {"island", "done"} => problems \subseteq {"overlap"}
  /\ phase = "island" =>
       /\ WindowFound(regions) \subseteq problems
       /\ problems \subseteq {"overlap"} \union WindowFound(regions)
  /\ phase = "done" =>
       /\ WindowFound(regions) \union Check!island_problems(regions) \subseteq problems
       /\ problems \subseteq {"overlap"} \union WindowFound(regions) \union Check!island_problems(regions)

DInv ==
  /\ CInv /\ Settled /\ Found
  /\ Checked => Ready /\ Faithful(Elems(regions))

\* With the invariant the verdict is the one CheckAcceptsPlan names.
LEMMA VerdictIsAccept == DInv => CheckAcceptsPlan
<1> SUFFICES ASSUME DInv, phase = "done"
             PROVE  problems = {} <=>
                      (HasWindow => InPlace /\ \A r \in Emitted : r.start < high_floor)
  BY DEF CheckAcceptsPlan, Judged, InPlace
<1>1. /\ Ready /\ Settled /\ pc = "done" /\ Faithful(Elems(regions))
      /\ "overlap" \in problems => AtWindow
  BY DEF DInv, CInv, Checked
<1>2. PICK s : s = regions
  OBVIOUS
<1>3. Check!island_problems(s) = {}
  BY <1>1, <1>2, IslandIsQuiet
<1>4. WindowFound(s) \subseteq problems /\ problems \subseteq {"overlap"} \union WindowFound(s)
  BY <1>2, <1>3 DEF DInv, Found
<1>5. CASE HasWindow
  <2>1. WindowFound(s) = {} <=> InPlace /\ \A r \in Emitted : r.start < high_floor
    BY <1>1, <1>2, <1>5, WindowVerdict
  <2>2. WindowFound(s) = {} => "overlap" \notin problems
    BY <1>1, <1>5, <2>1, LowIsClear
  <2>3. problems = {} <=> WindowFound(s) = {}
    BY <1>4, <2>2
  <2> QED
    BY <1>5, <2>1, <2>3
<1>6. CASE ~HasWindow
  <2>1. WindowFound(s) = {}
    BY <1>1, <1>2, <1>6, NoWindowIsQuiet
  <2>2. "overlap" \notin problems
    BY <1>1, <1>6 DEF AtWindow
  <2> QED
    BY <1>4, <1>6, <2>1, <2>2
<1> QED
  BY <1>5, <1>6

\* The invariant of the verdict, from plan() on.
LEMMA VerdictInit == PlanCheckInit => DInv
<1> SUFFICES ASSUME PlanCheckInit PROVE DInv
  OBVIOUS
<1>1. CInv
  BY PlanCheckInitEstablishes
<1>2. pc = "pci_window" /\ phase = "build" /\ problems = {}
  BY DEF PlanCheckInit, Init
<1>3. Settled
  BY <1>2 DEF Settled
<1> QED
  BY <1>1, <1>2, <1>3 DEF DInv, Found, Checked

LEMMA VerdictPlan == DInv /\ Plan => DInv'
<1> SUFFICES ASSUME DInv, Plan PROVE DInv'
  OBVIOUS
<1>1. /\ IInv /\ Next /\ pc # "done" /\ phase = "build" /\ Settled /\ CInv
      /\ phase' = phase /\ problems' = problems
  BY DEF DInv, CInv, Plan, Returned, checkVars
<1>2. CInv' /\ Settled'
  BY <1>1, PlanPreserves, PlanSettles
<1> QED
  BY <1>1, <1>2 DEF DInv, Found, Checked

\* The planner's ranges stay where they are while the linter reads.
LEMMA ReadyFrame ==
  ASSUME Ready, UNCHANGED <<in, layout, bundled>>, IInv', Placed'
  PROVE  Ready'
BY DEF Ready, FarBelowMax

LEMMA VerdictEmit == DInv /\ Emit => DInv'
<1> SUFFICES ASSUME DInv, Emit PROVE DInv'
  OBVIOUS
<1>1. /\ pc = "done" /\ phase = "build"
      /\ UNCHANGED <<in, pc, occupied, layout, virtio, cursor, err, bundled, at, problems>>
  BY DEF Emit
<1>2. PICK n \in {1, in.kernel_size} :
        \/ /\ FitsU32(assemble_sections(n, Range))
           /\ regions' = assemble_sections(n, Loaded) \o (IF bundled THEN base_device_regions ELSE <<>>)
           /\ phase' = "sort"
        \/ phase' = "no_image"
  BY DEF Emit
<1>3. IInv /\ Placed /\ bundled \in BOOLEAN /\ Settled /\ CInv /\ problems \subseteq {"overlap"}
  BY <1>1 DEF DInv, CInv, Found
<1>4. CInv' /\ Settled' /\ IInv' /\ Placed'
  <2>1. CInv'
    BY <1>3, EmitPreserves
  <2> QED
    BY <1>1, <1>3, <2>1, SettledFrame DEF CInv
<1>5. ASSUME phase' = "sort" PROVE Ready' /\ Faithful(Elems(regions))'
  <2>1. /\ FitsU32(assemble_sections(n, Range))
        /\ regions' = assemble_sections(n, Loaded) \o (IF bundled THEN base_device_regions ELSE <<>>)
    BY <1>2, <1>5
  <2>2. Ready
    BY <1>3, <2>1, PayloadsFit
  <2>3. PICK e : e = Elems(regions')
    OBVIOUS
  <2>4. Faithful(e)
    BY <2>1, <2>2, <2>3, ImageIsFaithful
  <2>5. Faithful(e)'
    BY <1>1, <2>4, FaithfulFrame
  <2>6. e = Elems(regions)'
    BY <2>3 DEF Elems
  <2>7. Ready'
    BY <1>1, <1>4, <2>2, ReadyFrame
  <2> QED
    BY <2>5, <2>6, <2>7
<1>6. phase' \in {"sort", "no_image"} /\ problems' \subseteq {"overlap"}
  BY <1>1, <1>2, <1>3
<1> QED
  BY <1>4, <1>5, <1>6 DEF DInv, Found, Checked

LEMMA VerdictCheck == DInv /\ CheckImage => DInv'
<1> SUFFICES ASSUME DInv, CheckImage PROVE DInv'
  OBVIOUS
<1>1. UNCHANGED <<in, pc, occupied, layout, virtio, cursor, err, bundled>> /\ Check!CheckStep
  BY DEF CheckImage
<1>2. Checked /\ Checked'
  BY <1>1 DEF Check!CheckStep, Check!Sort, Check!ScanPair, Check!ScanEnds, Check!CheckWindow,
       Check!CheckIsland, Checked
<1>3. CInv /\ Settled /\ Found /\ Ready /\ Faithful(Elems(regions)) /\ regions \in Seq(Check!Region)
  BY <1>2 DEF DInv, CInv, Holds
<1>4. CInv' /\ Settled' /\ IInv' /\ Placed'
  <2>1. CInv'
    BY <1>3, CheckPreserves
  <2> QED
    BY <1>1, <1>3, <2>1, SettledFrame DEF CInv
<1>5. Ready'
  BY <1>1, <1>3, <1>4, ReadyFrame
<1>6. Elems(regions') = Elems(regions) /\ Found'
  <2>1. CASE Check!Sort
    <3>1. regions' = Check!sort_by_key(regions) /\ phase = "sort" /\ phase' = "scan" /\ problems' = problems
      BY <2>1 DEF Check!Sort
    <3>2. Elems(regions') = Elems(regions)
      BY <1>3, <3>1, ElemsSorted
    <3> QED
      BY <1>3, <3>1, <3>2 DEF Found
  <2>2. CASE Check!ScanPair
    <3>1. /\ regions' = regions /\ phase = "scan" /\ phase' = "scan"
          /\ problems' \subseteq problems \union {"overlap"}
      BY <2>2 DEF Check!ScanPair
    <3> QED
      BY <1>3, <3>1 DEF Found
  <2>3. CASE Check!ScanEnds
    <3>1. regions' = regions /\ phase = "scan" /\ phase' = "window" /\ problems' = problems
      BY <2>3 DEF Check!ScanEnds
    <3> QED
      BY <1>3, <3>1 DEF Found
  <2>4. CASE Check!CheckWindow
    <3>1. /\ regions' = regions /\ phase = "window" /\ phase' = "island"
          /\ problems' = problems \union WindowFound(regions)
      BY <2>4 DEF Check!CheckWindow, WindowFound
    <3>2. problems \subseteq {"overlap"}
      BY <1>3, <3>1 DEF Found
    <3>3. PICK f : f = WindowFound(regions)
      OBVIOUS
    <3>4. WindowFound(regions)' = f
      BY <3>1, <3>3 DEF WindowFound, Check!window_problems, Check!OfKind, Check!End, Check!Wrap
    <3>5. f \subseteq problems' /\ problems' \subseteq {"overlap"} \union f
      BY <3>1, <3>2, <3>3
    <3> QED
      BY <3>1, <3>4, <3>5 DEF Found
  <2>5. CASE Check!CheckIsland
    <3>1. /\ regions' = regions /\ phase = "island" /\ phase' = "done"
          /\ problems' = problems \union Check!island_problems(regions)
      BY <2>5 DEF Check!CheckIsland
    <3>2. PICK f, g : f = WindowFound(regions) /\ g = Check!island_problems(regions)
      OBVIOUS
    <3>3. f \subseteq problems /\ problems \subseteq {"overlap"} \union f
      BY <1>3, <3>1, <3>2 DEF Found
    <3>4. WindowFound(regions)' = f /\ Check!island_problems(regions)' = g
      BY <3>1, <3>2 DEF WindowFound, Check!window_problems, Check!OfKind, Check!End, Check!Wrap, Check!island_problems, Check!Island
    <3>5. f \union g \subseteq problems' /\ problems' \subseteq {"overlap"} \union f \union g
      BY <3>1, <3>2, <3>3
    <3> QED
      BY <3>1, <3>4, <3>5 DEF Found
  <2> QED
    BY <1>1, <2>1, <2>2, <2>3, <2>4, <2>5 DEF Check!CheckStep
<1>7. Faithful(Elems(regions))'
  <2>1. PICK e : e = Elems(regions)
    OBVIOUS
  <2>2. Faithful(e)'
    BY <1>1, <1>3, <2>1, FaithfulFrame
  <2>3. e = Elems(regions)'
    BY <1>6, <2>1 DEF Elems
  <2> QED
    BY <2>2, <2>3
<1> QED
  BY <1>4, <1>5, <1>6, <1>7 DEF DInv

LEMMA VerdictStutter == DInv /\ UNCHANGED allVars => DInv'
<1> SUFFICES ASSUME DInv, UNCHANGED allVars PROVE DInv'
  OBVIOUS
<1>1. UNCHANGED <<in, pc, occupied, layout, virtio, cursor, err, bundled, regions, phase, at, problems>>
  BY DEF allVars
<1>2. CInv' /\ Settled' /\ IInv' /\ Placed'
  <2>1. CInv'
    BY StutterPreserves DEF DInv
  <2> QED
    BY <1>1, <2>1, SettledFrame DEF DInv, CInv
<1>3. PICK f, g : f = WindowFound(regions) /\ g = Check!island_problems(regions)
  OBVIOUS
<1>4. WindowFound(regions)' = f /\ Check!island_problems(regions)' = g
  BY <1>1, <1>3 DEF WindowFound, Check!window_problems, Check!OfKind, Check!End, Check!Wrap, Check!island_problems, Check!Island
<1>5. Found'
  BY <1>1, <1>3, <1>4 DEF DInv, Found
<1>6. ASSUME Checked' PROVE Ready' /\ Faithful(Elems(regions))'
  <2>1. Ready /\ Faithful(Elems(regions))
    BY <1>1, <1>6 DEF DInv, Checked
  <2>2. PICK e : e = Elems(regions)
    OBVIOUS
  <2>3. Faithful(e)' /\ e = Elems(regions)'
    BY <1>1, <2>1, <2>2, FaithfulFrame DEF Elems
  <2>4. Ready'
    BY <1>1, <1>2, <2>1, ReadyFrame
  <2> QED
    BY <2>3, <2>4
<1> QED
  BY <1>2, <1>5, <1>6 DEF DInv

\* A clean check means what check.rs says: of the images arma build plans, the
\* linter accepts exactly those without a window in the tree, and those whose
\* window is the lower buddy of the top pair of a space whose size is a u64,
\* with every section and fixed device below it.  A space of 2^64 is among the
\* inputs: there the linter's sum wraps to 0 and every window is refused.
THEOREM CheckAcceptsPlans == PlanCheckSpec => []CheckAcceptsPlan
<1>1. DInv /\ [PlanCheckNext]_allVars => DInv'
  BY VerdictPlan, VerdictEmit, VerdictCheck, VerdictStutter DEF PlanCheckNext
<1> QED
  BY <1>1, VerdictInit, VerdictIsAccept, PTL DEF PlanCheckSpec
=============================================================================
