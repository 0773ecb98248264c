--------------------------- MODULE PlannerProofs ---------------------------
(***************************************************************************)
(* Theorems about Planner, for every granularity, every address width and  *)
(* every set of inputs that meets the assumptions of that module.          *)
(***************************************************************************)
EXTENDS Planner, TLAPS

-----------------------------------------------------------------------------
(* Arithmetic of alignment.                                                *)

\* Two multiples of a that differ, differ by at least a.
LEMMA MultipleGap ==
  ASSUME NEW x \in Nat, NEW y \in Nat, NEW a \in Nat \ {0},
         x % a = 0, y % a = 0, x < y
  PROVE  x + a <= y
<1>1. x = a * (x \div a) /\ x \div a \in Nat
  OBVIOUS
<1>2. y = a * (y \div a) /\ y \div a \in Nat
  OBVIOUS
<1>3. x \div a < y \div a
  BY <1>1, <1>2
<1>4. a * (x \div a) + a <= a * (y \div a)
  BY <1>1, <1>2, <1>3
<1> QED
  BY <1>1, <1>2, <1>4

\* Multiples of a are closed under addition.
LEMMA MultipleSum ==
  ASSUME NEW x \in Nat, NEW y \in Nat, NEW a \in Nat \ {0},
         x % a = 0, y % a = 0
  PROVE  (x + y) % a = 0
<1> DEFINE j == x \div a
           k == y \div a
<1>1. x = a * j /\ j \in Nat /\ y = a * k /\ k \in Nat
  OBVIOUS
<1> HIDE DEF j, k
<1>2. x + y = a * (j + k)
  BY <1>1
<1>3. (a * (j + k)) % a = 0
  BY <1>1
<1> QED
  BY <1>2, <1>3

\* A multiple of a multiple of b is a multiple of b.
LEMMA MultipleTrans ==
  ASSUME NEW x \in Nat, NEW a \in Nat \ {0}, NEW b \in Nat \ {0},
         x % a = 0, a % b = 0
  PROVE  x % b = 0
<1> DEFINE j == x \div a
           k == a \div b
<1>1. x = a * j /\ j \in Nat /\ a = b * k /\ k \in Nat
  OBVIOUS
<1> HIDE DEF j, k
<1>2. x = b * (k * j)
  BY <1>1
<1>3. k * j \in Nat
  BY <1>1
<1>4. (b * (k * j)) % b = 0
  BY <1>3
<1> QED
  BY <1>2, <1>4

\* Mask (x & !(a - 1)) is the greatest multiple of a that is at most x.
LEMMA MaskIsFloor ==
  ASSUME NEW x \in Nat, NEW a \in Nat \ {0}
  PROVE  /\ Mask(x, a) \in Nat
         /\ Mask(x, a) <= x
         /\ x < Mask(x, a) + a
         /\ Mask(x, a) % a = 0
         /\ \A m \in Nat : m % a = 0 /\ m <= x => m <= Mask(x, a)
<1> DEFINE k == x \div a
<1>1. x = a * k + (x % a) /\ k \in Nat /\ x % a \in 0..(a - 1)
  OBVIOUS
<1> HIDE DEF k
<1>2. a * k \in Nat
  BY <1>1
<1>3. Mask(x, a) = a * k
  BY <1>1, <1>2 DEF Mask
<1>4. (a * k) % a = 0
  BY <1>1
<1>5. Mask(x, a) \in Nat /\ Mask(x, a) <= x /\ x < Mask(x, a) + a /\ Mask(x, a) % a = 0
  BY <1>1, <1>2, <1>3, <1>4
<1>6. ASSUME NEW m \in Nat, m % a = 0, m <= x
      PROVE  m <= Mask(x, a)
  <2>1. SUFFICES ASSUME Mask(x, a) < m
                 PROVE  FALSE
    BY <1>5
  <2>2. Mask(x, a) + a <= m
    BY <1>5, <1>6, <2>1, MultipleGap
  <2> QED
    BY <1>5, <1>6, <2>2
<1> QED
  BY <1>5, <1>6

\* align_up (and round_up) is the least multiple of a that is at least v.
LEMMA AlignUpIsCeiling ==
  ASSUME NEW v \in Nat, NEW a \in Nat \ {0}
  PROVE  /\ AlignUp(v, a) \in Nat
         /\ v <= AlignUp(v, a)
         /\ AlignUp(v, a) < v + a
         /\ AlignUp(v, a) % a = 0
         /\ AlignUp(v, a) = round_up(v, a)
         /\ \A m \in Nat : m % a = 0 /\ v <= m => AlignUp(v, a) <= m
<1>0. v + (a - 1) \in Nat
  OBVIOUS
<1>1. /\ AlignUp(v, a) \in Nat
      /\ AlignUp(v, a) <= v + (a - 1)
      /\ v + (a - 1) < AlignUp(v, a) + a
      /\ AlignUp(v, a) % a = 0
  BY <1>0, MaskIsFloor DEF AlignUp
<1>2. AlignUp(v, a) = round_up(v, a)
  BY DEF AlignUp, round_up
<1>3. ASSUME NEW m \in Nat, m % a = 0, v <= m
      PROVE  AlignUp(v, a) <= m
  <2>1. SUFFICES ASSUME m < AlignUp(v, a)
                 PROVE  FALSE
    BY <1>1
  <2>2. m + a <= AlignUp(v, a)
    BY <1>1, <1>3, <2>1, MultipleGap
  <2> QED
    BY <1>1, <1>3, <2>2
<1> QED
  BY <1>1, <1>2, <1>3

\* When align_up reports overflow, no multiple of a from v up is an address.
LEMMA AlignUpFailsAtTop ==
  ASSUME NEW v \in Nat, NEW a \in Nat \ {0}, AlignUpFails(v, a),
         (U64_MAX + 1) % a = 0,
         NEW x \in Address, x % a = 0
  PROVE  x < v
<1>0. U64_MAX \in Nat /\ U64_MAX + 1 \in Nat
  BY SizeAssumption
<1>1. x \in Nat /\ x < U64_MAX + 1
  BY <1>0 DEF Address
<1>2. x + a <= U64_MAX + 1
  BY <1>0, <1>1, MultipleGap
<1> QED
  BY <1>0, <1>1, <1>2 DEF AlignUpFails

-----------------------------------------------------------------------------
(* What the inputs and the rounding operators give.                        *)

\* Multiples of GRAN and the largest address: the arithmetic SizeAssumption
\* gives every alignment used by plan().
LEMMA GranFacts ==
  /\ GRAN \in Nat \ {0} /\ U64_MAX \in Nat /\ U64_MAX + 1 \in Nat \ {0}
  /\ GRAN <= U64_MAX + 1
  /\ (U64_MAX + 1) % GRAN = 0 /\ GRAN % GRAN = 0 /\ 0 % GRAN = 0
<1>1. GRAN \in Nat \ {0} /\ U64_MAX \in Nat /\ U64_MAX + 1 >= GRAN /\ (U64_MAX + 1) % GRAN = 0
  BY SizeAssumption
<1>2. GRAN % GRAN = 0
  <2>1. (GRAN * 1) % GRAN = 0
    BY <1>1
  <2> QED
    BY <1>1, <2>1
<1>3. 0 % GRAN = 0
  <2>1. (GRAN * 0) % GRAN = 0
    BY <1>1
  <2> QED
    BY <1>1, <2>1
<1> QED
  BY <1>1, <1>2, <1>3

\* The sizes, alignments and starting points of first_fit's callers.
LEMMA RequestFacts ==
  ASSUME in \in Inputs, NEW region \in Searched
  PROVE  /\ Align(region) \in Nat \ {0}
         /\ Align(region) % GRAN = 0
         /\ (U64_MAX + 1) % Align(region) = 0
         /\ Start(region) \in Address
         /\ Size(region) \in Nat
         /\ Wanted(region) => Size(region) > 0
         /\ ArchiveSize \in Nat /\ ArchiveSize % GRAN = 0
         /\ FillSize \in Nat /\ FillSize % GRAN = 0
         /\ Size("initrd") = ArchiveSize + FillSize
<1>1. in \in PlannerInput
  BY InputAssumption
<1>2. in.kernel_size \in Nat \ {0} /\ in.initrd_size \in Nat /\ in.relocs_size \in Nat
      /\ in.min_gpa \in Address /\ in.kernel_align \in Nat \ {0} /\ in.bootconfig \in BOOLEAN
  BY <1>1, GranFacts DEF PlannerInput, Address
<1>3. in.kernel_align > GRAN =>
        in.kernel_align % GRAN = 0 /\ (U64_MAX + 1) % in.kernel_align = 0
  BY InputAssumption
<1>4. /\ Align(region) \in Nat \ {0} /\ Align(region) % GRAN = 0
      /\ (U64_MAX + 1) % Align(region) = 0
  BY <1>2, <1>3, GranFacts DEF Align
<1>5. Start(region) \in Address
  BY <1>2, GranFacts DEF Start, Address
<1>6. /\ ArchiveSize \in Nat /\ ArchiveSize % GRAN = 0 /\ in.initrd_size <= ArchiveSize
  BY <1>2, GranFacts, AlignUpIsCeiling DEF ArchiveSize
<1>7. FillSize \in Nat /\ FillSize % GRAN = 0
  BY <1>2, GranFacts DEF FillSize
<1>8. Size("initrd") = ArchiveSize + FillSize
  BY DEF Size
<1>9. Size(region) \in Nat /\ (Wanted(region) => Size(region) > 0)
  <2>1. CASE region = "linux"
    BY <1>2, <2>1 DEF Size, Wanted
  <2>2. CASE region = "initrd"
    BY <1>2, <1>6, <1>7, <2>2 DEF Size, Wanted
  <2>3. CASE region = "relocs"
    BY <1>2, <2>3 DEF Size, Wanted
  <2> QED
    BY <2>1, <2>2, <2>3 DEF Searched
<1> QED
  BY <1>4, <1>5, <1>6, <1>7, <1>8, <1>9

\* round_out yields ranges on unit boundaries, even when its addition wraps.
LEMMA RoundOutAligned ==
  ASSUME NEW r, r.start \in Address, r.end \in Nat
  PROVE  /\ round_out(r) \in Range
         /\ round_out(r).start % GRAN = 0
         /\ round_out(r).end % GRAN = 0
<1> DEFINE e == (r.end + (GRAN - 1)) % (U64_MAX + 1)
<1>1. r.end + (GRAN - 1) \in Nat /\ r.start \in Nat /\ r.start <= U64_MAX
  BY GranFacts DEF Address
<1>2. e \in Nat /\ e <= U64_MAX
  BY <1>1, GranFacts
<1> HIDE DEF e
<1>3. Mask(r.start, GRAN) \in Address /\ Mask(r.start, GRAN) % GRAN = 0
  <2>1. /\ Mask(r.start, GRAN) \in Nat /\ Mask(r.start, GRAN) <= r.start
        /\ Mask(r.start, GRAN) % GRAN = 0
    BY <1>1, GranFacts, MaskIsFloor
  <2> QED
    BY <1>1, <2>1, GranFacts DEF Address
<1>4. Mask(e, GRAN) \in Address /\ Mask(e, GRAN) % GRAN = 0
  <2>1. Mask(e, GRAN) \in Nat /\ Mask(e, GRAN) <= e /\ Mask(e, GRAN) % GRAN = 0
    BY <1>2, GranFacts, MaskIsFloor
  <2> QED
    BY <1>2, <2>1, GranFacts DEF Address
<1>5. round_out(r) = [start |-> Mask(r.start, GRAN), end |-> Mask(e, GRAN)]
  BY DEF round_out, Span, e
<1> QED
  BY <1>3, <1>4, <1>5 DEF Range

\* Where it does not wrap it yields exactly the units touched.
LEMMA RoundOutIsUnits ==
  ASSUME NEW r, r.start \in Address, r.end \in Nat, FarBelowMax(r)
  PROVE  round_out(r) = Units(r)
<1>1. r.end + (GRAN - 1) \in Nat /\ r.end + (GRAN - 1) < U64_MAX + 1
  BY GranFacts DEF FarBelowMax
<1>2. (r.end + (GRAN - 1)) % (U64_MAX + 1) = r.end + (GRAN - 1)
  BY <1>1, GranFacts
<1> QED
  BY <1>2 DEF round_out, Units, round_up

\* The units a range touches contain it, and no boundary lies between.
LEMMA UnitsFacts ==
  ASSUME NEW r, r.start \in Nat, r.end \in Nat
  PROVE  /\ Units(r).start \in Nat /\ Units(r).start <= r.start
         /\ Units(r).end \in Nat /\ r.end <= Units(r).end
         /\ \A m \in Nat : m % GRAN = 0 /\ m <= r.start => m <= Units(r).start
         /\ \A m \in Nat : m % GRAN = 0 /\ r.end <= m => Units(r).end <= m
<1>1. Units(r).start = Mask(r.start, GRAN) /\ Units(r).end = AlignUp(r.end, GRAN)
  BY DEF Units, Span, AlignUp, round_up
<1>2. /\ Mask(r.start, GRAN) \in Nat /\ Mask(r.start, GRAN) <= r.start
      /\ \A m \in Nat : m % GRAN = 0 /\ m <= r.start => m <= Mask(r.start, GRAN)
  BY GranFacts, MaskIsFloor
<1>3. /\ AlignUp(r.end, GRAN) \in Nat /\ r.end <= AlignUp(r.end, GRAN)
      /\ \A m \in Nat : m % GRAN = 0 /\ r.end <= m => AlignUp(r.end, GRAN) <= m
  BY GranFacts, AlignUpIsCeiling
<1> QED
  BY <1>1, <1>2, <1>3

-----------------------------------------------------------------------------
(* The inductive invariant.                                                *)

Covers(o, r) == o.start <= Units(r).start /\ Units(r).end <= o.end

Covered(r) == FarBelowMax(r) => \E o \in occupied : Covers(o, r)

\* Carve-outs lie on unit boundaries and cover what has been placed.
CarvedOut ==
  /\ \A o \in occupied : o.start % GRAN = 0 /\ o.end % GRAN = 0
  /\ \A s \in in.reserved : Covered(s)
  /\ \A p \in Payload \union {"pci_window"} : \A r \in layout[p] : Covered(r)

\* What has not been placed yet, by the point plan() has reached.
Progress ==
  /\ pc = "pci_window" => \A p \in Regions : layout[p] = {}
  /\ pc # "done" => layout["ecam"] = {} /\ layout["serial"] = {} /\ virtio = <<>>
  /\ layout["pci_window"] \subseteq {PciWindow}
  /\ cursor # Idle => pc \in Searched /\ Wanted(pc) /\ cursor % Align(pc) = 0

IInv ==
  /\ in \in Inputs
  /\ TypeOK
  /\ CarvedOut
  /\ Progress
  /\ PassedOverSlotsAreTaken
  /\ NoSharedUnit
  /\ DevicesDisjoint

\* A range that meets no carve-out o shares no unit with what o covers.
LEMMA CarveOutSeparates ==
  ASSUME NEW o \in Range, o.start % GRAN = 0, o.end % GRAN = 0,
         NEW r, r.start \in Nat, r.end \in Nat,
         NEW s, s.start \in Nat, s.end \in Nat, Covers(o, s),
         ~(o.start < o.end /\ Overlap(o, r))
  PROVE  ~SharesUnit(r, s) /\ ~SharesUnit(s, r)
<1>0. o.start \in Nat /\ o.end \in Nat
  BY GranFacts DEF Range, Address
<1>1. /\ Units(r).start \in Nat /\ Units(r).end \in Nat
      /\ \A m \in Nat : m % GRAN = 0 /\ m <= r.start => m <= Units(r).start
      /\ \A m \in Nat : m % GRAN = 0 /\ r.end <= m => Units(r).end <= m
  BY UnitsFacts
<1>2. Units(s).start \in Nat /\ Units(s).end \in Nat
  BY UnitsFacts
<1>3. SUFFICES ASSUME /\ Units(r).start < Units(r).end
                      /\ Units(s).start < Units(s).end
                      /\ Units(r).start < Units(s).end
                      /\ Units(s).start < Units(r).end
               PROVE  FALSE
  BY DEF SharesUnit, Overlap
<1>4. o.start < o.end
  BY <1>0, <1>2, <1>3 DEF Covers
<1>5. r.end <= o.start \/ o.end <= r.start
  BY <1>0, <1>4 DEF Overlap
<1>6. CASE r.end <= o.start
  <2>1. Units(r).end <= o.start
    BY <1>0, <1>1, <1>6
  <2> QED
    BY <1>0, <1>1, <1>2, <1>3, <2>1 DEF Covers
<1>7. CASE o.end <= r.start
  <2>1. o.end <= Units(r).start
    BY <1>0, <1>1, <1>7
  <2> QED
    BY <1>0, <1>1, <1>2, <1>3, <2>1 DEF Covers
<1> QED
  BY <1>5, <1>6, <1>7

-----------------------------------------------------------------------------
(* Each step preserves the invariant.                                      *)

\* Steps that place nothing keep what is said of the placed regions.
LEMMA Frame ==
  ASSUME IInv, UNCHANGED <<in, occupied, layout, virtio>>
  PROVE  /\ (in \in Inputs)' /\ CarvedOut' /\ NoSharedUnit' /\ DevicesDisjoint'
         /\ (in \in PlannerInput)' /\ (occupied \subseteq Range)'
         /\ (layout \in [Regions -> SUBSET Range])'
         /\ (virtio \in [1..in.mmio_slots -> Range] \union {<<>>})'
         /\ (layout["pci_window"] \subseteq {PciWindow})'
<1>1. in' = in /\ occupied' = occupied /\ layout' = layout /\ virtio' = virtio
  OBVIOUS
<1>2. CarvedOut'
  BY <1>1 DEF IInv, CarvedOut, Covered
<1>3. NoSharedUnit'
  BY <1>1 DEF IInv, NoSharedUnit
<1>4. DevicesDisjoint'
  BY <1>1 DEF IInv, DevicesDisjoint
<1>5. (layout["pci_window"] \subseteq {PciWindow})'
  BY <1>1 DEF IInv, Progress, PciWindow, high_floor
<1> QED
  BY <1>1, <1>2, <1>3, <1>4, <1>5 DEF IInv, TypeOK

\* Idle is not an address, so a cursor inside first_fit's loop is never
\* mistaken for none.
LEMMA IdleFacts == Idle \notin Address /\ Idle \notin Nat
BY GranFacts DEF Idle, Address

\* An error return of plan() keeps the inductive invariant: it changes only
\* pc, err and the cursor.
LEMMA FailPreserves ==
  ASSUME IInv, pc # "done",
         NEW e \in {"WindowTooLarge", "Overflow", "DoesNotFit"}, Fail(e)
  PROVE  IInv'
<1>1. UNCHANGED <<in, occupied, layout, virtio>> /\ pc' = "failed" /\ err' = e /\ cursor' = Idle
  BY DEF Fail
<1>2. TypeOK'
  BY <1>1, Frame DEF TypeOK
<1>3. Progress'
  BY <1>1, Frame DEF IInv, Progress
<1>4. PassedOverSlotsAreTaken'
  BY <1>1 DEF PassedOverSlotsAreTaken
<1> QED
  BY <1>1, <1>2, <1>3, <1>4, Frame DEF IInv

\* Leaving out an absent initrd or relocation table keeps the inductive
\* invariant.
LEMMA SkipPreserves ==
  ASSUME IInv, NEW region \in Searched, Skip(region)
  PROVE  IInv'
<1>1. /\ UNCHANGED <<in, occupied, layout, virtio>> /\ pc = region /\ pc' = After(region)
      /\ cursor = Idle /\ cursor' = Idle /\ err' = err
  BY DEF Skip
<1>2. pc' \in {"initrd", "relocs", "band"} /\ pc # "done"
  BY <1>1 DEF After, Searched
<1>3. TypeOK'
  BY <1>1, <1>2, Frame DEF IInv, TypeOK, Searched
<1>4. Progress'
  BY <1>1, <1>2, Frame DEF IInv, Progress
<1>5. PassedOverSlotsAreTaken'
  BY <1>1 DEF PassedOverSlotsAreTaken
<1> QED
  BY <1>1, <1>3, <1>4, <1>5, Frame DEF IInv

\* Size, Align, Start, Wanted and Conflicts read in and occupied only.
LEMMA RequestFrame ==
  ASSUME NEW region \in Searched, UNCHANGED <<in, occupied>>
  PROVE  /\ Size(region)' = Size(region) /\ Align(region)' = Align(region)
         /\ Start(region)' = Start(region) /\ (Wanted(region)' <=> Wanted(region))
         /\ \A x : Conflicts(region, x)' = Conflicts(region, x)
<1>1. Size(region)' = Size(region)
  BY DEF Size, ArchiveSize, FillSize
<1>2. Align(region)' = Align(region) /\ Start(region)' = Start(region)
  BY DEF Align, Start
<1>3. Wanted(region)' <=> Wanted(region)
  BY DEF Wanted
<1>4. \A x : Conflicts(region, x)' = Conflicts(region, x)
  BY <1>1 DEF Conflicts, Candidate
<1> QED
  BY <1>1, <1>2, <1>3, <1>4

\* A new cursor: the facts common to entering the loop and to a hop.
LEMMA CursorPreserves ==
  ASSUME IInv, NEW region \in Searched, pc = region,
         UNCHANGED <<in, pc, occupied, layout, virtio, err>>,
         Wanted(region),
         cursor' \in Address, cursor' % Align(region) = 0,
         \A x \in Start(region)..(cursor' - 1) :
            x % Align(region) = 0 => Conflicts(region, x) # {}
  PROVE  IInv'
<1>0. UNCHANGED <<in, occupied, layout, virtio>> /\ pc' = region /\ pc' = pc /\ err' = err
  OBVIOUS
<1>1. TypeOK'
  BY <1>0, Frame DEF IInv, TypeOK
<1>2. Align(pc)' = Align(region) /\ Start(pc)' = Start(region) /\ Wanted(pc)'
      /\ \A x : Conflicts(pc, x)' = Conflicts(region, x)
  BY <1>0, RequestFrame
<1>3. Progress'
  BY <1>0, <1>2, Frame DEF IInv, Progress, Searched
<1>4. PassedOverSlotsAreTaken'
  BY <1>0, <1>2 DEF PassedOverSlotsAreTaken
<1> QED
  BY <1>0, <1>1, <1>3, <1>4, Frame DEF IInv

\* align_up within the address space.
LEMMA AlignUpInRange ==
  ASSUME NEW v \in Nat, NEW a \in Nat \ {0}, ~AlignUpFails(v, a)
  PROVE  AlignUp(v, a) \in Address /\ AlignUp(v, a) % a = 0 /\ v <= AlignUp(v, a)
<1>1. /\ AlignUp(v, a) \in Nat /\ AlignUp(v, a) < v + a
      /\ AlignUp(v, a) % a = 0 /\ v <= AlignUp(v, a)
  BY AlignUpIsCeiling
<1> QED
  BY <1>1, GranFacts DEF AlignUpFails, Address

\* Entering first_fit's loop keeps the inductive invariant: nothing aligned
\* lies between the start and the first candidate.
LEMMA BeginPreserves ==
  ASSUME IInv, NEW region \in Searched, Begin(region)
  PROVE  IInv'
<1> DEFINE a == Align(region)
           g == AlignUp(Start(region), a)
<1>0. /\ pc = region /\ UNCHANGED <<in, pc, occupied, layout, virtio, err>>
      /\ Wanted(region) /\ cursor' = g /\ ~AlignUpFails(Start(region), a)
  BY DEF Begin, CallFails
<1>1. a \in Nat \ {0} /\ Start(region) \in Nat
  BY RequestFacts, GranFacts DEF IInv, Address
<1>2. g \in Address /\ g % a = 0
  BY <1>0, <1>1, AlignUpInRange
<1>3. ASSUME NEW x \in Start(region)..(g - 1), x % a = 0
      PROVE  FALSE
  <2>1. x \in Nat /\ Start(region) <= x /\ g \in Nat /\ x < g
    BY <1>1, <1>2, <1>3, GranFacts DEF Address
  <2>2. g <= x
    BY <1>1, <1>3, <2>1, AlignUpIsCeiling
  <2> QED
    BY <2>1, <2>2
<1> HIDE DEF g, a
<1> QED
  BY <1>0, <1>2, <1>3, CursorPreserves DEF a

\* A conflict blocks every slot from the one it was met at up to its own end.
LEMMA ConflictBlocks ==
  ASSUME IInv, NEW region \in Searched,
         NEW g \in Nat, NEW c \in Conflicts(region, g),
         NEW x \in Nat, g <= x, x < c.end
  PROVE  Conflicts(region, x) # {}
<1>1. Size(region) \in Nat
  BY RequestFacts DEF IInv
<1>2. c \in occupied /\ c.start \in Nat /\ c.end \in Nat
  BY GranFacts DEF IInv, TypeOK, Conflicts, Range, Address
<1>3. c.end > c.start /\ c.start < g + Size(region)
  BY DEF Conflicts, Overlap, Candidate, Span
<1>4. c.start < x + Size(region)
  BY <1>1, <1>2, <1>3
<1>5. c \in Conflicts(region, x)
  BY <1>2, <1>3, <1>4 DEF Conflicts, Overlap, Candidate, Span
<1> QED
  BY <1>5

\* Hopping the lowest conflict keeps the inductive invariant: every aligned
\* slot passed over runs into the hopped carve-out.
LEMMA HopPreserves ==
  ASSUME IInv, NEW region \in Searched, Hop(region)
  PROVE  IInv'
<1> DEFINE a == Align(region)
<1>0. /\ pc = region /\ UNCHANGED <<in, pc, occupied, layout, virtio, err>> /\ cursor # Idle
  BY DEF Hop
<1>1. PICK c \in Conflicts(region, cursor) :
        ~AlignUpFails(c.end, a) /\ cursor' = AlignUp(c.end, a)
  BY DEF Hop
<1>2. a \in Nat \ {0} /\ Start(region) \in Nat
  BY RequestFacts, GranFacts DEF IInv, Address
<1>3. c \in occupied /\ c.end \in Nat /\ cursor \in Nat
  BY <1>0, GranFacts DEF IInv, TypeOK, Conflicts, Range, Address
<1> DEFINE g == AlignUp(c.end, a)
<1>4. g \in Address /\ g % a = 0
  BY <1>1, <1>2, <1>3, AlignUpInRange
<1>5. Wanted(region) /\ g \in Nat
  BY <1>0, <1>4, GranFacts DEF IInv, Progress, Address
<1>6. ASSUME NEW x \in Start(region)..(g - 1), x % a = 0
      PROVE  Conflicts(region, x) # {}
  <2>1. x \in Nat /\ Start(region) <= x /\ x < g
    BY <1>2, <1>5
  <2>2. CASE x < cursor
    BY <1>0, <1>2, <1>3, <1>6, <2>1, <2>2 DEF IInv, PassedOverSlotsAreTaken
  <2>3. CASE cursor <= x
    <3>1. x < c.end
      <4>1. SUFFICES ASSUME c.end <= x
                     PROVE  FALSE
        BY <1>3, <2>1
      <4>2. AlignUp(c.end, a) <= x
        BY <1>2, <1>3, <1>6, <2>1, <4>1, AlignUpIsCeiling
      <4> QED
        BY <1>5, <2>1, <4>2
    <3> QED
      BY <1>3, <2>1, <2>3, <3>1, ConflictBlocks
  <2> QED
    BY <1>3, <2>1, <2>2, <2>3
<1>7. cursor' = g
  BY <1>1
<1> HIDE DEF a, g
<1> QED
  BY <1>0, <1>4, <1>5, <1>6, <1>7, CursorPreserves DEF a

\* What adding a carve-out for a range r gives.
LEMMA CarveOutAdded ==
  ASSUME IInv, NEW r, r.start \in Address, r.end \in Nat,
         occupied' = occupied \union {round_out(r)}, in' = in
  PROVE  /\ occupied' \subseteq Range
         /\ \A o \in occupied' : o.start % GRAN = 0 /\ o.end % GRAN = 0
         /\ Covered(r)'
         /\ \A s : Covered(s) => Covered(s)'
<1>1. round_out(r) \in Range /\ round_out(r).start % GRAN = 0 /\ round_out(r).end % GRAN = 0
  BY RoundOutAligned
<1>2. occupied' \subseteq Range
  BY <1>1 DEF IInv, TypeOK
<1>3. \A o \in occupied' : o.start % GRAN = 0 /\ o.end % GRAN = 0
  BY <1>1 DEF IInv, CarvedOut
<1>4. Covered(r)'
  <2>1. SUFFICES ASSUME FarBelowMax(r)
                 PROVE  \E o \in occupied' : Covers(o, r)
    BY DEF Covered
  <2>2. round_out(r) = Units(r) /\ round_out(r) \in occupied'
    BY <2>1, RoundOutIsUnits
  <2>3. Units(r).start \in Nat /\ Units(r).end \in Nat
    BY GranFacts, UnitsFacts DEF Address
  <2>4. Covers(round_out(r), r)
    BY <2>2, <2>3 DEF Covers
  <2> QED
    BY <2>2, <2>4
<1>5. \A s : Covered(s) => Covered(s)'
  BY DEF Covered
<1> QED
  BY <1>2, <1>3, <1>4, <1>5

\* What PlannerInput and InputAssumption say of the current input: its sizes
\* and alignments are usable numbers.
LEMMA InputFacts ==
  ASSUME in \in Inputs
  PROVE  /\ in \in PlannerInput
         /\ \A s \in in.reserved : s \in Range /\ FarBelowMax(s) /\ s.start \in Nat /\ s.end \in Nat
         /\ high_floor \in Address
         /\ in.mmio_slots \in Nat /\ in.pci_slots \in Nat /\ in.serial \in BOOLEAN
         /\ in.window_bits + 2 <= in.addr_space_bits =>
              /\ PciWindow \in Range
              /\ PciWindow.start = high_floor /\ PciWindow.end \in Nat
<1>1. in \in PlannerInput
  BY InputAssumption
<1>2. in.reserved \subseteq Range
  BY <1>1 DEF PlannerInput
<1>3. \A s \in in.reserved : s.end + GRAN <= U64_MAX
  BY InputAssumption
<1>4. \A s \in in.reserved : s \in Range /\ FarBelowMax(s) /\ s.start \in Nat /\ s.end \in Nat
  BY <1>2, <1>3, GranFacts DEF Range, Address, FarBelowMax
<1>5. high_floor \in Address
  BY InputAssumption DEF high_floor
<1>6. in.mmio_slots \in Nat /\ in.pci_slots \in Nat /\ in.serial \in BOOLEAN
  BY <1>1 DEF PlannerInput
<1>7. ASSUME in.window_bits + 2 <= in.addr_space_bits
      PROVE  PciWindow \in Range /\ PciWindow.start = high_floor /\ PciWindow.end \in Nat
  <2>1. Pow2(in.window_bits) \in Nat /\ high_floor + Pow2(in.window_bits) + GRAN <= U64_MAX
    BY <1>7, InputAssumption DEF high_floor
  <2>2. high_floor \in Nat
    BY <1>5, GranFacts DEF Address
  <2>3. high_floor + Pow2(in.window_bits) \in Address
    BY <2>1, <2>2, GranFacts DEF Address
  <2> QED
    BY <1>5, <2>1, <2>2, <2>3 DEF PciWindow, Span, Range
<1> QED
  BY <1>1, <1>4, <1>5, <1>6, <1>7

\* Placing the PCI window keeps the inductive invariant.
LEMMA WindowPreserves ==
  ASSUME IInv, PlaceWindow
  PROVE  IInv'
<1>0. /\ pc = "pci_window" /\ pc' = "linux" /\ in' = in /\ virtio' = virtio /\ virtio = <<>>
      /\ cursor' = cursor /\ err' = err /\ in \in Inputs
      /\ layout \in [Regions -> SUBSET Range] /\ \A p \in Regions : layout[p] = {}
  BY DEF IInv, TypeOK, Progress, PlaceWindow
<1>1. cursor = Idle
  BY <1>0 DEF IInv, Progress, Searched
<1>2. PciWindow' = PciWindow
  BY <1>0 DEF PciWindow, high_floor
<1>3. /\ layout'["pci_window"] \subseteq {PciWindow}
      /\ layout' \in [Regions -> SUBSET Range]
      /\ occupied' \subseteq Range
      /\ CarvedOut'
  <2>1. CASE in.pci_slots > 0
    <3>1. /\ layout' = [layout EXCEPT !["pci_window"] = {PciWindow}]
          /\ occupied' = occupied \union {round_out(PciWindow)}
          /\ in.window_bits + 2 <= in.addr_space_bits
      BY <2>1 DEF PlaceWindow
    <3>2. PciWindow \in Range /\ PciWindow.start \in Address /\ PciWindow.end \in Nat
      BY <1>0, <3>1, InputFacts
    <3>3. /\ occupied' \subseteq Range
          /\ \A o \in occupied' : o.start % GRAN = 0 /\ o.end % GRAN = 0
          /\ Covered(PciWindow)'
          /\ \A s : Covered(s) => Covered(s)'
      BY <1>0, <1>2, <3>1, <3>2, CarveOutAdded
    <3>4. /\ layout'["pci_window"] = {PciWindow}
          /\ \A p \in Payload : layout'[p] = {}
          /\ layout' \in [Regions -> SUBSET Range]
      BY <1>0, <3>1, <3>2 DEF Payload, Regions, Searched
    <3>5. \A r \in {PciWindow} : Covered(r)'
      BY <3>3, <1>2
    <3>6. CarvedOut'
      BY <1>0, <3>3, <3>4, <3>5 DEF IInv, CarvedOut
    <3> QED
      BY <3>3, <3>4, <3>6
  <2>2. CASE ~(in.pci_slots > 0)
    <3>1. layout' = [layout EXCEPT !["pci_window"] = {}] /\ occupied' = occupied
      BY <2>2 DEF PlaceWindow
    <3>2. layout' = layout
      BY <1>0, <3>1 DEF Regions
    <3>3. CarvedOut'
      BY <1>0, <3>1, <3>2 DEF IInv, CarvedOut, Covered
    <3> QED
      BY <1>0, <3>1, <3>2, <3>3 DEF IInv, TypeOK, Regions
  <2> QED
    BY <2>1, <2>2
<1>4. \A p \in Regions : p # "pci_window" => layout'[p] = {}
  BY <1>0 DEF PlaceWindow
<1>5. TypeOK'
  BY <1>0, <1>3 DEF IInv, TypeOK, Searched
<1>6. Progress'
  BY <1>0, <1>1, <1>2, <1>3, <1>4 DEF Progress, Regions
<1>7. PassedOverSlotsAreTaken'
  BY <1>0, <1>1 DEF PassedOverSlotsAreTaken
<1>8. DOMAIN virtio' = {}
  BY <1>0
<1>9. NoSharedUnit'
  <2>1. "pci_window" \notin Payload \union {"ecam", "serial"} /\ Payload \union {"ecam", "serial"} \subseteq Regions
    BY DEF Payload, Regions, Searched
  <2> QED
    BY <1>4, <1>8, <2>1 DEF NoSharedUnit
<1>10. DevicesDisjoint'
  BY <1>4, <1>8 DEF DevicesDisjoint, Mmio, Regions
<1> QED
  BY <1>0, <1>3, <1>5, <1>6, <1>7, <1>9, <1>10 DEF IInv

\* A slot on unit boundaries below U64_MAX + 1 ends a whole unit below it.
LEMMA AlignedEndIsFar ==
  ASSUME NEW e \in Address, e % GRAN = 0
  PROVE  e + (GRAN - 1) <= U64_MAX
<1>1. e \in Nat /\ e < U64_MAX + 1
  BY GranFacts DEF Address
<1>2. e + GRAN <= U64_MAX + 1
  BY <1>1, GranFacts, MultipleGap
<1> QED
  BY <1>1, <1>2, GranFacts

\* Ranges that meet only at a unit boundary share no unit.
LEMMA BoundarySeparates ==
  ASSUME NEW r, r.start \in Nat, r.end \in Nat,
         NEW s, s.start \in Nat, s.end \in Nat,
         NEW m \in Nat, m % GRAN = 0, r.end <= m, m <= s.start
  PROVE  ~SharesUnit(r, s) /\ ~SharesUnit(s, r)
<1>1. Units(r).end \in Nat /\ Units(r).end <= m /\ Units(r).start \in Nat
  BY UnitsFacts
<1>2. Units(s).start \in Nat /\ m <= Units(s).start /\ Units(s).end \in Nat
  BY UnitsFacts
<1> QED
  BY <1>1, <1>2 DEF SharesUnit, Overlap

\* The carve-out of a slot covers every part of the slot.
LEMMA PartCovered ==
  ASSUME NEW f, f.start \in Address, f.end \in Address, FarBelowMax(f),
         round_out(f) \in occupied',
         NEW r, r.start \in Nat, r.end \in Nat, f.start <= r.start, r.end <= f.end
  PROVE  Covered(r)'
<1>0. f.start \in Nat /\ f.end \in Nat
  BY GranFacts DEF Address
<1>1. round_out(f) = Units(f) /\ Units(f).start % GRAN = 0 /\ Units(f).end % GRAN = 0
  BY <1>0, RoundOutAligned, RoundOutIsUnits
<1>2. /\ Units(f).start \in Nat /\ Units(f).start <= f.start
      /\ Units(f).end \in Nat /\ f.end <= Units(f).end
  BY <1>0, UnitsFacts
<1>3. Units(f).start <= r.start /\ r.end <= Units(f).end
  BY <1>0, <1>2
<1>4. Units(f).start <= Units(r).start /\ Units(r).end <= Units(f).end
  BY <1>1, <1>2, <1>3, UnitsFacts
<1>5. Covers(round_out(f), r)
  BY <1>1, <1>4 DEF Covers
<1> QED
  BY <1>5 DEF Covered

\* Returning a slot from first_fit keeps the inductive invariant: the slot
\* conflicts with no carve-out, so it shares no unit with one.
LEMMA PlacePreserves ==
  ASSUME IInv, NEW region \in Searched, Place(region)
  PROVE  IInv'
<1> DEFINE found == Candidate(region, cursor)
           archive == Span(cursor, cursor + ArchiveSize)
           fill == Span(cursor + ArchiveSize, found.end)
           New(r) == r \in Range /\ found.start <= r.start /\ r.end <= found.end
           Changed == IF region = "initrd" /\ in.bootconfig THEN {"initrd", "bootconfig"} ELSE {region}
<1>0. /\ pc = region /\ cursor # Idle /\ pc' = After(region) /\ cursor' = Idle
      /\ in' = in /\ virtio' = virtio /\ err' = err
      /\ cursor + Size(region) <= U64_MAX /\ Conflicts(region, cursor) = {}
      /\ occupied' = occupied \union {round_out(found)}
      /\ layout' = [layout EXCEPT
           ![region] = IF region = "initrd" THEN {archive} ELSE {found},
           !["bootconfig"] = IF region = "initrd" /\ in.bootconfig THEN {fill} ELSE @]
  BY DEF Place
<1>1. in \in Inputs /\ TypeOK /\ layout \in [Regions -> SUBSET Range] /\ region # "done"
  BY DEF IInv, TypeOK, Searched
<1>2. /\ cursor \in Nat /\ cursor \in Address /\ Size(region) \in Nat
      /\ ArchiveSize \in Nat /\ ArchiveSize % GRAN = 0
      /\ FillSize \in Nat /\ FillSize % GRAN = 0
  BY <1>0, <1>1, RequestFacts, GranFacts DEF TypeOK, Address
<1>3. /\ found.start = cursor /\ found.end = cursor + Size(region)
      /\ found \in Range /\ found.start \in Nat /\ found.end \in Nat
      /\ found.start \in Address /\ found.end \in Address
  BY <1>0, <1>2, GranFacts DEF Candidate, Span, Range, Address
<1>4. cursor % GRAN = 0
  <2>1. Align(region) \in Nat \ {0} /\ Align(region) % GRAN = 0
    BY <1>1, RequestFacts
  <2>2. cursor % Align(region) = 0
    BY <1>0 DEF IInv, Progress
  <2> QED
    BY <1>2, <2>1, <2>2, GranFacts, MultipleTrans
<1>5. ASSUME region = "initrd"
      PROVE  /\ New(archive) /\ New(fill)
             /\ archive.end = cursor + ArchiveSize /\ fill.start = cursor + ArchiveSize
             /\ (cursor + ArchiveSize) % GRAN = 0
             /\ FarBelowMax(found)
  <2>1. found.end = cursor + ArchiveSize + FillSize
    BY <1>1, <1>2, <1>3, <1>5, RequestFacts
  <2>2. cursor + ArchiveSize \in Nat /\ (cursor + ArchiveSize) % GRAN = 0
    <3>1. (cursor + ArchiveSize) % GRAN = 0
      BY <1>2, <1>4, GranFacts, MultipleSum
    <3> QED
      BY <1>2, <3>1
  <2>3. (cursor + ArchiveSize + FillSize) % GRAN = 0
    BY <1>2, <2>2, GranFacts, MultipleSum
  <2>4. cursor + ArchiveSize \in Address /\ cursor + ArchiveSize <= found.end
    BY <1>2, <1>3, <2>1, <2>2, GranFacts DEF Address
  <2>5. FarBelowMax(found)
    BY <1>3, <2>1, <2>3, AlignedEndIsFar DEF FarBelowMax
  <2>6. archive = [start |-> cursor, end |-> cursor + ArchiveSize]
        /\ fill = [start |-> cursor + ArchiveSize, end |-> found.end]
    BY DEF Span
  <2>7. New(archive) /\ New(fill)
    BY <1>2, <1>3, <2>4, <2>6 DEF Range
  <2> QED
    BY <2>2, <2>5, <2>6, <2>7
<1> HIDE DEF found, archive, fill
<1>6. /\ layout' \in [Regions -> SUBSET Range]
      /\ \A p \in Regions : p \notin Changed => layout'[p] = layout[p]
      /\ \A p \in Changed : \A r \in layout'[p] : New(r)
      /\ Changed \subseteq Payload
  <2>1. CASE region = "initrd" /\ in.bootconfig
    <3>1. /\ layout'["initrd"] = {archive} /\ layout'["bootconfig"] = {fill}
          /\ \A p \in Regions : p \notin {"initrd", "bootconfig"} => layout'[p] = layout[p]
      BY <1>0, <1>1, <2>1 DEF Regions, Searched
    <3>2. layout' \in [Regions -> SUBSET Range]
      BY <1>0, <1>1, <1>3, <1>5, <2>1 DEF Regions, Searched
    <3> QED
      BY <1>5, <2>1, <3>1, <3>2 DEF Payload
  <2>2. CASE region = "initrd" /\ ~in.bootconfig
    <3>1. /\ layout'["initrd"] = {archive}
          /\ \A p \in Regions : p # "initrd" => layout'[p] = layout[p]
      BY <1>0, <1>1, <2>2 DEF Regions, Searched
    <3>2. layout' \in [Regions -> SUBSET Range]
      BY <1>0, <1>1, <1>3, <1>5, <2>2 DEF Regions, Searched
    <3> QED
      BY <1>5, <2>2, <3>1, <3>2 DEF Payload
  <2>3. CASE region # "initrd"
    <3>1. /\ layout'[region] = {found}
          /\ \A p \in Regions : p # region => layout'[p] = layout[p]
          /\ layout' \in [Regions -> SUBSET Range]
      BY <1>0, <1>1, <1>3, <2>3 DEF Regions, Searched
    <3> QED
      BY <1>3, <2>3, <3>1 DEF Searched, Payload
  <2> QED
    BY <2>1, <2>2, <2>3
<1>7. PICK f : f = found
  OBVIOUS
<1>7a. /\ occupied' \subseteq Range
       /\ \A o \in occupied' : o.start % GRAN = 0 /\ o.end % GRAN = 0
       /\ Covered(f)' /\ \A s : Covered(s) => Covered(s)'
  <2>1. f.start \in Address /\ f.end \in Nat /\ occupied' = occupied \union {round_out(f)} /\ in' = in
    BY <1>0, <1>3, <1>7
  <2> QED
    BY <2>1, CarveOutAdded
<1>8. \A p \in Changed : \A r \in layout'[p] : Covered(r)'
  <2>1. CASE region = "initrd"
    <3>1. SUFFICES ASSUME NEW p \in Changed, NEW r \in layout'[p]
                   PROVE  Covered(r)'
      OBVIOUS
    <3>2. New(r) /\ r.start \in Nat /\ r.end \in Nat
      BY <1>6, <3>1, GranFacts DEF Range, Address
    <3>3. round_out(found) \in occupied' /\ FarBelowMax(found)
      BY <1>0, <1>5, <2>1
    <3> QED
      BY <1>3, <3>2, <3>3, PartCovered
  <2>2. CASE region # "initrd"
    <3>1. layout'[region] = {f} /\ Changed = {region}
      BY <1>0, <1>1, <1>7, <2>2 DEF Regions, Searched
    <3>2. \A r \in {f} : Covered(r)'
      BY <1>7a
    <3> QED
      BY <3>1, <3>2
  <2> QED
    BY <2>1, <2>2
<1>9. CarvedOut'
  <2>1. \A p \in Payload \union {"pci_window"} : \A r \in layout'[p] : Covered(r)'
    BY <1>6, <1>7a, <1>8 DEF IInv, CarvedOut, Payload, Regions, Searched
  <2>2. \A s \in in.reserved : Covered(s)'
    BY <1>7a DEF IInv, CarvedOut
  <2> QED
    BY <1>0, <1>7a, <2>1, <2>2 DEF CarvedOut
\* The new ranges stay clear of everything an earlier carve-out covers.
<1>10. ASSUME NEW r, New(r),
              NEW s, s.start \in Nat, s.end \in Nat, Covered(s)
       PROVE  Apart(r, s) /\ Apart(s, r)
  <2>1. SUFFICES ASSUME FarBelowMax(s)
                 PROVE  ~SharesUnit(r, s) /\ ~SharesUnit(s, r)
    BY DEF Apart
  <2>2. PICK o \in occupied : Covers(o, s)
    BY <1>10, <2>1 DEF Covered
  <2>3. o \in Range /\ o.start % GRAN = 0 /\ o.end % GRAN = 0 /\ o.start \in Nat /\ o.end \in Nat
    BY <1>1, GranFacts DEF IInv, TypeOK, CarvedOut, Range, Address
  <2>4. r.start \in Nat /\ r.end \in Nat
    BY <1>10, GranFacts DEF Range, Address
  <2>5. ~(o.start < o.end /\ Overlap(o, found))
    BY <1>0 DEF Conflicts, found
  <2>6. ~(o.start < o.end /\ Overlap(o, r))
    BY <1>3, <1>10, <2>3, <2>4, <2>5 DEF Overlap
  <2> QED
    BY <1>10, <2>2, <2>3, <2>4, <2>6, CarveOutSeparates
<1>11. \A p \in Regions : \A r \in layout[p] : r.start \in Nat /\ r.end \in Nat
  BY <1>1, GranFacts DEF Range, Address
<1>12. layout["ecam"] = {} /\ layout["serial"] = {} /\ virtio = <<>> /\ DOMAIN virtio = {}
  BY <1>0, <1>1 DEF IInv, Progress
<1>13. NoSharedUnit'
  <2>1. ASSUME NEW p \in Payload, NEW q \in Regions, p # q,
               NEW r \in layout'[p], NEW s \in layout'[q]
        PROVE  Apart(r, s)
    <3>0. p \in Regions
      BY DEF Payload, Regions, Searched
    <3>1. CASE p \notin Changed /\ q \notin Changed
      BY <1>6, <2>1, <3>0, <3>1 DEF IInv, NoSharedUnit
    <3>2. CASE p \in Changed /\ q \notin Changed
      <4>1. s \in layout[q] /\ q \in Payload \union {"pci_window"}
        BY <1>6, <1>12, <2>1, <3>2 DEF Regions, Searched, Payload
      <4>2. Covered(s)
        BY <4>1 DEF IInv, CarvedOut
      <4> QED
        BY <1>6, <1>10, <1>11, <2>1, <3>2, <4>1, <4>2
    <3>3. CASE p \notin Changed /\ q \in Changed
      <4>1. r \in layout[p]
        BY <1>6, <2>1, <3>0, <3>3
      <4>2. Covered(r)
        BY <4>1 DEF IInv, CarvedOut
      <4> QED
        BY <1>6, <1>10, <1>11, <2>1, <3>0, <3>3, <4>1, <4>2
    <3>4. CASE p \in Changed /\ q \in Changed
      <4>1. /\ region = "initrd" /\ in.bootconfig
            /\ layout'["initrd"] = {archive} /\ layout'["bootconfig"] = {fill}
        BY <1>0, <1>1, <2>1, <3>4 DEF Regions, Searched
      <4>2. ~SharesUnit(archive, fill) /\ ~SharesUnit(fill, archive)
        <5>1. /\ archive.start \in Nat /\ archive.end \in Nat
              /\ fill.start \in Nat /\ fill.end \in Nat
          BY <1>5, <4>1, GranFacts DEF Range, Address
        <5>2. archive.end <= archive.end /\ archive.end % GRAN = 0 /\ archive.end <= fill.start
          BY <1>5, <4>1, <5>1
        <5> QED
          BY <5>1, <5>2, BoundarySeparates
      <4> QED
        BY <2>1, <3>4, <4>1, <4>2 DEF Apart
    <3> QED
      BY <3>1, <3>2, <3>3, <3>4
  <2>2. ASSUME NEW p \in Payload \union {"ecam", "serial"},
               NEW r \in layout'[p], NEW s \in in.reserved
        PROVE  Apart(r, s)
    <3>0. p \in Regions
      BY DEF Payload, Regions, Searched
    <3>1. CASE p \in Changed
      <4>1. s.start \in Nat /\ s.end \in Nat /\ Covered(s)
        BY <1>1, InputFacts DEF IInv, CarvedOut
      <4> QED
        BY <1>6, <1>10, <3>1, <4>1
    <3>2. CASE p \notin Changed
      BY <1>6, <3>0, <3>2 DEF IInv, NoSharedUnit
    <3> QED
      BY <3>1, <3>2
  <2>3. DOMAIN virtio' = {}
    BY <1>0, <1>12
  <2> QED
    BY <1>0, <2>1, <2>2, <2>3 DEF NoSharedUnit
<1>14. pc' \in {"initrd", "relocs", "band"}
  BY <1>0 DEF After, Searched
<1>15. TypeOK'
  BY <1>0, <1>1, <1>6, <1>7a, <1>14 DEF TypeOK, Searched
<1>16. layout'["ecam"] = {} /\ layout'["serial"] = {} /\ layout'["pci_window"] = layout["pci_window"]
  BY <1>6, <1>12 DEF Regions, Searched, Payload
<1>17. Progress'
  <2>1. PciWindow' = PciWindow
    BY <1>0 DEF PciWindow, high_floor
  <2> QED
    BY <1>0, <1>12, <1>14, <1>16, <2>1 DEF IInv, Progress
<1>18. PassedOverSlotsAreTaken'
  BY <1>0 DEF PassedOverSlotsAreTaken
<1>19. DevicesDisjoint'
  BY <1>0, <1>12, <1>16 DEF DevicesDisjoint, Mmio
<1> QED
  BY <1>0, <1>1, <1>9, <1>13, <1>15, <1>17, <1>18, <1>19 DEF IInv

\* The offsets of the virtio transports, VIRTIO_SIZE apart.
LEMMA StrideFacts ==
  ASSUME NEW k \in Nat, NEW n \in 1..k
  PROVE  /\ (n - 1) * VIRTIO_SIZE \in Nat /\ n * VIRTIO_SIZE \in Nat
         /\ n * VIRTIO_SIZE <= k * VIRTIO_SIZE /\ k * VIRTIO_SIZE \in Nat
         /\ \A m \in 1..k : m < n => m * VIRTIO_SIZE <= (n - 1) * VIRTIO_SIZE
<1>1. VIRTIO_SIZE \in Nat \ {0}
  BY SizeAssumption
<1>2. ASSUME NEW i \in Nat, NEW j \in Nat, i <= j
      PROVE  i * VIRTIO_SIZE <= j * VIRTIO_SIZE /\ i * VIRTIO_SIZE \in Nat /\ j * VIRTIO_SIZE \in Nat
  BY <1>1, <1>2
<1> QED
  BY <1>2

\* Carving the device band keeps the inductive invariant: the band avoids
\* every carve-out and its parts are consecutive.
LEMMA BandPreserves ==
  ASSUME IInv, PlaceBand
  PROVE  IInv'
<1> DEFINE base == high_floor - band_size
           serial == base + EcamSize
           first == serial + SerialSize
           k == in.mmio_slots
           Dev(d) == d \in Range /\ base <= d.start /\ d.end <= high_floor
<1>0. /\ pc = "band" /\ pc' = "done" /\ high_floor >= band_size /\ ~BandConflict
      /\ in' = in /\ occupied' = occupied /\ cursor' = cursor /\ err' = err
      /\ layout' = [layout EXCEPT
           !["ecam"]   = IF in.pci_slots > 0 THEN {Span(base, base + ECAM_SIZE)} ELSE {},
           !["serial"] = IF in.serial THEN {Span(serial, serial + SERIAL_SIZE)} ELSE {}]
      /\ virtio' = [n \in 1..k |->
                      Span(first + (n - 1) * VIRTIO_SIZE, first + n * VIRTIO_SIZE)]
  BY DEF PlaceBand, carve_band
<1>1. /\ in \in Inputs /\ layout \in [Regions -> SUBSET Range] /\ cursor = Idle
      /\ high_floor \in Nat /\ high_floor <= U64_MAX /\ k \in Nat
      /\ in.pci_slots \in Nat /\ in.serial \in BOOLEAN
  BY <1>0, InputFacts, GranFacts DEF IInv, TypeOK, Progress, Searched, Address
<1>2. /\ ECAM_SIZE \in Nat \ {0} /\ SERIAL_SIZE \in Nat \ {0}
      /\ EcamSize \in Nat /\ SerialSize \in Nat
      /\ in.pci_slots > 0 => EcamSize = ECAM_SIZE
      /\ in.serial => SerialSize = SERIAL_SIZE
  BY SizeAssumption DEF EcamSize, SerialSize
<1>3. k * VIRTIO_SIZE \in Nat
  BY <1>1, SizeAssumption
<1>4. /\ band_size \in Nat /\ EcamSize + SerialSize + k * VIRTIO_SIZE <= band_size
  <2> DEFINE total == EcamSize + SerialSize + k * VIRTIO_SIZE
  <2>1. total \in Nat
    BY <1>2, <1>3
  <2>2. band_size = AlignUp(total, GRAN)
    BY DEF band_size, AlignUp, round_up
  <2> HIDE DEF total
  <2>3. AlignUp(total, GRAN) \in Nat /\ total <= AlignUp(total, GRAN)
    BY <2>1, GranFacts, AlignUpIsCeiling
  <2> QED
    BY <2>2, <2>3 DEF total
<1>5. /\ base \in Nat /\ serial \in Nat /\ first \in Nat
      /\ first + k * VIRTIO_SIZE <= high_floor
  BY <1>0, <1>1, <1>2, <1>3, <1>4
<1> HIDE DEF k
\* Each device lies in the band, and they follow one another.
<1>6. /\ layout' \in [Regions -> SUBSET Range]
      /\ \A p \in Regions : p \notin {"ecam", "serial"} => layout'[p] = layout[p]
      /\ \A d \in layout'["ecam"] : Dev(d) /\ d.end = serial
      /\ \A d \in layout'["serial"] : Dev(d) /\ d.start = serial /\ d.end = first
  <2>1. Span(base, base + ECAM_SIZE) = [start |-> base, end |-> base + ECAM_SIZE]
        /\ Span(serial, serial + SERIAL_SIZE) = [start |-> serial, end |-> serial + SERIAL_SIZE]
    BY DEF Span
  <2>2. ASSUME in.pci_slots > 0
        PROVE  /\ Span(base, base + ECAM_SIZE) \in Range
               /\ Dev(Span(base, base + ECAM_SIZE)) /\ Span(base, base + ECAM_SIZE).end = serial
    BY <1>1, <1>2, <1>3, <1>5, <2>1, <2>2, GranFacts DEF Range, Address
  <2>3. ASSUME in.serial
        PROVE  /\ Span(serial, serial + SERIAL_SIZE) \in Range
               /\ Dev(Span(serial, serial + SERIAL_SIZE))
               /\ Span(serial, serial + SERIAL_SIZE).start = serial
               /\ Span(serial, serial + SERIAL_SIZE).end = first
    BY <1>1, <1>2, <1>3, <1>5, <2>1, <2>3, GranFacts DEF Range, Address
  <2>4. /\ layout'["ecam"] = IF in.pci_slots > 0 THEN {Span(base, base + ECAM_SIZE)} ELSE {}
        /\ layout'["serial"] = IF in.serial THEN {Span(serial, serial + SERIAL_SIZE)} ELSE {}
        /\ \A p \in Regions : p \notin {"ecam", "serial"} => layout'[p] = layout[p]
    BY <1>0, <1>1 DEF Regions
  <2> HIDE DEF base, serial, first
  <2>5. layout' \in [Regions -> SUBSET Range]
    BY <1>0, <1>1, <2>2, <2>3
  <2> QED
    BY <2>2, <2>3, <2>4, <2>5
<1>7. \A n \in 1..k :
        /\ virtio'[n].start = first + (n - 1) * VIRTIO_SIZE
        /\ virtio'[n].end = first + n * VIRTIO_SIZE
        /\ first <= virtio'[n].start
        /\ Dev(virtio'[n])
  <2>1. SUFFICES ASSUME NEW n \in 1..k
                 PROVE  /\ virtio'[n].start = first + (n - 1) * VIRTIO_SIZE
                        /\ virtio'[n].end = first + n * VIRTIO_SIZE
                        /\ first <= virtio'[n].start
                        /\ Dev(virtio'[n])
    OBVIOUS
  <2>2. /\ (n - 1) * VIRTIO_SIZE \in Nat /\ n * VIRTIO_SIZE \in Nat
        /\ n * VIRTIO_SIZE <= k * VIRTIO_SIZE
    BY <1>1, StrideFacts
  <2>3. (n - 1) * VIRTIO_SIZE <= n * VIRTIO_SIZE
    BY <1>1, SizeAssumption
  <2>4. virtio'[n] = [start |-> first + (n - 1) * VIRTIO_SIZE, end |-> first + n * VIRTIO_SIZE]
    BY <1>0 DEF Span
  <2> DEFINE u == (n - 1) * VIRTIO_SIZE
             w == n * VIRTIO_SIZE
             z == k * VIRTIO_SIZE
  <2>5. u \in Nat /\ w \in Nat /\ z \in Nat /\ u <= w /\ w <= z /\ first + z <= high_floor
    BY <1>3, <1>5, <2>2, <2>3
  <2>6. virtio'[n] = [start |-> first + u, end |-> first + w]
    BY <2>4
  <2>7. base <= first
    BY <1>2, <1>5
  <2> HIDE DEF u, w, z, base, serial, first
  <2>8. first + u \in Address /\ first + w \in Address /\ base <= first + u /\ first + w <= high_floor
    BY <1>1, <1>5, <2>5, <2>7, GranFacts DEF Address
  <2>9. Dev(virtio'[n]) /\ first <= virtio'[n].start
    BY <1>5, <2>5, <2>6, <2>8 DEF Range
  <2> QED
    BY <2>4, <2>9
<1>8. DOMAIN virtio' = 1..k /\ virtio' \in [1..k -> Range]
  BY <1>0, <1>7
<1>9. base <= serial /\ serial <= first /\ base <= first
  BY <1>2, <1>5
<1> HIDE DEF base, serial, first
<1>10. ASSUME NEW d, Dev(d), NEW s, s.start \in Nat, s.end \in Nat, Covered(s)
       PROVE  Apart(d, s) /\ Apart(s, d)
  <2>1. SUFFICES ASSUME FarBelowMax(s)
                 PROVE  ~SharesUnit(d, s) /\ ~SharesUnit(s, d)
    BY DEF Apart
  <2>2. PICK o \in occupied : Covers(o, s)
    BY <1>10, <2>1 DEF Covered
  <2>3. o \in Range /\ o.start % GRAN = 0 /\ o.end % GRAN = 0 /\ o.start \in Nat /\ o.end \in Nat
    BY GranFacts DEF IInv, TypeOK, CarvedOut, Range, Address
  <2>4. d.start \in Nat /\ d.end \in Nat
    BY <1>10, GranFacts DEF Range, Address
  <2>5. ~(o.start < high_floor /\ base < o.end)
    BY <1>0 DEF BandConflict, Overlap, Band, Span, base
  <2>6. ~Overlap(o, d)
    BY <1>1, <1>5, <1>10, <2>3, <2>4, <2>5 DEF Overlap
  <2> QED
    BY <1>10, <2>2, <2>3, <2>4, <2>6, CarveOutSeparates
<1>11. \A p \in Regions : \A r \in layout[p] : r.start \in Nat /\ r.end \in Nat
  BY <1>1, GranFacts DEF Range, Address
<1>12. \A s \in in.reserved : s.start \in Nat /\ s.end \in Nat /\ Covered(s)
  BY <1>1, InputFacts DEF IInv, CarvedOut
<1>13. \A p \in Payload : p \in Regions /\ layout'[p] = layout[p]
  BY <1>6 DEF Payload, Regions, Searched
<1>14. NoSharedUnit'
  <2>1. ASSUME NEW p \in Payload, NEW q \in Regions, p # q,
               NEW r \in layout'[p], NEW s \in layout'[q]
        PROVE  Apart(r, s)
    <3>1. r \in layout[p] /\ p \in Regions
      BY <1>13, <2>1
    <3>2. CASE q \in {"ecam", "serial"}
      <4>1. Dev(s)
        BY <1>6, <3>2
      <4>2. Covered(r)
        BY <3>1 DEF IInv, CarvedOut
      <4> QED
        BY <1>10, <1>11, <3>1, <4>1, <4>2
    <3>3. CASE q \notin {"ecam", "serial"}
      BY <1>6, <2>1, <3>1, <3>3 DEF IInv, NoSharedUnit
    <3> QED
      BY <3>2, <3>3
  <2>2. ASSUME NEW p \in Payload, NEW r \in layout'[p], NEW n \in DOMAIN virtio'
        PROVE  Apart(r, virtio'[n])
    <3>1. r \in layout[p] /\ p \in Regions
      BY <1>13, <2>2
    <3>2. Covered(r) /\ Dev(virtio'[n])
      BY <1>7, <1>8, <3>1 DEF IInv, CarvedOut
    <3> QED
      BY <1>10, <1>11, <3>1, <3>2
  <2>3. ASSUME NEW p \in Payload \union {"ecam", "serial"},
               NEW r \in layout'[p], NEW s \in in.reserved
        PROVE  Apart(r, s)
    <3>1. CASE p \in Payload
      BY <1>13, <3>1 DEF IInv, NoSharedUnit
    <3>2. CASE p \in {"ecam", "serial"}
      BY <1>6, <1>10, <1>12, <3>2
    <3> QED
      BY <3>1, <3>2
  <2>4. ASSUME NEW n \in DOMAIN virtio', NEW s \in in.reserved
        PROVE  Apart(virtio'[n], s)
    BY <1>7, <1>8, <1>10, <1>12
  <2> QED
    BY <1>0, <2>1, <2>2, <2>3, <2>4 DEF NoSharedUnit
<1>15. CarvedOut'
  BY <1>0, <1>6 DEF IInv, CarvedOut, Covered, Payload, Regions, Searched
<1>16. TypeOK'
  BY <1>0, <1>6, <1>8 DEF IInv, TypeOK, k
<1>17. Progress'
  <2>1. layout'["pci_window"] = layout["pci_window"] /\ PciWindow' = PciWindow
    BY <1>0, <1>6 DEF Regions, PciWindow, high_floor
  <2> QED
    BY <1>0, <1>1, <2>1 DEF IInv, Progress
<1>18. PassedOverSlotsAreTaken'
  BY <1>0, <1>1 DEF PassedOverSlotsAreTaken
<1>19. DevicesDisjoint'
  <2>1. \A r \in layout'["pci_window"] : r.start = high_floor /\ r.end \in Nat
    BY <1>6, <1>11 DEF IInv, Progress, Regions, PciWindow, Span
  <2>2. \A d \in layout'["ecam"] : d.start \in Nat /\ d.end = serial /\ serial \in Nat /\ d.end <= high_floor
    BY <1>5, <1>6, GranFacts DEF Range, Address
  <2>3. \A d \in layout'["serial"] : d.start = serial /\ d.end = first /\ first \in Nat /\ d.end <= high_floor
    BY <1>5, <1>6
  <2>4. \A n \in 1..k : virtio'[n].start \in Nat /\ virtio'[n].end \in Nat
                        /\ first <= virtio'[n].start /\ virtio'[n].end <= high_floor
    BY <1>7, GranFacts DEF Range, Address
  <2>5. ASSUME NEW p \in Mmio, NEW q \in Mmio, p # q,
               NEW r \in layout'[p], NEW s \in layout'[q]
        PROVE  ~Overlap(r, s)
    BY <1>1, <1>5, <1>9, <2>1, <2>2, <2>3, <2>5 DEF Mmio, Overlap
  <2>6. ASSUME NEW m \in 1..k, NEW p \in Mmio, NEW r \in layout'[p]
        PROVE  ~Overlap(virtio'[m], r)
    BY <1>1, <1>5, <1>9, <2>1, <2>2, <2>3, <2>4 DEF Mmio, Overlap
  <2>7. ASSUME NEW m \in 1..k, NEW n \in 1..k, m # n
        PROVE  ~Overlap(virtio'[m], virtio'[n])
    <3>1. ASSUME NEW i \in 1..k, NEW j \in 1..k, i < j
          PROVE  virtio'[i].end <= virtio'[j].start
      <4>1. /\ i * VIRTIO_SIZE <= (j - 1) * VIRTIO_SIZE
            /\ i * VIRTIO_SIZE \in Nat /\ (j - 1) * VIRTIO_SIZE \in Nat
        BY <1>1, <3>1, StrideFacts
      <4> QED
        BY <1>5, <1>7, <4>1
    <3>2. m < n \/ n < m
      BY <1>1, <2>7
    <3> QED
      BY <2>4, <3>1, <3>2 DEF Overlap
  <2> QED
    BY <1>8, <2>5, <2>6, <2>7 DEF DevicesDisjoint
<1> QED
  BY <1>0, <1>1, <1>14, <1>15, <1>16, <1>17, <1>18, <1>19 DEF IInv

\* The state in which plan() starts, the reserved ranges rounded out,
\* satisfies the inductive invariant.
LEMMA InitEstablishes == Init => IInv
<1>1. SUFFICES ASSUME Init
               PROVE  IInv
  OBVIOUS
<1>2. /\ in \in Inputs /\ pc = "pci_window" /\ occupied = {round_out(r) : r \in in.reserved}
      /\ layout = [r \in Regions |-> {}] /\ virtio = <<>> /\ cursor = Idle /\ err = "none"
      /\ in \in PlannerInput
  BY <1>1, InputFacts DEF Init
<1>3. \A s \in in.reserved :
        /\ s.start \in Address /\ s.end \in Nat /\ FarBelowMax(s)
        /\ round_out(s) \in Range /\ round_out(s).start % GRAN = 0 /\ round_out(s).end % GRAN = 0
  <2>1. SUFFICES ASSUME NEW s \in in.reserved
                 PROVE  /\ s.start \in Address /\ s.end \in Nat /\ FarBelowMax(s)
                        /\ round_out(s) \in Range
                        /\ round_out(s).start % GRAN = 0 /\ round_out(s).end % GRAN = 0
    OBVIOUS
  <2>2. s.start \in Address /\ s.end \in Nat /\ FarBelowMax(s)
    BY <1>2, InputFacts DEF Range
  <2> QED
    BY <2>2, RoundOutAligned
<1>4. TypeOK
  BY <1>2, <1>3 DEF TypeOK, Regions
<1>5. \A s \in in.reserved : Covered(s)
  <2>1. SUFFICES ASSUME NEW s \in in.reserved
                 PROVE  Covers(round_out(s), s)
    BY <1>2 DEF Covered
  <2>2. round_out(s) = Units(s)
    BY <1>3, RoundOutIsUnits
  <2>3. Units(s).start \in Nat /\ Units(s).end \in Nat
    BY <1>3, GranFacts, UnitsFacts DEF Address
  <2> QED
    BY <2>2, <2>3 DEF Covers
<1>6. \A p \in Regions : layout[p] = {}
  BY <1>2
<1>7. CarvedOut
  BY <1>2, <1>3, <1>5, <1>6 DEF CarvedOut, Payload, Regions, Searched
<1>8. Progress
  BY <1>2, <1>6 DEF Progress, Regions
<1>9. PassedOverSlotsAreTaken
  BY <1>2 DEF PassedOverSlotsAreTaken
<1>10. DOMAIN virtio = {}
  BY <1>2
<1>11. NoSharedUnit
  BY <1>6, <1>10 DEF NoSharedUnit, Payload, Regions, Searched
<1>12. DevicesDisjoint
  BY <1>6, <1>10 DEF DevicesDisjoint, Mmio, Regions
<1> QED
  BY <1>2, <1>4, <1>7, <1>8, <1>9, <1>11, <1>12 DEF IInv

\* Every step of plan() keeps the inductive invariant.
LEMMA NextPreserves == IInv /\ [Next]_vars => IInv'
<1>1. SUFFICES ASSUME IInv, [Next]_vars
               PROVE  IInv'
  OBVIOUS
<1>2. CASE PlaceWindow
  BY <1>1, <1>2, WindowPreserves
<1>3. CASE WindowTooLarge
  BY <1>1, <1>3, FailPreserves DEF WindowTooLarge
<1>4. ASSUME NEW region \in Searched, Search(region)
      PROVE  IInv'
  <2>1. CASE Skip(region)
    BY <1>1, <2>1, SkipPreserves
  <2>2. CASE Begin(region)
    BY <1>1, <2>2, BeginPreserves
  <2>3. CASE BeginFails(region)
    BY <1>1, <2>3, FailPreserves DEF BeginFails, Searched
  <2>4. CASE Hop(region)
    BY <1>1, <2>4, HopPreserves
  <2>5. CASE HopFails(region)
    BY <1>1, <2>5, FailPreserves DEF HopFails, Searched
  <2>6. CASE Place(region)
    BY <1>1, <2>6, PlacePreserves
  <2> QED
    BY <1>4, <2>1, <2>2, <2>3, <2>4, <2>5, <2>6 DEF Search
<1>5. CASE PlaceBand
  BY <1>1, <1>5, BandPreserves
<1>6. CASE NoBand
  <2>1. /\ UNCHANGED <<in, occupied, layout, virtio>> /\ pc = "band" /\ pc' = "done"
        /\ cursor' = cursor /\ err' = err
    BY <1>6 DEF NoBand
  <2>2. cursor = Idle
    BY <1>1, <2>1 DEF IInv, Progress, Searched
  <2>3. TypeOK' /\ Progress' /\ PassedOverSlotsAreTaken'
    BY <1>1, <2>1, <2>2, Frame DEF IInv, TypeOK, Progress, PassedOverSlotsAreTaken
  <2> QED
    BY <1>1, <2>1, <2>3, Frame DEF IInv
<1>7. CASE BandFails
  BY <1>1, <1>7, FailPreserves DEF BandFails
<1>8. CASE UNCHANGED vars
  <2>1. UNCHANGED <<in, occupied, layout, virtio>> /\ pc' = pc /\ cursor' = cursor /\ err' = err
    BY <1>8 DEF vars
  <2>2. TypeOK'
    BY <1>1, <2>1, Frame DEF IInv, TypeOK
  <2>3. Progress'
    BY <1>1, <2>1, Frame, RequestFrame DEF IInv, Progress
  <2>4. PassedOverSlotsAreTaken'
    BY <1>1, <2>1, RequestFrame DEF IInv, Progress, PassedOverSlotsAreTaken
  <2> QED
    BY <1>1, <2>1, <2>2, <2>3, <2>4, Frame DEF IInv
<1> QED
  BY <1>1, <1>2, <1>3, <1>4, <1>5, <1>6, <1>7, <1>8 DEF Next

-----------------------------------------------------------------------------
(* The theorems.                                                           *)

\* The inductive invariant holds throughout plan().
THEOREM Invariance == Spec => []IInv
BY InitEstablishes, NextPreserves, PTL DEF Spec

\* Every address plan() computes is a u64 and every list has its shape.
THEOREM TypeCorrect == Spec => []TypeOK
<1>1. IInv => TypeOK
  BY DEF IInv
<1> QED
  BY <1>1, Invariance, PTL

\* No payload shares a 2 MiB unit with another region plan() knows of.
THEOREM UnitsAreExclusive == Spec => []NoSharedUnit
<1>1. IInv => NoSharedUnit
  BY DEF IInv
<1> QED
  BY <1>1, Invariance, PTL

\* The devices carved from the band and the BAR window never overlap.
THEOREM DeviceBandIsCarved == Spec => []DevicesDisjoint
<1>1. IInv => DevicesDisjoint
  BY DEF IInv
<1> QED
  BY <1>1, Invariance, PTL

\* first_fit never passes over a free slot.
THEOREM FirstFitIsLowest == Spec => []PassedOverSlotsAreTaken
<1>1. IInv => PassedOverSlotsAreTaken
  BY DEF IInv
<1> QED
  BY <1>1, Invariance, PTL

\* first_fit reports an error only when no slot is free.
THEOREM RefusalIsJustified == Spec => RefusesOnlyWhenFull
<1> DEFINE Full(region) ==
      \A x \in Start(region)..U64_MAX :
        (x % Align(region) = 0 /\ x + Size(region) <= U64_MAX) => Conflicts(region, x) # {}
<1>1. ASSUME IInv, NEW region \in Searched, BeginFails(region)
      PROVE  Full(region)
  <2>1. /\ Align(region) \in Nat \ {0} /\ (U64_MAX + 1) % Align(region) = 0
        /\ Start(region) \in Nat /\ Size(region) \in Nat /\ in \in Inputs
    BY <1>1, RequestFacts, GranFacts DEF IInv, Address
  <2>2. SUFFICES ASSUME NEW x \in Start(region)..U64_MAX, x % Align(region) = 0,
                        x + Size(region) <= U64_MAX
                 PROVE  FALSE
    OBVIOUS
  <2>3. x \in Nat /\ x \in Address /\ Start(region) <= x
    BY <2>1, <2>2, GranFacts DEF Address
  <2>4. Size(region) <= U64_MAX
    BY <2>1, <2>2, <2>3, GranFacts
  <2>5. CASE AlignUpFails(Start(region), Align(region))
    <3>1. x < Start(region)
      BY <2>1, <2>2, <2>3, <2>5, AlignUpFailsAtTop
    <3> QED
      BY <2>1, <2>3, <3>1
  <2>6. CASE region = "initrd" /\ AlignUpFails(in.initrd_size, GRAN)
    <3>1. in.initrd_size \in Nat
      BY <2>1, InputFacts, GranFacts DEF PlannerInput, Address
    <3>2. ArchiveSize \in Nat /\ ArchiveSize % GRAN = 0 /\ in.initrd_size <= ArchiveSize
      BY <3>1, GranFacts, AlignUpIsCeiling DEF ArchiveSize
    <3>3. ArchiveSize <= Size(region)
      BY <2>1, <2>6, <3>2, RequestFacts
    <3>4. ArchiveSize \in Address
      BY <2>1, <2>4, <3>2, <3>3, GranFacts DEF Address
    <3>5. ArchiveSize < in.initrd_size
      BY <2>6, <3>1, <3>2, <3>4, GranFacts, AlignUpFailsAtTop
    <3> QED
      BY <3>1, <3>2, <3>5
  <2> QED
    BY <1>1, <2>1, <2>4, <2>5, <2>6, GranFacts DEF BeginFails, CallFails
<1>2. ASSUME IInv, NEW region \in Searched, HopFails(region)
      PROVE  Full(region)
  <2>1. /\ Align(region) \in Nat \ {0} /\ (U64_MAX + 1) % Align(region) = 0
        /\ Start(region) \in Nat /\ Size(region) \in Nat
    BY <1>2, RequestFacts, GranFacts DEF IInv, Address
  <2>2. SUFFICES ASSUME NEW x \in Start(region)..U64_MAX, x % Align(region) = 0,
                        x + Size(region) <= U64_MAX
                 PROVE  Conflicts(region, x) # {}
    OBVIOUS
  <2>3. x \in Nat /\ x \in Address /\ Start(region) <= x
    BY <2>1, <2>2, GranFacts DEF Address
  <2>4. pc = region /\ cursor # Idle /\ cursor \in Nat
    BY <1>2, GranFacts DEF HopFails, IInv, TypeOK, Address
  <2>5. CASE x < cursor
    BY <1>2, <2>1, <2>2, <2>3, <2>4, <2>5 DEF IInv, PassedOverSlotsAreTaken
  <2>6. CASE cursor <= x
    <3>1. cursor + Size(region) <= U64_MAX
      BY <2>1, <2>2, <2>3, <2>4, <2>6, GranFacts
    <3>2. PICK c \in Conflicts(region, cursor) : AlignUpFails(c.end, Align(region))
      BY <1>2, <2>1, <2>4, <3>1, GranFacts DEF HopFails
    <3>3. c.end \in Nat
      BY <1>2, GranFacts DEF IInv, TypeOK, Conflicts, Range, Address
    <3>4. x < c.end
      BY <2>1, <2>2, <2>3, <3>2, <3>3, AlignUpFailsAtTop
    <3> QED
      BY <1>2, <2>3, <2>4, <2>6, <3>4, ConflictBlocks
  <2> QED
    BY <2>3, <2>4, <2>5, <2>6
<1>3. ASSUME IInv, Next, pc \in Searched, pc' = "failed"
      PROVE  Full(pc)
  <2>1. \E region \in Searched : Search(region)
    BY <1>3 DEF Next, PlaceWindow, WindowTooLarge, PlaceBand, NoBand, BandFails, Returned, Searched
  <2>2. PICK region \in Searched : Search(region)
    BY <2>1
  <2>3. BeginFails(region) \/ HopFails(region)
    BY <1>3, <2>2 DEF Search, Skip, Begin, Hop, Place, After, Searched
  <2>4. pc = region
    BY <2>3 DEF BeginFails, HopFails
  <2> QED
    BY <1>1, <1>2, <1>3, <2>3, <2>4
<1>4. IInv /\ [Next]_vars =>
        [ (pc \in Searched /\ pc' = "failed") => Full(pc) ]_vars
  BY <1>3
<1> QED
  BY <1>4, Invariance, PTL DEF Spec, RefusesOnlyWhenFull
=============================================================================
