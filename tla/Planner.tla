------------------------------ MODULE Planner ------------------------------
(***************************************************************************)
(* Guest-physical address planning: Planner::plan and first_fit of         *)
(* src/planner.rs.                                                         *)
(*                                                                         *)
(* plan() places the PCI window, the kernel, the initrd with its           *)
(* bootconfig fill, the relocation table and the device band, in that      *)
(* order, adding every result to the carve-outs `occupied` the next search *)
(* avoids.  Each turn of first_fit's loop is a step here, so that what the *)
(* loop has already passed over can be stated.                             *)
(*                                                                         *)
(* Addresses are u64 in the code: U64_MAX bounds them, checked additions   *)
(* fail above it and unchecked ones wrap (the release build).  The sizes   *)
(* 2 MiB, 16 MiB, 4 KiB and 512 B are the CONSTANTS GRAN, ECAM_SIZE,       *)
(* SERIAL_SIZE and VIRTIO_SIZE.                                            *)
(***************************************************************************)
EXTENDS U64

CONSTANTS
  GRAN,         \* PMI large-section granularity
  ECAM_SIZE,    \* PCIe configuration window
  SERIAL_SIZE,  \* ns16550a register window
  VIRTIO_SIZE,  \* one virtio-mmio transport
  Inputs        \* the Planner values plan() is called with

Address == 0..U64_MAX

\* A half-open range [start, end).
Range == [start : Address, end : Address]

Span(s, e) == [start |-> s, end |-> e]

Overlap(r, s) == r.start < s.end /\ s.start < r.end

(***************************************************************************)
(* The fields of Planner, ArgsSpec and KernelSpec.  A size of 0 stands for *)
(* both None and Some(0), which plan() treats alike.                       *)
(***************************************************************************)
PlannerInput ==
  [serial : BOOLEAN, mmio_slots : Nat, pci_slots : Nat,
   window_bits : Nat, addr_space_bits : Nat \ {0},
   reserved : SUBSET Range,
   kernel_size : Address \ {0}, kernel_align : Nat \ {0}, min_gpa : Address,
   initrd_size : Address, bootconfig : BOOLEAN, relocs_size : Address]

Pow2(n) == 2^n

ASSUME SizeAssumption ==
  /\ GRAN \in Nat /\ GRAN >= 2
  /\ ECAM_SIZE \in Nat \ {0} /\ SERIAL_SIZE \in Nat \ {0} /\ VIRTIO_SIZE \in Nat \ {0}
  /\ U64_MAX \in Nat /\ U64_MAX + 1 >= GRAN
  /\ (U64_MAX + 1) % GRAN = 0

(***************************************************************************)
(* What the callers guarantee: alignments are powers of two, so one larger *)
(* than GRAN is a multiple of it; reserved ranges are tatu's sections and  *)
(* fixed devices, whose rounded ends do not leave u64; shifts are in range.*)
(***************************************************************************)
ASSUME InputAssumption ==
  /\ Inputs \subseteq PlannerInput
  /\ \A i \in Inputs :
       /\ i.kernel_align > GRAN =>
            i.kernel_align % GRAN = 0 /\ (U64_MAX + 1) % i.kernel_align = 0
       /\ \A r \in i.reserved : r.start <= r.end /\ r.end + GRAN <= U64_MAX
       /\ Pow2(i.addr_space_bits - 1) \in Address
       /\ Pow2(i.window_bits) \in Nat \ {0}
       /\ i.window_bits + 2 <= i.addr_space_bits =>
            Pow2(i.addr_space_bits - 1) + Pow2(i.window_bits) + GRAN <= U64_MAX

VARIABLES
  in,        \* the Planner value
  pc,        \* the region plan() is about to place, or how it returned
  occupied,  \* carve-outs no later region may touch
  layout,    \* Layout: the ranges assigned so far (an Option is {} or {r})
  virtio,    \* Layout.virtio: one range per transport
  cursor,    \* first_fit's candidate g, Idle outside its loop
  err        \* the PlanError returned

vars == <<in, pc, occupied, layout, virtio, cursor, err>>

Idle == -1

Searched == {"linux", "initrd", "relocs"}
Regions == Searched \union {"pci_window", "bootconfig", "ecam", "serial"}

-----------------------------------------------------------------------------
\* x & !(a - 1), for a power of two a.
Mask(x, a) == x - (x % a)

\* align_up before its checked_add is looked at; it is None above U64_MAX.
AlignUp(v, a) == Mask(v + (a - 1), a)
AlignUpFails_Unchecked(v, a) == v > U64_MAX + a
AlignUpFails_OffByOne(v, a) == v + a > U64_MAX
AlignUpFails(v, a) == v + (a - 1) > U64_MAX

round_up(v, a) == Mask(v + (a - 1), a)

\* Outward to whole GRAN units; the addition is unchecked.
round_out(r) ==
  Span(Mask(r.start, GRAN),
       Mask((r.end + (GRAN - 1)) % (U64_MAX + 1), GRAN))

high_floor == Pow2(in.addr_space_bits - 1)

PciWindow == Span(high_floor, high_floor + Pow2(in.window_bits))

-----------------------------------------------------------------------------
(* The first_fit calls of plan(): their start, size and alignment.         *)

ArchiveSize == AlignUp(in.initrd_size, GRAN)
FillSize == IF in.bootconfig THEN GRAN ELSE 0

Wanted(region) ==
  CASE region = "linux"  -> TRUE
    [] region = "initrd" -> in.initrd_size > 0
    [] region = "relocs" -> in.relocs_size > 0

Size(region) ==
  CASE region = "linux"  -> in.kernel_size
    [] region = "initrd" -> ArchiveSize + FillSize
    [] region = "relocs" -> in.relocs_size

Align(region) ==
  IF region = "linux" /\ in.kernel_align > GRAN THEN in.kernel_align ELSE GRAN

Start(region) == IF region = "linux" THEN in.min_gpa ELSE 0

\* Errors plan() returns before or on entering first_fit's loop.
CallFails(region) ==
  \/ region = "initrd" /\ AlignUpFails(in.initrd_size, GRAN)
  \/ region = "initrd" /\ Size(region) > U64_MAX
  \/ AlignUpFails(Start(region), Align(region))

Candidate(region, x) == Span(x, x + Size(region))

\* The carve-outs a slot at x runs into; empty carve-outs are filtered out.
Conflicts(region, x) ==
  {r \in occupied : r.end > r.start /\ Overlap(r, Candidate(region, x))}

After(region) ==
  CASE region = "linux" -> "initrd" [] region = "initrd" -> "relocs" [] region = "relocs" -> "band"

-----------------------------------------------------------------------------
Init_RawReserved ==
  /\ in \in Inputs
  /\ pc = "pci_window"
  /\ occupied = in.reserved
  /\ layout = [r \in Regions |-> {}]
  /\ virtio = <<>>
  /\ cursor = Idle
  /\ err = "none"

Init ==
  /\ in \in Inputs
  /\ pc = "pci_window"
  /\ occupied = {round_out(r) : r \in in.reserved}
  /\ layout = [r \in Regions |-> {}]
  /\ virtio = <<>>
  /\ cursor = Idle
  /\ err = "none"

Fail(e) ==
  /\ pc' = "failed"
  /\ err' = e
  /\ cursor' = Idle
  /\ UNCHANGED <<in, occupied, layout, virtio>>

\* Step 1: the BAR window, fixed at 2^(A-1), when there are PCI slots.
PlaceWindow ==
  /\ pc = "pci_window"
  /\ in.pci_slots > 0 => in.window_bits + 2 <= in.addr_space_bits
  /\ occupied' = IF in.pci_slots > 0 THEN occupied \union {round_out(PciWindow)} ELSE occupied
  /\ layout' = [layout EXCEPT !["pci_window"] = IF in.pci_slots > 0 THEN {PciWindow} ELSE {}]
  /\ pc' = "linux"
  /\ UNCHANGED <<in, virtio, cursor, err>>

WindowTooLarge ==
  /\ pc = "pci_window"
  /\ in.pci_slots > 0 /\ in.window_bits + 2 > in.addr_space_bits
  /\ Fail("WindowTooLarge")

\* An absent initrd or relocation table is not placed.
Skip(region) ==
  /\ pc = region /\ cursor = Idle
  /\ ~Wanted(region)
  /\ pc' = After(region)
  /\ UNCHANGED <<in, occupied, layout, virtio, cursor, err>>

\* first_fit up to its loop: the first candidate.
Begin(region) ==
  /\ pc = region /\ cursor = Idle
  /\ Wanted(region)
  /\ ~CallFails(region)
  /\ cursor' = AlignUp(Start(region), Align(region))
  /\ UNCHANGED <<in, pc, occupied, layout, virtio, err>>

BeginFails(region) ==
  /\ pc = region /\ cursor = Idle
  /\ Wanted(region)
  /\ CallFails(region)
  /\ Fail("Overflow")

Hop_PastEnd(region) ==
  /\ pc = region /\ cursor # Idle
  /\ cursor + Size(region) <= U64_MAX
  /\ \E c \in Conflicts(region, cursor) :
       /\ \A d \in Conflicts(region, cursor) : c.start <= d.start
       /\ ~AlignUpFails(c.end, Align(region))
       /\ cursor' = AlignUp(c.end + 1, Align(region))
  /\ UNCHANGED <<in, pc, occupied, layout, virtio, err>>

Hop_NotPast(region) ==
  /\ pc = region /\ cursor # Idle
  /\ cursor + Size(region) <= U64_MAX
  /\ \E c \in Conflicts(region, cursor) :
       /\ \A d \in Conflicts(region, cursor) : c.start <= d.start
       /\ ~AlignUpFails(c.end, Align(region))
       /\ cursor' = AlignUp(c.start, Align(region))
  /\ UNCHANGED <<in, pc, occupied, layout, virtio, err>>

(***************************************************************************)
(* One turn of the loop that finds a conflict: the lowest conflicting      *)
(* carve-out is hopped.  Ranges that start together may be met in either   *)
(* order.  The test for g == u64::MAX that follows in the code is never    *)
(* true: g is a multiple of GRAN.                                          *)
(***************************************************************************)
Hop(region) ==
  /\ pc = region /\ cursor # Idle
  /\ cursor + Size(region) <= U64_MAX
  /\ \E c \in Conflicts(region, cursor) :
       /\ \A d \in Conflicts(region, cursor) : c.start <= d.start
       /\ ~AlignUpFails(c.end, Align(region))
       /\ cursor' = AlignUp(c.end, Align(region))
  /\ UNCHANGED <<in, pc, occupied, layout, virtio, err>>

HopFails(region) ==
  /\ pc = region /\ cursor # Idle
  /\ \/ cursor + Size(region) > U64_MAX
     \/ \E c \in Conflicts(region, cursor) :
          /\ \A d \in Conflicts(region, cursor) : c.start <= d.start
          /\ AlignUpFails(c.end, Align(region))
  /\ Fail("Overflow")

\* The loop returns; the initrd's range is split into archive and fill.
Place(region) ==
  LET found == Candidate(region, cursor)
      archive == Span(cursor, cursor + ArchiveSize)
      fill == Span(cursor + ArchiveSize, found.end)
  IN
  /\ pc = region /\ cursor # Idle
  /\ cursor + Size(region) <= U64_MAX
  /\ Conflicts(region, cursor) = {}
  /\ occupied' = occupied \union {round_out(found)}
  /\ layout' = [layout EXCEPT
       ![region] = IF region = "initrd" THEN {archive} ELSE {found},
       !["bootconfig"] = IF region = "initrd" /\ in.bootconfig THEN {fill} ELSE @]
  /\ pc' = After(region)
  /\ cursor' = Idle
  /\ UNCHANGED <<in, virtio, err>>

-----------------------------------------------------------------------------
(* Step 4: the device band, carved into ECAM, serial and transports.       *)

EcamSize == IF in.pci_slots > 0 THEN ECAM_SIZE ELSE 0
SerialSize == IF in.serial THEN SERIAL_SIZE ELSE 0

band_size ==
  round_up(EcamSize + SerialSize + in.mmio_slots * VIRTIO_SIZE, GRAN)

Band == Span(high_floor - band_size, high_floor)

BandConflict == \E r \in occupied : Overlap(r, Band)

carve_band_NoAdvance(base) ==
  LET first == base + EcamSize + SerialSize
  IN
  /\ layout' = [layout EXCEPT
       !["ecam"]   = IF in.pci_slots > 0 THEN {Span(base, base + ECAM_SIZE)} ELSE {},
       !["serial"] = IF in.serial THEN {Span(base, base + SERIAL_SIZE)} ELSE {}]
  /\ virtio' = [n \in 1..in.mmio_slots |->
                  Span(first + (n - 1) * VIRTIO_SIZE, first + n * VIRTIO_SIZE)]

carve_band(base) ==
  LET serial == base + EcamSize
      first == serial + SerialSize
  IN
  /\ layout' = [layout EXCEPT
       !["ecam"]   = IF in.pci_slots > 0 THEN {Span(base, base + ECAM_SIZE)} ELSE {},
       !["serial"] = IF in.serial THEN {Span(serial, serial + SERIAL_SIZE)} ELSE {}]
  /\ virtio' = [n \in 1..in.mmio_slots |->
                  Span(first + (n - 1) * VIRTIO_SIZE, first + n * VIRTIO_SIZE)]

PlaceBand ==
  /\ pc = "band"
  /\ band_size > 0
  /\ high_floor >= band_size
  /\ ~BandConflict
  /\ carve_band(high_floor - band_size)
  /\ pc' = "done"
  /\ UNCHANGED <<in, occupied, cursor, err>>

NoBand ==
  /\ pc = "band"
  /\ band_size = 0
  /\ pc' = "done"
  /\ UNCHANGED <<in, occupied, layout, virtio, cursor, err>>

BandFails ==
  /\ pc = "band"
  /\ band_size > 0
  /\ \/ high_floor < band_size /\ Fail("Overflow")
     \/ high_floor >= band_size /\ BandConflict /\ Fail("DoesNotFit")

Search(region) ==
  Skip(region) \/ Begin(region) \/ BeginFails(region) \/ Hop(region) \/ HopFails(region) \/ Place(region)

Returned == pc \in {"done", "failed"}

Next ==
  \/ PlaceWindow \/ WindowTooLarge
  \/ \E region \in Searched : Search(region)
  \/ PlaceBand \/ NoBand \/ BandFails
  \/ Returned /\ UNCHANGED vars

Spec == Init /\ [][Next]_vars /\ WF_vars(Next)

-----------------------------------------------------------------------------
(* Properties.                                                             *)

\* plan() keeps u64 ranges in range: no checked addition lets a carve-out, a
\* result or a candidate leave the address space.
TypeOK ==
  /\ in \in PlannerInput
  /\ pc \in Searched \union {"pci_window", "band", "done", "failed"}
  /\ occupied \subseteq Range
  /\ layout \in [Regions -> SUBSET Range]
  /\ virtio \in [1..in.mmio_slots -> Range] \union {<<>>}
  /\ cursor \in Address \union {Idle}
  /\ err \in {"none", "WindowTooLarge", "Overflow", "DoesNotFit"}

Payload == {"linux", "initrd", "bootconfig", "relocs"}
Mmio == {"ecam", "serial", "pci_window"}

\* The whole GRAN units a range touches; two ranges share one when these meet
\* (an empty range on a boundary touches none).
Units(r) == Span(Mask(r.start, GRAN), round_up(r.end, GRAN))

SharesUnit(r, s) ==
  /\ Units(r).start < Units(r).end /\ Units(s).start < Units(s).end
  /\ Overlap(Units(r), Units(s))

(***************************************************************************)
(* round_out's comment: "Guest physical addresses are far below u64::MAX,  *)
(* so the +GRAN never overflows here."  The kernel's min_gpa comes from    *)
(* its header, so nothing enforces it, and a range that ends in the last   *)
(* unit is not protected.                                                  *)
(***************************************************************************)
FarBelowMax(r) == r.end + (GRAN - 1) <= U64_MAX

Apart(r, s) == FarBelowMax(r) /\ FarBelowMax(s) => ~SharesUnit(r, s)

\* Planner's contract ("no two distinct regions (RAM payload vs device MMIO)
\* share a 2 MiB unit"): a payload shares a unit with no other payload, device,
\* window or reserved range, and no device shares one with a reserved range.
NoSharedUnit ==
  /\ \A p \in Payload, q \in Regions : p # q =>
       \A r \in layout[p], s \in layout[q] : Apart(r, s)
  /\ \A p \in Payload : \A r \in layout[p] :
       \A n \in DOMAIN virtio : Apart(r, virtio[n])
  /\ \A p \in Payload \union {"ecam", "serial"} :
       \A r \in layout[p], s \in in.reserved : Apart(r, s)
  /\ \A n \in DOMAIN virtio, s \in in.reserved : Apart(virtio[n], s)

\* device-model.md, section 4 ("Arma guarantees the regions are
\* non-overlapping"): the ECAM, the serial port, the transports and the BAR
\* window carved by plan() are pairwise disjoint.
DevicesDisjoint ==
  /\ \A p, q \in Mmio : p # q => \A r \in layout[p], s \in layout[q] : ~Overlap(r, s)
  /\ \A m \in DOMAIN virtio :
       /\ \A p \in Mmio : \A r \in layout[p] : ~Overlap(virtio[m], r)
       /\ \A n \in DOMAIN virtio : m # n => ~Overlap(virtio[m], virtio[n])

\* first_fit returns the LOWEST aligned slot: every aligned address its loop
\* has passed over runs into a carve-out.
PassedOverSlotsAreTaken ==
  cursor # Idle =>
    \A x \in Start(pc)..(cursor - 1) :
      x % Align(pc) = 0 => Conflicts(pc, x) # {}

\* first_fit gives up only when no aligned slot below u64::MAX is free.
RefusesOnlyWhenFull ==
  [][ (pc \in Searched /\ pc' = "failed") =>
        \A x \in Start(pc)..U64_MAX :
          (x % Align(pc) = 0 /\ x + Size(pc) <= U64_MAX) => Conflicts(pc, x) # {} ]_vars

\* "`start`/hops increase monotonically so it terminates": plan() returns.
Terminates == <>Returned
=============================================================================
