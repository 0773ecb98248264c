---------------------------- MODULE MCPlanCheck ----------------------------
(***************************************************************************)
(* PlanCheck on an address space of 256 units with a granularity of 4.     *)
(*                                                                         *)
(* Three families of builds: images of the two architectures, with windows *)
(* below, at and above the fixed devices, tight and loose, one of them at  *)
(* the top of u64 (X = 64), and kernels that are pushed or asked above the *)
(* window, into its buddy or out of u32; crowded spaces, in which the      *)
(* window, the band and the payload compete and ranges start and end       *)
(* inside a granule; and searches that reach the last u64.                 *)
(*                                                                         *)
(* After a build that failed, `arma check` is also run on images plan()    *)
(* never made: every list of two or three devices and payload ranges       *)
(* (empty ones, nested ones, ones that start together and ones whose end   *)
(* wraps), alone or before a BAR window with its burned buddy.             *)
(***************************************************************************)
EXTENDS PlanCheck

R(s, e) == Span(s, e)

MCFixedDevices == {R(24, 25), R(26, 27), R(32, 33), R(34, 38)}

Build(c, p, b, res, k, i, rel) ==
  [serial |-> c[1], mmio_slots |-> c[2], pci_slots |-> p,
   window_bits |-> b[1], addr_space_bits |-> b[2], reserved |-> res,
   kernel_size |-> k[1], kernel_align |-> k[2], min_gpa |-> k[3],
   initrd_size |-> i[1], bootconfig |-> i[2], relocs_size |-> rel]

\* c : <<serial, mmio_slots>>, b : <<window_bits, addr_space_bits>>,
\* k : <<size, align, min_gpa>>, i : <<initrd_size, bootconfig>>
Images ==
  { Build(c, p, b, res, k, i, rel) :
    c \in { <<FALSE, 0>>, <<TRUE, 3>> },
    p \in {0, 2},
    b \in { <<4, 6>>, <<2, 6>>, <<3, 5>>, <<1, 5>>, <<6, 8>> },
    res \in { {R(0, 2), R(2, 4)},
              {R(0, 2), R(2, 4), R(30, 32), R(24, 25), R(26, 27)},
              {R(0, 2), R(2, 4), R(32, 33), R(34, 38)},
              {R(0, 18), R(30, 34)} },
    k \in { <<5, 4, 0>>, <<6, 8, 9>>, <<3, 4, 50>>, <<19, 4, 0>>, <<4, 4, 104>> },
    i \in { <<0, FALSE>>, <<3, TRUE>>, <<9, FALSE>> },
    rel \in {0, 3} }

Crowded ==
  { Build(c, p, b, res, k, i, rel) :
    c \in { <<FALSE, 0>>, <<TRUE, 0>>, <<FALSE, 5>> },
    p \in {0, 2},
    b \in { <<1, 2>>, <<1, 3>>, <<3, 5>>, <<2, 6>>, <<4, 5>> },
    res \in { {}, {R(0, 5)}, {R(2, 3), R(8, 11)}, {R(0, 30), R(34, 52)} },
    k \in { <<3, 2, 0>>, <<9, 8, 5>>, <<6, 4, 40>> },
    i \in { <<0, TRUE>>, <<3, TRUE>>, <<5, FALSE>> },
    rel \in {0, 1, 7} }

AtTheTop ==
  { Build(<<FALSE, 0>>, 2, b, res, k, i, rel) :
    b \in { <<1, 3>>, <<3, 5>> },
    res \in { {}, {R(0, 30), R(34, 52)}, {R(0, 100), R(104, 244)} },
    k \in { <<6, 4, 40>>, <<2, 1, 251>>, <<3, 4, 252>>, <<4, 8, 252>>, <<3, 2, 0>> },
    i \in { <<0, TRUE>>, <<3, TRUE>>, <<201, TRUE>>, <<249, TRUE>>, <<253, FALSE>> },
    rel \in {0, 1, 7} }

MCInputs == Images \union Crowded \union AtTheTop

-----------------------------------------------------------------------------
Shown ==
  [base : {0, 2, 3, 5, 8}, size : {0, 1, 2, 4}, kind : {"device"}]
    \union [base : {0, 6, 9}, size : {0, 8, 252}, kind : {"payload"}]

Bridge(b, z) ==
  << [base |-> b, size |-> z, kind |-> "window"],
     [base |-> Wrap(b + z), size |-> z, kind |-> "burned"] >>

\* Power-of-two sizes or not, aligned or not, top pair or not, wrapping or not.
Bridges ==
  { <<>>, Bridge(8, 4), Bridge(8, 2), Bridge(6, 3), Bridge(4, 2), Bridge(6, 4),
    Bridge(128, 64), Bridge(128, 128), Bridge(64, 128), Bridge(2, 128) }

OtherMaps ==
  { <<p, q>> \o b : p \in Shown, q \in Shown, b \in Bridges }
    \union { <<p, q, r>> : p \in Shown, q \in Shown, r \in Shown }
    \union { <<>> }

\* A build whose window is too large has failed at its first step.
AfterFailure ==
  /\ in = Build(<<FALSE, 0>>, 2, <<4, 5>>, {}, <<3, 2, 0>>, <<0, TRUE>>, 0)
  /\ pc = "failed" /\ err = "WindowTooLarge"
  /\ occupied = {} /\ layout = [r \in Regions |-> {}] /\ virtio = <<>> /\ cursor = Idle
  /\ bundled = TRUE
  /\ regions \in OtherMaps /\ phase = "sort" /\ at = 1 /\ problems = {}

MCSpec ==
  (PlanCheckInit \/ AfterFailure) /\ [][PlanCheckNext]_allVars /\ WF_allVars(PlanCheckNext)
=============================================================================
