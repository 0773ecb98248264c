-------------------------------- MODULE U64 --------------------------------
(***************************************************************************)
(* The width of the code's u64, for the modules that share it.             *)
(***************************************************************************)
EXTENDS Integers

CONSTANT U64_MAX  \* u64::MAX

\* n.is_power_of_two(): no odd divisor but 1 (false of 0).
is_power_of_two(n) == n > 0 /\ \A d \in 2..n : n % d = 0 => d % 2 = 0

\* An unchecked sum in the release build (a debug build panics instead).
Wrap(n) == n % (U64_MAX + 1)

\* 2^64 is a multiple of every power of two below it.
ASSUME U64Assumption ==
  /\ U64_MAX \in Nat
  /\ \A n \in 1..U64_MAX : is_power_of_two(n) => (U64_MAX + 1) % n = 0
=============================================================================
