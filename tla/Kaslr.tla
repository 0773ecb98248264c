------------------------------- MODULE Kaslr -------------------------------
(* Where apply_kaslr() may move an x86 kernel.                             *)
EXTENDS Naturals

CONSTANTS LOAD_PHYSICAL_ADDR, KERNEL_IMAGE_SIZE, KASLR_ALIGN

ASSUME KaslrAssumption ==
    /\ LOAD_PHYSICAL_ADDR \in Nat /\ KERNEL_IMAGE_SIZE \in Nat /\ KASLR_ALIGN \in Nat \ {0}

Less(a, b) == IF a > b THEN a - b ELSE 0    \* saturating_sub

\* The kernel is taken to be linked at 0.
KaslrSlots_FromZero(alloc) == Less(KERNEL_IMAGE_SIZE, alloc) \div KASLR_ALIGN + 1

\* How many places the kernel can be moved to.
KaslrSlots(alloc) == Less(Less(KERNEL_IMAGE_SIZE, alloc), LOAD_PHYSICAL_ADDR) \div KASLR_ALIGN + 1
============================================================================
