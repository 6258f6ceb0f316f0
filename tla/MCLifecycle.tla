----------------------------- MODULE MCLifecycle -----------------------------
(***************************************************************************)
(* Both kinds of kernels; three CPUs, which come and go; two users, one    *)
(* of which can be in a call while the other opens, closes or waits; two   *)
(* blocks, one of which can be the list while a freed one is still in use; *)
(* two devices have fixed major numbers.                                   *)
(***************************************************************************)
EXTENDS Lifecycle, TLC

CONSTANTS c1, c2, c3, u1, u2, b1, b2

\* CPUs, users and blocks are only compared.
Symmetry == Permutations(CPUs) \cup Permutations(Users) \cup Permutations(Blocks)
==============================================================================
