----------------------------- MODULE MCAccount -----------------------------
(***************************************************************************)
(* Two requests at a time on one account, with a pool of two connections.  *)
(***************************************************************************)
EXTENDS Account, TLC

Symmetry == Permutations(Slots)

AllOps == Submissions \cup Issuances \cup Others

=============================================================================
