----------------------------- MODULE MCAdminDesk -----------------------------
(* A small instance of AdminDesk: two requests at a time, two guesses. *)
EXTENDS AdminDesk, TLC

Symmetry == Permutations(Slots)
=============================================================================
