-------------------------- MODULE MCAdministrators --------------------------
(***************************************************************************)
(* Three identities and two requests at a time, from the first boot on.    *)
(***************************************************************************)
EXTENDS Administrators, TLC

Symmetry == Permutations(Users) \cup Permutations(Slots)

=============================================================================
