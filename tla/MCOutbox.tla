------------------------------ MODULE MCOutbox ------------------------------
(***************************************************************************)
(* Two workers that may hold the same two messages in their batches.       *)
(***************************************************************************)
EXTENDS Outbox
=============================================================================
