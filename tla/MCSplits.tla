------------------------------ MODULE MCSplits ------------------------------
(* The bench on small numbers, none of which overflows. *)
EXTENDS Ledger

MCDebts == -2..3

ASSUME MCLedgerFits == LedgerFits

=============================================================================
