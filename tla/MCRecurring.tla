---------------------------- MODULE MCRecurring ----------------------------
(* Small instances of Recurring: two workers, two templates of two groups, *)
(* or three of which one is refused.                                       *)
EXTENDS Recurring

CONSTANTS t1, t2, g1, g2

MCGroupOf == [t \in Templates |-> IF t = t1 THEN g1 ELSE g2]

=============================================================================
