------------------------------ MODULE Schedule ------------------------------
(***************************************************************************)
(* What recurring templates promise: the occurrences of a template are     *)
(* turned into expenses in order, and the schedule moves past an           *)
(* occurrence only after it has been.  How often an occurrence is turned   *)
(* into an expense before the schedule moves on is left open here; see     *)
(* DuplicatesOnlyByFailure in Recurring.                                   *)
(***************************************************************************)
EXTENDS Integers

CONSTANTS Templates,   \* recurring_expenses rows
          MaxTime,     \* bound: the last occurrence the model reaches
          MaxCopies    \* bound: copies of one occurrence that are counted

Times == 0..MaxTime

VARIABLES next,        \* by template, the next occurrence to materialize
          copies,      \* by template and occurrence, the expenses made of it
          stopped      \* templates deleted, alone or with their group

Init ==
    /\ next \in [Templates -> Times]
    /\ copies = [t \in Templates |-> [n \in Times |-> 0]]
    /\ stopped = {}

Materialize(t) ==
    /\ t \notin stopped
    /\ next[t] \in Times
    /\ copies' = [copies EXCEPT ![t][next[t]] = IF @ < MaxCopies THEN @ + 1 ELSE @]
    /\ UNCHANGED <<next, stopped>>

\* One commit may move several schedules, each by one occurrence.
Advance(S) ==
    /\ S \cap stopped = {}
    /\ \A t \in S : next[t] \in Times /\ copies[t][next[t]] > 0
    /\ next' = [t \in Templates |-> IF t \in S THEN next[t] + 1 ELSE next[t]]
    /\ UNCHANGED <<copies, stopped>>

Stop(S) ==
    /\ stopped' = stopped \cup S
    /\ UNCHANGED <<next, copies>>

Next ==
    \/ \E t \in Templates : Materialize(t)
    \/ \E S \in SUBSET Templates : Advance(S) \/ Stop(S)

vars == <<next, copies, stopped>>

Spec == Init /\ [][Next]_vars

=============================================================================
