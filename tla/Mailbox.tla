------------------------------- MODULE Mailbox -------------------------------
(***************************************************************************)
(* What the outbox promises of a message, without workers, locks, batches  *)
(* or a server's settings: it is recorded as sent only after a server has  *)
(* accepted it and stays so, it goes out once and once more for each thing *)
(* that has gone wrong at most, and it is tried no more often than the     *)
(* limit and the faults allow.                                             *)
(***************************************************************************)
EXTENDS Naturals

CONSTANTS Messages, MaxAttempts

VARIABLES queued, sent, attempts, delivered, faults

mail == <<queued, sent, attempts, delivered, faults>>

Init ==
    /\ queued = {} /\ sent = {} /\ faults = 0
    /\ attempts = [m \in Messages |-> 0]
    /\ delivered = [m \in Messages |-> 0]

Enqueue(m) ==
    /\ m \notin queued
    /\ queued' = queued \cup {m}
    /\ UNCHANGED <<sent, attempts, delivered, faults>>

\* The server accepts the message, and its answer may be lost.
Accept(m) ==
    /\ m \in queued
    /\ delivered' = [delivered EXCEPT ![m] = @ + 1]
    /\ faults' \in {faults, faults + 1}
    /\ delivered[m] <= faults'
    /\ UNCHANGED <<queued, sent, attempts>>

\* The message is recorded as sent.
Record(m) ==
    /\ m \in queued \ sent /\ delivered[m] > 0
    /\ sent' = sent \cup {m}
    /\ UNCHANGED <<queued, attempts, delivered, faults>>

\* A failed attempt is recorded.
Refuse(m) ==
    /\ m \in queued /\ attempts[m] < MaxAttempts + faults
    /\ attempts' = [attempts EXCEPT ![m] = @ + 1]
    /\ UNCHANGED <<queued, sent, delivered, faults>>

\* A worker dies, a record is lost or a lock drops.
Fault == faults' = faults + 1 /\ UNCHANGED <<queued, sent, attempts, delivered>>

Next == Fault \/ \E m \in Messages : Enqueue(m) \/ Accept(m) \/ Record(m) \/ Refuse(m)

Spec == Init /\ [][Next]_mail

=============================================================================
