------------------------------- MODULE Outbox -------------------------------
(***************************************************************************)
(* The email outbox and the dispatcher that drains it at the end of a tick *)
(* (service/mailer.go, repo/email_outbox.go, cmd/worker/main.go).          *)
(*                                                                         *)
(* The dispatcher reads due rows without locking them, delivers them one   *)
(* after the other and records the outcome of each in a statement of its   *)
(* own, whose error it ignores.  Only the advisory lock of the tick keeps  *)
(* two dispatchers apart.                                                  *)
(*                                                                         *)
(* A row waits for its backoff and becomes due again; how long is left     *)
(* out.  External: the SMTP server, PostgreSQL and its advisory locks.     *)
(***************************************************************************)
EXTENDS Integers, FiniteSets

CONSTANTS
    Workers,
    Messages,     \* rows of email_outbox
    MaxAttempts,  \* failed attempts after which a row is given up (5)
    Limit,        \* rows read per tick (50)
    Faults,       \* bound: things that go wrong beside a refused delivery
    Nil

ASSUME OutboxAssumption ==
    /\ IsFiniteSet(Workers) /\ IsFiniteSet(Messages)
    /\ MaxAttempts \in Nat \ {0} /\ Limit \in Nat \ {0} /\ Faults \in Nat
    /\ Nil \notin Workers \cup Messages

VARIABLES
    queued,     \* rows that exist
    sent,       \* rows with sent_at
    attempts,   \* failed attempts recorded on each row
    due,        \* rows whose next_attempt_at has passed
    delivered,  \* history: how often the server accepted each message
    configured, \* an SMTP server is configured
    advisory,   \* the worker that holds the advisory lock
    pc,         \* where each worker is
    batch,      \* rows it read and has not tried yet
    current,    \* the row it is delivering or recording
    faults

vars == <<queued, sent, attempts, due, delivered, configured, advisory, pc,
          batch, current, faults>>

table  == <<queued, sent, attempts, due>>
worker == <<advisory, pc, batch, current>>

Init ==
    /\ queued = {} /\ sent = {} /\ due = {}
    /\ attempts = [m \in Messages |-> 0]
    /\ delivered = [m \in Messages |-> 0]
    /\ configured \in BOOLEAN
    /\ advisory = Nil
    /\ pc = [w \in Workers |-> "idle"]
    /\ batch = [w \in Workers |-> {}]
    /\ current = [w \in Workers |-> Nil]
    /\ faults = 0

-----------------------------------------------------------------------------
(* The rows *)

\* A row is inserted, due at once, by the action it is about.
Enqueue(m) ==
    /\ m \notin queued
    /\ queued' = queued \cup {m}
    /\ due' = due \cup {m}
    /\ UNCHANGED <<sent, attempts, delivered, configured, worker, faults>>

\* next_attempt_at passes.
Elapse(m) ==
    /\ m \in queued \ due
    /\ due' = due \cup {m}
    /\ UNCHANGED <<queued, sent, attempts, delivered, configured, worker, faults>>

Configure ==
    /\ configured' = ~configured
    /\ UNCHANGED <<table, delivered, worker, faults>>

GivenUp(m) == attempts[m] >= MaxAttempts

\* Mutant of Pending: one attempt too many.
PendingOffByOne == {m \in queued \ sent : attempts[m] <= MaxAttempts}

Pending == {m \in queued \ sent : ~GivenUp(m)}

-----------------------------------------------------------------------------
(* A tick of worker w, after the recurring templates *)

TryLock(w) ==
    /\ pc[w] = "idle" /\ advisory = Nil
    /\ advisory' = w
    /\ pc' = [pc EXCEPT ![w] = "ticking"]
    /\ UNCHANGED <<table, delivered, configured, batch, current, faults>>

Leave(w) ==
    /\ advisory' = IF advisory = w THEN Nil ELSE advisory
    /\ pc' = [pc EXCEPT ![w] = "idle"]
    /\ batch' = [batch EXCEPT ![w] = {}]
    /\ current' = [current EXCEPT ![w] = Nil]

\* The tick failed before the outbox, or no server is configured.
Skip(w) ==
    /\ pc[w] = "ticking"
    /\ Leave(w)
    /\ UNCHANGED <<table, delivered, configured, faults>>

\* Up to Limit of the pending rows that are due.
Readable ==
    LET rows == Pending \cap due
    IN  {B \in SUBSET rows : Cardinality(B) = IF Cardinality(rows) < Limit
                                              THEN Cardinality(rows) ELSE Limit}

\* DispatchOutbox: IsConfigured, then ClaimDue.
ClaimDue(w) ==
    /\ pc[w] = "ticking" /\ configured
    /\ \E B \in Readable : batch' = [batch EXCEPT ![w] = B]
    /\ pc' = [pc EXCEPT ![w] = "draining"]
    /\ UNCHANGED <<table, delivered, configured, advisory, current, faults>>

Take(w, m, outcome) ==
    /\ pc[w] = "draining" /\ m \in batch[w]
    /\ batch' = [batch EXCEPT ![w] = @ \ {m}]
    /\ current' = [current EXCEPT ![w] = m]
    /\ pc' = [pc EXCEPT ![w] = outcome]
    /\ UNCHANGED <<table, configured, advisory>>

\* sendOne succeeds: the server has accepted the message.
Send(w, m) ==
    /\ Take(w, m, "sent")
    /\ delivered' = [delivered EXCEPT ![m] = @ + 1]
    /\ UNCHANGED faults

\* Mutant of SendFails: the error of sendOne is only logged.
SendFailsQuietly(w, m) ==
    /\ Take(w, m, "sent")
    /\ UNCHANGED <<delivered, faults>>

\* sendOne, or decrypting the address, fails.
SendFails(w, m) ==
    /\ Take(w, m, "failed")
    /\ UNCHANGED <<delivered, faults>>

\* The server accepts the message but its answer is lost.
SendUnclear(w, m) ==
    /\ faults < Faults
    /\ Take(w, m, "failed")
    /\ delivered' = [delivered EXCEPT ![m] = @ + 1]
    /\ faults' = faults + 1

Recorded(w) ==
    /\ pc' = [pc EXCEPT ![w] = "draining"]
    /\ current' = [current EXCEPT ![w] = Nil]
    /\ UNCHANGED <<queued, delivered, configured, advisory, batch>>

\* Mutant of MarkSent: sent_at is not set.
MarkSentUnset(w) ==
    /\ pc[w] = "sent"
    /\ Recorded(w)
    /\ UNCHANGED <<sent, attempts, due, faults>>

MarkSent(w) ==
    /\ pc[w] = "sent"
    /\ sent' = sent \cup {current[w]}
    /\ Recorded(w)
    /\ UNCHANGED <<attempts, due, faults>>

\* attempts = attempts + 1, whatever it is by now, and a new next_attempt_at.
MarkFailed(w) ==
    /\ pc[w] = "failed"
    /\ attempts' = [attempts EXCEPT ![current[w]] = @ + 1]
    /\ due' = due \ {current[w]}
    /\ Recorded(w)
    /\ UNCHANGED <<sent, faults>>

\* The statement that records the outcome fails, and its error is ignored.
MarkLost(w) ==
    /\ pc[w] \in {"sent", "failed"} /\ faults < Faults
    /\ faults' = faults + 1
    /\ Recorded(w)
    /\ UNCHANGED <<sent, attempts, due>>

\* Mutant of Finish: the lock is not released.
FinishLocked(w) ==
    /\ pc[w] = "draining" /\ batch[w] = {}
    /\ pc' = [pc EXCEPT ![w] = "idle"]
    /\ UNCHANGED <<table, delivered, configured, advisory, batch, current, faults>>

\* The batch is done: the lock is released.
Finish(w) ==
    /\ pc[w] = "draining" /\ batch[w] = {}
    /\ Leave(w)
    /\ UNCHANGED <<table, delivered, configured, faults>>

\* The worker dies or its context is cancelled.
Crash(w) ==
    /\ pc[w] # "idle" /\ faults < Faults
    /\ faults' = faults + 1
    /\ Leave(w)
    /\ UNCHANGED <<table, delivered, configured>>

\* The connection that holds the advisory lock drops; the tick goes on.
LoseLock(w) ==
    /\ advisory = w /\ faults < Faults
    /\ faults' = faults + 1
    /\ advisory' = Nil
    /\ UNCHANGED <<table, delivered, configured, pc, batch, current>>

-----------------------------------------------------------------------------
Drain(w) ==
    \/ MarkSent(w) \/ MarkFailed(w) \/ Finish(w)
    \/ \E m \in Messages : Send(w, m) \/ SendFails(w, m)

Goes(w) ==
    \/ TryLock(w) \/ Skip(w) \/ ClaimDue(w) \/ Drain(w)
    \/ MarkLost(w) \/ Crash(w) \/ LoseLock(w)
    \/ \E m \in Messages : SendUnclear(w, m)

Next ==
    \/ \E m \in Messages : Enqueue(m) \/ Elapse(m)
    \/ Configure
    \/ \E w \in Workers : Goes(w)

Spec == Init /\ [][Next]_vars

\* The ticker fires and backoffs end; a dispatcher whose next statement can run
\* runs; and of the ticks that take the lock not all fail before the outbox.
FairSpec ==
    /\ Spec
    /\ \A m \in Messages : WF_vars(Elapse(m))
    /\ \A w \in Workers : WF_vars(TryLock(w)) /\ SF_vars(ClaimDue(w)) /\ WF_vars(Drain(w))

-----------------------------------------------------------------------------
(* Properties *)

TypeOK ==
    /\ queued \subseteq Messages /\ sent \subseteq queued /\ due \subseteq queued
    /\ attempts \in [Messages -> Nat]
    /\ delivered \in [Messages -> Nat]
    /\ configured \in BOOLEAN
    /\ advisory \in Workers \cup {Nil}
    /\ pc \in [Workers -> {"idle", "ticking", "draining", "sent", "failed"}]
    /\ batch \in [Workers -> SUBSET queued]
    /\ current \in [Workers -> queued \cup {Nil}]
    /\ \A w \in Workers : current[w] # Nil <=> pc[w] \in {"sent", "failed"}
    /\ faults \in 0..Faults

\* A row marked as sent was accepted by the server: no message is lost to a
\* crash between reading the row and recording its outcome.
SentWasDelivered == \A m \in sent : delivered[m] > 0

\* Nobody gets a message twice unless something failed in between, once per
\* failure: delivery comes before the record of it and there is no other lock.
TwiceOnlyByFault == \A m \in Messages : delivered[m] <= 1 + faults

\* Attempts are bounded: the counter passes the limit only by what dispatchers
\* that lost their lock had read before.
AttemptsBounded == \A m \in Messages : attempts[m] <= MaxAttempts + faults

\* The two together, and that no row is recorded as sent that has not been
\* accepted nor ever stops being so: dispatchers that race, die and lose their
\* lock or their records keep the promise of a mailbox, step by step.
Promise == INSTANCE Mailbox

KeepsMail == Promise!Spec

\* Every row is settled in the end, as long as a server is configured.
Settles ==
    \A m \in Messages :
        []<>~configured \/ (m \in queued ~> m \in sent \/ GivenUp(m))

=============================================================================
