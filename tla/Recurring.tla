------------------------------ MODULE Recurring ------------------------------
(***************************************************************************)
(* The worker that materializes recurring templates (cmd/worker/main.go,   *)
(* service/recurring.go, repo/recurring.go).                               *)
(*                                                                         *)
(* A tick runs under a session-level advisory lock held on a connection of *)
(* its own.  ClaimDue opens an outer transaction that locks the due rows;  *)
(* each expense is then inserted in a transaction of its OWN, next_run_at  *)
(* is advanced in the outer one, and the outer one commits last.  Between  *)
(* an insert and that commit the tick can fail.                            *)
(*                                                                         *)
(* Time is counted in occurrences: a template due at n is next due at      *)
(* n + 1 (see Cadence for the calendar), and its first occurrence is 0,    *)
(* whenever it is created: a start in the past is a legal request.         *)
(* External: PostgreSQL's row locks, advisory locks and foreign-key        *)
(* checks.                                                                 *)
(***************************************************************************)
EXTENDS Integers, FiniteSets

CONSTANTS
    Workers,      \* worker processes
    Templates,    \* recurring_expenses rows
    Groups,
    GroupOf,      \* the group of each template
    Failing,      \* templates whose expense can never be inserted: Create does
                  \* not check that the users of split_template exist
    Deletable,    \* groups somebody may delete
    Limit,        \* rows claimed per tick (100 in the program)
    MaxTime,      \* bound: the clock and the occurrences
    MaxCopies,    \* bound: expenses of one occurrence that are counted
    Crashes,      \* bound: ticks that fail half-way
    LockLosses,   \* bound: advisory locks lost with their connection
    Nil

ASSUME RecurringAssumption ==
    /\ GroupOf \in [Templates -> Groups]
    /\ Failing \subseteq Templates /\ Deletable \subseteq Groups
    /\ MaxTime \in Nat
    /\ MaxCopies \in Nat \ {0} /\ Limit \in Nat \ {0}
    /\ Nil \notin Workers \cup Templates

Times == 0..MaxTime

\* What a tick has claimed: a next_run_at for some of the templates.
Claims == UNION {[C -> Times] : C \in SUBSET Templates}

NoClaim == [t \in {} |-> 0]

VARIABLES
    time,       \* now()
    next,       \* committed next_run_at
    status,     \* of each template: none yet, live, deleted (soft) or gone (cascade)
    group,      \* of each group: live, deleting (row locked) or gone
    copies,     \* expenses ever committed for each template and occurrence
    rowLock,    \* the worker whose outer transaction locks the template row
    advisory,   \* the worker that holds the advisory lock
    pc,         \* where each worker is in runOnce
    claim,      \* the next_run_at each worker read of the rows it claimed
    todo,       \* claimed templates not yet advanced in the outer transaction
    current,    \* the template whose expense was just inserted
    refused,    \* history: ticks that ended at an insert the database refused,
                \* counted up to MaxCopies
    crashes, lockLosses

vars == <<time, next, status, group, copies, rowLock, advisory, pc, claim,
          todo, current, refused, crashes, lockLosses>>

dbVars     == <<time, next, status, group, copies>>
faultVars  == <<refused, crashes, lockLosses>>

Init ==
    /\ time = 0
    /\ next = [t \in Templates |-> 0]
    /\ status = [t \in Templates |-> "none"]
    /\ group = [g \in Groups |-> "live"]
    /\ copies = [t \in Templates |-> [n \in Times |-> 0]]
    /\ rowLock = [t \in Templates |-> Nil]
    /\ advisory = Nil
    /\ pc = [w \in Workers |-> "idle"]
    /\ claim = [w \in Workers |-> NoClaim]
    /\ todo = [w \in Workers |-> {}]
    /\ current = [w \in Workers |-> Nil]
    /\ refused = 0 /\ crashes = 0 /\ lockLosses = 0

-----------------------------------------------------------------------------
(* A tick of worker w *)

\* pg_try_advisory_lock: a worker that does not get it skips the tick.
TryLock(w) ==
    /\ pc[w] = "idle" /\ advisory = Nil
    /\ advisory' = w
    /\ pc' = [pc EXCEPT ![w] = "ticking"]
    /\ UNCHANGED <<dbVars, rowLock, claim, todo, current, faultVars>>

\* The rows ClaimDue can return.
Due == {t \in Templates : status[t] = "live" /\ next[t] <= time /\ rowLock[t] = Nil}

\* Rows a deletion of their group may have locked by now: it locks the group
\* first and then, one after the other, the rows it cascades to.
Cascading == {t \in Templates : group[GroupOf[t]] = "deleting"}

\* ORDER BY next_run_at LIMIT: the earliest rows, ties in any order.
Earliest(S, n) ==
    {C \in SUBSET S : /\ Cardinality(C) = IF Cardinality(S) < n THEN Cardinality(S) ELSE n
                      /\ \A t \in C, u \in S \ C : next[t] <= next[u]}

\* Mutant of ClaimDue: a SELECT that neither takes nor respects row locks.
ClaimDueUnlocked(w) ==
    /\ pc[w] = "ticking"
    /\ LET C == {t \in Templates : status[t] = "live" /\ next[t] <= time}
       IN  /\ claim' = [claim EXCEPT ![w] = [t \in C |-> next[t]]]
           /\ todo' = [todo EXCEPT ![w] = C]
    /\ pc' = [pc EXCEPT ![w] = "claimed"]
    /\ UNCHANGED <<dbVars, rowLock, advisory, current, faultVars>>

LockAndRead(w, C) ==
    /\ claim' = [claim EXCEPT ![w] = [t \in C |-> next[t]]]
    /\ todo' = [todo EXCEPT ![w] = C]
    /\ rowLock' = [t \in Templates |-> IF t \in C THEN w ELSE rowLock[t]]

\* SELECT ... FOR UPDATE SKIP LOCKED.
ClaimDue(w) ==
    /\ pc[w] = "ticking"
    /\ \E reached \in SUBSET Cascading :
          \E C \in Earliest(Due \ reached, Limit) : LockAndRead(w, C)
    /\ pc' = [pc EXCEPT ![w] = "claimed"]
    /\ UNCHANGED <<dbVars, advisory, current, faultVars>>

\* Rows are taken in the order of the claim.
First(w) == {t \in todo[w] : \A u \in todo[w] : claim[w][t] <= claim[w][u]}

\* CreateWithSplits commits the expense, dated with the claimed next_run_at.
\* Its foreign key takes a share lock on the group row, so it waits for a
\* deletion of the group that is under way.
Insert(w, t) ==
    /\ pc[w] = "claimed" /\ t \in First(w)
    /\ t \notin Failing
    /\ group[GroupOf[t]] = "live"
    /\ copies' = [copies EXCEPT ![t][claim[w][t]] = IF @ < MaxCopies THEN @ + 1 ELSE @]
    /\ current' = [current EXCEPT ![w] = t]
    /\ pc' = [pc EXCEPT ![w] = "inserted"]
    /\ UNCHANGED <<time, next, status, group, rowLock, advisory, claim, todo, faultVars>>

\* UpdateNextRunTx in the outer transaction: not visible before it commits.
Advance(w) ==
    /\ pc[w] = "inserted"
    /\ todo' = [todo EXCEPT ![w] = @ \ {current[w]}]
    /\ current' = [current EXCEPT ![w] = Nil]
    /\ pc' = [pc EXCEPT ![w] = "claimed"]
    /\ UNCHANGED <<dbVars, rowLock, advisory, claim, faultVars>>

\* The end of w's outer transaction: its row locks are released.
EndClaim(w) ==
    /\ rowLock' = [t \in Templates |-> IF rowLock[t] = w THEN Nil ELSE rowLock[t]]
    /\ claim' = [claim EXCEPT ![w] = NoClaim]
    /\ todo' = [todo EXCEPT ![w] = {}]
    /\ current' = [current EXCEPT ![w] = Nil]

\* The deferred pg_advisory_unlock, or the end of the session.
Unlock(w) ==
    /\ advisory' = IF advisory = w THEN Nil ELSE advisory
    /\ pc' = [pc EXCEPT ![w] = "idle"]

\* Mutant of Commit: next_run_at catches up with the clock in one jump.
CommitCatchUp(w) ==
    /\ pc[w] = "claimed" /\ todo[w] = {}
    /\ next' = [t \in Templates |-> IF t \in DOMAIN claim[w] THEN time + 1 ELSE next[t]]
    /\ EndClaim(w)
    /\ pc' = [pc EXCEPT ![w] = "draining"]
    /\ UNCHANGED <<time, status, group, copies, advisory, faultVars>>

Commit(w) ==
    /\ pc[w] = "claimed" /\ todo[w] = {}
    /\ next' = [t \in Templates |-> IF t \in DOMAIN claim[w] THEN claim[w][t] + 1 ELSE next[t]]
    /\ EndClaim(w)
    /\ pc' = [pc EXCEPT ![w] = "draining"]
    /\ UNCHANGED <<time, status, group, copies, advisory, faultVars>>

\* Mutant of Finish: a return before the unlock is deferred.
FinishLocked(w) ==
    /\ pc[w] = "draining"
    /\ pc' = [pc EXCEPT ![w] = "idle"]
    /\ UNCHANGED <<dbVars, rowLock, advisory, claim, todo, current, faultVars>>

\* The outbox is drained (see Outbox) and the lock released.
Finish(w) ==
    /\ pc[w] = "draining"
    /\ Unlock(w)
    /\ UNCHANGED <<dbVars, rowLock, claim, todo, current, faultVars>>

\* Mutant of InsertFails: the tick logs the error and takes the next template.
InsertFailsSkipped(w, t) ==
    /\ pc[w] = "claimed" /\ t \in First(w)
    /\ t \in Failing
    /\ todo' = [todo EXCEPT ![w] = @ \ {t}]
    /\ UNCHANGED <<dbVars, rowLock, advisory, pc, claim, current, faultVars>>

\* An insert the database refuses makes Tick return: the outer transaction is
\* rolled back and the outbox is not drained.
InsertFails(w, t) ==
    /\ pc[w] = "claimed" /\ t \in First(w)
    /\ t \in Failing
    /\ refused' = IF refused < MaxCopies THEN refused + 1 ELSE refused
    /\ EndClaim(w) /\ Unlock(w)
    /\ UNCHANGED <<dbVars, crashes, lockLosses>>

\* The process dies, its context is cancelled or a statement fails.
Crash(w) ==
    /\ pc[w] # "idle" /\ crashes < Crashes
    /\ crashes' = crashes + 1
    /\ EndClaim(w) /\ Unlock(w)
    /\ UNCHANGED <<dbVars, refused, lockLosses>>

\* The connection that holds the advisory lock drops; the tick goes on.
LoseLock(w) ==
    /\ advisory = w /\ lockLosses < LockLosses
    /\ lockLosses' = lockLosses + 1
    /\ advisory' = Nil
    /\ UNCHANGED <<dbVars, rowLock, pc, claim, todo, current, refused, crashes>>

-----------------------------------------------------------------------------
(* The API *)

\* RecurringService.Create inserts the row; its foreign key waits for a deletion
\* of the group and refuses a row of a group that is gone.
Create(t) ==
    /\ status[t] = "none" /\ group[GroupOf[t]] = "live"
    /\ status' = [status EXCEPT ![t] = "live"]
    /\ UNCHANGED <<time, next, group, copies, rowLock, advisory, pc, claim, todo,
                   current, faultVars>>

\* Mutant of DeleteTemplate: the worker's claim does not hold it back.
DeleteTemplateNow(t) ==
    /\ status[t] = "live"
    /\ status' = [status EXCEPT ![t] = "deleted"]
    /\ UNCHANGED <<time, next, group, copies, rowLock, advisory, pc, claim, todo,
                   current, faultVars>>

\* RecurringService.Delete: the UPDATE waits for the row lock.
DeleteTemplate(t) ==
    /\ status[t] = "live" /\ rowLock[t] = Nil
    /\ status' = [status EXCEPT ![t] = "deleted"]
    /\ UNCHANGED <<time, next, group, copies, rowLock, advisory, pc, claim, todo,
                   current, faultVars>>

\* DELETE FROM groups locks the group row and then cascades to the templates,
\* waiting for every row lock on them; the caller may give up meanwhile.
GroupDeleteBegin(g) ==
    /\ g \in Deletable /\ group[g] = "live"
    /\ group' = [group EXCEPT ![g] = "deleting"]
    /\ UNCHANGED <<time, next, status, copies, rowLock, advisory, pc, claim, todo,
                   current, faultVars>>

TemplatesOf(g) == {t \in Templates : GroupOf[t] = g}

GroupDeleteCommit(g) ==
    /\ group[g] = "deleting"
    /\ \A t \in TemplatesOf(g) : rowLock[t] = Nil
    /\ group' = [group EXCEPT ![g] = "gone"]
    /\ status' = [t \in Templates |->
                     IF t \in TemplatesOf(g) /\ status[t] # "none" THEN "gone" ELSE status[t]]
    /\ UNCHANGED <<time, next, copies, rowLock, advisory, pc, claim, todo, current,
                   faultVars>>

GroupDeleteCancel(g) ==
    /\ group[g] = "deleting"
    /\ group' = [group EXCEPT ![g] = "live"]
    /\ UNCHANGED <<time, next, status, copies, rowLock, advisory, pc, claim, todo,
                   current, faultVars>>

TimePasses ==
    /\ time < MaxTime
    /\ time' = time + 1
    /\ UNCHANGED <<next, status, group, copies, rowLock, advisory, pc, claim, todo,
                   current, faultVars>>

-----------------------------------------------------------------------------
TickStep(w) ==
    \/ ClaimDue(w) \/ Advance(w) \/ Commit(w) \/ Finish(w)
    \/ \E t \in Templates : Insert(w, t) \/ InsertFails(w, t)

Next ==
    \/ TimePasses
    \/ \E w \in Workers : TryLock(w) \/ TickStep(w) \/ Crash(w) \/ LoseLock(w)
    \/ \E t \in Templates : Create(t) \/ DeleteTemplate(t)
    \/ \E g \in Groups : GroupDeleteBegin(g) \/ GroupDeleteCommit(g) \/ GroupDeleteCancel(g)

Spec == Init /\ [][Next]_vars

\* The ticker fires every minute, a tick that can go on does, and PostgreSQL
\* queues lock waiters, so a statement whose locks are free again and again
\* runs.  Nobody has to cancel a deletion.
FairSpec ==
    /\ Spec
    /\ WF_vars(TimePasses)
    /\ \A w \in Workers : WF_vars(TryLock(w)) /\ SF_vars(TickStep(w))
    /\ \A g \in Groups : WF_vars(GroupDeleteCommit(g))

-----------------------------------------------------------------------------
(* Properties *)

TypeOK ==
    /\ time \in Times
    /\ next \in [Templates -> 0..(MaxTime + 1)]
    /\ status \in [Templates -> {"none", "live", "deleted", "gone"}]
    /\ group \in [Groups -> {"live", "deleting", "gone"}]
    /\ copies \in [Templates -> [Times -> Nat]]
    /\ rowLock \in [Templates -> Workers \cup {Nil}]
    /\ advisory \in Workers \cup {Nil}
    /\ pc \in [Workers -> {"idle", "ticking", "claimed", "inserted", "draining"}]
    /\ claim \in [Workers -> Claims]
    /\ todo \in [Workers -> SUBSET Templates]
    /\ current \in [Workers -> Templates \cup {Nil}]
    /\ refused \in 0..MaxCopies /\ crashes \in Nat /\ lockLosses \in Nat

\* No occurrence is passed over: next_run_at leaves an occurrence behind only
\* once an expense of it is committed, whatever crashes in between.  This is
\* why Tick inserts first and commits the schedule last.
NoSkip == \A t \in Templates, n \in Times : n < next[t] => copies[t][n] > 0

\* The price of that order: every tick that fails may leave one more copy of
\* an occurrence, whether it dies or another template of its claim is refused,
\* and nothing else does, two workers included.
DuplicatesOnlyByFailure ==
    \A t \in Templates, n \in Times : copies[t][n] <= 1 + crashes + refused

\* Once a template's deletion is acknowledged it makes no expense any more,
\* even if a worker had already claimed it when the request arrived.
NothingAfterDelete ==
    [][\A t \in Templates : status[t] # "live" => copies'[t] = copies[t] /\ next'[t] = next[t]]_vars

\* The worker implements the schedule a template promises.
Promise == INSTANCE Schedule WITH stopped <- {t \in Templates : status[t] \in {"deleted", "gone"}}
KeepsPromise == Promise!Spec

\* A template is due whose expense the database refuses.
Poisoned == \E f \in Failing : status[f] = "live" /\ next[f] <= time

\* A due template whose expense can be inserted moves on, or is deleted, in the
\* end, whatever other templates are due with it and whatever ticks fail: what
\* holds it up is a template that is refused each time, until somebody deletes
\* that one.
DueAdvances ==
    \A t \in Templates \ Failing, n \in Times :
        (status[t] = "live" /\ next[t] = n /\ n <= time)
            ~> (next[t] > n \/ status[t] # "live" \/ Poisoned)

\* "Inserts use their own short-lived transaction" (Tick): a claim comes to an
\* end, so the row locks it holds do too.
ClaimEnds == \A w \in Workers : pc[w] = "claimed" ~> pc[w] # "claimed"

=============================================================================
