----------------------------- MODULE ExpenseEdit -----------------------------
(***************************************************************************)
(* One expense and the requests that edit or delete it concurrently        *)
(* (service/expense.go and repo/expense.go).                               *)
(*                                                                         *)
(* The service checks a request against rows it reads without a lock; the  *)
(* repository then opens a transaction, locks the row with SELECT ... FOR  *)
(* UPDATE, compares field by field, and writes the row, the splits and one *)
(* revision per changed field.  A transaction is visible only when it      *)
(* commits, so its writes are one step; the reads before it are not.       *)
(*                                                                         *)
(* External: PostgreSQL at READ COMMITTED, seen as the committed row, its  *)
(* row lock, and now(), which is the time a transaction BEGAN.             *)
(***************************************************************************)
EXTENDS Splits

CONSTANTS
    Requests,     \* requests on the expense, each served once
    Users,        \* user ids
    Members,      \* members of the expense's group, constant here
    Categories,   \* the seeded categories
    Creations,    \* create requests the model tries
    Patches,      \* update requests the model tries
    Nil           \* an absent field of a patch

\* A timestamp is a second and a fraction; only the second is shown.
Instant == [sec : Nat, frac : Nat]

SplitRequest == [mode : Modes, in : Seq([user : Users, value : Nat])]

Row == [description : STRING, category_id : Categories, payer_id : Members,
        incurred_at : Instant, amount_cents : Int, deleted : BOOLEAN]

Patch == [description : STRING \cup {Nil}, category_id : STRING \cup {Nil},
          payer_id : Users \cup {Nil}, incurred_at : Instant \cup {Nil},
          amount_cents : Int \cup {Nil}, split : SplitRequest \cup {Nil}]

Creation == [description : STRING, category_id : Categories, payer_id : Users,
             incurred_at : Instant, amount_cents : Int, split : SplitRequest]

ASSUME ExpenseEditAssumption ==
    /\ Members \subseteq Users
    /\ Users \subseteq Nat \ {0}
    /\ Categories \subseteq STRING
    /\ Patches \subseteq Patch
    /\ Creations \subseteq Creation
    /\ Nil \notin Requests \cup Int \cup STRING \cup Instant \cup SplitRequest \cup Row

Fields == {"description", "category_id", "payer_id", "incurred_at",
           "amount_cents", "splits"}

VARIABLES
    row,        \* the committed expenses row, Nil before it is created
    splits,     \* its committed splits, cents by user
    revisions,  \* by field, the committed expense_revisions in commit order
    lock,       \* the request whose transaction holds the row lock, or Nil
    pc,         \* where each request is
    req,        \* what each request asks for and what it has read so far
    created     \* history: the row and splits as first committed

vars == <<row, splits, revisions, lock, pc, req, created>>

Idle == [actor |-> Nil, patch |-> Nil, seen |-> Nil, resolved |-> Nil, base |-> Nil]

Init ==
    /\ row = Nil
    /\ splits = NoShares
    /\ revisions = [f \in Fields |-> <<>>]
    /\ lock = Nil
    /\ pc = [r \in Requests |-> "idle"]
    /\ req = [r \in Requests |-> Idle]
    /\ created = Nil

-----------------------------------------------------------------------------
(* Checks of the service, made on committed rows without a lock. *)

Exists == row # Nil

Live == Exists /\ ~row.deleted

SplitUsers(s) == {s.in[i].user : i \in DOMAIN s.in}

\* Conditions on the request alone.
WellFormed(p) ==
    /\ p # [f \in DOMAIN p |-> Nil]
    /\ p.amount_cents # Nil => p.amount_cents > 0
    /\ p.description # ""

\* Payer and split users are members, the category is a seeded one.
Refers(p) ==
    /\ p.category_id # Nil => p.category_id \in Categories
    /\ p.payer_id # Nil => p.payer_id \in Members
    /\ p.split # Nil => SplitUsers(p.split) \subseteq Members

\* The amount a patch's splits are resolved against: its own, or the one read.
AmountFor(p, seen) == IF p.amount_cents = Nil THEN seen ELSE p.amount_cents

Shares(p, seen) == ResolveSplits(p.split.mode, AmountFor(p, seen), p.split.in)

Resolves(p, seen) == p.split # Nil => Shares(p, seen) # NoShares

Rows(p, seen) == IF p.split = Nil THEN Nil ELSE SplitRows(p.split.in, Shares(p, seen))

-----------------------------------------------------------------------------
(* Create: the checks read only the group, which is constant here, and the *)
(* row and its splits are inserted in one transaction.                     *)

Create(a, c) ==
    /\ ~Exists
    /\ a \in Members
    /\ WellFormed(c) /\ Refers(c) /\ Resolves(c, 0)
    /\ row' = [description |-> c.description, category_id |-> c.category_id,
               payer_id |-> c.payer_id, incurred_at |-> c.incurred_at,
               amount_cents |-> c.amount_cents, deleted |-> FALSE]
    /\ splits' = Rows(c, 0)
    /\ created' = [row |-> row', splits |-> splits']
    /\ UNCHANGED <<revisions, lock, pc, req>>

-----------------------------------------------------------------------------
(* Update *)

\* Everything ExpenseService.Update checks before it calls the repository.
Accepts(a, p) ==
    /\ WellFormed(p)
    /\ Live
    /\ a \in Members
    /\ Refers(p)
    /\ Resolves(p, row.amount_cents)

UpdateRefused(r, a, p) ==
    /\ Exists /\ pc[r] = "idle"
    /\ ~Accepts(a, p)
    /\ pc' = [pc EXCEPT ![r] = "failed"]
    /\ UNCHANGED <<row, splits, revisions, lock, req, created>>

UpdateChecked(r, a, p) ==
    /\ Exists /\ pc[r] = "idle"
    /\ Accepts(a, p)
    /\ pc' = [pc EXCEPT ![r] = "checked"]
    /\ req' = [req EXCEPT ![r] = [Idle EXCEPT !.actor = a, !.patch = p,
                                  !.seen = row.amount_cents,
                                  !.resolved = Rows(p, row.amount_cents)]]
    /\ UNCHANGED <<row, splits, revisions, lock, created>>

\* Mutants of UpdateLock: a plain SELECT, and a FOR UPDATE whose result is not
\* checked for deletion again.
UpdateLockPlain(r) ==
    /\ pc[r] = "checked" /\ ~row.deleted
    /\ pc' = [pc EXCEPT ![r] = "locked"]
    /\ req' = [req EXCEPT ![r].base = [row |-> row, splits |-> splits]]
    /\ UNCHANGED <<row, splits, revisions, lock, created>>

UpdateLockUnchecked(r) ==
    /\ pc[r] = "checked" /\ lock = Nil
    /\ pc' = [pc EXCEPT ![r] = "locked"]
    /\ req' = [req EXCEPT ![r].base = [row |-> row, splits |-> splits]]
    /\ lock' = r
    /\ UNCHANGED <<row, splits, revisions, created>>

\* BEGIN; SELECT ... FOR UPDATE waits for the lock, then reads the newest committed row.
UpdateLock(r) ==
    /\ pc[r] = "checked" /\ lock = Nil
    /\ IF row.deleted
       THEN /\ pc' = [pc EXCEPT ![r] = "failed"]
            /\ UNCHANGED <<lock, req>>
       ELSE /\ pc' = [pc EXCEPT ![r] = "locked"]
            /\ req' = [req EXCEPT ![r].base = [row |-> row, splits |-> splits]]
            /\ lock' = r
    /\ UNCHANGED <<row, splits, revisions, created>>

Given(new, old) == IF new = Nil THEN old ELSE new

\* A date that differs only below the second is left as it was.
EditedRow(p, x) ==
    [x EXCEPT !.description  = Given(p.description, @),
              !.category_id  = Given(p.category_id, @),
              !.payer_id     = Given(p.payer_id, @),
              !.amount_cents = Given(p.amount_cents, @),
              !.incurred_at  = IF p.incurred_at # Nil /\ p.incurred_at.sec # @.sec
                               THEN p.incurred_at ELSE @]

SplitsReplaced(q) == q.resolved # Nil /\ q.resolved # q.base.splits

\* Mutant of EditedSplits: a new amount leaves the stored shares as they are.
EditedSplitsKept(q) == IF SplitsReplaced(q) THEN q.resolved ELSE q.base.splits

EditedSplits(q) ==
    IF SplitsReplaced(q) THEN q.resolved
    ELSE IF Given(q.patch.amount_cents, q.base.row.amount_cents) # q.base.row.amount_cents
    THEN RescaleSplits(q.base.splits, q.base.row.amount_cents, q.patch.amount_cents)
    ELSE q.base.splits

\* What a revision row shows of a field: dates to the second, splits whole.
Shown(x, s, f) == CASE f = "splits"      -> s
                    [] f = "incurred_at" -> x.incurred_at.sec
                    [] OTHER             -> x[f]

\* Mutant of RevisedFields: dates are compared to the nanosecond.
RevisedFieldsExact(q) ==
    {f \in Fields \ {"splits"} : Given(q.patch[f], q.base.row[f]) # q.base.row[f]}
    \cup {f \in {"splits"} : SplitsReplaced(q)}

\* The fields a commit writes a revision for.  Splits that were only rescaled
\* are not among them.
RevisedFields(q) ==
    {f \in Fields \ {"splits"} :
        Shown(EditedRow(q.patch, q.base.row), q.base.splits, f) # Shown(q.base.row, q.base.splits, f)}
    \cup {f \in {"splits"} : SplitsReplaced(q)}

\* Mutant of Revision: the splits read under the lock are recorded as the new ones.
RevisionOfOld(q, f) == [by |-> q.actor,
                        old |-> Shown(q.base.row, q.base.splits, f),
                        new |-> Shown(EditedRow(q.patch, q.base.row), q.base.splits, f)]

Revision(q, f) == [by |-> q.actor,
                   old |-> Shown(q.base.row, q.base.splits, f),
                   new |-> Shown(EditedRow(q.patch, q.base.row), q.resolved, f)]

\* Mutant of UpdateCommit: an edit without revisions returns with its
\* transaction open.
UpdateCommitOpen(r) ==
    LET q == req[r]
    IN  /\ pc[r] = "locked"
        /\ row' = EditedRow(q.patch, q.base.row)
        /\ splits' = EditedSplits(q)
        /\ revisions' = [f \in Fields |-> IF f \in RevisedFields(q)
                                         THEN Append(revisions[f], Revision(q, f))
                                         ELSE revisions[f]]
        /\ lock' = IF RevisedFields(q) = {} THEN lock ELSE Nil
        /\ pc' = [pc EXCEPT ![r] = "done"]
        /\ UNCHANGED <<req, created>>

\* Write the whole row, the splits and the revisions, and COMMIT; a request
\* that changes nothing commits an empty transaction.
UpdateCommit(r) ==
    LET q == req[r]
    IN  /\ pc[r] = "locked"
        /\ IF RevisedFields(q) = {}
           THEN UNCHANGED <<row, splits, revisions>>
           ELSE /\ row' = EditedRow(q.patch, q.base.row)
                /\ splits' = EditedSplits(q)
                /\ revisions' = [f \in Fields |->
                                   IF f \in RevisedFields(q)
                                   THEN Append(revisions[f], Revision(q, f))
                                   ELSE revisions[f]]
        /\ lock' = Nil
        /\ pc' = [pc EXCEPT ![r] = "done"]
        /\ UNCHANGED <<req, created>>

-----------------------------------------------------------------------------
(* Delete *)

DeleteChecked(r, a) ==
    /\ Exists /\ pc[r] = "idle"
    /\ pc' = [pc EXCEPT ![r] = IF Live /\ a \in Members THEN "deleting" ELSE "failed"]
    /\ UNCHANGED <<row, splits, revisions, lock, req, created>>

\* Mutant of SoftDelete: no WHERE deleted_at IS NULL.
SoftDeleteAgain(r) ==
    /\ pc[r] = "deleting" /\ lock = Nil
    /\ pc' = [pc EXCEPT ![r] = "deleted"]
    /\ row' = [row EXCEPT !.deleted = TRUE]
    /\ UNCHANGED <<splits, revisions, lock, req, created>>

\* UPDATE ... WHERE deleted_at IS NULL: waits for the row lock, and reports
\* ErrNotFound when no row matches.
SoftDelete(r) ==
    /\ pc[r] = "deleting" /\ lock = Nil
    /\ IF row.deleted
       THEN /\ pc' = [pc EXCEPT ![r] = "failed"]
            /\ UNCHANGED row
       ELSE /\ pc' = [pc EXCEPT ![r] = "deleted"]
            /\ row' = [row EXCEPT !.deleted = TRUE]
    /\ UNCHANGED <<splits, revisions, lock, req, created>>

-----------------------------------------------------------------------------
\* The process dies, the caller's context is cancelled or a statement fails:
\* an open transaction is rolled back and its lock released.
Abort(r) ==
    /\ pc[r] \in {"checked", "locked", "deleting"}
    /\ pc' = [pc EXCEPT ![r] = "failed"]
    /\ lock' = IF lock = r THEN Nil ELSE lock
    /\ UNCHANGED <<row, splits, revisions, req, created>>

Step(r) == UpdateLock(r) \/ UpdateCommit(r) \/ SoftDelete(r)

Next ==
    \/ \E a \in Users, c \in Creations : Create(a, c)
    \/ \E r \in Requests, a \in Users, p \in Patches :
          UpdateRefused(r, a, p) \/ UpdateChecked(r, a, p)
    \/ \E r \in Requests, a \in Users : DeleteChecked(r, a)
    \/ \E r \in Requests : Step(r) \/ Abort(r)

Spec == Init /\ [][Next]_vars

\* A handler runs on once it is admitted, and PostgreSQL grants a row lock that
\* is released to one of its waiters.
FairSpec == Spec /\ \A r \in Requests : WF_vars(Step(r))

-----------------------------------------------------------------------------
(* Properties *)

Outcomes == {"idle", "checked", "locked", "deleting", "done", "deleted", "failed"}

TypeOK ==
    /\ row \in Row \cup {Nil}
    /\ DOMAIN splits \subseteq Members
    /\ \A f \in Fields : \A i \in DOMAIN revisions[f] : revisions[f][i].by \in Members
    /\ lock \in Requests \cup {Nil}
    /\ pc \in [Requests -> Outcomes]

\* The revisions of a field lead, in the order they were committed, from the
\* value the expense was created with to the value it has now.
Chains(f) ==
    LET h == revisions[f]
        n == Len(h)
        first == Shown(created.row, created.splits, f)
        now == Shown(row, splits, f)
    IN  /\ h = <<>> => now = first
        /\ h # <<>> => h[1].old = first /\ h[n].new = now
        /\ \A i \in 1..(n - 1) : h[i].new = h[i + 1].old

\* A save that changes nothing leaves no revision, even when it lost a race to
\* an identical save (the comment on incurred_at in ExpenseRepo.Update).
NoSpuriousRevision ==
    \A f \in Fields : \A i \in DOMAIN revisions[f] : revisions[f][i].old # revisions[f][i].new

\* The revisions of every field but the splits lead to what the field is now.
AllChain == Exists => \A f \in Fields \ {"splits"} : Chains(f)

\* However edits interleave, none is lost from the history, none overwrites
\* another unseen, and none is there that changed nothing: each revision starts
\* where the previous one ended, at another value than it ends.  This is what
\* the row lock in ExpenseRepo.Update is for.
FieldHistory == AllChain /\ NoSpuriousRevision

\* The splits that the first i revisions of the splits lead to, and those the
\* next revision, or a reader after the last one, starts from.
LeftBy(i) == IF i = 0 THEN created.splits ELSE revisions["splits"][i].new

FoundBy(i) == IF i = Len(revisions["splits"]) THEN splits ELSE revisions["splits"][i + 1].old

\* The places where the history of the splits does not chain.
Gaps == {i \in 0..Len(revisions["splits"]) : LeftBy(i) # FoundBy(i)}

\* The history of the splits has gaps, because a new amount rescales them and
\* records the amount only; but each gap is paid for by a recorded change of the
\* amount of its own, so the splits of an expense whose amount was never edited
\* have a complete history.
SplitHistory == Exists => Cardinality(Gaps) <= Len(revisions["amount_cents"])

\* A deleted expense never changes again, although an edit that was checked
\* while it was live may still be on its way.
DeletedIsFinal == [][Exists /\ row.deleted => UNCHANGED <<row, splits, revisions>>]_vars

\* Of any number of concurrent deletes exactly one is told it deleted.
OneDelete ==
    LET deleters == {r \in Requests : pc[r] = "deleted"}
    IN  Cardinality(deleters) = IF Exists /\ row.deleted THEN 1 ELSE 0

\* The amounts and the split requests that can reach the arithmetic.
Amounts == {x.amount_cents : x \in Creations \cup Patches} \cap (Nat \ {0})

SplitRequests == {x.split : x \in Creations \cup Patches} \ {Nil}

\* No product or sum that a request can lead to is too large for the machine.
NoOverflow ==
    /\ \A a, b \in Amounts : a < Limit /\ a * b < Limit
    /\ \A a \in Amounts, s \in SplitRequests : Fits(a, s.in)

SharesSum == Exists => SumsTo(splits, row.amount_cents)

\* r replaces the splits by shares of an amount that is no longer the row's.
StaleCommit(r) ==
    /\ pc[r] = "locked" /\ pc'[r] = "done"
    /\ req[r].patch.amount_cents = Nil
    /\ req[r].resolved # Nil
    /\ req[r].seen # row.amount_cents

\* The shares of an expense are natural numbers that sum to its amount, and stop
\* doing so in one way only: new splits committed without an amount, resolved
\* before another edit changed it.
SumLostOnlyToStaleAmount ==
    [][SharesSum => SharesSum' \/ \E r \in Requests : StaleCommit(r)]_vars

\* An admitted request ends: the row lock is always released again.
RequestsEnd ==
    \A r \in Requests :
        pc[r] \in {"checked", "deleting"} ~> pc[r] \in {"done", "deleted", "failed"}

=============================================================================
