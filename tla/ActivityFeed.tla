---------------------------- MODULE ActivityFeed ----------------------------
(***************************************************************************)
(* A caller that scrolls through the activity feed of a group, page after  *)
(* page, and reads its expenses, while others change the ledger            *)
(* (service/activity.go, repo/activity.go, the readers of                  *)
(* repo/expense.go and repo/settlement.go).                                *)
(*                                                                         *)
(* A page is put together from statements of their own: the rows of the    *)
(* page, its expenses, their splits, its settlements.  Between any two of  *)
(* them entries are added, edited and deleted.  An expense stands for its  *)
(* place in the feed and a revision, which its row and its splits always   *)
(* share once committed (ExpenseEdit has what an edit does).               *)
(*                                                                         *)
(* Left out: the cadence shown with an expense, a guess from templates of  *)
(* equal contents; callers who are no members and malformed cursors, which *)
(* are refused and change nothing.                                         *)
(***************************************************************************)
EXTENDS Integers, FiniteSets

CONSTANTS
    Expenses, Settlements,   \* ids; the feed compares them when the times are equal
    Ticks,                   \* dates, as fine as the database keeps them
    Stamps,                  \* values of created_at
    Second,                  \* how many ticks an edit does not tell apart
    DefaultLimit, MaxLimit,  \* activityDefaultLimit, activityMaxLimit
    Asked,                   \* the limits a caller asks for
    MaxRev,                  \* bound: revisions of an expense
    MaxFailures,             \* bound: requests that fail half-way
    Nil

Entries == Expenses \cup Settlements

ASSUME FeedAssumption ==
    /\ Entries \subseteq Nat /\ IsFiniteSet(Entries)
    /\ Ticks \subseteq Nat /\ Stamps \subseteq Nat /\ Second \in Nat \ {0}
    /\ DefaultLimit \in Nat \ {0} /\ MaxLimit \in Nat \ {0}
    /\ DefaultLimit <= MaxLimit
    /\ Asked \subseteq Int
    /\ MaxRev \in Nat /\ MaxFailures \in Nat

\* ActivityRow, and the cursor made of one; the kind is told by the id.
Row == [id : Entries, at : Ticks, created : Stamps]

ASSUME NilAssumption == Nil \notin Row

VARIABLES
    ledger,    \* the expenses and settlements of the group
    pc,        \* where the caller's request is
    serves,    \* what it is: a page of the feed, the list of expenses, one expense
    limit,     \* rows of the page that is asked for
    cursor,    \* the NextCursor of the last page, Nil before the first
    done,      \* the last page had no NextCursor
    rows,      \* the rows of this page
    more,      \* there was a row more than the page takes
    found,     \* the revisions of the expenses that were found
    shares,    \* the revisions of their splits
    count,     \* history: on how many pages an entry was, 0 once it has moved
    moved,     \* history: entries added, re-dated or deleted since the first page
    failures

reader == <<pc, serves, limit, cursor, done, rows, more, found, shares, failures>>

vars == <<ledger, reader, count, moved>>

Absent == [state |-> "none", at |-> 0, created |-> 0, rev |-> 0, split |-> 0]

Init ==
    /\ ledger \in [Entries -> {Absent} \cup
                     [state : {"live"}, at : Ticks, created : Stamps, rev : {0}, split : {0}]]
    /\ pc = "rest" /\ serves = "feed"
    /\ limit = DefaultLimit
    /\ cursor = Nil /\ done = FALSE
    /\ rows = {} /\ more = FALSE
    /\ found = <<>> /\ shares = <<>>
    /\ count = [e \in Entries |-> 0]
    /\ moved = {}
    /\ failures = 0

-----------------------------------------------------------------------------
(* The order of the feed *)

Live == {e \in Entries : ledger[e].state = "live"}

\* (occurred_at, created_at, id) DESC.
Precedes(r, q) ==
    \/ r.at > q.at
    \/ r.at = q.at /\ r.created > q.created
    \/ r.at = q.at /\ r.created = q.created /\ r.id > q.id

RowOf(e) == [id |-> e, at |-> ledger[e].at, created |-> ledger[e].created]

\* Mutant of Following: the cursor's own row is read again.
FollowingInclusive(after) ==
    {RowOf(e) : e \in {f \in Live : after = Nil \/ ~Precedes(RowOf(f), after)}}

\* Live rows strictly after the cursor.
Following(after) == {RowOf(e) : e \in {f \in Live : after = Nil \/ Precedes(after, RowOf(f))}}

\* ORDER BY ... LIMIT n: the n first of them, or all.
IsFirst(R, all, n) ==
    /\ \A r \in R, q \in all \ R : Precedes(r, q)
    /\ \/ Cardinality(R) = n
       \/ Cardinality(R) < n /\ R = all

IsLast(r, R) == r \in R /\ \A q \in R : q = r \/ Precedes(q, r)

\* The cursor keeps both times to the nanosecond, and the id.
Encode(r) == r

PageSize(n) == IF n <= 0 THEN DefaultLimit ELSE IF n > MaxLimit THEN MaxLimit ELSE n

-----------------------------------------------------------------------------
(* A page: ActivityService.List *)

\* A member asks for a page of some size.
Ask(n) ==
    /\ pc = "rest" /\ ~done
    /\ pc' = "index" /\ serves' = "feed"
    /\ limit' = PageSize(n)
    /\ UNCHANGED <<ledger, cursor, done, rows, more, found, shares, count, moved, failures>>

\* ActivityRepo.ListByGroup with one row more than the page takes.
Index ==
    /\ pc = "index"
    /\ \E R \in SUBSET Following(cursor) :
        /\ IsFirst(R, Following(cursor), limit + 1)
        /\ more' = (Cardinality(R) > limit)
        /\ \E kept \in SUBSET R : IsFirst(kept, R, limit) /\ rows' = kept
    /\ pc' = "expenses"
    /\ UNCHANGED <<ledger, serves, limit, cursor, done, found, shares, count, moved, failures>>

InPage == {r.id : r \in rows}

\* ExpenseRepo.FindByIDs: rows; without any there are no splits to read.
FindExpenses ==
    /\ pc = "expenses"
    /\ found' = [e \in InPage \cap Expenses \cap Live |-> ledger[e].rev]
    /\ pc' = IF DOMAIN found' = {} THEN "settlements" ELSE "splits"
    /\ UNCHANGED <<ledger, serves, limit, cursor, done, rows, more, shares, count, moved, failures>>

Rest ==
    /\ pc' = "rest" /\ serves' = "feed" /\ limit' = DefaultLimit
    /\ rows' = {} /\ more' = FALSE /\ found' = <<>> /\ shares' = <<>>

\* FindByIDs: the splits of the expenses that were found, as they are by now.
FindSplits ==
    /\ pc = "splits"
    /\ shares' = [e \in DOMAIN found |-> ledger[e].split]
    /\ pc' = IF serves = "feed" THEN "settlements" ELSE "answer"
    /\ UNCHANGED <<ledger, serves, limit, cursor, done, rows, more, found, count, moved, failures>>

\* Mutant of Answer: the cursor is taken from the last item that was found.
AnswerItem ==
    LET here == DOMAIN found \cup (InPage \cap Settlements \cap Live)
        kept == {r \in rows : r.id \in here}
    IN  /\ pc = "settlements"
        /\ count' = [e \in Entries |-> IF e \in here \ moved THEN count[e] + 1 ELSE count[e]]
        /\ IF more /\ kept # {}
           THEN /\ \E last \in kept : IsLast(last, kept) /\ cursor' = Encode(last)
                /\ UNCHANGED done
           ELSE /\ cursor' = cursor
                /\ done' = TRUE
        /\ Rest
        /\ UNCHANGED <<ledger, moved, failures>>

\* SettlementRepo.FindByIDs, and the page: rows that are gone by now are left
\* out, but the cursor is that of the last row.
Answer ==
    LET here == DOMAIN found \cup (InPage \cap Settlements \cap Live)
    IN  /\ pc = "settlements"
        /\ count' = [e \in Entries |-> IF e \in here \ moved THEN count[e] + 1 ELSE count[e]]
        /\ IF more
           THEN /\ \E last \in rows : IsLast(last, rows) /\ cursor' = Encode(last)
                /\ UNCHANGED done
           ELSE /\ cursor' = cursor
                /\ done' = TRUE
        /\ Rest
        /\ UNCHANGED <<ledger, moved, failures>>

-----------------------------------------------------------------------------
(* The list of expenses, and one expense *)

\* ExpenseService.List and the rows of ExpenseRepo.ListByGroup.
ListExpenses ==
    /\ pc = "rest"
    /\ serves' = "list"
    /\ found' = [e \in Expenses \cap Live |-> ledger[e].rev]
    /\ pc' = IF DOMAIN found' = {} THEN "answer" ELSE "splits"
    /\ UNCHANGED <<ledger, limit, cursor, done, rows, more, shares, count, moved, failures>>

\* The row of ExpenseRepo.FindByID; a deleted one is refused once it is read.
GetExpense(e) ==
    /\ pc = "rest" /\ e \in Expenses \cap Live
    /\ serves' = "get"
    /\ found' = [f \in {e} |-> ledger[f].rev]
    /\ pc' = "splits"
    /\ UNCHANGED <<ledger, limit, cursor, done, rows, more, shares, count, moved, failures>>

AnswerList ==
    /\ pc = "answer"
    /\ Rest
    /\ UNCHANGED <<ledger, cursor, done, count, moved, failures>>

\* A statement fails or the caller gives up; it may ask again with the cursor it has.
Fail ==
    /\ pc # "rest" /\ failures < MaxFailures
    /\ failures' = failures + 1
    /\ Rest
    /\ UNCHANGED <<ledger, cursor, done, count, moved>>

-----------------------------------------------------------------------------
(* What others do meanwhile *)

Moves(e) == moved' = moved \cup {e} /\ count' = [count EXCEPT ![e] = 0]

\* An expense or settlement is entered, with any date; created_at is when its
\* transaction began, not when it is seen.
Enter(e, at, created) ==
    /\ ledger[e].state = "none"
    /\ ledger' = [ledger EXCEPT ![e] = [state |-> "live", at |-> at, created |-> created,
                                        rev |-> 0, split |-> 0]]
    /\ Moves(e)
    /\ UNCHANGED reader

\* Mutant of Revise: the splits stay those of the old amount.
ReviseAmount(e) ==
    /\ e \in Expenses \cap Live /\ ledger[e].rev < MaxRev
    /\ ledger' = [ledger EXCEPT ![e].rev = @ + 1]
    /\ UNCHANGED <<reader, count, moved>>

\* An edit of the amount, which writes all splits anew.
Revise(e) ==
    /\ e \in Expenses \cap Live /\ ledger[e].rev < MaxRev
    /\ ledger' = [ledger EXCEPT ![e].rev = @ + 1, ![e].split = ledger[e].rev + 1]
    /\ UNCHANGED <<reader, count, moved>>

\* An edit of the date, unless it is the same to the second.
Redate(e, at) ==
    /\ e \in Expenses \cap Live /\ ledger[e].at \div Second # at \div Second
    /\ ledger' = [ledger EXCEPT ![e].at = at]
    /\ Moves(e)
    /\ UNCHANGED reader

\* SoftDelete.  No reader looks at the times of a deleted entry again; its
\* splits stay where they are.
Remove(e) ==
    /\ e \in Live
    /\ ledger' = [ledger EXCEPT ![e] = [Absent EXCEPT !.state = "deleted",
                                     !.rev = ledger[e].rev, !.split = ledger[e].split]]
    /\ Moves(e)
    /\ UNCHANGED reader

-----------------------------------------------------------------------------
Step == Index \/ FindExpenses \/ FindSplits \/ Answer \/ AnswerList

Next ==
    \/ \E n \in Asked : Ask(n)
    \/ ListExpenses
    \/ \E e \in Entries : GetExpense(e)
    \/ Step
    \/ Fail
    \/ \E e \in Entries, at \in Ticks : Redate(e, at) \/ \E created \in Stamps : Enter(e, at, created)
    \/ \E e \in Entries : Revise(e) \/ Remove(e)

Spec == Init /\ [][Next]_vars

\* A request that is served runs on, and the caller goes on asking for pages
\* while there is a cursor.
FairSpec == Spec /\ WF_vars(Step) /\ SF_vars(\E n \in Asked : Ask(n))

-----------------------------------------------------------------------------
(* Properties *)

TypeOK ==
    /\ ledger \in [Entries -> [state : {"none", "live", "deleted"},
                               at : Ticks \cup {0}, created : Stamps \cup {0}, rev : 0..MaxRev, split : 0..MaxRev]]
    /\ done \in BOOLEAN /\ more \in BOOLEAN
    /\ pc \in {"rest", "index", "expenses", "splits", "settlements", "answer"}
    /\ serves \in {"feed", "list", "get"}
    /\ limit \in 1..MaxLimit
    /\ cursor \in Row \cup {Nil}
    /\ rows \subseteq Row
    /\ DOMAIN found \subseteq Expenses /\ DOMAIN shares \subseteq Expenses
    /\ count \in [Entries -> Nat]
    /\ moved \subseteq Entries
    /\ failures \in 0..MaxFailures

\* What the pages so far stand for: all, or what does not come after the cursor.
Passed(e) ==
    \/ done
    \/ cursor # Nil /\ ~Precedes(cursor, RowOf(e))

\* However the ledger changes between two pages, or between two statements of
\* one, the pages neither repeat nor skip an entry that was not itself added,
\* re-dated or deleted meanwhile (service/activity.go:51-53).
PagesComplete ==
    \A e \in Entries \ moved : count[e] = IF e \in Live /\ Passed(e) THEN 1 ELSE 0

\* An amount is answered with the splits of another revision only when that
\* is a newer one: nothing shown is older than when the caller asked, and asking
\* again puts it right (repo/expense.go:71-201).
TornIsSuperseded ==
    pc \in {"settlements", "answer"} =>
        \A e \in DOMAIN found : found[e] <= shares[e] /\ shares[e] <= ledger[e].split

\* The scroll ends although entries are re-dated for ever: no page sends the
\* caller back.
ScrollEnds == <>done

=============================================================================
