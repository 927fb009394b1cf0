------------------------------- MODULE Groups -------------------------------
(***************************************************************************)
(* One group: who belongs to it, who owns it, its currency, the pinned     *)
(* default split, the expenses and settlements between its members, and    *)
(* the templates from which the worker makes more of them                  *)
(* (service/group.go, repo/group.go, service/settlement.go, and the group  *)
(* side of service/expense.go and service/recurring.go).                   *)
(*                                                                         *)
(* No method of the group opens a transaction around what it checks and    *)
(* what it writes: every read and every write is a statement of its own,   *)
(* and requests interleave between them.  A request slot serves one        *)
(* request after the other; pc is where its handler is.                    *)
(*                                                                         *)
(* An expense is one share of it: what one user paid for another.  Several *)
(* shares, their sum, and an edit that resolves them from an amount it     *)
(* read earlier are in Splits and ExpenseEdit; when a template is due is   *)
(* in Recurring.                                                           *)
(*                                                                         *)
(* External: PostgreSQL's foreign keys, which refuse a row of a group that *)
(* is gone and delete the rows of a group with it.                         *)
(***************************************************************************)
EXTENDS Integers, FiniteSets, Functions

CONSTANTS
    Slots,       \* requests served at one time
    Users,       \* registered users
    Creator,     \* the user who created the group
    Currencies,
    EUR,         \* the currency the group is created with
    Expenses,    \* ids of expenses, each used once
    Settlements, \* ids of settlements
    Templates,   \* ids of recurring expenses; one that is deleted is free again
    Ops,         \* the requests the model tries
    Aborts,      \* bound: requests that fail half-way
    Nil,
    Gone         \* an entry that was deleted

Entries == Expenses \cup Settlements

\* Nil leaves a field alone; an empty split clears the pinned one.
Patch == [currency : Currencies \cup {Nil}, split : (SUBSET Users) \cup {Nil},
          owner : Users \cup {Nil}]

Row == [owner : Users, currency : Currencies, split : (SUBSET Users) \cup {Nil}]

\* What "from" paid for "to", or to "to"; a settlement has no currency.  Of own
\* is history: the request or the template named the currency.
Payment == [from : Users, to : Users, cents : Nat \ {0}, currency : Currencies \cup {Nil},
            own : BOOLEAN]

\* What a request says of one; Nil is left out.
Bill == [from : Users \cup {Nil}, to : Users \cup {Nil}, cents : (Nat \ {0}) \cup {Nil},
         currency : Currencies \cup {Nil}]

Op == [op : {"add", "remove", "update", "delete", "admin_delete", "enter", "edit", "erase",
             "schedule", "unschedule"},
       actor : Users, who : Users, patch : Patch, entry : Entries, template : Templates,
       bill : Bill]

\* Only an edit leaves out what the payment is.
Complete(b) == b.from # Nil /\ b.to # Nil /\ b.cents # Nil

ASSUME GroupsAssumption ==
    /\ Creator \in Users /\ EUR \in Currencies
    /\ Expenses \cap Settlements = {}
    /\ Ops \subseteq Op
    /\ \A o \in Ops : o.op \in {"enter", "schedule"} => Complete(o.bill)
    /\ Aborts \in Nat
    /\ Nil \notin Users /\ Nil \notin Currencies /\ Nil \notin Ops /\ Nil \notin Nat
    /\ Nil \notin Row /\ Nil \notin Payment /\ Gone \notin Payment
    /\ \A S \in SUBSET Users : S # Nil

VARIABLES
    group,       \* the groups row, Nil once it is deleted
    members,     \* group_members
    ledger,      \* expenses and settlements: Nil before they are entered
    templates,   \* recurring_expenses
    pc,          \* where each slot is
    req,         \* what each slot serves, Nil when idle
    seen,        \* the owner a removal has read, the currency of what is entered
    alone,       \* history: nothing else has run since the slot's request began
    aborts

vars == <<group, members, ledger, templates, pc, req, seen, alone, aborts>>

tables == <<group, members, ledger, templates>>

Init ==
    /\ group = [owner |-> Creator, currency |-> EUR, split |-> Nil]
    /\ members = {Creator}
    /\ ledger = [e \in Entries |-> Nil]
    /\ templates = [t \in Templates |-> Nil]
    /\ pc = [s \in Slots |-> "idle"]
    /\ req = [s \in Slots |-> Nil]
    /\ seen = [s \in Slots |-> Nil]
    /\ alone = [s \in Slots |-> TRUE]
    /\ aborts = 0

-----------------------------------------------------------------------------
(* The ledger *)

Live(e) == ledger[e] \notin {Nil, Gone}

HasActivity == \E e \in Entries : Live(e)

Parties(p) == {p.from, p.to}

\* NetForUser: paid and paid out, less owed and received, whoever is a member.
Net(u) ==
    LET Sum(S) == SumFunction([e \in S |-> ledger[e].cents])
    IN  Sum({e \in Entries : Live(e) /\ ledger[e].from = u})
            - Sum({e \in Entries : Live(e) /\ ledger[e].to = u})

-----------------------------------------------------------------------------
(* How a handler moves: it starts, goes on to another statement, or ends. *)

Starts(s, o, at) ==
    /\ pc[s] = "idle"
    /\ pc' = [pc EXCEPT ![s] = at]
    /\ req' = [req EXCEPT ![s] = o]
    /\ alone' = [q \in Slots |-> IF q = s THEN \A other \in Slots \ {s} : pc[other] = "idle"
                                 ELSE pc[q] = "idle"]
    /\ UNCHANGED <<tables, aborts>>

GoesOn(s, at) ==
    /\ pc' = [pc EXCEPT ![s] = at]
    /\ UNCHANGED <<req, seen, alone, aborts>>

Leaves(s) ==
    /\ pc' = [pc EXCEPT ![s] = "idle"]
    /\ req' = [req EXCEPT ![s] = Nil]
    /\ seen' = [seen EXCEPT ![s] = Nil]
    /\ alone' = [alone EXCEPT ![s] = TRUE]

Ends(s) == Leaves(s) /\ UNCHANGED aborts

-----------------------------------------------------------------------------
(* AddMember *)

AddBegin(s, o) ==
    /\ o.op = "add" /\ o.actor \in members
    /\ Starts(s, o, "add") /\ UNCHANGED seen

\* INSERT ... ON CONFLICT DO NOTHING.
AddRow(s) ==
    /\ pc[s] = "add"
    /\ IF group = Nil
       THEN Ends(s) /\ UNCHANGED tables
       ELSE /\ members' = members \cup {req[s].who}
            /\ GoesOn(s, "added")
            /\ UNCHANGED <<group, ledger, templates>>

\* Mutant of AddCount: three members still keep their split.
AddCountOffByOne(s) ==
    /\ pc[s] = "added"
    /\ IF req[s].who \in members /\ Cardinality(members) > 3
       THEN GoesOn(s, "clear")
       ELSE Ends(s)
    /\ UNCHANGED tables

\* The new row is read back, and the members are counted.
AddCount(s) ==
    /\ pc[s] = "added"
    /\ IF req[s].who \in members /\ Cardinality(members) > 2
       THEN GoesOn(s, "clear")
       ELSE Ends(s)
    /\ UNCHANGED tables

\* ClearDefaultSplit.
ClearSplit(s) ==
    /\ pc[s] = "clear"
    /\ group' = IF group = Nil THEN Nil ELSE [group EXCEPT !.split = Nil]
    /\ Ends(s)
    /\ UNCHANGED <<members, ledger, templates>>

-----------------------------------------------------------------------------
(* RemoveMember *)

RemoveBegin(s, o) ==
    /\ o.op = "remove" /\ group # Nil
    /\ Starts(s, o, "remove")
    /\ seen' = [seen EXCEPT ![s] = group.owner]

\* Mutant of MayRemove: the owner may leave.
MayRemoveOwner(s) ==
    LET a == req[s].actor
        t == req[s].who
    IN  /\ a \in members /\ t \in members
        /\ a = seen[s] \/ a = t
        /\ a # t => Net(t) = 0

\* Mutant of MayRemove: the owner may remove a member who owes or is owed.
MayRemoveOwing(s) ==
    LET a == req[s].actor
        t == req[s].who
    IN  a \in members /\ t \in members /\ (a = seen[s] \/ a = t) /\ t # seen[s]

\* Who may remove whom, by the owner read before, and the balance gate.
MayRemove(s) ==
    LET a == req[s].actor
        t == req[s].who
    IN  /\ a \in members /\ t \in members
        /\ a = seen[s] \/ a = t
        /\ t # seen[s]
        /\ a # t => Net(t) = 0

RemoveCheck(s) ==
    /\ pc[s] = "remove"
    /\ IF MayRemove(s) THEN GoesOn(s, "removing") ELSE Ends(s)
    /\ UNCHANGED tables

RemoveRow(s) ==
    /\ pc[s] = "removing"
    /\ IF req[s].who \in members
       THEN members' = members \ {req[s].who} /\ GoesOn(s, "removed")
       ELSE Ends(s) /\ UNCHANGED members
    /\ UNCHANGED <<group, ledger, templates>>

RemoveCount(s) ==
    /\ pc[s] = "removed"
    /\ IF Cardinality(members) < 2 THEN GoesOn(s, "clear") ELSE Ends(s)
    /\ UNCHANGED tables

-----------------------------------------------------------------------------
(* Update *)

Stages == {"currency", "split", "owner", "target"}

After(stage) == CASE stage = "currency" -> "split"
                  [] stage = "split"    -> "owner"
                  [] stage = "owner"    -> "target"
                  [] stage = "target"   -> "write"

UpdateBegin(s, o) ==
    /\ o.op = "update" /\ o.actor \in members
    /\ o.patch # [currency |-> Nil, split |-> Nil, owner |-> Nil]
    /\ Starts(s, o, "currency") /\ UNCHANGED seen

\* Mutant of CurrencyFree: the currency may change whatever has been entered.
CurrencyFreeAlways(c) == group # Nil

\* The currency may be c: it is already, or nothing has been entered.
CurrencyFree(c) == group # Nil /\ (c = group.currency \/ ~HasActivity)

\* What each stage demands of a field the patch gives.
Passes(stage, a, p) ==
    \/ /\ stage = "currency"
       /\ p.currency # Nil => CurrencyFree(p.currency)
    \/ /\ stage = "split"
       /\ p.split \notin {Nil, {}} => p.split = members /\ Cardinality(members) = 2
    \/ /\ stage = "owner"
       /\ p.owner # Nil => group # Nil /\ a = group.owner
    \/ /\ stage = "target"
       /\ p.owner # Nil => p.owner \in members

UpdateCheck(s) ==
    /\ pc[s] \in Stages
    /\ IF Passes(pc[s], req[s].actor, req[s].patch)
       THEN GoesOn(s, After(pc[s]))
       ELSE Ends(s)
    /\ UNCHANGED tables

Given(new, old) == IF new = Nil THEN old ELSE new

\* One UPDATE, of whatever row is there now.
UpdateWrite(s) ==
    LET p == req[s].patch
    IN  /\ pc[s] = "write"
        /\ group' = IF group = Nil THEN Nil
                    ELSE [owner    |-> Given(p.owner, group.owner),
                          currency |-> Given(p.currency, group.currency),
                          split    |-> CASE p.split = Nil -> group.split
                                         [] p.split = {}  -> Nil
                                         [] OTHER         -> p.split]
        /\ Ends(s)
        /\ UNCHANGED <<members, ledger, templates>>

-----------------------------------------------------------------------------
(* Delete, by the owner or by an administrator *)

DeleteBegin(s, o) ==
    /\ \/ o.op = "delete" /\ group # Nil /\ o.actor = group.owner
       \/ o.op = "admin_delete"
    /\ Starts(s, o, "delete") /\ UNCHANGED seen

\* Cascades to members, expenses, settlements and templates.
DeleteRow(s) ==
    /\ pc[s] = "delete"
    /\ group' = Nil
    /\ members' = {}
    /\ ledger' = [e \in Entries |-> IF Live(e) THEN Gone ELSE ledger[e]]
    /\ templates' = [t \in Templates |-> Nil]
    /\ Ends(s)

-----------------------------------------------------------------------------
(* Expenses and settlements *)

\* The payment a complete bill makes, in the currency c.
Pay(b, c) == [from |-> b.from, to |-> b.to, cents |-> b.cents, currency |-> c,
              own |-> b.currency # Nil]

\* A payment as a bill changes it; the currency of an expense stays.
Amended(p, b) == [p EXCEPT !.from = Given(b.from, @), !.to = Given(b.to, @),
                           !.cents = Given(b.cents, @)]

\* The currency of an expense is the one the bill names, or the one the group
\* has now.  A settlement is entered by the one who paid.
EnterBegin(s, o) ==
    /\ o.op = "enter" /\ ledger[o.entry] = Nil
    /\ IF o.entry \in Expenses THEN o.actor \in members
       ELSE o.actor = o.bill.from /\ o.bill.from # o.bill.to
    /\ Starts(s, o, "from")
    /\ seen' = [seen EXCEPT ![s] = IF o.entry \in Expenses
                                   THEN Given(o.bill.currency, group.currency) ELSE Nil]

\* The row is live and the actor a member when they are read.
EditBegin(s, o) ==
    /\ o.op = "edit" /\ o.entry \in Expenses /\ Live(o.entry) /\ o.actor \in members
    /\ Starts(s, o, "from") /\ UNCHANGED seen

EraseBegin(s, o) ==
    /\ o.op = "erase" /\ Live(o.entry) /\ o.actor \in members
    /\ Starts(s, o, "change") /\ UNCHANGED seen

\* Who paid, and who it was for, must be members where the bill names them.
CheckFrom(s) ==
    /\ pc[s] = "from"
    /\ IF req[s].bill.from \in members \cup {Nil} THEN GoesOn(s, "to") ELSE Ends(s)
    /\ UNCHANGED tables

CheckTo(s) ==
    /\ pc[s] = "to"
    /\ IF req[s].bill.to \in members \cup {Nil}
       THEN GoesOn(s, IF req[s].op = "enter" THEN "enter" ELSE "change")
       ELSE Ends(s)
    /\ UNCHANGED tables

\* Mutant of EnterRow: no foreign key on the group.
EnterRowAnyway(s) ==
    /\ pc[s] = "enter"
    /\ ledger' = [ledger EXCEPT ![req[s].entry] = Pay(req[s].bill, seen[s])]
    /\ Ends(s)
    /\ UNCHANGED <<group, members, templates>>

\* The foreign key on the group refuses the row once the group is gone.
EnterRow(s) ==
    /\ pc[s] = "enter"
    /\ ledger' = IF group # Nil /\ ledger[req[s].entry] = Nil
                 THEN [ledger EXCEPT ![req[s].entry] = Pay(req[s].bill, seen[s])]
                 ELSE ledger
    /\ Ends(s)
    /\ UNCHANGED <<group, members, templates>>

\* An edit and a deletion write only a row that is still live, and an edit what
\* the row is by then.
ChangeRow(s) ==
    LET e == req[s].entry
    IN  /\ pc[s] = "change"
        /\ ledger' = IF ~Live(e) THEN ledger
                     ELSE [ledger EXCEPT ![e] = IF req[s].op = "edit" THEN Amended(@, req[s].bill)
                                                ELSE Gone]
        /\ Ends(s)
        /\ UNCHANGED <<group, members, templates>>

-----------------------------------------------------------------------------
(* Recurring expenses *)

\* Of the users a template names only the one who schedules it must be a member.
ScheduleBegin(s, o) ==
    /\ o.op = "schedule" /\ templates[o.template] = Nil /\ o.actor \in members
    /\ Starts(s, o, "schedule")
    /\ seen' = [seen EXCEPT ![s] = Given(o.bill.currency, group.currency)]

\* The template names its currency from now on.
ScheduleRow(s) ==
    LET t == req[s].template
    IN  /\ pc[s] = "schedule"
        /\ templates' = IF group = Nil \/ templates[t] # Nil THEN templates
                        ELSE [templates EXCEPT ![t] = [Pay(req[s].bill, seen[s]) EXCEPT !.own = TRUE]]
        /\ Ends(s)
        /\ UNCHANGED <<group, members, ledger>>

UnscheduleBegin(s, o) ==
    /\ o.op = "unschedule" /\ templates[o.template] # Nil /\ o.actor \in members
    /\ Starts(s, o, "unschedule") /\ UNCHANGED seen

UnscheduleRow(s) ==
    /\ pc[s] = "unschedule"
    /\ templates' = [templates EXCEPT ![req[s].template] = Nil]
    /\ Ends(s)
    /\ UNCHANGED <<group, members, ledger>>

\* The worker makes an expense of a template.  From the claim to the insert it
\* has the row of the template locked, and a deletion of the group, which would
\* delete that row, cannot come between (Recurring): both are one step.
Materialize(t, e) ==
    /\ templates[t] # Nil /\ ledger[e] = Nil
    /\ ledger' = [ledger EXCEPT ![e] = templates[t]]
    /\ alone' = [q \in Slots |-> pc[q] = "idle"]
    /\ UNCHANGED <<group, members, templates, pc, req, seen, aborts>>

-----------------------------------------------------------------------------
\* The process dies or a statement fails: what was written stays.
Abort(s) ==
    /\ pc[s] # "idle" /\ aborts < Aborts
    /\ aborts' = aborts + 1
    /\ Leaves(s)
    /\ UNCHANGED tables

Begin(s, o) ==
    \/ AddBegin(s, o) \/ RemoveBegin(s, o) \/ UpdateBegin(s, o) \/ DeleteBegin(s, o)
    \/ EnterBegin(s, o) \/ EditBegin(s, o) \/ EraseBegin(s, o)
    \/ ScheduleBegin(s, o) \/ UnscheduleBegin(s, o)

Statement(s) ==
    \/ AddRow(s) \/ AddCount(s) \/ ClearSplit(s)
    \/ RemoveCheck(s) \/ RemoveRow(s) \/ RemoveCount(s)
    \/ UpdateCheck(s) \/ UpdateWrite(s) \/ DeleteRow(s)
    \/ CheckFrom(s) \/ CheckTo(s) \/ EnterRow(s) \/ ChangeRow(s)
    \/ ScheduleRow(s) \/ UnscheduleRow(s)

Next ==
    \/ \E s \in Slots, o \in Ops : Begin(s, o)
    \/ \E s \in Slots : Statement(s) \/ Abort(s)
    \/ \E t \in Templates, e \in Expenses : Materialize(t, e)

Spec == Init /\ [][Next]_vars

-----------------------------------------------------------------------------
(* Properties *)

Places == {"idle", "add", "added", "clear", "remove", "removing", "removed", "write", "delete",
           "from", "to", "enter", "change", "schedule", "unschedule"} \cup Stages

TypeOK ==
    /\ group \in Row \cup {Nil}
    /\ members \subseteq Users
    /\ ledger \in [Entries -> Payment \cup {Nil, Gone}]
    /\ templates \in [Templates -> Payment \cup {Nil}]
    /\ pc \in [Slots -> Places]
    /\ req \in [Slots -> Ops \cup {Nil}]
    /\ seen \in [Slots -> Users \cup Currencies \cup {Nil}]
    /\ alone \in [Slots -> BOOLEAN]
    /\ aborts \in Nat

\* Nothing outlives a group: a request that was checked while the group existed
\* and writes after it is deleted leaves no member, no entry and no template
\* behind, from which the worker could make one.
GoneIsEmpty ==
    group = Nil => members = {} /\ ~HasActivity /\ \A t \in Templates : templates[t] = Nil

AllIdle == \A s \in Slots : pc[s] = "idle"

SplitFitsMembers ==
    group # Nil /\ group.split # Nil => Cardinality(members) = 2 /\ group.split = members

\* The split is cleared "when the group grows past 2 members" (docs/openapi.yaml)
\* by whichever request made it grow, once all have ended.
SplitClearedInTheEnd == AllIdle => SplitFitsMembers

\* The count s is about to make, or has made, clears the split.
WillClear(s) ==
    \/ pc[s] = "clear"
    \/ pc[s] = "added" /\ req[s].who \in members /\ Cardinality(members) > 2
    \/ pc[s] = "removed" /\ Cardinality(members) < 2

\* The pinned split is that of the two members, or will be cleared.
SplitInHand == SplitFitsMembers \/ \E s \in Slots : WillClear(s)

\* s changes the membership before another has counted the members it left.
Miscounted(s) ==
    /\ pc[s] \in {"add", "removing"} /\ pc'[s] \in {"added", "removed"}
    /\ \E q \in Slots \ {s} : pc[q] \in {"added", "removed"}

\* s pins a split to members who have changed since it checked them.
StaleSplit(s) ==
    /\ pc[s] = "write" /\ ~alone[s]
    /\ req[s].patch.split \notin {Nil, {}, members}

\* s fails before it clears the split.
CutShort(s) == WillClear(s) /\ aborts' # aborts /\ pc'[s] = "idle"

\* However many requests join, leave and pin, a split that fits its two members
\* comes to fit no more, with nobody left to clear it, in three ways only
\* (service/group.go:117-134, 269-299, 345-357).
SplitLostOnlyToRace ==
    [][SplitInHand => SplitInHand' \/ \E s \in Slots : Miscounted(s) \/ StaleSplit(s) \/ CutShort(s)]_vars

\* The expenses that were entered without a currency are in that of the group.
OneCurrency ==
    \A e \in Expenses : group # Nil /\ Live(e) /\ ~ledger[e].own => ledger[e].currency = group.currency

\* s changes the currency although something has been entered since it asked, or
\* enters an expense in the currency of before.
StaleCurrency(s) ==
    /\ ~alone[s] /\ pc'[s] = "idle"
    /\ \/ pc[s] = "write" /\ req[s].patch.currency # Nil /\ HasActivity
       \/ pc[s] = "enter" /\ seen[s] # group.currency

\* Expenses entered in the currency of the group stay in it, whatever else is
\* entered in others, by requests that name one and by templates, as long as
\* HasActivity and the write of a new currency are not overlapped
\* (service/group.go:107-118, service/expense.go:70-76).
CurrencyLostOnlyToRace ==
    [][OneCurrency => OneCurrency' \/ \E s \in Slots : StaleCurrency(s)]_vars

OwnerIsMember == group # Nil => group.owner \in members

\* s gives the group to somebody who has left since s checked them.
StaleTransfer(s) ==
    /\ pc[s] = "write" /\ pc'[s] = "idle" /\ ~alone[s]
    /\ req[s].patch.owner \notin members \cup {Nil}

\* s removes a member by an owner it read before the ownership moved.
StaleRemoval(s) ==
    pc[s] = "removing" /\ pc'[s] = "removed" /\ ~alone[s] /\ seen[s] # group.owner

\* A group comes to have an owner who is not a member by two races only.
OwnerLostOnlyToRace ==
    [][OwnerIsMember => OwnerIsMember' \/ \E s \in Slots : StaleTransfer(s) \/ StaleRemoval(s)]_vars

\* Whoever is no longer a member neither owes nor is owed.
OutsidersSettled == \A u \in Users \ members : Net(u) = 0

\* A member leaves of their own accord, whatever they owe.
LeavesOwing(s) ==
    pc[s] = "removing" /\ pc'[s] = "removed" /\ req[s].actor = req[s].who

\* s changes an entry of somebody who has left: they are no longer asked about,
\* unless the bill names them.
ChangesOldEntry(s) ==
    LET e == req[s].entry
    IN  pc[s] = "change" /\ pc'[s] = "idle" /\ Live(e) /\ ~(Parties(ledger[e]) \subseteq members)

\* The worker enters what a template says of somebody who is not a member.
WorksForOutsider ==
    \E t \in Templates, e \in Expenses :
        Materialize(t, e) /\ ~(Parties(templates[t]) \subseteq members)

\* The balance or the membership that s has checked has changed since.
StaleGate(s) ==
    /\ ~alone[s]
    /\ \/ pc[s] = "removing" /\ pc'[s] = "removed" /\ Net(req[s].who) # 0
       \/ /\ pc[s] \in {"enter", "change"} /\ pc'[s] = "idle"
          /\ ~(Parties(req[s].bill) \subseteq members \cup {Nil})

\* Money is left behind with somebody who is not a member in four ways only:
\* they leave of their own accord, an old entry of theirs is changed later, the
\* worker goes on with a template of theirs, or something else runs between what
\* a removal, an entry or an edit checks and what it writes.  The balance gate
\* of RemoveMember and the checks of payer and shares keep out everything else
\* (service/group.go:314-344, service/expense.go:81-95, 183-204).
BalanceLeftBehind ==
    [][OutsidersSettled =>
           OutsidersSettled' \/ WorksForOutsider
           \/ \E s \in Slots : LeavesOwing(s) \/ ChangesOldEntry(s) \/ StaleGate(s)]_vars

=============================================================================
