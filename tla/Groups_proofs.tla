---------------------------- MODULE Groups_proofs ----------------------------
(***************************************************************************)
(* What a group guarantees for any users, requests and number of slots,    *)
(* however requests interleave and fail.                                   *)
(***************************************************************************)
EXTENDS Groups, FiniteSetTheorems, TLAPS

\* What a handler holds fits where it is.
Fits(at, o, v) ==
    /\ IF at = "idle" THEN o = Nil /\ v = Nil ELSE o \in Ops
    /\ at \in {"remove", "removing"} => v \in Users
    /\ at = "removing" => o.who # v
    /\ at \in {"from", "to", "enter"} => v \in Currencies \cup {Nil}
    /\ at = "schedule" => v \in Currencies
    /\ at = "enter" => o.op = "enter"
    /\ at = "schedule" => o.op = "schedule"
    /\ at \in {"owner", "target", "write"} =>
           o.patch.split \in {Nil, {}} \/ Cardinality(o.patch.split) = 2

TablesOK ==
    /\ group \in Row \cup {Nil}
    /\ members \subseteq Users /\ IsFiniteSet(members)
    /\ ledger \in [Entries -> Payment \cup {Nil, Gone}]
    /\ templates \in [Templates -> Payment \cup {Nil}]
    /\ \A t \in Templates : templates[t] # Nil => templates[t].own

SlotsOK ==
    /\ pc \in [Slots -> Places]
    /\ req \in [Slots -> Ops \cup {Nil}]
    /\ seen \in [Slots -> Users \cup Currencies \cup {Nil}]
    /\ \A s \in Slots : Fits(pc[s], req[s], seen[s])

CountsOK == alone \in [Slots -> BOOLEAN] /\ aborts \in Nat

Facts == TablesOK /\ SlotsOK /\ CountsOK /\ GoneIsEmpty

-----------------------------------------------------------------------------
(* Slots *)

\* The fields of a request that is tried have their types.
LEMMA OpFields ==
    ASSUME NEW o \in Ops
    PROVE  /\ o.actor \in Users /\ o.who \in Users
           /\ o.patch \in Patch
           /\ o.patch.owner \in Users \cup {Nil}
           /\ o.patch.currency \in Currencies \cup {Nil}
           /\ o.patch.split \in (SUBSET Users) \cup {Nil}
           /\ o.entry \in Entries /\ o.template \in Templates
           /\ o.bill \in Bill
BY GroupsAssumption DEF Op, Patch

\* A complete bill makes a payment, in the currency it is given.
LEMMA PayIsPayment ==
    ASSUME NEW o \in Ops, o.op \in {"enter", "schedule"}, NEW c \in Currencies \cup {Nil}
    PROVE  /\ Pay(o.bill, c) \in Payment
           /\ [Pay(o.bill, c) EXCEPT !.own = TRUE] \in Payment
<1>1. o.bill \in Bill /\ Complete(o.bill)
  BY OpFields, GroupsAssumption
<1>2. o.bill.from \in Users /\ o.bill.to \in Users /\ o.bill.cents \in Nat \ {0}
  BY <1>1 DEF Bill, Complete
<1> QED BY <1>2 DEF Pay, Payment

\* An amended payment is one, between the old parties or those of the bill, and
\* its currency stays.
LEMMA AmendedIsPayment ==
    ASSUME NEW p \in Payment, NEW b \in Bill
    PROVE  /\ Amended(p, b) \in Payment
           /\ Parties(Amended(p, b)) \subseteq Parties(p) \cup (Parties(b) \ {Nil})
           /\ Amended(p, b).currency = p.currency /\ Amended(p, b).own = p.own
<1>1. /\ Given(b.from, p.from) \in Users /\ Given(b.to, p.to) \in Users
      /\ Given(b.cents, p.cents) \in Nat \ {0}
  BY DEF Given, Bill, Payment
<1>2. /\ Amended(p, b).from = Given(b.from, p.from) /\ Amended(p, b).to = Given(b.to, p.to)
      /\ Amended(p, b).currency = p.currency /\ Amended(p, b).own = p.own
      /\ Amended(p, b) \in Payment
  BY <1>1 DEF Amended, Payment
<1>3. /\ Given(b.from, p.from) \in {p.from} \cup ({b.from} \ {Nil})
      /\ Given(b.to, p.to) \in {p.to} \cup ({b.to} \ {Nil})
  BY DEF Given
<1> QED BY <1>2, <1>3 DEF Parties

\* A step that moves one slot to a place that fits keeps the slots in order.
LEMMA OneSlot ==
    ASSUME SlotsOK, NEW s \in Slots, NEW at \in Places, NEW o \in Ops \cup {Nil},
           NEW v \in Users \cup Currencies \cup {Nil}, Fits(at, o, v),
           pc' = [pc EXCEPT ![s] = at], req' = [req EXCEPT ![s] = o],
           seen' = [seen EXCEPT ![s] = v]
    PROVE  SlotsOK'
<1>1. pc' \in [Slots -> Places] /\ req' \in [Slots -> Ops \cup {Nil}]
      /\ seen' \in [Slots -> Users \cup Currencies \cup {Nil}]
  BY DEF SlotsOK
<1>2. ASSUME NEW q \in Slots PROVE Fits(pc'[q], req'[q], seen'[q])
  <2>1. CASE q = s
    <3>1. pc'[q] = at /\ req'[q] = o /\ seen'[q] = v
      BY <2>1 DEF SlotsOK
    <3> QED BY <3>1
  <2>2. CASE q # s
    <3>1. pc'[q] = pc[q] /\ req'[q] = req[q] /\ seen'[q] = seen[q]
      BY <2>2 DEF SlotsOK
    <3> QED BY <3>1 DEF SlotsOK
  <2> QED BY <2>1, <2>2
<1> QED BY <1>1, <1>2 DEF SlotsOK

\* A request that ends leaves its slot idle.
LEMMA LeavesSlot ==
    ASSUME SlotsOK, CountsOK, NEW s \in Slots, Leaves(s)
    PROVE  SlotsOK' /\ alone' \in [Slots -> BOOLEAN]
<1>1. Fits("idle", Nil, Nil) /\ "idle" \in Places
  BY DEF Fits, Places
<1>2. SlotsOK'
  BY <1>1, OneSlot DEF Leaves
<1> QED BY <1>2 DEF Leaves, CountsOK

LEMMA EndsSlot ==
    ASSUME SlotsOK, CountsOK, NEW s \in Slots, Ends(s)
    PROVE  SlotsOK' /\ CountsOK'
BY LeavesSlot DEF Ends, CountsOK

\* A request that goes on keeps what it holds.
LEMMA GoesOnSlot ==
    ASSUME SlotsOK, CountsOK, NEW s \in Slots, NEW at \in Places, GoesOn(s, at),
           Fits(at, req[s], seen[s])
    PROVE  SlotsOK' /\ CountsOK'
<1>1. req' = [req EXCEPT ![s] = req[s]] /\ seen' = [seen EXCEPT ![s] = seen[s]]
  BY DEF GoesOn, SlotsOK
<1>2. req[s] \in Ops \cup {Nil} /\ seen[s] \in Users \cup Currencies \cup {Nil}
  BY DEF SlotsOK
<1>3. pc' = [pc EXCEPT ![s] = at]
  BY DEF GoesOn
<1> DEFINE o == req[s]
           v == seen[s]
<1>4. SlotsOK'
  <2> HIDE DEF o, v
  <2> QED BY <1>1, <1>2, <1>3, OneSlot
<1> QED BY <1>4 DEF GoesOn, CountsOK

\* A request that starts holds what it has just read.
LEMMA StartsSlot ==
    ASSUME SlotsOK, CountsOK, NEW s \in Slots, NEW at \in Places, NEW o \in Ops,
           NEW v \in Users \cup Currencies \cup {Nil}, Starts(s, o, at),
           seen' = [seen EXCEPT ![s] = v], Fits(at, o, v)
    PROVE  SlotsOK' /\ CountsOK'
<1>1. SlotsOK'
  BY OneSlot DEF Starts
<1>2. alone' \in [Slots -> BOOLEAN]
  BY DEF Starts
<1> QED BY <1>1, <1>2 DEF Starts, CountsOK

\* Reads leave the tables alone.
LEMMA SameTables ==
    ASSUME TablesOK, GoneIsEmpty, UNCHANGED tables
    PROVE  TablesOK' /\ GoneIsEmpty'
BY DEF TablesOK, GoneIsEmpty, HasActivity, Live, tables

-----------------------------------------------------------------------------
(* The invariant *)

\* A new group is in order.
LEMMA InitFacts == Init => Facts
<1> SUFFICES ASSUME Init PROVE Facts
  OBVIOUS
<1> USE GroupsAssumption
<1>1. TablesOK
  BY FS_Singleton DEF Init, TablesOK, Row
<1>2. SlotsOK
  BY DEF Init, SlotsOK, Fits, Places
<1>3. GoneIsEmpty
  <2>1. group # Nil
    BY DEF Init, Row
  <2> QED BY <2>1 DEF GoneIsEmpty
<1> QED BY <1>1, <1>2, <1>3 DEF Facts, Init, CountsOK

\* A request that is let in writes nothing yet.
LEMMA BeginFacts ==
    ASSUME Facts, NEW s \in Slots, NEW o \in Ops, Begin(s, o)
    PROVE  Facts'
<1> USE DEF Facts
<1>0. UNCHANGED tables
  BY DEF Begin, AddBegin, RemoveBegin, UpdateBegin, DeleteBegin, EnterBegin, EditBegin, EraseBegin,
         ScheduleBegin, UnscheduleBegin, Starts
<1>1. ASSUME NEW at \in {"add", "currency", "delete", "from", "change", "unschedule"},
             Starts(s, o, at), UNCHANGED seen
      PROVE SlotsOK' /\ CountsOK'
  <2>1. seen[s] = Nil /\ seen' = [seen EXCEPT ![s] = seen[s]]
    BY <1>1 DEF SlotsOK, Fits, Starts
  <2>2. Fits(at, o, seen[s]) /\ at \in Places
    BY <2>1 DEF Fits, Places, Stages
  <2> QED BY <1>1, <2>1, <2>2, StartsSlot
<1>2. CASE RemoveBegin(s, o)
  <2>1. group.owner \in Users
    BY <1>2 DEF RemoveBegin, TablesOK, Row
  <2>2. Fits("remove", o, group.owner) /\ "remove" \in Places
    BY <2>1 DEF Fits, Places
  <2>3. SlotsOK' /\ CountsOK'
    BY <1>2, <2>1, <2>2, StartsSlot DEF RemoveBegin
  <2> QED BY <1>0, <2>3, SameTables
<1>3. ASSUME group # Nil
      PROVE  Given(o.bill.currency, group.currency) \in Currencies
  <2>1. o.bill.currency \in Currencies \cup {Nil} /\ group.currency \in Currencies
    BY <1>3, OpFields DEF Bill, TablesOK, Row
  <2> QED BY <2>1 DEF Given
<1>4. CASE EnterBegin(s, o)
  <2> DEFINE v == IF o.entry \in Expenses THEN Given(o.bill.currency, group.currency) ELSE Nil
  <2>1. v \in Currencies \cup {Nil}
    BY <1>3, <1>4 DEF EnterBegin, GoneIsEmpty
  <2>2. Fits("from", o, v) /\ "from" \in Places
    BY <2>1 DEF Fits, Places
  <2>3. Starts(s, o, "from") /\ seen' = [seen EXCEPT ![s] = v]
    BY <1>4 DEF EnterBegin
  <2> HIDE DEF v
  <2>4. SlotsOK' /\ CountsOK'
    BY <2>1, <2>2, <2>3, StartsSlot
  <2> QED BY <1>0, <2>4, SameTables
<1>5. CASE ScheduleBegin(s, o)
  <2> DEFINE v == Given(o.bill.currency, group.currency)
  <2>1. v \in Currencies
    BY <1>3, <1>5 DEF ScheduleBegin, GoneIsEmpty
  <2>2. Fits("schedule", o, v) /\ "schedule" \in Places
    BY <1>5, <2>1 DEF Fits, Places, ScheduleBegin
  <2>3. Starts(s, o, "schedule") /\ seen' = [seen EXCEPT ![s] = v]
    BY <1>5 DEF ScheduleBegin
  <2> HIDE DEF v
  <2>4. SlotsOK' /\ CountsOK'
    BY <2>1, <2>2, <2>3, StartsSlot
  <2> QED BY <1>0, <2>4, SameTables
<1>6. CASE \/ AddBegin(s, o) \/ UpdateBegin(s, o) \/ DeleteBegin(s, o)
           \/ EditBegin(s, o) \/ EraseBegin(s, o) \/ UnscheduleBegin(s, o)
  <2>1. SlotsOK' /\ CountsOK'
    BY <1>1, <1>6 DEF AddBegin, UpdateBegin, DeleteBegin, EditBegin, EraseBegin, UnscheduleBegin
  <2> QED BY <1>0, <2>1, SameTables
<1> QED BY <1>2, <1>4, <1>5, <1>6 DEF Begin

\* Statements on the membership rows keep the facts.
LEMMA MemberFacts ==
    ASSUME Facts, NEW s \in Slots,
           \/ AddRow(s) \/ AddCount(s) \/ ClearSplit(s)
           \/ RemoveCheck(s) \/ RemoveRow(s) \/ RemoveCount(s)
    PROVE  Facts'
<1> USE DEF Facts
<1> DEFINE o == req[s]
<1>0. pc[s] \in Places /\ Fits(pc[s], o, seen[s]) /\ o \in Ops \cup {Nil}
      /\ seen[s] \in Users \cup Currencies \cup {Nil}
  BY DEF SlotsOK
<1>1. o \in Ops /\ o.who \in Users
  <2>1. pc[s] # "idle"
    BY DEF AddRow, AddCount, ClearSplit, RemoveCheck, RemoveRow, RemoveCount
  <2> QED BY <1>0, <2>1, OpFields DEF Fits
<1>2. ASSUME NEW at \in {"added", "clear", "removed"}, GoesOn(s, at)
      PROVE  SlotsOK' /\ CountsOK'
  <2>1. Fits(at, o, seen[s]) /\ at \in Places
    BY <1>1 DEF Fits, Places
  <2> QED BY <1>2, <2>1, GoesOnSlot
<1>3. CASE AddRow(s)
  <2>1. SlotsOK' /\ CountsOK'
    BY <1>2, <1>3, EndsSlot DEF AddRow
  <2>2. TablesOK' /\ GoneIsEmpty'
    <3>1. CASE group = Nil
      BY <1>3, <3>1, SameTables DEF AddRow
    <3>2. CASE group # Nil
      BY <1>1, <1>3, <3>2, FS_AddElement DEF AddRow, TablesOK, GoneIsEmpty
    <3> QED BY <3>1, <3>2
  <2> QED BY <2>1, <2>2
<1>4. CASE AddCount(s) \/ RemoveCount(s)
  BY <1>2, <1>4, EndsSlot, SameTables DEF AddCount, RemoveCount
<1>5. CASE ClearSplit(s)
  <2>1. group' \in Row \cup {Nil} /\ (group' = Nil => group = Nil)
    BY <1>5, GroupsAssumption DEF ClearSplit, TablesOK, Row
  <2> QED BY <1>5, <2>1, EndsSlot DEF ClearSplit, TablesOK, GoneIsEmpty, HasActivity, Live
<1>6. CASE RemoveCheck(s)
  <2>1. CASE MayRemove(s)
    <3>1. Fits("removing", o, seen[s]) /\ "removing" \in Places
      BY <1>0, <1>1, <1>6, <2>1 DEF Fits, Places, RemoveCheck, MayRemove
    <3> QED BY <1>6, <2>1, <3>1, GoesOnSlot, SameTables DEF RemoveCheck
  <2>2. CASE ~MayRemove(s)
    BY <1>6, <2>2, EndsSlot, SameTables DEF RemoveCheck
  <2> QED BY <2>1, <2>2
<1>7. CASE RemoveRow(s)
  <2>1. SlotsOK' /\ CountsOK'
    BY <1>2, <1>7, EndsSlot DEF RemoveRow
  <2>2. /\ members' \subseteq members /\ UNCHANGED <<group, ledger, templates>>
        /\ IsFiniteSet(members')
    BY <1>7, FS_RemoveElement DEF RemoveRow, TablesOK
  <2> QED BY <2>1, <2>2 DEF TablesOK, GoneIsEmpty, HasActivity, Live
<1> QED BY <1>3, <1>4, <1>5, <1>6, <1>7

\* Updates and deletions of the group keep the facts.
LEMMA GroupFacts ==
    ASSUME Facts, NEW s \in Slots, UpdateCheck(s) \/ UpdateWrite(s) \/ DeleteRow(s)
    PROVE  Facts'
<1> USE DEF Facts
<1> DEFINE o == req[s]
<1>0. Fits(pc[s], o, seen[s])
  BY DEF SlotsOK
<1>1. o \in Ops
  BY <1>0 DEF Fits, UpdateCheck, UpdateWrite, DeleteRow, Stages
<1>2. CASE UpdateCheck(s)
  <2>1. CASE Passes(pc[s], o.actor, o.patch)
    <3>1. Fits(After(pc[s]), o, seen[s]) /\ After(pc[s]) \in Places
      BY <1>0, <1>1, <1>2, <2>1 DEF UpdateCheck, Fits, Places, Stages, After, Passes
    <3> QED BY <1>2, <2>1, <3>1, GoesOnSlot, SameTables DEF UpdateCheck
  <2>2. CASE ~Passes(pc[s], o.actor, o.patch)
    BY <1>2, <2>2, EndsSlot, SameTables DEF UpdateCheck
  <2> QED BY <2>1, <2>2
<1>3. CASE UpdateWrite(s)
  <2>1. group' \in Row \cup {Nil} /\ (group' = Nil => group = Nil)
    <3>1. CASE group = Nil
      BY <1>3, <3>1 DEF UpdateWrite
    <3>2. CASE group # Nil
      <4>1. Given(o.patch.owner, group.owner) \in Users
            /\ Given(o.patch.currency, group.currency) \in Currencies
        BY <1>1, <3>2, OpFields DEF Given, TablesOK, Row
      <4>2. (CASE o.patch.split = Nil -> group.split
               [] o.patch.split = {}  -> Nil
               [] OTHER               -> o.patch.split) \in (SUBSET Users) \cup {Nil}
        BY <1>1, <3>2, OpFields DEF TablesOK, Row
      <4>3. group' \in Row
        BY <1>3, <3>2, <4>1, <4>2 DEF UpdateWrite, Row
      <4> QED BY <4>3, GroupsAssumption
    <3> QED BY <3>1, <3>2
  <2> QED BY <1>3, <2>1, EndsSlot DEF UpdateWrite, TablesOK, GoneIsEmpty, HasActivity, Live
<1>4. CASE DeleteRow(s)
  <2>1. ledger' \in [Entries -> Payment \cup {Nil, Gone}] /\ \A e \in Entries : ledger'[e] \in {Nil, Gone}
    BY <1>4 DEF DeleteRow, Live, TablesOK
  <2>2. templates' \in [Templates -> Payment \cup {Nil}] /\ \A t \in Templates : templates'[t] = Nil
    BY <1>4 DEF DeleteRow
  <2>3. group' = Nil /\ members' = {} /\ SlotsOK' /\ CountsOK'
    BY <1>4, EndsSlot DEF DeleteRow
  <2> QED BY <2>1, <2>2, <2>3, FS_EmptySet DEF TablesOK, GoneIsEmpty, HasActivity, Live
<1> QED BY <1>2, <1>3, <1>4

\* Statements on expenses and settlements keep the facts.
LEMMA LedgerFacts ==
    ASSUME Facts, NEW s \in Slots,
           CheckFrom(s) \/ CheckTo(s) \/ EnterRow(s) \/ ChangeRow(s)
    PROVE  Facts'
<1> USE DEF Facts
<1> DEFINE o == req[s]
<1>0. Fits(pc[s], o, seen[s])
  BY DEF SlotsOK
<1>1. o \in Ops /\ o.entry \in Entries /\ o.bill \in Bill
  BY <1>0, OpFields DEF Fits, CheckFrom, CheckTo, EnterRow, ChangeRow
<1>2. CASE CheckFrom(s) \/ CheckTo(s)
  <2>1. \/ GoesOn(s, "to") /\ Fits("to", o, seen[s])
        \/ GoesOn(s, "enter") /\ Fits("enter", o, seen[s])
        \/ GoesOn(s, "change") /\ Fits("change", o, seen[s])
        \/ Ends(s)
    BY <1>0, <1>1, <1>2 DEF Fits, CheckFrom, CheckTo
  <2>2. {"to", "enter", "change"} \subseteq Places
    BY DEF Places
  <2>3. SlotsOK' /\ CountsOK'
    BY <2>1, <2>2, EndsSlot, GoesOnSlot
  <2> QED BY <1>2, <2>3, SameTables DEF CheckFrom, CheckTo
<1>3. CASE EnterRow(s)
  <2>1. CASE group # Nil /\ ledger[o.entry] = Nil
    <3>1. Pay(o.bill, seen[s]) \in Payment
      BY <1>0, <1>1, <1>3, PayIsPayment DEF Fits, EnterRow
    <3>2. TablesOK' /\ GoneIsEmpty'
      BY <1>1, <1>3, <2>1, <3>1 DEF EnterRow, TablesOK, GoneIsEmpty
    <3> QED BY <1>3, <3>2, EndsSlot DEF EnterRow
  <2>2. CASE ~(group # Nil /\ ledger[o.entry] = Nil)
    BY <1>3, <2>2, EndsSlot, SameTables DEF EnterRow, tables
  <2> QED BY <2>1, <2>2
<1>4. CASE ChangeRow(s)
  <2>1. CASE Live(o.entry)
    <3>1. Amended(ledger[o.entry], o.bill) \in Payment
      BY <1>1, <2>1, AmendedIsPayment DEF Live, TablesOK
    <3>2. ledger' \in [Entries -> Payment \cup {Nil, Gone}]
      BY <1>1, <1>4, <2>1, <3>1 DEF ChangeRow, TablesOK
    <3>3. HasActivity
      BY <1>1, <2>1 DEF HasActivity
    <3> QED BY <1>4, <3>2, <3>3, EndsSlot DEF ChangeRow, TablesOK, GoneIsEmpty
  <2>2. CASE ~Live(o.entry)
    BY <1>4, <2>2, EndsSlot, SameTables DEF ChangeRow, tables
  <2> QED BY <2>1, <2>2
<1> QED BY <1>2, <1>3, <1>4

\* Templates come and go, and the worker makes expenses of them.
LEMMA TemplateFacts ==
    ASSUME Facts,
           \/ \E s \in Slots : ScheduleRow(s) \/ UnscheduleRow(s)
           \/ \E t \in Templates, e \in Expenses : Materialize(t, e)
    PROVE  Facts'
<1> USE DEF Facts
<1>1. ASSUME NEW s \in Slots, ScheduleRow(s) PROVE Facts'
  <2>1. /\ Fits("schedule", req[s], seen[s]) /\ SlotsOK' /\ CountsOK'
        /\ UNCHANGED <<group, members, ledger>>
    BY <1>1, EndsSlot DEF SlotsOK, ScheduleRow
  <2> DEFINE p == [Pay(req[s].bill, seen[s]) EXCEPT !.own = TRUE]
  <2>2. p \in Payment /\ p.own
    BY <2>1, PayIsPayment DEF Fits, Pay
  <2>3. templates' \in {templates, [templates EXCEPT ![req[s].template] = p]}
        /\ (group = Nil => templates' = templates)
    BY <1>1 DEF ScheduleRow
  <2> HIDE DEF p
  <2> QED BY <2>1, <2>2, <2>3 DEF TablesOK, GoneIsEmpty, HasActivity, Live
<1>2. ASSUME NEW s \in Slots, UnscheduleRow(s) PROVE Facts'
  <2>1. SlotsOK' /\ CountsOK' /\ UNCHANGED <<group, members, ledger>>
        /\ templates' = [templates EXCEPT ![req[s].template] = Nil]
    BY <1>2, EndsSlot DEF UnscheduleRow
  <2> QED BY <2>1 DEF TablesOK, GoneIsEmpty, HasActivity, Live
<1>3. ASSUME NEW t \in Templates, NEW e \in Expenses, Materialize(t, e) PROVE Facts'
  <2>1. /\ templates[t] \in Payment /\ group # Nil
        /\ ledger' = [ledger EXCEPT ![e] = templates[t]]
        /\ UNCHANGED <<group, members, templates, pc, req, seen, aborts>>
    BY <1>3 DEF Materialize, TablesOK, GoneIsEmpty
  <2>2. ledger' \in [Entries -> Payment \cup {Nil, Gone}]
    BY <2>1 DEF TablesOK
  <2>3. alone' \in [Slots -> BOOLEAN]
    BY <1>3 DEF Materialize
  <2> QED BY <2>1, <2>2, <2>3 DEF TablesOK, GoneIsEmpty, SlotsOK, CountsOK
<1> QED BY <1>1, <1>2, <1>3

\* A request that is aborted leaves its slot idle.
LEMMA AbortFacts ==
    ASSUME Facts, NEW s \in Slots, Abort(s)
    PROVE  Facts'
BY LeavesSlot, SameTables DEF Facts, Abort, CountsOK

\* Every action keeps the facts.
THEOREM StepFacts == Facts /\ [Next]_vars => Facts'
<1> SUFFICES ASSUME Facts, [Next]_vars PROVE Facts'
  OBVIOUS
<1>1. ASSUME NEW s \in Slots, Statement(s) PROVE Facts'
  BY <1>1, MemberFacts, GroupFacts, LedgerFacts, TemplateFacts DEF Statement
<1>2. CASE UNCHANGED vars
  BY <1>2 DEF Facts, TablesOK, SlotsOK, CountsOK, GoneIsEmpty, HasActivity, Live, vars
<1> QED BY <1>1, <1>2, BeginFacts, AbortFacts, TemplateFacts DEF Next

\* The facts hold in every reachable state.
THEOREM AlwaysFacts == Spec => []Facts
BY InitFacts, StepFacts, PTL DEF Spec

-----------------------------------------------------------------------------
(* What a request that is alone knows *)

\* What a request has checked is still so where it is, if nothing else has run.
Placed(at, o, v) ==
    /\ at \in {"remove", "removing"} => group # Nil /\ v = group.owner
    /\ at = "removing" /\ o.actor # o.who => Net(o.who) = 0
    /\ at \in {"to", "enter"} \/ (at = "change" /\ o.op = "edit") => o.bill.from \in members \cup {Nil}
    /\ at = "enter" \/ (at = "change" /\ o.op = "edit") => o.bill.to \in members \cup {Nil}
    /\ at \in {"from", "to", "enter"} /\ o.op = "enter" /\ o.entry \in Expenses
           => v = Given(o.bill.currency, group.currency)
    /\ at \in {"split", "owner", "target", "write"} => Passes("currency", o.actor, o.patch)
    /\ at \in {"owner", "target", "write"} => Passes("split", o.actor, o.patch)
    /\ at = "write" => Passes("target", o.actor, o.patch)

AloneInv ==
    \A s \in Slots : pc[s] # "idle" /\ alone[s] =>
        Placed(pc[s], req[s], seen[s]) /\ \A q \in Slots \ {s} : pc[q] = "idle"

\* What is known of a place stays known while the tables do not change.
LEMMA PlacedKept ==
    ASSUME UNCHANGED tables, NEW s \in Slots, Placed(pc'[s], req'[s], seen'[s])
    PROVE  Placed(pc[s], req[s], seen[s])'
BY DEF tables, Placed, Passes, CurrencyFree, HasActivity, Live, Net

\* A slot that moves knows what the others do nothing about.
LEMMA AloneMoves ==
    ASSUME AloneInv, NEW s \in Slots, pc[s] # "idle",
           \A q \in Slots \ {s} : pc'[q] = pc[q] /\ alone'[q] = alone[q],
           pc'[s] # "idle" => alone'[s] = alone[s]
                              /\ (Placed(pc[s], req[s], seen[s]) => Placed(pc[s], req[s], seen[s])')
    PROVE  AloneInv'
<1> SUFFICES ASSUME NEW q \in Slots, pc'[q] # "idle", alone'[q]
             PROVE  /\ Placed(pc[q], req[q], seen[q])'
                    /\ \A r \in Slots \ {q} : pc'[r] = "idle"
  BY DEF AloneInv
<1>1. q = s
  BY DEF AloneInv
<1> QED BY <1>1 DEF AloneInv

\* A request that ends knows nothing more.
LEMMA AloneEnds ==
    ASSUME Facts, AloneInv, NEW s \in Slots, pc[s] # "idle", Leaves(s)
    PROVE  AloneInv'
<1>1. pc'[s] = "idle" /\ \A q \in Slots \ {s} : pc'[q] = pc[q] /\ alone'[q] = alone[q]
  BY DEF Leaves, Facts, SlotsOK, CountsOK
<1> QED BY <1>1, AloneMoves

\* A request that goes on after a read knows what it has read.
LEMMA AloneReads ==
    ASSUME Facts, AloneInv, NEW s \in Slots, NEW at, pc[s] # "idle", GoesOn(s, at), UNCHANGED tables,
           Placed(pc[s], req[s], seen[s]) => Placed(at, req[s], seen[s])
    PROVE  AloneInv'
<1>1. /\ pc'[s] = at /\ alone'[s] = alone[s] /\ req'[s] = req[s] /\ seen'[s] = seen[s]
      /\ \A q \in Slots \ {s} : pc'[q] = pc[q] /\ alone'[q] = alone[q]
  BY DEF GoesOn, Facts, SlotsOK, CountsOK
<1>2. Placed(pc[s], req[s], seen[s]) => Placed(pc[s], req[s], seen[s])'
  BY <1>1, PlacedKept
<1> QED BY <1>1, <1>2, AloneMoves

\* A request that has changed the membership asks nothing of the others.
LEMMA AloneWrites ==
    ASSUME Facts, AloneInv, NEW s \in Slots, NEW at \in {"added", "removed"}, pc[s] # "idle",
           GoesOn(s, at)
    PROVE  AloneInv'
<1>1. /\ pc'[s] = at /\ alone'[s] = alone[s]
      /\ \A q \in Slots \ {s} : pc'[q] = pc[q] /\ alone'[q] = alone[q]
  BY DEF GoesOn, Facts, SlotsOK, CountsOK
<1>2. Placed(pc[s], req[s], seen[s])'
  BY <1>1 DEF Placed
<1> QED BY <1>1, <1>2, AloneMoves

\* A request that starts knows what it has read; the others are alone no more.
LEMMA AloneStarts ==
    ASSUME Facts, AloneInv, NEW s \in Slots, NEW o \in Ops, Begin(s, o)
    PROVE  AloneInv'
<1>1. PICK at \in Places : Starts(s, o, at)
  BY DEF Begin, AddBegin, RemoveBegin, UpdateBegin, DeleteBegin, EnterBegin, EditBegin, EraseBegin,
         ScheduleBegin, UnscheduleBegin, Places, Stages
<1>2. /\ pc[s] = "idle" /\ pc'[s] = at /\ req'[s] = o /\ UNCHANGED tables
      /\ \A q \in Slots \ {s} : pc'[q] = pc[q] /\ alone'[q] = (pc[q] = "idle")
      /\ alone'[s] = \A q \in Slots \ {s} : pc[q] = "idle"
  BY <1>1 DEF Starts, Facts, SlotsOK
<1>3. Placed(pc'[s], req'[s], seen'[s])
  <2>1. CASE \/ AddBegin(s, o) \/ UpdateBegin(s, o) \/ DeleteBegin(s, o) \/ ScheduleBegin(s, o)
             \/ UnscheduleBegin(s, o)
    <3>1. pc'[s] \in {"add", "currency", "delete", "schedule", "unschedule"}
      BY <2>1 DEF AddBegin, UpdateBegin, DeleteBegin, ScheduleBegin, UnscheduleBegin, Starts, Facts,
                  SlotsOK
    <3> QED BY <3>1 DEF Placed
  <2>2. CASE RemoveBegin(s, o)
    <3>1. pc'[s] = "remove" /\ group # Nil /\ seen'[s] = group.owner
      BY <2>2 DEF RemoveBegin, Starts, Facts, SlotsOK
    <3> QED BY <3>1 DEF Placed
  <2>3. CASE EnterBegin(s, o)
    <3>1. /\ pc'[s] = "from"
          /\ o.entry \in Expenses => seen'[s] = Given(o.bill.currency, group.currency)
      BY <2>3 DEF EnterBegin, Starts, Facts, SlotsOK
    <3> QED BY <1>2, <3>1 DEF Placed
  <2>4. CASE EditBegin(s, o)
    <3>1. pc'[s] = "from" /\ o.op = "edit"
      BY <2>4 DEF EditBegin, Starts, Facts, SlotsOK
    <3> QED BY <1>2, <3>1 DEF Placed
  <2>5. CASE EraseBegin(s, o)
    <3>1. pc'[s] = "change" /\ o.op = "erase"
      BY <2>5 DEF EraseBegin, Starts, Facts, SlotsOK
    <3> QED BY <1>2, <3>1 DEF Placed
  <2> QED BY <2>1, <2>2, <2>3, <2>4, <2>5 DEF Begin
<1>4. Placed(pc[s], req[s], seen[s])'
  BY <1>2, <1>3, PlacedKept
<1>5. ASSUME NEW q \in Slots, pc'[q] # "idle", alone'[q]
      PROVE  Placed(pc[q], req[q], seen[q])' /\ \A r \in Slots \ {q} : pc'[r] = "idle"
  <2>1. q = s
    BY <1>2, <1>5
  <2> QED BY <1>2, <1>4, <1>5, <2>1
<1> QED BY <1>5 DEF AloneInv

\* What a request has checked stays so for one that is alone.
THEOREM AlwaysAlone == Spec => []AloneInv
<1>1. Init => AloneInv
  BY DEF Init, AloneInv
<1>2. ASSUME Facts, AloneInv, NEW s \in Slots, Statement(s) PROVE AloneInv'
  <2> USE <1>2
  <2>1. ASSUME pc[s] # "idle", Ends(s) PROVE AloneInv'
    BY <2>1, AloneEnds DEF Ends
  <2>2. CASE AddRow(s) \/ RemoveRow(s)
    BY <2>1, <2>2, AloneWrites DEF AddRow, RemoveRow
  <2>3. CASE AddCount(s) \/ RemoveCount(s)
    <3>1. Placed("clear", req[s], seen[s])
      BY DEF Placed
    <3> QED BY <2>1, <2>3, <3>1, AloneReads DEF AddCount, RemoveCount
  <2>4. CASE RemoveCheck(s)
    <3>1. MayRemove(s) => GoesOn(s, "removing")
      BY <2>4 DEF RemoveCheck
    <3>2. MayRemove(s) /\ Placed(pc[s], req[s], seen[s]) => Placed("removing", req[s], seen[s])
      BY <2>4 DEF RemoveCheck, MayRemove, Placed
    <3> QED BY <2>1, <2>4, <3>1, <3>2, AloneReads DEF RemoveCheck
  <2>5. CASE UpdateCheck(s)
    <3>1. /\ pc[s] \in Stages /\ pc[s] # "idle" /\ UNCHANGED tables
          /\ \/ GoesOn(s, After(pc[s])) /\ Passes(pc[s], req[s].actor, req[s].patch)
             \/ Ends(s)
      BY <2>5 DEF UpdateCheck, Stages
    <3>2. Passes(pc[s], req[s].actor, req[s].patch) /\ Placed(pc[s], req[s], seen[s])
              => Placed(After(pc[s]), req[s], seen[s])
      BY <3>1 DEF Stages, After, Placed
    <3> QED BY <2>1, <3>1, <3>2, AloneReads
  <2>6. CASE CheckFrom(s) \/ CheckTo(s)
    <3>1. PICK at \in {"to", "enter", "change", "idle"} :
              /\ UNCHANGED tables /\ pc[s] # "idle"
              /\ IF at = "idle" THEN Ends(s)
                 ELSE GoesOn(s, at) /\ (Placed(pc[s], req[s], seen[s]) => Placed(at, req[s], seen[s]))
      <4>1. CASE CheckFrom(s)
        BY <4>1 DEF CheckFrom, Placed
      <4>2. CASE CheckTo(s)
        BY <4>2 DEF CheckTo, Placed
      <4> QED BY <2>6, <4>1, <4>2
    <3> QED BY <2>1, <3>1, AloneReads
  <2>7. CASE \/ ClearSplit(s) \/ UpdateWrite(s) \/ DeleteRow(s) \/ EnterRow(s) \/ ChangeRow(s)
             \/ ScheduleRow(s) \/ UnscheduleRow(s)
    BY <2>1, <2>7 DEF ClearSplit, UpdateWrite, DeleteRow, EnterRow, ChangeRow, ScheduleRow,
                      UnscheduleRow
  <2> QED BY <2>2, <2>3, <2>4, <2>5, <2>6, <2>7 DEF Statement
<1>3. ASSUME AloneInv, NEW t \in Templates, NEW e \in Expenses, Materialize(t, e) PROVE AloneInv'
  BY <1>3 DEF Materialize, AloneInv
<1>4. ASSUME AloneInv, UNCHANGED vars PROVE AloneInv'
  <2>1. UNCHANGED <<tables, pc, req, seen, alone>>
    BY <1>4 DEF vars, tables
  <2>2. ASSUME NEW s \in Slots, Placed(pc[s], req[s], seen[s])
        PROVE  Placed(pc[s], req[s], seen[s])'
    BY <2>1, <2>2, PlacedKept
  <2> QED BY <1>4, <2>1, <2>2 DEF AloneInv
<1>5. Facts /\ AloneInv /\ [Next]_vars => AloneInv'
  <2>1. ASSUME Facts, AloneInv, NEW s \in Slots, Abort(s) PROVE AloneInv'
    BY <2>1, AloneEnds DEF Abort
  <2> QED BY <1>2, <1>3, <1>4, <2>1, AloneStarts DEF Next
<1> QED BY <1>1, <1>5, AlwaysFacts, PTL DEF Spec

-----------------------------------------------------------------------------
(* The theorems *)

\* Every reachable state has the types of TypeOK.
THEOREM TypeCorrect == Spec => []TypeOK
<1>1. Facts => TypeOK
  BY DEF Facts, TablesOK, SlotsOK, CountsOK, TypeOK
<1> QED BY <1>1, AlwaysFacts, PTL

\* Nothing outlives a group, although requests that were checked before it was
\* deleted go on writing.
THEOREM NothingOutlives == Spec => []GoneIsEmpty
BY AlwaysFacts, PTL DEF Facts

\* A request that starts writes no table.
LEMMA BeginReads == ASSUME NEW s \in Slots, NEW o \in Ops, Begin(s, o) PROVE UNCHANGED tables
BY DEF Begin, AddBegin, RemoveBegin, UpdateBegin, DeleteBegin, EnterBegin, EditBegin, EraseBegin,
       ScheduleBegin, UnscheduleBegin, Starts

\* What a step that writes the group or its members is, and one that writes entries.
LEMMA Writers ==
    ASSUME Next
    PROVE  /\ \/ UNCHANGED <<group, members>>
              \/ \E s \in Slots :
                     AddRow(s) \/ ClearSplit(s) \/ RemoveRow(s) \/ UpdateWrite(s) \/ DeleteRow(s)
           /\ \/ UNCHANGED ledger
              \/ \E s \in Slots : DeleteRow(s) \/ EnterRow(s) \/ ChangeRow(s)
              \/ \E t \in Templates, e \in Expenses : Materialize(t, e)
<1>1. CASE \E s \in Slots, o \in Ops : Begin(s, o)
  BY <1>1, BeginReads DEF tables
<1>2. ASSUME NEW s \in Slots, Statement(s) PROVE
        /\ \/ UNCHANGED <<group, members>>
           \/ AddRow(s) \/ ClearSplit(s) \/ RemoveRow(s) \/ UpdateWrite(s) \/ DeleteRow(s)
        /\ UNCHANGED ledger \/ DeleteRow(s) \/ EnterRow(s) \/ ChangeRow(s)
  <2>1. CASE AddCount(s) \/ RemoveCheck(s) \/ RemoveCount(s) \/ UpdateCheck(s) \/ CheckFrom(s) \/ CheckTo(s)
    BY <2>1 DEF AddCount, RemoveCheck, RemoveCount, UpdateCheck, CheckFrom, CheckTo, tables
  <2>2. CASE AddRow(s) \/ ClearSplit(s) \/ RemoveRow(s) \/ UpdateWrite(s)
    BY <2>2 DEF AddRow, ClearSplit, RemoveRow, UpdateWrite, tables
  <2>3. CASE EnterRow(s) \/ ChangeRow(s) \/ ScheduleRow(s) \/ UnscheduleRow(s)
    BY <2>3 DEF EnterRow, ChangeRow, ScheduleRow, UnscheduleRow
  <2> QED BY <1>2, <2>1, <2>2, <2>3 DEF Statement
<1>3. CASE \E s \in Slots : Statement(s)
  BY <1>2, <1>3
<1>4. CASE \E s \in Slots : Abort(s)
  BY <1>4 DEF Abort, tables
<1>5. CASE \E t \in Templates, e \in Expenses : Materialize(t, e)
  BY <1>5 DEF Materialize
<1> QED BY <1>1, <1>3, <1>4, <1>5 DEF Next

\* Clearing the split changes nothing else of the group.
LEMMA ClearsOnly ==
    ASSUME Facts, NEW s \in Slots, ClearSplit(s)
    PROVE  /\ group' # Nil => /\ group # Nil /\ group'.owner = group.owner
                              /\ group'.currency = group.currency /\ group'.split = Nil
           /\ UNCHANGED <<members, ledger>>
<1>1. group \in Row \cup {Nil}
  BY DEF Facts, TablesOK
<1> QED BY <1>1 DEF ClearSplit, Row

\* A request that ends, ends there.
LEMMA EndsIdle ==
    ASSUME Facts, NEW s \in Slots, Ends(s)
    PROVE  pc'[s] = "idle" /\ \A q \in Slots \ {s} : pc'[q] = pc[q] /\ req'[q] = req[q]
BY DEF Ends, Leaves, Facts, SlotsOK

\* The owner stops being a member by the two races only, however many requests
\* there are.
THEOREM OwnerKept == Spec => OwnerLostOnlyToRace
<1> DEFINE Race == \E s \in Slots : StaleTransfer(s) \/ StaleRemoval(s)
<1>1. ASSUME Facts, AloneInv, Next, OwnerIsMember, ~Race PROVE OwnerIsMember'
  <2>1. ASSUME NEW s \in Slots, AddRow(s) PROVE OwnerIsMember'
    BY <1>1, <2>1 DEF AddRow, OwnerIsMember, tables
  <2>2. ASSUME NEW s \in Slots, ClearSplit(s) PROVE OwnerIsMember'
    BY <1>1, <2>2, ClearsOnly DEF OwnerIsMember
  <2>3. ASSUME NEW s \in Slots, RemoveRow(s) PROVE OwnerIsMember'
    <3>1. CASE req[s].who \in members
      <4>1. pc[s] = "removing" /\ pc'[s] = "removed"
        BY <1>1, <2>3, <3>1 DEF RemoveRow, GoesOn, Facts, SlotsOK
      <4>2. alone[s] => seen[s] = group.owner
        BY <1>1, <4>1 DEF AloneInv, Placed
      <4>3. seen[s] = group.owner
        BY <1>1, <4>1, <4>2 DEF StaleRemoval
      <4>4. req[s].who # group.owner
        BY <1>1, <4>1, <4>3 DEF Facts, SlotsOK, Fits
      <4> QED BY <1>1, <2>3, <4>4 DEF RemoveRow, OwnerIsMember
    <3>2. CASE req[s].who \notin members
      BY <1>1, <2>3, <3>2 DEF RemoveRow, OwnerIsMember
    <3> QED BY <3>1, <3>2
  <2>4. ASSUME NEW s \in Slots, UpdateWrite(s) PROVE OwnerIsMember'
    <3>1. pc[s] = "write" /\ pc'[s] = "idle"
      BY <1>1, <2>4, EndsIdle DEF UpdateWrite
    <3>2. alone[s] => req[s].patch.owner \in members \cup {Nil}
      BY <1>1, <3>1 DEF AloneInv, Placed, Passes
    <3>3. req[s].patch.owner \in members \cup {Nil}
      BY <1>1, <3>1, <3>2 DEF StaleTransfer
    <3>4. group' # Nil => group # Nil /\ group'.owner = Given(req[s].patch.owner, group.owner)
      BY <2>4 DEF UpdateWrite
    <3> QED BY <1>1, <2>4, <3>3, <3>4 DEF UpdateWrite, OwnerIsMember, Given
  <2>5. ASSUME NEW s \in Slots, DeleteRow(s) PROVE OwnerIsMember'
    BY <2>5 DEF DeleteRow, OwnerIsMember
  <2>6. CASE UNCHANGED <<group, members>>
    BY <1>1, <2>6 DEF OwnerIsMember
  <2> QED BY <1>1, <2>1, <2>2, <2>3, <2>4, <2>5, <2>6, Writers
<1>2. Facts /\ AloneInv /\ [Next]_vars => [OwnerIsMember => OwnerIsMember' \/ Race]_vars
  BY <1>1
<1> QED BY <1>2, AlwaysFacts, AlwaysAlone, PTL DEF Spec, OwnerLostOnlyToRace

\* An expense that was entered without a currency stops being in that of the
\* group by the race of the currency only, whatever requests and templates name.
THEOREM CurrencyKept == Spec => CurrencyLostOnlyToRace
<1> DEFINE Race == \E s \in Slots : StaleCurrency(s)
<1>1. ASSUME Facts, AloneInv, Next, OneCurrency, ~Race PROVE OneCurrency'
  <2> USE <1>1
  <2>1. ASSUME UNCHANGED ledger, group' # Nil => group # Nil /\ group'.currency = group.currency
        PROVE  OneCurrency'
    BY <2>1 DEF OneCurrency, Live
  <2>2. ASSUME NEW s \in Slots, ClearSplit(s) PROVE OneCurrency'
    BY <2>1, <2>2, ClearsOnly
  <2>3. ASSUME NEW s \in Slots, UpdateWrite(s) PROVE OneCurrency'
    <3> DEFINE c == req[s].patch.currency
    <3>1. pc[s] = "write" /\ pc'[s] = "idle" /\ UNCHANGED ledger
      BY <2>3, EndsIdle DEF UpdateWrite
    <3>2. alone[s] => c = Nil \/ CurrencyFree(c)
      BY <3>1 DEF AloneInv, Placed, Passes
    <3>3. group' # Nil => group # Nil /\ group'.currency = Given(c, group.currency)
      BY <2>3 DEF UpdateWrite
    <3>4. ~alone[s] => c = Nil \/ ~HasActivity
      BY <3>1 DEF StaleCurrency
    <3>5. CASE c = Nil \/ c = group.currency
      BY <2>1, <3>1, <3>3, <3>5 DEF Given
    <3>6. CASE ~HasActivity
      BY <3>1, <3>6 DEF OneCurrency, HasActivity, Live, Entries
    <3> QED BY <3>2, <3>4, <3>5, <3>6 DEF CurrencyFree
  <2>4. ASSUME NEW s \in Slots, DeleteRow(s) PROVE OneCurrency'
    BY <2>4 DEF DeleteRow, OneCurrency
  <2>5. ASSUME UNCHANGED group, NEW x \in Entries, \A e \in Entries \ {x} : ledger'[e] = ledger[e],
               x \in Expenses /\ Live(x)' /\ ~ledger'[x].own /\ group # Nil
                   => ledger'[x].currency = group.currency
        PROVE  OneCurrency'
    BY <2>5 DEF OneCurrency, Live, Entries
  <2>6. ASSUME NEW s \in Slots, EnterRow(s) PROVE OneCurrency'
    <3> DEFINE b == req[s].bill
    <3>1. /\ pc[s] = "enter" /\ pc'[s] = "idle" /\ req[s].op = "enter" /\ req[s] \in Ops
          /\ UNCHANGED group
      BY <2>6, EndsIdle DEF EnterRow, Facts, SlotsOK, Fits
    <3>2. PICK x \in Entries : x = req[s].entry
      BY <3>1, OpFields
    <3>3. CASE group # Nil /\ ledger[x] = Nil
      <4>1. ledger' = [ledger EXCEPT ![x] = Pay(b, seen[s])]
        BY <2>6, <3>2, <3>3 DEF EnterRow
      <4>2. /\ ledger'[x] = Pay(b, seen[s])
            /\ \A e \in Entries \ {x} : ledger'[e] = ledger[e]
        BY <3>2, <4>1 DEF Facts, TablesOK
      <4>3. ledger'[x].currency = seen[s]
        BY <4>2 DEF Pay
      <4>4. ledger'[x].own <=> b.currency # Nil
        <5>1. Pay(b, seen[s]).own <=> b.currency # Nil
          BY DEF Pay
        <5> QED BY <4>2, <5>1, Zenon
      <4>5. alone[s] /\ x \in Expenses /\ b.currency = Nil => seen[s] = group.currency
        BY <3>1, <3>2 DEF AloneInv, Placed, Given
      <4>6. ~alone[s] => seen[s] = group.currency
        BY <3>1 DEF StaleCurrency
      <4>7. x \in Expenses /\ ~ledger'[x].own => ledger'[x].currency = group.currency
        BY <4>3, <4>4, <4>5, <4>6
      <4> QED BY <2>5, <3>1, <4>2, <4>7
    <3>4. CASE ~(group # Nil /\ ledger[x] = Nil)
      BY <2>1, <2>6, <3>2, <3>4 DEF EnterRow
    <3> QED BY <3>3, <3>4
  <2>7. ASSUME NEW s \in Slots, ChangeRow(s) PROVE OneCurrency'
    <3>1. PICK x \in Entries : x = req[s].entry /\ req[s].bill \in Bill /\ UNCHANGED group
      BY <2>7, OpFields DEF ChangeRow, Facts, SlotsOK, Fits
    <3>2. CASE Live(x)
      <4>1. /\ ledger'[x] \in {Gone, Amended(ledger[x], req[s].bill)}
            /\ \A e \in Entries \ {x} : ledger'[e] = ledger[e]
        BY <2>7, <3>1, <3>2 DEF ChangeRow, Facts, TablesOK
      <4>2. ledger[x] \in Payment
        BY <3>1, <3>2 DEF Live, Facts, TablesOK
      <4>3. /\ Amended(ledger[x], req[s].bill).currency = ledger[x].currency
            /\ Amended(ledger[x], req[s].bill).own = ledger[x].own
        BY <3>1, <4>2, AmendedIsPayment
      <4>4. x \in Expenses /\ ~ledger[x].own /\ group # Nil => ledger[x].currency = group.currency
        BY <3>2 DEF OneCurrency
      <4>5. Live(x)' => ledger'[x] # Gone
        BY DEF Live
      <4> QED BY <2>5, <3>1, <4>1, <4>3, <4>4, <4>5
    <3>3. CASE ~Live(x)
      BY <2>1, <2>7, <3>1, <3>3 DEF ChangeRow
    <3> QED BY <3>2, <3>3
  <2>8. ASSUME NEW t \in Templates, NEW x \in Expenses, Materialize(t, x) PROVE OneCurrency'
    <3>1. /\ templates[t].own /\ ledger'[x] = templates[t] /\ UNCHANGED group
          /\ \A e \in Entries \ {x} : ledger'[e] = ledger[e]
      BY <2>8 DEF Materialize, Facts, TablesOK, Entries
    <3> QED BY <2>5, <3>1 DEF Entries
  <2>9. ASSUME NEW s \in Slots, AddRow(s) \/ RemoveRow(s) PROVE OneCurrency'
    BY <2>1, <2>9 DEF AddRow, RemoveRow, tables
  <2> QED BY <2>1, <2>2, <2>3, <2>4, <2>6, <2>7, <2>8, <2>9, Writers
<1>2. Facts /\ AloneInv /\ [Next]_vars => [OneCurrency => OneCurrency' \/ Race]_vars
  BY <1>1
<1> QED BY <1>2, AlwaysFacts, AlwaysAlone, PTL DEF Spec, CurrencyLostOnlyToRace

\* A clean-up that is due stays due while other slots move and the members stay.
LEMMA OthersClear ==
    ASSUME Facts, NEW s \in Slots, NEW q \in Slots \ {s}, WillClear(q),
           pc'[q] = pc[q], req'[q] = req[q], pc[q] = "clear" \/ UNCHANGED members
    PROVE  WillClear(q)'
BY DEF WillClear

\* The pinned split comes to fit no more, with nobody left to clear it, only by
\* the three races, wherever and however many requests join, leave and pin.
THEOREM SplitKept == Spec => SplitLostOnlyToRace
<1> DEFINE Race == \E s \in Slots : Miscounted(s) \/ StaleSplit(s) \/ CutShort(s)
<1>1. ASSUME Facts, AloneInv, Next, SplitInHand, ~Race PROVE SplitInHand'
  <2> USE <1>1
  \* A step of s that changes neither the group nor its members.
  <2>1. ASSUME UNCHANGED <<group, members>>, NEW s \in Slots,
               \A q \in Slots \ {s} : pc'[q] = pc[q] /\ req'[q] = req[q],
               WillClear(s) => WillClear(s)'
        PROVE  SplitInHand'
    <3>1. SplitFitsMembers => SplitFitsMembers'
      BY <2>1 DEF SplitFitsMembers
    <3>2. \A q \in Slots : WillClear(q) => WillClear(q)'
      BY <2>1, OthersClear
    <3> QED BY <3>1, <3>2 DEF SplitInHand
  <2>2. ASSUME NEW s \in Slots, NEW o \in Ops, Begin(s, o) PROVE SplitInHand'
    <3>1. PICK at \in Places : Starts(s, o, at)
      BY <2>2 DEF Begin, AddBegin, RemoveBegin, UpdateBegin, DeleteBegin, EnterBegin, EditBegin,
                  EraseBegin, ScheduleBegin, UnscheduleBegin, Places, Stages
    <3>2. /\ pc[s] = "idle" /\ UNCHANGED <<group, members>>
          /\ \A q \in Slots \ {s} : pc'[q] = pc[q] /\ req'[q] = req[q]
      BY <3>1 DEF Starts, tables, Facts, SlotsOK
    <3>3. ~WillClear(s)
      BY <3>2 DEF WillClear
    <3> QED BY <2>1, <3>2, <3>3
  <2>3. ASSUME NEW s \in Slots, Ends(s), UNCHANGED <<group, members>>, ~WillClear(s)
        PROVE  SplitInHand'
    BY <2>1, <2>3, EndsIdle
  <2>4. ASSUME NEW s \in Slots, NEW at, GoesOn(s, at), UNCHANGED <<group, members>>,
               at = "clear" \/ ~WillClear(s)
        PROVE  SplitInHand'
    <3>1. pc'[s] = at /\ \A q \in Slots \ {s} : pc'[q] = pc[q] /\ req'[q] = req[q]
      BY <2>4 DEF GoesOn, Facts, SlotsOK
    <3>2. WillClear(s) => WillClear(s)'
      BY <2>4, <3>1 DEF WillClear
    <3> QED BY <2>1, <2>4, <3>1, <3>2
  \* A step of s that changes the members, whom nobody else is about to count.
  <2>5. ASSUME NEW s \in Slots, pc[s] \in {"add", "removing"}, UNCHANGED group,
               \E at \in {"added", "removed"} : GoesOn(s, at), SplitFitsMembers => SplitInHand'
        PROVE  SplitInHand'
    <3>1. /\ pc'[s] \in {"added", "removed"}
          /\ \A q \in Slots \ {s} : pc'[q] = pc[q] /\ req'[q] = req[q]
      BY <2>5 DEF GoesOn, Facts, SlotsOK
    <3>2. \A q \in Slots \ {s} : pc[q] \notin {"added", "removed"}
      BY <2>5, <3>1 DEF Miscounted
    <3>3. ASSUME NEW q \in Slots, WillClear(q) PROVE SplitInHand'
      <4>1. q # s /\ pc[q] = "clear"
        BY <2>5, <3>2, <3>3 DEF WillClear
      <4>2. WillClear(q)'
        BY <3>1, <4>1 DEF WillClear
      <4> QED BY <4>2 DEF SplitInHand
    <3> QED BY <2>5, <3>3 DEF SplitInHand
  <2>6. ASSUME NEW s \in Slots, AddRow(s) PROVE SplitInHand'
    <3>0. pc[s] = "add" /\ ~WillClear(s)
      BY <2>6 DEF AddRow, WillClear
    <3>1. CASE group = Nil
      BY <2>3, <2>6, <3>0, <3>1 DEF AddRow, tables
    <3>2. CASE group # Nil
      <4> DEFINE u == req[s].who
      <4>1. members' = members \cup {u} /\ UNCHANGED group /\ GoesOn(s, "added")
        BY <2>6, <3>2 DEF AddRow
      <4>2. pc'[s] = "added" /\ req'[s] = req[s]
        BY <4>1 DEF GoesOn, Facts, SlotsOK
      <4>3. CASE u \in members \/ group.split = Nil
        <5>1. SplitFitsMembers => SplitFitsMembers'
          BY <4>1, <4>3 DEF SplitFitsMembers
        <5> QED BY <2>5, <3>0, <4>1, <5>1 DEF SplitInHand
      <4>4. CASE u \notin members /\ group.split # Nil
        <5>1. IsFiniteSet(members)
          BY DEF Facts, TablesOK
        <5>2. Cardinality(members') = Cardinality(members) + 1
          BY <4>1, <4>4, <5>1, FS_AddElement
        <5>3. SplitFitsMembers => Cardinality(members') > 2
          BY <3>2, <4>4, <5>2 DEF SplitFitsMembers
        <5>4. SplitFitsMembers => WillClear(s)'
          BY <4>1, <4>2, <5>3 DEF WillClear
        <5> QED BY <2>5, <3>0, <4>1, <5>4 DEF SplitInHand
      <4> QED BY <4>3, <4>4
    <3> QED BY <3>1, <3>2
  <2>7. ASSUME NEW s \in Slots, RemoveRow(s) PROVE SplitInHand'
    <3>0. pc[s] = "removing" /\ ~WillClear(s) /\ UNCHANGED group
      BY <2>7 DEF RemoveRow, WillClear
    <3>1. CASE req[s].who \notin members
      BY <2>3, <2>7, <3>0, <3>1 DEF RemoveRow
    <3>2. CASE req[s].who \in members
      <4>1. members' = members \ {req[s].who} /\ GoesOn(s, "removed")
        BY <2>7, <3>2 DEF RemoveRow
      <4>2. pc'[s] = "removed"
        BY <4>1 DEF GoesOn, Facts, SlotsOK
      <4>3. IsFiniteSet(members)
        BY DEF Facts, TablesOK
      <4>4. Cardinality(members') = Cardinality(members) - 1
        BY <3>2, <4>1, <4>3, FS_RemoveElement
      <4>5. SplitFitsMembers => SplitFitsMembers' \/ Cardinality(members') < 2
        BY <3>0, <4>4 DEF SplitFitsMembers
      <4>6. SplitFitsMembers => SplitFitsMembers' \/ WillClear(s)'
        BY <4>2, <4>5 DEF WillClear
      <4> QED BY <2>5, <3>0, <4>1, <4>6 DEF SplitInHand
    <3> QED BY <3>1, <3>2
  <2>8. ASSUME NEW s \in Slots, AddCount(s) \/ RemoveCount(s) PROVE SplitInHand'
    <3>1. /\ UNCHANGED <<group, members>>
          /\ GoesOn(s, "clear") \/ (Ends(s) /\ ~WillClear(s))
      BY <2>8 DEF AddCount, RemoveCount, tables, WillClear
    <3> QED BY <2>3, <2>4, <3>1
  <2>9. ASSUME NEW s \in Slots, ClearSplit(s) PROVE SplitInHand'
    BY <2>9, ClearsOnly DEF SplitInHand, SplitFitsMembers
  <2>10. ASSUME NEW s \in Slots, RemoveCheck(s) \/ UpdateCheck(s) \/ CheckFrom(s) \/ CheckTo(s)
         PROVE  SplitInHand'
    <3>1. /\ UNCHANGED <<group, members>> /\ ~WillClear(s)
          /\ Ends(s) \/ \E at \in Places : GoesOn(s, at)
      <4>1. CASE RemoveCheck(s)
        BY <4>1 DEF RemoveCheck, tables, WillClear, Places
      <4>2. CASE UpdateCheck(s)
        BY <4>2 DEF UpdateCheck, tables, WillClear, Places, Stages, After
      <4>3. CASE CheckFrom(s) \/ CheckTo(s)
        BY <4>3 DEF CheckFrom, CheckTo, tables, WillClear, Places
      <4> QED BY <2>10, <4>1, <4>2, <4>3
    <3> QED BY <2>3, <2>4, <3>1
  <2>11. ASSUME NEW s \in Slots, UpdateWrite(s) PROVE SplitInHand'
    <3> DEFINE p == req[s].patch
    <3>1. /\ pc[s] = "write" /\ UNCHANGED members /\ pc'[s] = "idle"
          /\ \A q \in Slots \ {s} : pc'[q] = pc[q] /\ req'[q] = req[q]
      BY <2>11, EndsIdle DEF UpdateWrite
    <3>2. alone[s] => p.split \in {Nil, {}, members}
      BY <3>1 DEF AloneInv, Placed, Passes
    <3>3. p.split \in {Nil, {}, members}
      BY <3>1, <3>2 DEF StaleSplit
    <3>4. p.split \in {Nil, {}} \/ Cardinality(p.split) = 2
      BY <3>1 DEF Facts, SlotsOK, Fits
    <3>5. group' # Nil => /\ group # Nil
                          /\ group'.split = CASE p.split = Nil -> group.split
                                              [] p.split = {}  -> Nil
                                              [] OTHER         -> p.split
      BY <2>11 DEF UpdateWrite
    <3>6. CASE p.split = Nil
      <4>1. SplitFitsMembers => SplitFitsMembers'
        BY <3>1, <3>5, <3>6 DEF SplitFitsMembers
      <4>2. \A q \in Slots : WillClear(q) => WillClear(q)'
        BY <3>1 DEF WillClear
      <4> QED BY <4>1, <4>2 DEF SplitInHand
    <3>7. CASE p.split # Nil
      <4>1. SplitFitsMembers'
        BY <3>1, <3>3, <3>4, <3>5, <3>7 DEF SplitFitsMembers
      <4> QED BY <4>1 DEF SplitInHand
    <3> QED BY <3>6, <3>7
  <2>12. ASSUME NEW s \in Slots, DeleteRow(s) PROVE SplitInHand'
    BY <2>12 DEF DeleteRow, SplitInHand, SplitFitsMembers
  <2>13. ASSUME NEW s \in Slots,
                EnterRow(s) \/ ChangeRow(s) \/ ScheduleRow(s) \/ UnscheduleRow(s)
         PROVE  SplitInHand'
    <3>1. Ends(s) /\ UNCHANGED <<group, members>> /\ ~WillClear(s)
      BY <2>13 DEF EnterRow, ChangeRow, ScheduleRow, UnscheduleRow, WillClear
    <3> QED BY <2>3, <3>1
  <2>14. ASSUME NEW s \in Slots, Abort(s) PROVE SplitInHand'
    <3>1. /\ pc'[s] = "idle" /\ aborts' # aborts /\ UNCHANGED <<group, members>>
          /\ \A q \in Slots \ {s} : pc'[q] = pc[q] /\ req'[q] = req[q]
      BY <2>14 DEF Abort, Leaves, tables, Facts, SlotsOK, CountsOK
    <3>2. ~WillClear(s)
      BY <3>1 DEF CutShort
    <3> QED BY <2>1, <3>1, <3>2
  <2>15. ASSUME NEW t \in Templates, NEW e \in Expenses, Materialize(t, e) PROVE SplitInHand'
    <3>1. UNCHANGED <<group, members, pc, req>>
      BY <2>15 DEF Materialize
    <3> QED BY <3>1 DEF SplitInHand, SplitFitsMembers, WillClear
  <2>16. ASSUME NEW s \in Slots, Statement(s) PROVE SplitInHand'
    BY <2>6, <2>7, <2>8, <2>9, <2>10, <2>11, <2>12, <2>13, <2>16 DEF Statement
  <2> QED BY <2>2, <2>14, <2>15, <2>16 DEF Next
<1>2. Facts /\ AloneInv /\ [Next]_vars => [SplitInHand => SplitInHand' \/ Race]_vars
  BY <1>1
<1> QED BY <1>2, AlwaysFacts, AlwaysAlone, PTL DEF Spec, SplitLostOnlyToRace

-----------------------------------------------------------------------------
(* Money that is left behind *)

\* What u owes or is owed depends on the live entries from and to u only.
LEMMA NetFrame ==
    ASSUME NEW u \in Users,
           \A e \in Entries : \/ ledger'[e] = ledger[e]
                              \/ /\ ~(Live(e) /\ u \in Parties(ledger[e]))
                                 /\ ~(Live(e)' /\ u \in Parties(ledger'[e]))
    PROVE  Net(u)' = Net(u)
<1> DEFINE A == {e \in Entries : Live(e) /\ ledger[e].from = u}
           B == {e \in Entries : Live(e) /\ ledger[e].to = u}
           FA == [e \in A |-> ledger[e].cents]
           FB == [e \in B |-> ledger[e].cents]
<1>1. Net(u) = SumFunction(FA) - SumFunction(FB)
  BY DEF Net
<1>2. A' = A /\ B' = B
  BY DEF Live, Parties
<1>3. \A e \in A \cup B : ledger'[e] = ledger[e]
  BY DEF Parties
<1>4. FA' = FA /\ FB' = FB
  BY <1>2, <1>3
<1>5. Net(u)' = SumFunction(FA') - SumFunction(FB')
  BY DEF Net
<1> HIDE DEF FA, FB
<1> QED BY <1>1, <1>4, <1>5

\* A sum over nothing is 0: the fold of the community modules, by a name of its own.
LEMMA SumOfNothing == ASSUME NEW f, DOMAIN f = {} PROVE SumFunction(f) = 0
<1> DEFINE IsSum(it) == it = [s \in SUBSET {} |->
                                IF s = {} THEN 0
                                ELSE f[CHOOSE x \in s : TRUE] + it[s \ {CHOOSE x \in s : TRUE}]]
           Total == CHOOSE it : IsSum(it)
<1>1. SumFunction(f) = Total[{}]
  BY Zenon DEF SumFunction, SumFunctionOnSet, FoldFunctionOnSet, MapThenFoldSet
<1>2. IsSum([s \in SUBSET {} |-> 0])
  OBVIOUS
<1>3. IsSum(Total)
  BY <1>2
<1> HIDE DEF Total
<1>4. Total[{}] = 0
  BY <1>3
<1> QED BY <1>1, <1>4

\* Nobody owes anything after a step that leaves no entry live.
LEMMA NetOfNothing ==
    ASSUME NEW u \in Users, ~HasActivity'
    PROVE  Net(u)' = 0
<1> DEFINE FA == [e \in {e \in Entries : Live(e) /\ ledger[e].from = u} |-> ledger[e].cents]
           FB == [e \in {e \in Entries : Live(e) /\ ledger[e].to = u} |-> ledger[e].cents]
<1>1. Net(u)' = SumFunction(FA') - SumFunction(FB')
  BY DEF Net
<1>2. DOMAIN FA' = {} /\ DOMAIN FB' = {}
  BY DEF HasActivity
<1> HIDE DEF FA, FB
<1>3. SumFunction(FA') = 0 /\ SumFunction(FB') = 0
  BY <1>2, SumOfNothing
<1> QED BY <1>1, <1>3

\* Money is left behind with somebody who is not a member in the four ways only:
\* the balance gate and the checks of who paid and who shares keep out the rest,
\* for any members, entries, templates and failures.
THEOREM LeftBehind == Spec => BalanceLeftBehind
<1> DEFINE Way == \/ WorksForOutsider
                  \/ \E s \in Slots : LeavesOwing(s) \/ ChangesOldEntry(s) \/ StaleGate(s)
<1>1. ASSUME Facts, AloneInv, Next, OutsidersSettled, ~Way PROVE OutsidersSettled'
  <2> USE <1>1
  <2>1. ASSUME UNCHANGED ledger, NEW u \in Users PROVE Net(u)' = Net(u)
    BY <2>1, NetFrame
  <2>2. ASSUME members \subseteq members', UNCHANGED ledger PROVE OutsidersSettled'
    BY <2>1, <2>2 DEF OutsidersSettled
  <2>3. ASSUME NEW s \in Slots, AddRow(s) PROVE OutsidersSettled'
    BY <2>2, <2>3 DEF AddRow, tables
  <2>4. ASSUME NEW s \in Slots, RemoveRow(s) PROVE OutsidersSettled'
    <3>1. CASE req[s].who \notin members
      BY <2>2, <2>4, <3>1 DEF RemoveRow
    <3>2. CASE req[s].who \in members
      <4>1. /\ pc[s] = "removing" /\ pc'[s] = "removed" /\ UNCHANGED ledger
            /\ members' = members \ {req[s].who}
        BY <2>4, <3>2 DEF RemoveRow, GoesOn, Facts, SlotsOK
      <4>2. req[s].actor # req[s].who
        BY <4>1 DEF LeavesOwing
      <4>3. alone[s] => Net(req[s].who) = 0
        BY <4>1, <4>2 DEF AloneInv, Placed
      <4>4. Net(req[s].who) = 0
        BY <4>1, <4>3 DEF StaleGate
      <4> QED BY <2>1, <4>1, <4>4 DEF OutsidersSettled
    <3> QED BY <3>1, <3>2
  <2>5. ASSUME NEW s \in Slots, DeleteRow(s) PROVE OutsidersSettled'
    <3>1. ~HasActivity'
      BY <2>5, GroupsAssumption DEF DeleteRow, HasActivity, Live, Facts, TablesOK
    <3>2. ASSUME NEW u \in Users PROVE Net(u)' = 0
      BY <3>1, NetOfNothing
    <3> QED BY <3>2 DEF OutsidersSettled
  \* An entry that is written among members changes nobody else's balance.
  <2>6. ASSUME UNCHANGED members, NEW x \in Entries, \A e \in Entries \ {x} : ledger'[e] = ledger[e],
               Live(x) => Parties(ledger[x]) \subseteq members,
               Live(x)' => Parties(ledger'[x]) \subseteq members
        PROVE  OutsidersSettled'
    <3>1. ASSUME NEW u \in Users \ members PROVE Net(u)' = 0
      <4>1. Net(u)' = Net(u)
        BY <2>6, NetFrame
      <4> QED BY <4>1 DEF OutsidersSettled
    <3> QED BY <2>6, <3>1 DEF OutsidersSettled
  <2>7. ASSUME NEW s \in Slots, EnterRow(s) PROVE OutsidersSettled'
    <3> DEFINE b == req[s].bill
    <3>1. /\ pc[s] = "enter" /\ pc'[s] = "idle" /\ UNCHANGED members
          /\ req[s].op = "enter" /\ req[s] \in Ops
      BY <2>7, EndsIdle DEF EnterRow, Facts, SlotsOK, Fits
    <3>2. PICK x \in Entries : x = req[s].entry
      BY <3>1, OpFields
    <3>3. CASE group # Nil /\ ledger[x] = Nil
      <4>1. /\ ledger'[x] = Pay(b, seen[s]) /\ ~Live(x)
            /\ \A e \in Entries \ {x} : ledger'[e] = ledger[e]
        BY <2>7, <3>2, <3>3 DEF EnterRow, Live, Facts, TablesOK
      <4>2. alone[s] => Parties(b) \subseteq members \cup {Nil}
        BY <3>1 DEF AloneInv, Placed, Parties
      <4>3. Parties(b) \subseteq members \cup {Nil}
        BY <3>1, <4>2 DEF StaleGate
      <4>4. Complete(b)
        BY <3>1, GroupsAssumption
      <4>5. Parties(ledger'[x]) \subseteq members
        BY <4>1, <4>3, <4>4 DEF Parties, Pay, Complete
      <4> QED BY <2>6, <3>1, <4>1, <4>5
    <3>4. CASE ~(group # Nil /\ ledger[x] = Nil)
      BY <2>2, <2>7, <3>2, <3>4 DEF EnterRow
    <3> QED BY <3>3, <3>4
  <2>8. ASSUME NEW s \in Slots, ChangeRow(s) PROVE OutsidersSettled'
    <3> DEFINE b == req[s].bill
    <3>1. /\ pc[s] = "change" /\ pc'[s] = "idle" /\ UNCHANGED members
          /\ req[s] \in Ops /\ b \in Bill
      BY <2>8, EndsIdle, OpFields DEF ChangeRow, Facts, SlotsOK, Fits
    <3>2. PICK x \in Entries : x = req[s].entry
      BY <3>1, OpFields
    <3>3. CASE Live(x)
      <4>1. /\ ledger'[x] = IF req[s].op = "edit" THEN Amended(ledger[x], b) ELSE Gone
            /\ \A e \in Entries \ {x} : ledger'[e] = ledger[e]
        BY <2>8, <3>2, <3>3 DEF ChangeRow, Facts, TablesOK
      <4>2. Parties(ledger[x]) \subseteq members
        BY <3>1, <3>2, <3>3 DEF ChangesOldEntry
      <4>3. ASSUME req[s].op = "edit" PROVE Parties(ledger'[x]) \subseteq members
        <5>1. alone[s] => Parties(b) \subseteq members \cup {Nil}
          BY <3>1, <4>3 DEF AloneInv, Placed, Parties
        <5>2. Parties(b) \subseteq members \cup {Nil}
          BY <3>1, <5>1 DEF StaleGate
        <5>3. ledger[x] \in Payment
          BY <3>2, <3>3 DEF Live, Facts, TablesOK
        <5>4. Parties(Amended(ledger[x], b)) \subseteq Parties(ledger[x]) \cup (Parties(b) \ {Nil})
          BY <3>1, <5>3, AmendedIsPayment
        <5> QED BY <4>1, <4>2, <4>3, <5>2, <5>4
      <4>4. Live(x)' => req[s].op = "edit"
        BY <4>1 DEF Live
      <4> QED BY <2>6, <3>1, <4>1, <4>2, <4>3, <4>4
    <3>4. CASE ~Live(x)
      BY <2>2, <2>8, <3>2, <3>4 DEF ChangeRow
    <3> QED BY <3>3, <3>4
  <2>9. ASSUME NEW t \in Templates, NEW e \in Expenses, Materialize(t, e) PROVE OutsidersSettled'
    <3>1. /\ ledger'[e] = templates[t] /\ ~Live(e) /\ UNCHANGED members /\ e \in Entries
          /\ \A x \in Entries \ {e} : ledger'[x] = ledger[x]
      BY <2>9 DEF Materialize, Live, Facts, TablesOK, Entries
    <3>2. Parties(templates[t]) \subseteq members
      BY <2>9 DEF WorksForOutsider
    <3> QED BY <2>6, <3>1, <3>2
  <2>10. ASSUME NEW s \in Slots, ClearSplit(s) \/ UpdateWrite(s) PROVE OutsidersSettled'
    BY <2>2, <2>10 DEF ClearSplit, UpdateWrite
  <2>11. CASE UNCHANGED <<members, ledger>>
    BY <2>2, <2>11
  <2> QED BY <2>3, <2>4, <2>5, <2>7, <2>8, <2>9, <2>10, <2>11, Writers
<1>2. Facts /\ AloneInv /\ [Next]_vars => [OutsidersSettled => OutsidersSettled' \/ Way]_vars
  BY <1>1
<1> QED BY <1>2, AlwaysFacts, AlwaysAlone, PTL DEF Spec, BalanceLeftBehind

=============================================================================
