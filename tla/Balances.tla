------------------------------ MODULE Balances ------------------------------
(***************************************************************************)
(* Who owes whom: the net balance of each current member, from the         *)
(* expenses and settlements of a group (NetBalances in repo/balance.go),   *)
(* and the transfers that would settle it (Simplify in service/balance.go).*)
(* Everything here is a constant operator.                                 *)
(*                                                                         *)
(* User ids are integers, since ties are broken by their order.            *)
(***************************************************************************)
EXTENDS Integers, Sequences, FiniteSets, Functions

-----------------------------------------------------------------------------
(* NetBalances *)

\* The cents of some of the rows, 0 of none.
SumOf(list, some) == SumFunction([i \in some |-> list[i].cents])

\* expenses: [payer, cents, splits]; settlements: [from, to, cents]; live ones.
Owed(expenses, u) ==
    SumFunction([i \in DOMAIN expenses |->
        IF u \in DOMAIN expenses[i].splits THEN expenses[i].splits[u] ELSE 0])

\* Paid and paid out, less owed and received: a row for each of the members, who
\* are those of group_members.  Whoever has left has no row, even if the
\* expenses and settlements still name them.
NetBalances(members, expenses, settlements) ==
    [u \in members |-> SumOf(expenses, {i \in DOMAIN expenses : expenses[i].payer = u})
                       - Owed(expenses, u)
                       + SumOf(settlements, {i \in DOMAIN settlements : settlements[i].from = u})
                       - SumOf(settlements, {i \in DOMAIN settlements : settlements[i].to = u})]

-----------------------------------------------------------------------------
(* Simplify *)

\* Lists of members with what each of them is owed, or owes.
Lists == Seq([id : Int, cents : Nat])

\* Largest first, equal ones by their id.
Before(a, b) == a.cents > b.cents \/ (a.cents = b.cents /\ a.id < b.id)

\* As many entries come before one as it says.
Place(entries, e) == Cardinality({x \in entries : Before(x, e)})

Sorted(entries) ==
    [i \in 1..Cardinality(entries) |-> CHOOSE e \in entries : Place(entries, e) = i - 1]

Creditors(nets) == Sorted({[id |-> u, cents |-> nets[u]] : u \in {v \in DOMAIN nets : nets[v] > 0}})

Debtors(nets) == Sorted({[id |-> u, cents |-> -nets[u]] : u \in {v \in DOMAIN nets : nets[v] < 0}})

\* Mutant of Consume: whoever paid or received once is done.
ConsumeAll(list, cents) == Tail(list)

\* What is left of a list once cents of its first entry are settled.
Consume(list, cents) ==
    IF list[1].cents = cents THEN Tail(list) ELSE [list EXCEPT ![1].cents = @ - cents]

\* The first creditor and the first debtor settle the smaller of their amounts.
FirstTransfer(creditors, debtors) ==
    LET c == creditors[1].cents
        d == debtors[1].cents
    IN  [from |-> debtors[1].id, to |-> creditors[1].id, cents |-> IF d < c THEN d ELSE c]

\* Whoever is then settled makes room for the next.
Pair[lists \in Lists \X Lists] ==
    IF lists[1] = <<>> \/ lists[2] = <<>> THEN <<>>
    ELSE LET t == FirstTransfer(lists[1], lists[2])
         IN  <<t>> \o Pair[<<Consume(lists[1], t.cents), Consume(lists[2], t.cents)>>]

Simplify(nets) == Pair[<<Creditors(nets), Debtors(nets)>>]

=============================================================================
