------------------------------ MODULE MCGroups ------------------------------
(***************************************************************************)
(* Three users, two request slots, and the requests worth trying.          *)
(***************************************************************************)
EXTENDS Groups, TLC

CONSTANTS u1, u2, u3, lunch, payoff, rent

NoPatch == [currency |-> Nil, split |-> Nil, owner |-> Nil]

NoBill == [from |-> Nil, to |-> Nil, cents |-> Nil, currency |-> Nil]

Ask(op, actor) == [op |-> op, actor |-> actor, who |-> actor, patch |-> NoPatch,
                   entry |-> lunch, template |-> rent, bill |-> NoBill]

Owes(from, to) == [NoBill EXCEPT !.from = from, !.to = to, !.cents = 1]

Membership ==
    {[Ask("add", u1) EXCEPT !.who = u] : u \in {u2, u3}}
    \cup {[Ask("remove", u1) EXCEPT !.who = u3], Ask("remove", u2)}

Settings ==
    {[Ask("update", u1) EXCEPT !.patch = p] :
        p \in {[NoPatch EXCEPT !.split = {u1, u2}], [NoPatch EXCEPT !.owner = u2]}}
    \cup {[Ask("update", u2) EXCEPT !.patch = [NoPatch EXCEPT !.split = {}, !.currency = "USD"]]}

Money ==
    {[Ask("enter", u1) EXCEPT !.bill = Owes(u1, u2)],
     [Ask("enter", u1) EXCEPT !.bill = [Owes(u1, u2) EXCEPT !.currency = "USD"]],
     [Ask("enter", u2) EXCEPT !.entry = payoff, !.bill = Owes(u2, u1)],
     [Ask("edit", u1) EXCEPT !.bill = [NoBill EXCEPT !.to = u3, !.cents = 2]],
     [Ask("erase", u2) EXCEPT !.entry = payoff]}

Recurring ==
    {[Ask("schedule", u1) EXCEPT !.bill = [Owes(u1, u2) EXCEPT !.currency = "USD"]],
     Ask("unschedule", u1)}

Endings == {Ask("delete", u1), Ask("admin_delete", u1)}

AllOps == Membership \cup Settings \cup Money \cup Recurring \cup Endings

GroupOps == Membership \cup Settings

SlotSymmetry == Permutations(Slots)
=============================================================================
