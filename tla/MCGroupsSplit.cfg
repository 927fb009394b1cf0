SPECIFICATION Spec
CONSTANTS
    Slots = {s1, s2}
    Users = {u1, u2, u3}
    u1 = u1
    u2 = u2
    u3 = u3
    Creator = u1
    Currencies = {"EUR", "USD"}
    EUR = "EUR"
    lunch = lunch
    payoff = payoff
    rent = rent
    Expenses = {lunch}
    Settlements = {payoff}
    Templates = {rent}
    Ops <- GroupOps
    Aborts = 0
    Nil = Nil
    Gone = Gone
SYMMETRY SlotSymmetry
INVARIANTS SplitClearedInTheEnd
CHECK_DEADLOCK FALSE
