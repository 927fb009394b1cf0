SPECIFICATION Spec
CONSTANTS
    Slots = {s1, s2}
    Users = {u1, u2, u3}
    u1 = u1
    u2 = u2
    u3 = u3
    Creator = u1
    Currencies = {"EUR", "USD"}
    EUR = "EUR"
    lunch = lunch
    payoff = payoff
    rent = rent
    Expenses = {lunch}
    Settlements = {payoff}
    Templates = {rent}
    Ops <- AllOps
    Aborts = 1
    Nil = Nil
    Gone = Gone
SYMMETRY SlotSymmetry
INVARIANTS GoneIsEmpty
PROPERTIES OwnerLostOnlyToRace SplitLostOnlyToRace CurrencyLostOnlyToRace BalanceLeftBehind
CHECK_DEADLOCK FALSE
