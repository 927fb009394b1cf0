------------------------------- MODULE Ledger -------------------------------
(***************************************************************************)
(* A bench for the arithmetic of a ledger.  A behaviour is one exercise: an *)
(* expense that is created from any small request and has its amount       *)
(* edited any number of times; members who settle what they owe, transfer  *)
(* by transfer, as the balances page tells them, while some of them leave; *)
(* or a recurring template that comes due again and again.  Results are    *)
(* checked against what they have to satisfy, not against the code's own   *)
(* loops.                                                                  *)
(***************************************************************************)
EXTENDS Splits, Balances, Cadence

CONSTANTS Size,       \* how many members the group has
          People,     \* the members that expenses are shared by
          Totals,     \* amounts in cents the requests carry
          Values,     \* split values for exact and shares modes
          Bps,        \* split values for percent mode
          Debts,      \* what each member has paid to the first, less received
          Years       \* the years a template runs in

\* Everybody the expenses and settlements name.  The first owns the group.
Household == 1..Size

ASSUME LedgerAssumption ==
    /\ Size \in Nat \ {0} /\ People \subseteq Household
    /\ Totals \subseteq Nat \ {0} /\ Values \subseteq Nat /\ Bps \subseteq Nat
    /\ Debts \subseteq Int /\ Years \subseteq Nat

VARIABLES asked,        \* the request of the expense: its mode and entries
          bill,         \* the expense: its cents, 0 before it exists, and split rows
          settlements,
          household,    \* who of them are still members
          template,     \* the cadence of the template and when it is next due
          drifts        \* history: times its day of the month has changed

ledgerVars == <<asked, bill, settlements, household, template, drifts>>

-----------------------------------------------------------------------------

ValuesFor(m) == CASE m = "equal" -> {0} [] m = "percent" -> Bps [] OTHER -> Values

Asked(m) == [mode : {m}, in : UNION {[1..n -> [user : People, value : ValuesFor(m)]] :
                                        n \in 1..Cardinality(People)}]

NoRequest == [mode |-> "equal", in |-> <<>>]

\* The history of a group: everybody has settled with the first member.
Settled(paid) ==
    LET Of(u) == IF paid[u] < 0 THEN [from |-> 1, to |-> u, cents |-> -paid[u]]
                 ELSE [from |-> u, to |-> 1, cents |-> paid[u]]
    IN  [i \in 1..(Size - 1) |-> Of(i + 1)]

NoDate == [year |-> 0, month |-> 1, day |-> 1]

\* Dates the calendar has.
RealDates == {d \in Date : d.day <= DaysIn(d.year, d.month)}

\* Those of the first two of the years.
Starts == {d \in [year : {y \in Years : \A z \in Years : y <= z + 1}, month : 1..12, day : 1..31] :
              d \in RealDates}

LedgerInit ==
    /\ bill = [cents |-> 0, rows |-> NoShares] /\ drifts = 0 /\ household = Household
    /\ \/ /\ asked \in UNION {Asked(m) : m \in Modes}
          /\ settlements = <<>> /\ template = [cadence |-> "monthly", due |-> NoDate]
       \/ /\ \E paid \in [2..Size -> Debts] : settlements = Settled(paid)
          /\ asked = NoRequest /\ template = [cadence |-> "monthly", due |-> NoDate]
       \/ /\ template \in [cadence : Cadences, due : Starts]
          /\ asked = NoRequest /\ settlements = <<>>

\* The request is resolved; one that yields no shares creates nothing.
RecordExpense(cents) ==
    /\ bill.cents = 0
    /\ LET shares == ResolveSplits(asked.mode, cents, asked.in)
       IN  /\ shares # NoShares
           /\ bill' = [cents |-> cents, rows |-> SplitRows(asked.in, shares)]
    /\ UNCHANGED <<asked, settlements, household, template, drifts>>

\* An amount-only edit.
EditAmount(cents) ==
    /\ bill.cents # 0 /\ cents # bill.cents
    /\ bill' = [cents |-> cents, rows |-> RescaleSplits(bill.rows, bill.cents, cents)]
    /\ UNCHANGED <<asked, settlements, household, template, drifts>>

\* The expense of the exercise, whose payer is the first of the request.
Charges == IF bill.cents = 0 THEN <<>>
           ELSE <<[payer |-> asked.in[1].user, cents |-> bill.cents, splits |-> bill.rows]>>

\* What the balances page shows, and what it would show had nobody left.
Nets == NetBalances(household, Charges, settlements)

AllNets == NetBalances(Household, Charges, settlements)

\* A transfer of the page is made, in no particular order.
SettleUp ==
    /\ bill.cents = 0
    /\ \E i \in DOMAIN Simplify(Nets) :
           settlements' = Append(settlements, Simplify(Nets)[i])
    /\ UNCHANGED <<asked, bill, household, template, drifts>>

\* A member leaves on their own accord, whatever they owe or are owed; only the
\* owner cannot.  What the expenses and settlements say of them stays.
Leave(u) ==
    /\ settlements # <<>>
    /\ u # 1 /\ household' = household \ {u}
    /\ UNCHANGED <<asked, bill, settlements, template, drifts>>

\* The template is due, and is due again after its cadence.
InMonths == template.cadence \in {"monthly", "yearly"}

ComesDue ==
    /\ template.due # NoDate
    /\ template' = [template EXCEPT !.due = AdvanceCadence(@, template.cadence)]
    /\ template'.due.year \in Years
    /\ drifts' = IF InMonths /\ template'.due.day # template.due.day THEN drifts + 1 ELSE drifts
    /\ UNCHANGED <<asked, bill, settlements, household>>

LedgerNext ==
    \/ \E cents \in Totals : RecordExpense(cents) \/ EditAmount(cents)
    \/ SettleUp
    \/ \E u \in household : Leave(u)
    \/ ComesDue

LedgerSpec == LedgerInit /\ [][LedgerNext]_ledgerVars

-----------------------------------------------------------------------------

\* No product and no sum of the requests' numbers overflows.  The code does not
\* see to it: see Fits.
LedgerFits ==
    /\ \A m \in Modes : \A q \in Asked(m), cents \in Totals : Fits(cents, q.in)
    /\ \A old, new \in Totals : old * new < Limit

\* The shares of an expense sum to its amount and none is negative, whatever
\* the mode and whatever edits followed: the invariant resolveSplits is
\* documented to preserve and the CHECK (share_cents >= 0) of the schema.
SharesSumToAmount == bill.cents # 0 => SumsTo(bill.rows, bill.cents)

\* share is part/whole of total, rounded down, or that plus one cent: an exact
\* share can still receive a leftover cent.
Floored(total, part, whole) == (total * part) \div whole
Fair(share, total, part, whole) == share - Floored(total, part, whole) \in {0, 1}

\* The part of the whole that entry i of a request stands for.
Part(i) == IF asked.mode = "equal" THEN 1 ELSE asked.in[i].value

Whole == CASE asked.mode = "equal"   -> Len(asked.in)
           [] asked.mode = "percent" -> FullPercent
           [] OTHER -> SumFunction([i \in DOMAIN asked.in |-> asked.in[i].value])

\* A created expense charges each member the floor of their exact share, and
\* the leftover cents go one each to a prefix of the request's entries: the
\* "early splits" of the comment on resolveSplits.
CreatedFairly ==
    [][bill.cents = 0 /\ bill'.cents # 0 =>
         LET entries == DOMAIN asked.in
             share == [i \in entries |-> bill'.rows[asked.in[i].user]]
             lower == [i \in entries |-> Floored(bill'.cents, Part(i), Whole)]
         IN  /\ \A i \in entries : Fair(share[i], bill'.cents, Part(i), Whole)
             /\ \A i, j \in entries :
                   i < j /\ share[j] > lower[j] => share[i] > lower[i]]_ledgerVars

\* An amount-only edit keeps the members and moves each share in proportion,
\* to within a cent.
RescaledFairly ==
    [][bill.cents # 0 =>
         /\ DOMAIN bill'.rows = DOMAIN bill.rows
         /\ \A u \in DOMAIN bill.rows :
               Fair(bill'.rows[u], bill'.cents, bill.rows[u], bill.cents)]_ledgerVars

\* A balance that has come closer to zero, and not past it.
Between(new, old) == (0 <= new /\ new <= old) \/ (old <= new /\ new <= 0)

\* What those who have left are owed, less what they owe.
Abandoned == SumFunctionOnSet(AllNets, Household \ household)

\* The transfers the balances page shows settle everybody, up to what those who
\* have left took with them: if they owed, some members remain owed just that
\* and nobody owes any more, and the other way around.  They take fewer payments
\* than there are members with a balance, and ask nobody both to pay and to
\* receive; and one of them alone, whichever it is, moves nobody's balance away
\* from zero or past it (service/balance.go:47-102, over the rows of
\* repo/balance.go:53).
SettlesAll ==
    LET shown       == Simplify(Nets)
        unsettled   == {u \in household : Nets[u] # 0}
        After(paid) == NetBalances(household, Charges, settlements \o paid)
    IN  /\ SumFunction(After(shown)) = -Abandoned
        /\ Abandoned <= 0 => \A u \in household : After(shown)[u] >= 0
        /\ Abandoned >= 0 => \A u \in household : After(shown)[u] <= 0
        /\ shown # <<>> => Len(shown) < Cardinality(unsettled)
        /\ \A i, j \in DOMAIN shown : shown[i].cents > 0 /\ shown[i].from # shown[j].to
        /\ \A i \in DOMAIN shown : \A u \in household : Between(After(<<shown[i]>>)[u], Nets[u])

\* Days from one date to a later one: those of the months that begin with the
\* one's and end before the other's, and the difference of their days.
MonthNumber(d) == 12 * d.year + d.month

Elapsed(from, to) ==
    LET months == MonthNumber(from)..(MonthNumber(to) - 1)
    IN  SumFunction([n \in months |-> DaysIn((n - 1) \div 12, ((n - 1) % 12) + 1)]) + to.day - from.day

\* Templates in days keep their distance.  One in months or years keeps its day
\* of the month, except that once in its life it may find no such day: it then
\* passes over that month, to one of the first three days of the next, and
\* keeps that (service/recurring.go:195-208).
KeepsDay ==
    [][template # template' =>
        LET due == template.due
            next == template'.due
            gap == MonthNumber(next) - MonthNumber(due)
            period == IF template.cadence = "monthly" THEN 1 ELSE 12
        IN  IF InMonths
            THEN \/ gap = period /\ next.day = due.day
                 \/ gap = period + 1 /\ drifts = 0 /\ due.day > 28 /\ next.day <= 3
            ELSE Elapsed(due, next) = CASE template.cadence = "daily"  -> 1
                                        [] template.cadence = "weekly" -> 7
                                        [] OTHER                       -> 14]_ledgerVars

=============================================================================
