------------------------------- MODULE Splits -------------------------------
(***************************************************************************)
(* The share arithmetic of an expense: how the service turns a split mode  *)
(* and the caller's values into cents per member (resolveSplits in         *)
(* service/expense.go), and how the repository rescales stored shares when *)
(* only the amount of an expense changes (rescaleSplits in                 *)
(* repo/expense.go).  Everything here is a constant operator.              *)
(*                                                                         *)
(* The Go code computes in int64.  Width is the number of bits of that     *)
(* integer, so that wrap-around is part of the model.  User ids are        *)
(* positive integers because rescaleSplits walks the rows ORDER BY         *)
(* user_id.                                                                *)
(***************************************************************************)
EXTENDS Integers, Sequences, FiniteSets, Functions

CONSTANT Width   \* bits of the machine integer (64 in the program)

ASSUME WidthAssumption == Width \in Nat \ {0, 1}

Modes == {"equal", "exact", "percent", "shares"}

FullPercent == 10000   \* 100 % in basis points

\* A call that returns an error, or panics on an index or a division, yields
\* no shares; resolveSplits never returns an empty result on success.
NoShares == <<>>

-----------------------------------------------------------------------------
(* Machine arithmetic. *)

Wrap(x) == ((x + 2^(Width - 1)) % 2^Width) - 2^(Width - 1)

Times(a, b) == Wrap(a * b)

\* Go's division truncates towards zero.
Quo(a, b) == LET Abs(x) == IF x < 0 THEN -x ELSE x
                 q == Abs(a) \div Abs(b)
             IN  IF (a < 0) = (b < 0) THEN q ELSE -q

\* The first number that is too large for the machine.
Limit == 2^(Width - 1)

\* A running int64 sum wraps to the same value as wrapping the exact sum.
Total(shares) == Wrap(SumFunction(shares))

-----------------------------------------------------------------------------
(* resolveSplits *)

\* Mutants of Distribute: the leftover cents are lost, or go to the last members.
DistributeDropped(shares, rest) == shares

DistributeLate(shares, rest) ==
    LET n == Len(shares)
    IN  IF rest > n THEN NoShares
        ELSE [i \in 1..n |-> shares[i] + IF i > n - rest THEN 1 ELSE 0]

\* for i := 0; i < rest; i++ { out[i]++ }: a rest longer than the slice
\* panics, a negative one leaves the shares alone.
Distribute(shares, rest) ==
    IF rest > Len(shares) THEN NoShares
    ELSE [i \in DOMAIN shares |-> shares[i] + IF i <= rest THEN 1 ELSE 0]

\* Each weight's floored part of the amount, then one cent each to the first
\* members until the amount is used up.
Weighted(amount, weights, whole) ==
    IF whole = 0 THEN NoShares
    ELSE LET shares == [i \in DOMAIN weights |-> Quo(Times(amount, weights[i]), whole)]
         IN  Distribute(shares, Wrap(amount - Total(shares)))

\* What each mode demands of the caller's values.
ValuesOK(mode, amount, values) ==
    \/ mode = "equal"
    \/ /\ mode = "exact"
       /\ \A i \in DOMAIN values : values[i] >= 0
       /\ Total(values) = amount
    \/ /\ mode = "percent"
       /\ \A i \in DOMAIN values : values[i] >= 0
       /\ Total(values) = FullPercent
    \/ /\ mode = "shares"
       /\ \A i \in DOMAIN values : values[i] > 0

\* in is the list of splits of the request, each [user, value].
ResolveSplits(mode, amount, in) ==
    LET users  == [i \in DOMAIN in |-> in[i].user]
        values == [i \in DOMAIN in |-> in[i].value]
        ones   == [i \in DOMAIN in |-> 1]
    IN  IF in = <<>> \/ ~IsInjective(users) \/ ~ValuesOK(mode, amount, values)
        THEN NoShares
        ELSE CASE mode = "equal"   -> Weighted(amount, ones, Len(in))
               [] mode = "exact"   -> values
               [] mode = "percent" -> Weighted(amount, values, FullPercent)
               [] mode = "shares"  -> Weighted(amount, values, Total(values))

\* The rows written for a resolved request: cents by user.
SplitRows(in, shares) ==
    [u \in {in[i].user : i \in DOMAIN in} |->
        shares[CHOOSE i \in DOMAIN in : in[i].user = u]]

\* What a request's numbers must be for none of its products and sums to wrap.
\* The code does not demand it: nothing bounds a weight of the shares mode.
Fits(amount, in) ==
    /\ amount < Limit
    /\ \A i \in DOMAIN in : amount * in[i].value < Limit
    /\ SumFunction([i \in DOMAIN in |-> in[i].value]) < Limit

\* What the split rows of an expense have to be: the CHECK (share_cents >= 0) of
\* the schema, and the invariant resolveSplits is documented to preserve.
SumsTo(rows, amount) ==
    /\ SumFunction(rows) = amount
    /\ \A u \in DOMAIN rows : rows[u] \in Nat

-----------------------------------------------------------------------------
(* rescaleSplits *)

\* Zero-based position of u when rows are read ORDER BY user_id.
Rank(users, u) == Cardinality({v \in users : v < u})

\* Mutant of RescaleSplits: the first row takes every leftover cent.
RescaleFirstTakesAll(rows, oldTotal, newTotal) ==
    LET floored == [u \in DOMAIN rows |-> Quo(Times(rows[u], newTotal), oldTotal)]
        left    == newTotal - Total(floored)
    IN  [u \in DOMAIN rows |-> floored[u] + IF Rank(DOMAIN rows, u) = 0 THEN left ELSE 0]

\* Proportional shares of the new total; leftover cents go round-robin to the
\* rows from the first one.  A negative leftover is not corrected.
RescaleSplits(rows, oldTotal, newTotal) ==
    IF oldTotal = 0 \/ DOMAIN rows = {} THEN rows
    ELSE LET floored == [u \in DOMAIN rows |-> Quo(Times(rows[u], newTotal), oldTotal)]
             left    == Wrap(newTotal - Total(floored))
             n       == Cardinality(DOMAIN rows)
             Extra(u) == IF left <= 0 THEN 0
                         ELSE left \div n + IF Rank(DOMAIN rows, u) < left % n THEN 1 ELSE 0
         IN  [u \in DOMAIN rows |-> floored[u] + Extra(u)]

=============================================================================
