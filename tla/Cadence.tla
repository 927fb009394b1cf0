------------------------------- MODULE Cadence -------------------------------
(***************************************************************************)
(* When a recurring template comes due next (advanceCadence in             *)
(* service/recurring.go).  Dates only: the time of day stays what it is.   *)
(* Everything here is a constant operator.                                 *)
(***************************************************************************)
EXTENDS Integers

Cadences == {"daily", "weekly", "biweekly", "monthly", "yearly"}

Date == [year : Nat, month : 1..12, day : 1..31]

IsLeap(y) == y % 4 = 0 /\ (y % 100 # 0 \/ y % 400 = 0)

DaysIn(y, m) == CASE m = 2              -> IF IsLeap(y) THEN 29 ELSE 28
                  [] m \in {4, 6, 9, 11} -> 30
                  [] OTHER              -> 31

\* time.Date: months past December are of the next year, and days past the end
\* of a month, which are never more than the next one has, of the next month.
Normal(y, m, d) ==
    LET year(n)  == y + (n - 1) \div 12
        month(n) == ((n - 1) % 12) + 1
        length   == DaysIn(year(m), month(m))
    IN  IF d <= length
        THEN [year |-> year(m), month |-> month(m), day |-> d]
        ELSE [year |-> year(m + 1), month |-> month(m + 1), day |-> d - length]

\* time.Time.AddDate.
AddDate(from, years, months, days) ==
    Normal(from.year + years, from.month + months, from.day + days)

\* Mutant of AdvanceCadence: a month is thirty days.
AdvanceCadenceDays(from, cadence) ==
    CASE cadence = "daily"    -> AddDate(from, 0, 0, 1)
      [] cadence = "weekly"   -> AddDate(from, 0, 0, 7)
      [] cadence = "biweekly" -> AddDate(from, 0, 0, 14)
      [] cadence = "monthly"  -> AddDate(from, 0, 0, 30)
      [] cadence = "yearly"   -> AddDate(from, 1, 0, 0)

AdvanceCadence(from, cadence) ==
    CASE cadence = "daily"    -> AddDate(from, 0, 0, 1)
      [] cadence = "weekly"   -> AddDate(from, 0, 0, 7)
      [] cadence = "biweekly" -> AddDate(from, 0, 0, 14)
      [] cadence = "monthly"  -> AddDate(from, 0, 1, 0)
      [] cadence = "yearly"   -> AddDate(from, 1, 0, 0)

=============================================================================
