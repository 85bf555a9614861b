------------------------------ MODULE Calendar ------------------------------
(***************************************************************************)
(* Billing months and what is derived from them: the month an estimate is  *)
(* anchored on, the months it sums up and those a clean-up keeps.          *)
(***************************************************************************)
EXTENDS Integers

MonthsPerYear   == 12
RollingMonths   == 12
RetentionMonths == 18

Months == [year : Nat, month : 1..MonthsPerYear]

Ordinal(m) == m.year * MonthsPerYear + m.month

\* The latest month that is over.
SameMonth(today) == today
LastMonth(today) ==
  IF today.month = 1 THEN [year |-> today.year - 1, month |-> MonthsPerYear]
                     ELSE [today EXCEPT !.month = @ - 1]

\* Here a year's months are counted from 0, so that divmod takes them apart.
UnshiftedMonths(anchor) ==
  LET last == anchor.year * MonthsPerYear + anchor.month
  IN {[year |-> o \div MonthsPerYear, month |-> 1 + (o % MonthsPerYear)] :
        o \in (last - RollingMonths + 1)..last}
TrailingMonths(anchor) ==
  LET last == anchor.year * MonthsPerYear + (anchor.month - 1)
  IN {[year |-> o \div MonthsPerYear, month |-> 1 + (o % MonthsPerYear)] :
        o \in (last - RollingMonths + 1)..last}

\* The ordinal of the first month kept.
YearCutoff(today) == Ordinal(today) - RollingMonths + 1
Cutoff(today) == Ordinal(today) - RetentionMonths + 1
=============================================================================
