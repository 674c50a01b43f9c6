---------------------------- MODULE BillingCycle ----------------------------
(***************************************************************************)
(* The dates of one subscription: what computeCycleEndDate makes of the    *)
(* calendar, and how the renewal job moves the end of a subscription       *)
(* through the years.  Billing has the steps of a run and what can come    *)
(* between them; here a run is one step, and a period has its real length. *)
(*                                                                         *)
(* The clock advances by whole days: an instant is the time of day at      *)
(* which the subscription was created, and the server keeps UTC.           *)
(***************************************************************************)
EXTENDS Integers

CONSTANTS
  CreationDates,  \* days on which the subscription may be created
  Span            \* bound: months for which it is followed

ASSUME SpanAssumption == Span \in Nat

VARIABLES
  created,   \* start_date
  cycle,     \* billing_cycle
  autoRenew, \* auto_renew
  status,    \* status
  endDate,   \* end_date; renewal_date is always assigned the same value
  paid,      \* the renewals that were charged
  today      \* new Date()

subscription == <<created, cycle, autoRenew, status, endDate, paid>>
vars == <<subscription, today>>

-----------------------------------------------------------------------------
(* Date of JavaScript.  A month is counted from January of the year 0.     *)

IsLeap(year) == year % 4 = 0 /\ (year % 100 # 0 \/ year % 400 = 0)

DaysIn(month) ==
  LET ofYear == month % 12
  IN IF ofYear = 1
       THEN IF IsLeap(month \div 12) THEN 29 ELSE 28
       ELSE IF ofYear \in {3, 5, 8, 10} THEN 30 ELSE 31

Date == {date \in [month : Nat, day : 1 .. 31] : date.day <= DaysIn(date.month)}

ASSUME CreationAssumption == CreationDates \subseteq Date

\* A day past the end of its month is that many days into the next one.
Normalise(month, day) ==
  IF day <= DaysIn(month)
    THEN [month |-> month, day |-> day]
    ELSE [month |-> month + 1, day |-> day - DaysIn(month)]

Tomorrow(date) == Normalise(date.month, date.day + 1)

NotAfter(a, b) ==
  a.month < b.month \/ (a.month = b.month /\ a.day <= b.day)

-----------------------------------------------------------------------------
(* billing.policy.ts                                                       *)

\* setMonth(getMonth() + 1), or setFullYear(getFullYear() + 1).
CycleMonths(c) == IF c = "monthly" THEN 1 ELSE 12

\* Mutant of ComputeCycleEndDate: a day the month does not have becomes its
\* last one, from which the next period starts.
ComputeCycleEndDateClamped(from, c) ==
  LET month == from.month + CycleMonths(c)
  IN [month |-> month,
      day |-> IF from.day <= DaysIn(month) THEN from.day ELSE DaysIn(month)]

ComputeCycleEndDate(from, c) ==
  Normalise(from.month + CycleMonths(c), from.day)

-----------------------------------------------------------------------------

CycleTypeOK ==
  /\ created \in Date
  /\ cycle \in {"monthly", "yearly"}
  /\ autoRenew \in BOOLEAN
  /\ status \in {"active", "inactive", "cancelled"}
  /\ endDate \in Date
  /\ paid \in Nat
  /\ today \in Date

\* CreateSubscriptionUseCase, on the first day.
CycleInit ==
  /\ created \in CreationDates
  /\ cycle \in {"monthly", "yearly"}
  /\ autoRenew \in BOOLEAN
  /\ status = "active"
  /\ endDate = ComputeCycleEndDate(created, cycle)
  /\ paid = 0
  /\ today = created

NextDay ==
  /\ today.month < created.month + Span
  /\ today' = Tomorrow(today)
  /\ UNCHANGED subscription

\* Mutant of IsDue: what ends on another day than today is not found.
IsDueToday == status = "active" /\ autoRenew /\ endDate = today

\* Mutant of IsDue: whatever renews itself is due.
IsDueAlways == status = "active" /\ autoRenew

\* findDueForRenewal: however long ago the period has ended.
IsDue == status = "active" /\ autoRenew /\ NotAfter(endDate, today)

\* Mutant of RenewAccepted: the new period begins when the job runs.
RenewAcceptedFromToday ==
  /\ IsDue
  /\ endDate' = ComputeCycleEndDate(today, cycle)
  /\ paid' = paid + 1
  /\ UNCHANGED <<created, cycle, autoRenew, status, today>>

\* The charge is accepted: one period more, from the end that is stored.
RenewAccepted ==
  /\ IsDue
  /\ endDate' = ComputeCycleEndDate(endDate, cycle)
  /\ paid' = paid + 1
  /\ UNCHANGED <<created, cycle, autoRenew, status, today>>

\* The charge is declined: there is no further attempt.
RenewDeclined ==
  /\ IsDue
  /\ status' = "inactive"
  /\ autoRenew' = FALSE
  /\ UNCHANGED <<created, cycle, endDate, paid, today>>

\* A run that finds nothing due.
RunInVain == ~ IsDue /\ UNCHANGED vars

\* A run of the job; it is not known when, or how often, it is called.
RunRenewalJob == RenewAccepted \/ RenewDeclined \/ RunInVain

\* The user cancels; the code does not look at the status it replaces.
Cancel ==
  /\ status' = "cancelled"
  /\ autoRenew' = FALSE
  /\ UNCHANGED <<created, cycle, endDate, paid, today>>

CycleNext == NextDay \/ RunRenewalJob \/ Cancel

CycleSpec == CycleInit /\ [][CycleNext]_vars

\* The scheduler calls the job again and again.
FairCycleSpec == CycleSpec /\ WF_vars(RunRenewalJob)

-----------------------------------------------------------------------------
(* Properties                                                              *)

\* The number of a day, by the rules of the Gregorian calendar.
DaysBeforeYear(year) ==
  365 * year + ((year + 3) \div 4) - ((year + 99) \div 100)
             + ((year + 399) \div 400)

DaysBeforeMonth ==
  <<0, 31, 59, 90, 120, 151, 181, 212, 243, 273, 304, 334>>

MonthStart(month) ==
  DaysBeforeYear(month \div 12) + DaysBeforeMonth[(month % 12) + 1]
    + IF month % 12 > 1 /\ IsLeap(month \div 12) THEN 1 ELSE 0

DayNumber(date) == MonthStart(date.month) + date.day

ShortestCycle == IF cycle = "monthly" THEN 28 ELSE 365
LongestCycle == IF cycle = "monthly" THEN 31 ELSE 366

\* No time is lost between periods and none is given away: n renewals, late
\* ones included, leave n + 1 whole cycles between creation and end, whatever
\* setMonth and setFullYear do at the end of a month.
TimeBought ==
  LET bought == DayNumber(endDate) - DayNumber(created)
  IN /\ ShortestCycle * (paid + 1) <= bought
     /\ bought <= LongestCycle * (paid + 1)

\* The billing day stays that of the creation.  Only a day that some month
\* does not have moves, once, to the first days of the month after, and from
\* then on every end lies in that later month.
KeepsBillingDay ==
  LET late == endDate.month - created.month - CycleMonths(cycle) * (paid + 1)
  IN \/ late = 0 /\ endDate.day = created.day
     \/ late = 1 /\ created.day > 28 /\ endDate.day \in 1 .. 3

\* A run that is late, and the runs after it, charge for the periods that
\* have begun and for no other: nobody has paid for more than the rest of
\* one cycle.
PaidAheadAtMostOneCycle ==
  DayNumber(endDate) - DayNumber(today) <= LongestCycle

Overdue == status = "active" /\ autoRenew /\ NotAfter(endDate, today)

\* A run may be so late that it extends a subscription to a day in the past;
\* the runs that follow catch up, or end it.
OverdueIsSettled == Overdue ~> ~ Overdue

-----------------------------------------------------------------------------
(* The inductive invariant                                                 *)

CycleInv ==
  /\ CycleTypeOK
  /\ KeepsBillingDay
  /\ TimeBought
  /\ PaidAheadAtMostOneCycle

=============================================================================
