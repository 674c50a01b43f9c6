------------------------ MODULE BillingCycle_proofs ------------------------
(***************************************************************************)
(* CycleInv is an inductive invariant of BillingCycle: for every creation  *)
(* date, cycle and number of renewals.                                     *)
(***************************************************************************)
EXTENDS BillingCycle, TLAPS

-----------------------------------------------------------------------------
(* The calendar                                                            *)

\* Every month has 28 to 31 days.
LEMMA DaysInRange == \A m \in Nat : DaysIn(m) \in 28 .. 31
BY DEF DaysIn

\* Month and year of a month's successor, and of the month a year later.
LEMMA NextMonth ==
  ASSUME NEW m \in Nat
  PROVE  /\ m % 12 \in 0 .. 11
         /\ m \div 12 \in Nat
         /\ m % 12 < 11 => /\ (m + 1) % 12 = (m % 12) + 1
                           /\ (m + 1) \div 12 = m \div 12
         /\ m % 12 = 11 => /\ (m + 1) % 12 = 0
                           /\ (m + 1) \div 12 = m \div 12 + 1
         /\ (m + 12) % 12 = m % 12
         /\ (m + 12) \div 12 = m \div 12 + 1
<1>1. m % 12 \in 0 .. 11 /\ m \div 12 \in Nat
  OBVIOUS
<1>2. m % 12 < 11 => (m + 1) % 12 = (m % 12) + 1
  OBVIOUS
<1>3. m % 12 < 11 => (m + 1) \div 12 = m \div 12
  OBVIOUS
<1>4. m % 12 = 11 => (m + 1) % 12 = 0
  OBVIOUS
<1>5. m % 12 = 11 => (m + 1) \div 12 = m \div 12 + 1
  OBVIOUS
<1>6. (m + 12) % 12 = m % 12
  OBVIOUS
<1>7. (m + 12) \div 12 = m \div 12 + 1
  OBVIOUS
<1>8. QED
  BY <1>1, <1>2, <1>3, <1>4, <1>5, <1>6, <1>7

\* A leap year has one day more.
LEMMA YearLength ==
  ASSUME NEW y \in Nat
  PROVE  /\ DaysBeforeYear(y) \in Int
         /\ DaysBeforeYear(y + 1) =
              DaysBeforeYear(y) + (IF IsLeap(y) THEN 366 ELSE 365)
BY DEF DaysBeforeYear, IsLeap

\* A year that is later begins no earlier.
LEMMA YearsMonotone ==
  ASSUME NEW y \in Nat, NEW z \in Nat, y <= z
  PROVE  DaysBeforeYear(y) <= DaysBeforeYear(z)
BY DEF DaysBeforeYear

LEMMA MonthTable ==
  /\ DaysBeforeMonth[1] = 0 /\ DaysBeforeMonth[2] = 31
  /\ DaysBeforeMonth[3] = 59 /\ DaysBeforeMonth[4] = 90
  /\ DaysBeforeMonth[5] = 120 /\ DaysBeforeMonth[6] = 151
  /\ DaysBeforeMonth[7] = 181 /\ DaysBeforeMonth[8] = 212
  /\ DaysBeforeMonth[9] = 243 /\ DaysBeforeMonth[10] = 273
  /\ DaysBeforeMonth[11] = 304 /\ DaysBeforeMonth[12] = 334
BY DEF DaysBeforeMonth

LEMMA MonthTableMonotone ==
  ASSUME NEW i \in 1 .. 12, NEW j \in i .. 12
  PROVE  0 <= DaysBeforeMonth[i] /\ DaysBeforeMonth[i] <= DaysBeforeMonth[j]
         /\ DaysBeforeMonth[j] <= 334 /\ DaysBeforeMonth[i] \in Int
         /\ DaysBeforeMonth[j] \in Int
BY MonthTable

LEMMA MonthStartInt == \A m \in Nat : MonthStart(m) \in Int
BY NextMonth, YearLength, MonthTableMonotone DEF MonthStart

\* A month is as long as DaysIn says: the numbering has no gap.
LEMMA MonthLength ==
  ASSUME NEW m \in Nat
  PROVE  MonthStart(m + 1) = MonthStart(m) + DaysIn(m)
<1> DEFINE y == m \div 12
<1>1. y \in Nat /\ m % 12 \in 0 .. 11
  BY NextMonth
<1>2. DaysBeforeYear(y) \in Int
      /\ DaysBeforeYear(y + 1) =
           DaysBeforeYear(y) + (IF IsLeap(y) THEN 366 ELSE 365)
  BY <1>1, YearLength
<1>3. CASE m % 12 = 11
  <2>1. MonthStart(m + 1) = DaysBeforeYear(y + 1)
    BY <1>1, <1>2, <1>3, NextMonth, MonthTable DEF MonthStart
  <2>2. MonthStart(m) = DaysBeforeYear(y) + 334 + (IF IsLeap(y) THEN 1 ELSE 0)
    BY <1>1, <1>2, <1>3, MonthTable DEF MonthStart
  <2>3. DaysIn(m) = 31
    BY <1>3 DEF DaysIn
  <2>4. QED
    BY <1>2, <2>1, <2>2, <2>3
<1>4. CASE m % 12 < 11
  <2>1. (m + 1) % 12 = (m % 12) + 1 /\ (m + 1) \div 12 = y
    BY <1>4, NextMonth
  <2>2. MonthStart(m + 1) =
          DaysBeforeYear(y) + DaysBeforeMonth[(m % 12) + 2]
            + (IF (m % 12) + 1 > 1 /\ IsLeap(y) THEN 1 ELSE 0)
    BY <1>1, <1>2, <2>1 DEF MonthStart
  <2>3. MonthStart(m) =
          DaysBeforeYear(y) + DaysBeforeMonth[(m % 12) + 1]
            + (IF m % 12 > 1 /\ IsLeap(y) THEN 1 ELSE 0)
    BY DEF MonthStart
  <2>4. DaysIn(m) = IF m % 12 = 1 THEN IF IsLeap(y) THEN 29 ELSE 28
                    ELSE IF m % 12 \in {3, 5, 8, 10} THEN 30 ELSE 31
    BY DEF DaysIn
  <2>5. QED
    BY <1>1, <1>2, <1>4, <2>2, <2>3, <2>4, MonthTable
<1>5. QED
  BY <1>1, <1>3, <1>4

\* Twelve months are a year of one length or the other.
LEMMA TwelveMonths ==
  ASSUME NEW m \in Nat
  PROVE  MonthStart(m + 12) - MonthStart(m) \in 365 .. 366
<1> DEFINE y == m \div 12
<1>1. y \in Nat /\ m % 12 \in 0 .. 11
      /\ (m + 12) % 12 = m % 12 /\ (m + 12) \div 12 = y + 1
  BY NextMonth
<1>2. DaysBeforeYear(y) \in Int
      /\ DaysBeforeYear(y + 1) =
           DaysBeforeYear(y) + (IF IsLeap(y) THEN 366 ELSE 365)
  BY <1>1, YearLength
<1>3. ~ (IsLeap(y) /\ IsLeap(y + 1))
  BY <1>1 DEF IsLeap
<1>4. DaysBeforeMonth[(m % 12) + 1] \in Int
  BY <1>1, MonthTableMonotone
<1>5. QED
  BY <1>1, <1>2, <1>3, <1>4 DEF MonthStart

\* A month that is later begins no earlier.
LEMMA MonthsMonotone ==
  ASSUME NEW m \in Nat, NEW n \in Nat, m <= n
  PROVE  MonthStart(m) <= MonthStart(n)
<1> DEFINE y == m \div 12
           z == n \div 12
<1>1. y \in Nat /\ z \in Nat /\ m % 12 \in 0 .. 11 /\ n % 12 \in 0 .. 11
  BY NextMonth
<1>2. DaysBeforeYear(y) \in Int /\ DaysBeforeYear(z) \in Int
      /\ DaysBeforeYear(y + 1) =
           DaysBeforeYear(y) + (IF IsLeap(y) THEN 366 ELSE 365)
  BY <1>1, YearLength
<1>3. y < z \/ (y = z /\ m % 12 <= n % 12)
  OBVIOUS
<1>4. CASE y = z /\ m % 12 <= n % 12
  BY <1>1, <1>2, <1>4, MonthTableMonotone DEF MonthStart
<1>5. CASE y < z
  <2>1. DaysBeforeYear(y + 1) <= DaysBeforeYear(z)
    BY <1>1, <1>5, YearsMonotone
  <2>2. MonthStart(m) <= DaysBeforeYear(y) + 335
    BY <1>1, <1>2, MonthTableMonotone DEF MonthStart
  <2>3. DaysBeforeYear(z) <= MonthStart(n)
    BY <1>1, <1>2, MonthTableMonotone DEF MonthStart
  <2>4. QED
    BY <1>1, <1>2, <2>1, <2>2, <2>3, MonthStartInt
<1>6. QED
  BY <1>3, <1>4, <1>5

-----------------------------------------------------------------------------
(* Dates                                                                   *)

\* A day number or two past the end of a month is carried, not lost.
LEMMA NormaliseOK ==
  ASSUME NEW m \in Nat, NEW d \in 1 .. 32
  PROVE  /\ Normalise(m, d) \in Date
         /\ DayNumber(Normalise(m, d)) = MonthStart(m) + d
<1>1. DaysIn(m) \in 28 .. 31 /\ DaysIn(m + 1) \in 28 .. 31
  BY DaysInRange
<1>2. MonthStart(m + 1) = MonthStart(m) + DaysIn(m) /\ MonthStart(m) \in Int
  BY MonthLength, MonthStartInt
<1>3. CASE d <= DaysIn(m)
  BY <1>1, <1>2, <1>3 DEF Normalise, Date, DayNumber
<1>4. CASE ~ (d <= DaysIn(m))
  <2>1. Normalise(m, d) = [month |-> m + 1, day |-> d - DaysIn(m)]
    BY <1>4 DEF Normalise
  <2>2. d - DaysIn(m) \in 1 .. 4
    BY <1>1, <1>4
  <2>3. QED
    BY <1>1, <1>2, <2>1, <2>2 DEF Date, DayNumber
<1>5. QED
  BY <1>3, <1>4

LEMMA DateFields ==
  ASSUME NEW date \in Date
  PROVE  /\ date.month \in Nat /\ date.day \in 1 .. 31
         /\ date.day <= DaysIn(date.month)
         /\ DayNumber(date) \in Int
         /\ date = [month |-> date.month, day |-> date.day]
BY MonthStartInt DEF Date, DayNumber

LEMMA TomorrowOK ==
  ASSUME NEW date \in Date
  PROVE  Tomorrow(date) \in Date /\ DayNumber(Tomorrow(date)) = DayNumber(date) + 1
<1>1. /\ date.month \in Nat /\ date.day \in 1 .. 31
      /\ date.day + 1 \in 1 .. 32 /\ MonthStart(date.month) \in Int
  BY DateFields, MonthStartInt
<1>2. /\ Tomorrow(date) \in Date
      /\ DayNumber(Tomorrow(date)) = MonthStart(date.month) + (date.day + 1)
  BY <1>1, NormaliseOK DEF Tomorrow
<1>3. DayNumber(date) = MonthStart(date.month) + date.day
  BY DEF DayNumber
<1>4. QED
  BY <1>1, <1>2, <1>3

LEMMA NotAfterDays ==
  ASSUME NEW a \in Date, NEW b \in Date, NotAfter(a, b)
  PROVE  DayNumber(a) <= DayNumber(b)
<1>1. /\ a.month \in Nat /\ a.day \in 1 .. 31 /\ a.day <= DaysIn(a.month)
      /\ b.month \in Nat /\ b.day \in 1 .. 31
  BY DateFields
<1>2. MonthStart(a.month) \in Int /\ MonthStart(b.month) \in Int
      /\ DaysIn(a.month) \in 28 .. 31
  BY <1>1, MonthStartInt, DaysInRange
<1>3. CASE a.month < b.month
  <2>1. MonthStart(a.month + 1) <= MonthStart(b.month)
    BY <1>1, <1>3, MonthsMonotone
  <2>2. MonthStart(a.month + 1) = MonthStart(a.month) + DaysIn(a.month)
    BY <1>1, MonthLength
  <2>3. QED
    BY <1>1, <1>2, <2>1, <2>2 DEF DayNumber
<1>4. CASE a.month = b.month /\ a.day <= b.day
  BY <1>1, <1>2, <1>4 DEF DayNumber
<1>5. QED
  BY <1>3, <1>4 DEF NotAfter

-----------------------------------------------------------------------------
(* One cycle                                                               *)

\* computeCycleEndDate moves any date by 28 to 31 or by 365 or 366 days.
LEMMA CycleLengthOK ==
  ASSUME NEW date \in Date, NEW c \in {"monthly", "yearly"}
  PROVE  LET end == ComputeCycleEndDate(date, c)
             length == DayNumber(end) - DayNumber(date)
         IN /\ end \in Date
            /\ c = "monthly" => length \in 28 .. 31
            /\ c = "yearly" => length \in 365 .. 366
<1> DEFINE m == date.month
           end == ComputeCycleEndDate(date, c)
<1>1. m \in Nat /\ date.day \in 1 .. 32 /\ DayNumber(date) \in Int
      /\ MonthStart(m) \in Int /\ DaysIn(m) \in 28 .. 31
  BY DateFields, MonthStartInt, DaysInRange
<1>2. CASE c = "monthly"
  <2>1. end = Normalise(m + 1, date.day)
    BY <1>2 DEF ComputeCycleEndDate, CycleMonths
  <2>2. end \in Date /\ DayNumber(end) = MonthStart(m + 1) + date.day
    BY <1>1, <2>1, NormaliseOK
  <2>3. MonthStart(m + 1) = MonthStart(m) + DaysIn(m)
    BY <1>1, MonthLength
  <2>4. DayNumber(date) = MonthStart(m) + date.day
    BY DEF DayNumber
  <2>5. QED
    BY <1>1, <1>2, <2>2, <2>3, <2>4
<1>3. CASE c = "yearly"
  <2>1. end = Normalise(m + 12, date.day)
    BY <1>3 DEF ComputeCycleEndDate, CycleMonths
  <2>2. end \in Date /\ DayNumber(end) = MonthStart(m + 12) + date.day
    BY <1>1, <2>1, NormaliseOK
  <2>3. MonthStart(m + 12) - MonthStart(m) \in 365 .. 366
        /\ MonthStart(m + 12) \in Int
    BY <1>1, TwelveMonths, MonthStartInt
  <2>4. DayNumber(date) = MonthStart(m) + date.day
    BY DEF DayNumber
  <2>5. QED
    BY <1>1, <1>3, <2>2, <2>3, <2>4
<1>4. QED
  BY <1>2, <1>3

\* Where it puts the day: one that every month has stays, another may go to
\* the first days of the next month.
LEMMA CycleDayOK ==
  ASSUME NEW date \in Date, NEW c \in {"monthly", "yearly"}
  PROVE  LET end == ComputeCycleEndDate(date, c)
         IN \/ end.month = date.month + CycleMonths(c) /\ end.day = date.day
            \/ /\ end.month = date.month + CycleMonths(c) + 1
               /\ date.day > 28 /\ end.day \in 1 .. 3
<1>1. date.month \in Nat /\ date.day \in 1 .. 31 /\ CycleMonths(c) \in Nat
  BY DateFields DEF CycleMonths
<1>2. DaysIn(date.month + CycleMonths(c)) \in 28 .. 31
  BY <1>1, DaysInRange
<1>3. QED
  BY <1>1, <1>2 DEF ComputeCycleEndDate, Normalise

-----------------------------------------------------------------------------
(* The invariant                                                           *)

LEMMA CycleInitOK == CycleInit => CycleInv
<1> SUFFICES ASSUME CycleInit PROVE CycleInv
  OBVIOUS
<1> USE DEF CycleInit
<1>1. created \in Date /\ cycle \in {"monthly", "yearly"}
  BY CreationAssumption
<1>2. endDate \in Date /\ DayNumber(created) \in Int /\ DayNumber(endDate) \in Int
  BY <1>1, CycleLengthOK, DateFields
<1>3. CycleTypeOK
  BY <1>1, <1>2 DEF CycleTypeOK
<1>4. TimeBought
  BY <1>1, <1>2, CycleLengthOK DEF TimeBought, ShortestCycle, LongestCycle
<1>5. PaidAheadAtMostOneCycle
  BY <1>1, <1>2, CycleLengthOK DEF PaidAheadAtMostOneCycle, LongestCycle
<1>6. KeepsBillingDay
  <2>1. created.month \in Nat /\ CycleMonths(cycle) \in Nat
    BY <1>1, DateFields DEF CycleMonths
  <2>2. endDate.month \in Nat
    BY <1>2, DateFields
  <2>3. \/ /\ endDate.month = created.month + CycleMonths(cycle)
           /\ endDate.day = created.day
        \/ /\ endDate.month = created.month + CycleMonths(cycle) + 1
           /\ created.day > 28 /\ endDate.day \in 1 .. 3
    BY <1>1, CycleDayOK
  <2>4. CycleMonths(cycle) * (paid + 1) = CycleMonths(cycle)
    BY <2>1
  <2>5. QED
    BY <2>1, <2>2, <2>3, <2>4 DEF KeepsBillingDay
<1>7. QED
  BY <1>3, <1>4, <1>5, <1>6 DEF CycleInv

LEMMA NextDayOK == CycleInv /\ NextDay => CycleInv'
<1> SUFFICES ASSUME CycleInv, NextDay PROVE CycleInv'
  OBVIOUS
<1> USE DEF CycleInv, NextDay, subscription
<1>1. today' \in Date /\ DayNumber(today') = DayNumber(today) + 1
      /\ DayNumber(today) \in Int /\ DayNumber(endDate) \in Int
  BY TomorrowOK, DateFields DEF CycleTypeOK
<1>2. CycleTypeOK'
  BY <1>1 DEF CycleTypeOK
<1>3. KeepsBillingDay'
  BY DEF KeepsBillingDay
<1>4. TimeBought'
  BY DEF TimeBought, ShortestCycle, LongestCycle
<1>5. PaidAheadAtMostOneCycle'
  BY <1>1 DEF PaidAheadAtMostOneCycle, LongestCycle, CycleTypeOK
<1>6. QED
  BY <1>2, <1>3, <1>4, <1>5

LEMMA RenewAcceptedOK == CycleInv /\ RenewAccepted => CycleInv'
<1> SUFFICES ASSUME CycleInv, RenewAccepted PROVE CycleInv'
  OBVIOUS
<1> USE DEF CycleInv, RenewAccepted
<1>1. /\ created \in Date /\ endDate \in Date /\ today \in Date
      /\ cycle \in {"monthly", "yearly"} /\ paid \in Nat
  BY DEF CycleTypeOK
<1>2. endDate' \in Date
  BY <1>1, CycleLengthOK
<1>3. /\ DayNumber(created) \in Int /\ DayNumber(endDate) \in Int
      /\ DayNumber(endDate') \in Int /\ DayNumber(today) \in Int
  BY <1>1, <1>2, DateFields
<1>4. LET length == DayNumber(endDate') - DayNumber(endDate)
      IN /\ cycle = "monthly" => length \in 28 .. 31
         /\ cycle = "yearly" => length \in 365 .. 366
  BY <1>1, CycleLengthOK
<1>5. CycleTypeOK'
  BY <1>1, <1>2 DEF CycleTypeOK
<1>6. TimeBought'
  BY <1>1, <1>3, <1>4 DEF TimeBought, ShortestCycle, LongestCycle
<1>7. PaidAheadAtMostOneCycle'
  <2>1. DayNumber(endDate) <= DayNumber(today)
    BY <1>1, NotAfterDays DEF IsDue
  <2>2. QED
    BY <1>1, <1>3, <1>4, <2>1 DEF PaidAheadAtMostOneCycle, LongestCycle
<1>8. KeepsBillingDay'
  <2>1. /\ created.month \in Nat /\ CycleMonths(cycle) \in Nat
        /\ endDate.month \in Nat /\ endDate'.month \in Nat
        /\ created.day \in 1 .. 31 /\ endDate.day \in 1 .. 31
    BY <1>1, <1>2, DateFields DEF CycleMonths
  <2>2. \/ /\ endDate'.month = endDate.month + CycleMonths(cycle)
           /\ endDate'.day = endDate.day
        \/ /\ endDate'.month = endDate.month + CycleMonths(cycle) + 1
           /\ endDate.day > 28 /\ endDate'.day \in 1 .. 3
    BY <1>1, CycleDayOK
  <2> DEFINE late == endDate.month - created.month
                       - CycleMonths(cycle) * (paid + 1)
  <2>3. \/ late = 0 /\ endDate.day = created.day
        \/ late = 1 /\ created.day > 28 /\ endDate.day \in 1 .. 3
    BY DEF KeepsBillingDay
  <2>4. /\ cycle = "monthly" => CycleMonths(cycle) = 1
        /\ cycle = "yearly" => CycleMonths(cycle) = 12
    BY DEF CycleMonths
  <2>5. endDate'.month - created.month - CycleMonths(cycle) * (paid + 1 + 1)
          = late + (endDate'.month - endDate.month - CycleMonths(cycle))
    BY <1>1, <2>1, <2>4
  <2>6. QED
    BY <1>1, <2>1, <2>2, <2>3, <2>5 DEF KeepsBillingDay
<1>9. QED
  BY <1>5, <1>6, <1>7, <1>8

\* The remaining steps leave every date and the count as they are.
LEMMA StatusOnly ==
  ASSUME CycleInv, UNCHANGED <<created, cycle, endDate, paid, today>>,
         status' \in {"active", "inactive", "cancelled"},
         autoRenew' \in BOOLEAN
  PROVE  CycleInv'
<1>1. CycleTypeOK'
  BY DEF CycleInv, CycleTypeOK
<1>2. KeepsBillingDay'
  BY DEF CycleInv, KeepsBillingDay
<1>3. TimeBought'
  BY DEF CycleInv, TimeBought, ShortestCycle, LongestCycle
<1>4. PaidAheadAtMostOneCycle'
  BY DEF CycleInv, PaidAheadAtMostOneCycle, LongestCycle
<1>5. QED
  BY <1>1, <1>2, <1>3, <1>4 DEF CycleInv

\* For every creation date and cycle, whenever and however often the job
\* runs, dates and charges stay in step.
THEOREM CycleInductive == CycleSpec => []CycleInv
<1>1. CycleInv /\ [CycleNext]_vars => CycleInv'
  <2> SUFFICES ASSUME CycleInv, [CycleNext]_vars PROVE CycleInv'
    OBVIOUS
  <2>1. CASE NextDay
    BY <2>1, NextDayOK
  <2>2. CASE RenewAccepted
    BY <2>2, RenewAcceptedOK
  <2>3. CASE RenewDeclined
    BY <2>3, StatusOnly DEF RenewDeclined
  <2>4. CASE RunInVain
    BY <2>4, StatusOnly DEF RunInVain, vars, subscription, CycleInv, CycleTypeOK
  <2>5. CASE Cancel
    BY <2>5, StatusOnly DEF Cancel
  <2>6. CASE UNCHANGED vars
    BY <2>6, StatusOnly DEF vars, subscription, CycleInv, CycleTypeOK
  <2>7. QED
    BY <2>1, <2>2, <2>3, <2>4, <2>5, <2>6 DEF CycleNext, RunRenewalJob
<1>2. QED
  BY CycleInitOK, <1>1, PTL DEF CycleSpec

\* However late the job, the periods bought lie end to end and none is
\* shorter or longer than a cycle of the calendar.
THEOREM NoTimeLost == CycleSpec => []TimeBought
<1>1. CycleInv => TimeBought
  BY DEF CycleInv
<1>2. QED
  BY CycleInductive, <1>1, PTL

\* The billing day drifts at most once, by at most three days.
THEOREM BillingDayKept == CycleSpec => []KeepsBillingDay
<1>1. CycleInv => KeepsBillingDay
  BY DEF CycleInv
<1>2. QED
  BY CycleInductive, <1>1, PTL

\* Nobody has paid for more than the rest of one cycle.
THEOREM NotPaidAhead == CycleSpec => []PaidAheadAtMostOneCycle
<1>1. CycleInv => PaidAheadAtMostOneCycle
  BY DEF CycleInv
<1>2. QED
  BY CycleInductive, <1>1, PTL

\* A run that finds the subscription due leaves it at least one cycle less
\* behind, or nothing to renew: of a run that is years late, finitely many make
\* up.  With a scheduler that keeps calling, this is why what is overdue is
\* settled.
THEOREM RunsCatchUp ==
  CycleSpec =>
    [][RunRenewalJob /\ Overdue =>
         \/ ~ Overdue'
         \/ LET behind == DayNumber(today) - DayNumber(endDate)
            IN behind' <= behind - ShortestCycle]_vars
<1>1. ASSUME CycleInv, RunRenewalJob, Overdue
      PROVE  \/ ~ Overdue'
             \/ LET behind == DayNumber(today) - DayNumber(endDate)
                IN behind' <= behind - ShortestCycle
  <2>1. /\ endDate \in Date /\ today \in Date /\ cycle \in {"monthly", "yearly"}
        /\ DayNumber(endDate) \in Int /\ DayNumber(today) \in Int
    BY <1>1, DateFields DEF CycleInv, CycleTypeOK
  <2>2. CASE RenewAccepted
    <3>1. /\ ComputeCycleEndDate(endDate, cycle) \in Date
          /\ DayNumber(ComputeCycleEndDate(endDate, cycle)) - DayNumber(endDate)
               >= ShortestCycle
          /\ DayNumber(ComputeCycleEndDate(endDate, cycle)) \in Int
          /\ ShortestCycle \in Int
      BY <2>1, CycleLengthOK, DateFields DEF ShortestCycle
    <3>2. /\ DayNumber(endDate') = DayNumber(ComputeCycleEndDate(endDate, cycle))
          /\ DayNumber(today') = DayNumber(today)
      BY <2>2 DEF RenewAccepted
    <3>3. DayNumber(today') - DayNumber(endDate')
            <= (DayNumber(today) - DayNumber(endDate)) - ShortestCycle
      BY <2>1, <3>1, <3>2
    <3> QED
      BY <3>3
  <2>3. CASE RenewDeclined
    BY <2>3 DEF RenewDeclined, Overdue
  <2>4. ~ RunInVain
    BY <1>1 DEF RunInVain, Overdue, IsDue
  <2> QED
    BY <1>1, <2>2, <2>3, <2>4 DEF RunRenewalJob
<1> QED
  BY CycleInductive, <1>1, PTL DEF CycleSpec

=============================================================================
