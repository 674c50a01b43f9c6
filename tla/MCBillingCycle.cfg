\* A subscription of either cycle, created late in a month, followed beyond
\* two years.
SPECIFICATION FairCycleSpec
CONSTANTS
  CreationDates <- LateDays
  Span = 26
INVARIANTS
  TimeBought
  KeepsBillingDay
  PaidAheadAtMostOneCycle
PROPERTY
  OverdueIsSettled
