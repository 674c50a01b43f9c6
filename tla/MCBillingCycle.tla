--------------------------- MODULE MCBillingCycle ---------------------------
(* Instances of BillingCycle for TLC. *)
EXTENDS BillingCycle, TLC

\* year, month from 1, day.
On(year, month, day) == [month |-> 12 * year + month - 1, day |-> day]

\* The last days of months before shorter ones, with and without a leap year,
\* and the leap day itself.
LateDays ==
  {On(2023, 1, 28), On(2023, 1, 29), On(2023, 1, 30), On(2023, 1, 31),
   On(2024, 1, 30), On(2024, 1, 31), On(2024, 2, 29), On(2023, 8, 29),
   On(2023, 12, 31), On(2099, 12, 30)}

=============================================================================
