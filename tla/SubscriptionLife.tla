-------------------------- MODULE SubscriptionLife --------------------------
(***************************************************************************)
(* What the renewal job promises the owner of a subscription that nobody   *)
(* cancels: once its period has ended it is either extended by one cycle   *)
(* or deactivated for good, in one step that nothing comes between.        *)
(***************************************************************************)
EXTENDS Integers

CONSTANTS Subs, CycleLength

VARIABLES
  now,
  life   \* status, end and auto-renewal of each subscription

-----------------------------------------------------------------------------

Statuses == {"absent", "active", "inactive", "cancelled"}

Due(s) ==
  life[s].status = "active" /\ life[s].autoRenew /\ life[s].endDate <= now

\* No time is lost, and none is added, between two periods.
Extend(s) ==
  /\ Due(s)
  /\ life' = [life EXCEPT ![s].endDate = @ + CycleLength]
  /\ UNCHANGED now

\* A period that has been paid for is never taken away: only a subscription
\* whose last period has ended is deactivated.
Lapse(s) ==
  /\ Due(s)
  /\ life' = [life EXCEPT ![s].status = "inactive", ![s].autoRenew = FALSE]
  /\ UNCHANGED now

\* A user subscribes, for one cycle from now.
Subscribe(s) ==
  /\ life[s].status = "absent"
  /\ \E renews \in BOOLEAN :
       life' = [life EXCEPT ![s] = [status |-> "active", autoRenew |-> renews,
                                    endDate |-> now + CycleLength]]
  /\ UNCHANGED now

Pass == now' = now + 1 /\ UNCHANGED life

Init == now = 0 /\ \A s \in Subs : life[s].status \in Statuses

Next == (\E s \in Subs : Extend(s) \/ Lapse(s) \/ Subscribe(s)) \/ Pass

Spec == Init /\ [][Next]_<<now, life>>

=============================================================================
