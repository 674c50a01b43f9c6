------------------------------ MODULE Backend ------------------------------
(***************************************************************************)
(* The chat transactions of AskQuestion and the subscription writers of    *)
(* Billing interleaved over the tables of Store.  They meet in one row of  *)
(* subscriptions: chat counts remaining_messages down under a row lock,    *)
(* billing finds, assigns and saves without one.                           *)
(***************************************************************************)
EXTENDS AskQuestion, Billing

backendVars == <<storeVars, askVars, billingVars>>

BackendInit == Init /\ BillingInit

BackendNext ==
  \/ AskNext /\ UNCHANGED billingVars
  \/ BillingNext /\ UNCHANGED askVars
  \/ Tick /\ UNCHANGED <<tables, locks, askVars, billingVars>>

\* Chat as in FairSpec; a caller of the renewal job calls it again and again
\* (setInterval), and a cancel request that has started goes on.
BackendFairness ==
  /\ \A r \in Requests : WF_backendVars(Execute(r) /\ UNCHANGED billingVars)
  /\ \A j \in Runs : WF_backendVars(Renewal(j) /\ UNCHANGED askVars)
  /\ \A c \in Cancels : WF_backendVars(Cancellation(c) /\ UNCHANGED askVars)

BackendSpec == BackendInit /\ [][BackendNext]_backendVars

FairBackendSpec == BackendSpec /\ BackendFairness

-----------------------------------------------------------------------------
(* Properties                                                              *)

\* However saves and deductions interleave, the counter of a bundle stays
\* between zero and the tier's allotment, and enterprise stays uncounted.
RemainingWithinAllotment ==
  \A s \in Subs :
    IF subs[s].limit = Unlimited
      THEN subs[s].remaining = Unlimited
      ELSE subs[s].remaining \in 0 .. subs[s].limit

\* Saves of old entities may give messages back, but never take one: whatever
\* a bundle lacks of its allotment the ledger shows as asked.
NeverOvercharged ==
  \A s \in Subs :
    subs[s].limit # Unlimited =>
      subs[s].limit - subs[s].remaining <= Cardinality(LedgerOf(s))

\* A request that has skipped a bundle for not being active and keeps its lock.
HoldsSkipped(r) ==
  \E s \in Subs : subLock[s] = r /\ subs[s].status # "active"

\* The writers can bring chat transactions into a deadlock in one way only: two
\* requests of one user, of different months, each keep the lock of a bundle
\* that was cancelled or has lapsed since they ranked it.
DeadlockOnlyOverSkipped ==
  \A S \in SUBSET Waiting :
    S # {} /\ (\A r \in S : WaitsFor(r) \cap S # {}) =>
      \E q, r \in S : /\ user[q] = user[r]
                      /\ month[q] # month[r]
                      /\ HoldsSkipped(q) /\ HoldsSkipped(r)

\* A message is charged to a subscription only while it is active: a
\* cancellation or deactivation commits before the charge's lock or after the
\* charge, never between the check and the commit.
ChargesOnlyActive ==
  [][\A r \in Requests :
       /\ pc[r] = "commit"
       /\ pc'[r] = "respond"
       /\ source[r] = "subscription"
       => subs[sub[r]].status = "active"]_backendVars

\* A subscription's end only ever moves forward by a period the gateway has
\* charged for, whatever stale entities are saved over one another.
ExtendsOnlyPaidPeriods ==
  [][\A s \in Subs :
       subs[s].status # "absent" /\ subs'[s].endDate > subs[s].endDate
       => LET paid == subs'[s].endDate - CycleLength
          IN paid \in Periods /\ charged[<<s, paid>>] > 0]_backendVars

\* A subscription that has come due does not stay due: some run extends it
\* past now or deactivates it, or its user cancels it, even when a run dies
\* in the middle and the next one starts over.
DueIsSettled == \A s \in Subs : IsDue(s) ~> ~ IsDue(s)

\* A charge buys a period: every accepted charge has extended the row past
\* the period it was for, is on its way to, or was lost with a failure
\* between the charge and the save.  It is claimed for a run on its own.
Pending(s, end) ==
  {j \in Runs : /\ \/ step[j] = "charged"
                   \/ HasEntity(j) /\ entity[j].status = "active"
                /\ Target(j) = s
                /\ Head(due[j]).endDate = end}

ChargesMatchPeriods ==
  \A s \in Subs, end \in Periods :
    charged[<<s, end>>] <=
      (IF subs[s].endDate > end THEN 1 ELSE 0)
        + Cardinality(Pending(s, end)) + failures

\* Cancellation flips the status and turns off auto-renew, for good
\* (cancel-subscription.usecase.ts).
CancellationStands ==
  [][\A s \in Subs :
       subs[s].status = "cancelled" => subs'[s].status = "cancelled"]_backendVars

\* A successful charge extends the period from the current end date
\* (renew-subscription.usecase.ts): no period is paid for twice.
PeriodPaidOnce == \A p \in Subs \X Periods : charged[p] <= 1

-----------------------------------------------------------------------------
(* What is left of QuotaLedger beside the writers.                         *)

Refilled ==
  INSTANCE RefilledLedger
    WITH credit <- [s \in Subs |-> subs[s].remaining],
         owner <- [s \in Subs |-> IF subs[s].status = "absent"
                                    THEN Null ELSE subs[s].user],
         allotment <- [s \in Subs |-> subs[s].limit],
         active <- [s \in Subs |-> subs[s].status = "active"]

\* However creations, cancellations and renewals interleave with the chat
\* transactions, a message is charged in one whole step, to an active
\* subscription, and all that the others do to a subscription is to create it
\* full or to move its counter and its status within the allotment.
ImplementsRefilledLedger == Refilled!RefilledSpec

-----------------------------------------------------------------------------
(* What a run on its own makes of the subscriptions nobody cancels.        *)

Life ==
  INSTANCE SubscriptionLife
    WITH life <- [s \in Subs |-> [status |-> subs[s].status,
                                  endDate |-> subs[s].endDate,
                                  autoRenew |-> subs[s].autoRenew]]

\* However a run's finds, charges and saves fall among the chat transactions,
\* failures and later runs, the table only ever shows a due subscription
\* extended by one cycle or deactivated: a renewal that has been paid for is
\* neither lost, doubled, nor undone by a declined charge of an earlier list.
ImplementsSubscriptionLife == Life!Spec

-----------------------------------------------------------------------------
(* The inductive invariant: that of the chat, that of the writers, and what *)
(* each may rely on in the other.                                           *)

\* A row a transaction refers to is there, and stays active while it is held.
HeldRowsInv ==
  \A r \in Requests :
    /\ sub[r] # Null => subs[sub[r]].status # "absent"
    /\ \A i \in DOMAIN ranking[r] : subs[ranking[r][i]].status # "absent"
    /\ HoldsSubscription(r) => subs[sub[r]].status = "active"

BackendInv == IInv /\ BillingInv /\ HeldRowsInv

-----------------------------------------------------------------------------
(* What holds besides while there is one run at most and no cancellation.  *)

LoneRun == Cancels = {} /\ \A i, j \in Runs : i = j

\* What a run has found due is still due, and each row once.
ListOK(j) ==
  /\ \A i \in DOMAIN due[j] :
       LET row == subs[due[j][i].id]
       IN /\ row.status = "active" /\ row.autoRenew
          /\ row.endDate = due[j][i].endDate /\ row.endDate <= now
  /\ \A i, k \in DOMAIN due[j] : due[j][i].id = due[j][k].id => i = k

\* The entity is the row, extended or lapsed.
DecisionOK(j) ==
  LET row == subs[Target(j)]
      e == entity[j]
  IN \/ /\ e.status = "active" /\ e.autoRenew = row.autoRenew
        /\ e.endDate = row.endDate + CycleLength
     \/ /\ e.status = "inactive" /\ e.autoRenew = FALSE
        /\ e.endDate = row.endDate

\* What save found to differ still does, and nothing else of the columns that
\* only billing writes.
DifferenceOK(j) ==
  LET row == subs[Target(j)]
      e == entity[j]
  IN /\ "status" \in changed[j] <=> e.status # row.status
     /\ "endDate" \in changed[j] <=> e.endDate # row.endDate
     /\ "autoRenew" \in changed[j] <=> e.autoRenew # row.autoRenew

LoneInv ==
  /\ \A j \in Runs : /\ ListOK(j)
                     /\ HasEntity(j) => DecisionOK(j)
                     /\ step[j] = "saving" => DifferenceOK(j)
  /\ \A s \in Subs : subs[s].status = "absent" =>
       \A end \in Periods : charged[<<s, end>>] = 0
  /\ ChargesMatchPeriods

=============================================================================
