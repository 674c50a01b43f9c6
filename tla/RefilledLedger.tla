-------------------------- MODULE RefilledLedger --------------------------
(***************************************************************************)
(* QuotaLedger where subscriptions come and go: between two charges one    *)
(* may be created with its whole allotment, and one that is there may be   *)
(* refilled, cut, ended or revived within its allotment.  A charge stays   *)
(* one indivisible step, and spends an active subscription only.           *)
(***************************************************************************)
EXTENDS QuotaLedger

VARIABLES
  allotment,   \* the messages each subscription is granted per cycle
  active       \* whether it may be charged

refilledVars == <<vars, allotment, active>>

RefilledInit ==
  /\ freeUsed = [key \in Users \X Months |-> 0]
  /\ owner \in [Subs -> Users \cup {Null}]
  /\ allotment \in [Subs -> Nat \cup {Unlimited}]
  /\ credit = allotment
  /\ active \in [Subs -> BOOLEAN]
  /\ messages = {}
  /\ ledger = {}

Charge(r, u, m) ==
  /\ \/ ChargeFree(r, u, m)
     \/ \E s \in Subs : active[s] /\ ChargeSubscription(r, u, m, s)
  /\ UNCHANGED <<allotment, active>>

Subscribe(s) ==
  /\ owner[s] = Null
  /\ owner'[s] \in Users
  /\ owner' = [owner EXCEPT ![s] = owner'[s]]
  /\ allotment'[s] \in Nat \cup {Unlimited}
  /\ allotment' = [allotment EXCEPT ![s] = allotment'[s]]
  /\ credit' = [credit EXCEPT ![s] = allotment'[s]]
  /\ active' = [active EXCEPT ![s] = TRUE]
  /\ UNCHANGED <<freeUsed, messages, ledger>>

Refill(s) ==
  /\ owner[s] # Null
  /\ \/ allotment[s] = Unlimited /\ UNCHANGED credit
     \/ /\ allotment[s] # Unlimited
        /\ credit'[s] \in 0 .. allotment[s]
        /\ credit' = [credit EXCEPT ![s] = credit'[s]]
  /\ active'[s] \in BOOLEAN
  /\ active' = [active EXCEPT ![s] = active'[s]]
  /\ UNCHANGED <<freeUsed, owner, allotment, messages, ledger>>

RefilledNext ==
  \/ \E r \in Requests, u \in Users, m \in Months : Charge(r, u, m)
  \/ \E s \in Subs : Subscribe(s) \/ Refill(s)

RefilledSpec == RefilledInit /\ [][RefilledNext]_refilledVars

=============================================================================
