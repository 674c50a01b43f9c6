---------------------------- MODULE QuotaLedger ----------------------------
(***************************************************************************)
(* What the chat use-case promises, without transactions: a question is    *)
(* answered in ONE indivisible charge, which counts the message, stores it *)
(* and explains it in the ledger, and which spends a subscription only     *)
(* when the month's free messages are used up (SYSTEM_DESIGN 5, 6.1, 6.2). *)
(***************************************************************************)
EXTENDS Integers

CONSTANTS
  Users, Months, Subs, Requests, Null,
  FreeLimit,   \* free messages per user and month
  Unlimited    \* the credit of a subscription that is not counted

VARIABLES
  freeUsed,   \* free messages spent per user and month
  credit,     \* messages left on each subscription
  owner,      \* the user of each subscription
  messages,   \* the questions answered
  ledger      \* one row per charge

vars == <<freeUsed, credit, owner, messages, ledger>>

Init ==
  /\ freeUsed = [key \in Users \X Months |-> 0]
  /\ credit \in [Subs -> Nat \cup {Unlimited}]
  /\ owner \in [Subs -> Users]
  /\ messages = {}
  /\ ledger = {}

Answer(r, u, source, s) ==
  /\ r \notin messages
  /\ messages' = messages \cup {r}
  /\ ledger' = ledger \cup {[user |-> u, source |-> source,
                             subscription |-> s, chatMessage |-> r]}

ChargeFree(r, u, m) ==
  /\ freeUsed[<<u, m>>] < FreeLimit
  /\ freeUsed' = [freeUsed EXCEPT ![<<u, m>>] = @ + 1]
  /\ Answer(r, u, "free", Null)
  /\ UNCHANGED <<credit, owner>>

ChargeSubscription(r, u, m, s) ==
  /\ freeUsed[<<u, m>>] = FreeLimit
  /\ owner[s] = u
  /\ \/ credit[s] = Unlimited /\ UNCHANGED credit
     \/ credit[s] > 0 /\ credit' = [credit EXCEPT ![s] = @ - 1]
  /\ Answer(r, u, "subscription", s)
  /\ UNCHANGED <<freeUsed, owner>>

Next ==
  \E r \in Requests, u \in Users, m \in Months :
    \/ ChargeFree(r, u, m)
    \/ \E s \in Subs : ChargeSubscription(r, u, m, s)

Spec == Init /\ [][Next]_vars

=============================================================================
