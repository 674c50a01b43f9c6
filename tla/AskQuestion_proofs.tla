------------------------- MODULE AskQuestion_proofs -------------------------
(***************************************************************************)
(* Theorems about AskQuestion, for every number of users, requests,        *)
(* subscriptions and connections.                                          *)
(***************************************************************************)
EXTENDS AskQuestion, FiniteSetTheorems, TLAPS

USE NullAssumption, FiniteAssumption, LimitAssumption, ClockAssumption,
    RowsAssumption, PoolAssumption

-----------------------------------------------------------------------------
(* Types                                                                   *)

\* The month of every instant up to the horizon has a usage key.
LEMMA MonthOfInstant ==
  ASSUME NEW t \in 0 .. Horizon
  PROVE  MonthOf(t) \in Months
BY DEF Months

\* The sort of the subscription SELECT returns a sequence of candidates.
LEMMA RankingsType ==
  ASSUME NEW u, NEW q \in Rankings(u)
  PROVE  /\ q \in Seq(Subs)
         /\ \A i \in DOMAIN q : subs[q[i]].user = u
<1>1. IsFiniteSet(Candidates(u))
  BY FS_Subset DEF Candidates
<1>2. Cardinality(Candidates(u)) \in Nat
  BY <1>1, FS_CardinalityType
<1>3. q \in [1 .. Cardinality(Candidates(u)) -> Candidates(u)]
  BY DEF Rankings
<1>4. q \in Seq(Candidates(u))
  BY <1>2, <1>3
<1>5. Candidates(u) \subseteq Subs
  BY DEF Candidates
<1>6. q \in Seq(Subs)
  BY <1>2, <1>3, <1>5
<1>7. \A i \in DOMAIN q : q[i] \in Candidates(u)
  BY <1>3
<1> QED
  BY <1>6, <1>7 DEF Candidates

\* Types hold initially.
LEMMA TypeInit == Init => TypeOK
<1> SUFFICES ASSUME Init PROVE TypeOK
  OBVIOUS
<1>1. StoreTypeOK
  BY DEF Init, StoreInit, StoreTypeOK
<1>2. MonthOf(0) \in Months
  BY MonthOfInstant
<1> QED
  BY <1>1, <1>2 DEF Init, AskInit, TypeOK, States, Quantity

\* Locks keep their type when a transaction releases its own.
LEMMA ReleaseType ==
  ASSUME NEW r, ReleaseLocks(r), StoreTypeOK
  PROVE  /\ freeLock' \in [UsageKeys -> Requests \cup {Null}]
         /\ subLock' \in [Subs -> Requests \cup {Null}]
BY DEF ReleaseLocks, StoreTypeOK

\* Updating remaining_messages gives a subscription row.
LEMMA RemainingType ==
  ASSUME NEW table \in [Subs -> SubscriptionRow], NEW s, NEW n \in Quantity
  PROVE  [table EXCEPT ![s].remaining = n] \in [Subs -> SubscriptionRow]
<1>1. CASE s \in Subs
  <2>1. table[s] \in SubscriptionRow
    BY <1>1
  <2>2. [table[s] EXCEPT !.remaining = n] \in SubscriptionRow
    BY <2>1 DEF SubscriptionRow
  <2> QED
    BY <2>2
<1>2. CASE s \notin Subs
  BY <1>2
<1> QED
  BY <1>1, <1>2

\* Every step keeps the types.
LEMMA TypeStep == TypeOK /\ ChoiceInv /\ [Next]_vars => TypeOK'
<1> SUFFICES ASSUME TypeOK, ChoiceInv, [Next]_vars PROVE TypeOK'
  OBVIOUS
<1> USE DEF TypeOK, StoreTypeOK, States, Statements, Outcomes, Key, UsageKeys
<1>1. ASSUME NEW r \in Requests, Begin(r) PROVE TypeOK'
  <2>1. MonthOf(now) \in Months
    BY MonthOfInstant
  <2> QED
    BY <1>1, <2>1 DEF Begin, storeVars, tables, locks
<1>2. ASSUME NEW r \in Requests, LockFreeUsage(r) PROVE TypeOK'
  BY <1>2 DEF LockFreeUsage, tables
<1>3. ASSUME NEW r \in Requests, MissFreeUsage(r) PROVE TypeOK'
  BY <1>3 DEF MissFreeUsage, storeVars, tables, locks, locals
<1>4. ASSUME NEW r \in Requests, InsertFreeUsage(r) PROVE TypeOK'
  BY <1>4 DEF InsertFreeUsage, tables
<1>5. ASSUME NEW r \in Requests, NEW o \in Outcomes, Rollback(r, o)
      PROVE TypeOK'
  <2>1. /\ freeLock' \in [UsageKeys -> Requests \cup {Null}]
        /\ subLock' \in [Subs -> Requests \cup {Null}]
    BY <1>5, ReleaseType DEF Rollback
  <2> QED
    BY <1>5, <2>1 DEF Rollback, tables, locals
<1>6. ASSUME NEW r \in Requests, DeductFree(r) PROVE TypeOK'
  BY <1>6 DEF DeductFree, storeVars, tables, locks
<1>7. ASSUME NEW r \in Requests, FallBackToSubscription(r) PROVE TypeOK'
  BY <1>7 DEF FallBackToSubscription, storeVars, tables, locks, locals
<1>8. ASSUME NEW r \in Requests, RankSubscriptions(r) PROVE TypeOK'
  <2>1. PICK q \in Rankings(user[r]) : ranking' = [ranking EXCEPT ![r] = q]
    BY <1>8 DEF RankSubscriptions
  <2>2. q \in Seq(Subs)
    BY RankingsType
  <2> QED
    BY <1>8, <2>1, <2>2 DEF RankSubscriptions, storeVars, tables, locks
<1>9. ASSUME NEW r \in Requests, LockSubscription(r) PROVE TypeOK'
  <2>1. /\ Head(ranking[r]) \in Subs
        /\ Tail(ranking[r]) \in Seq(Subs)
    BY <1>9 DEF LockSubscription
  <2>2. subs[Head(ranking[r])].remaining \in Quantity
    BY <2>1 DEF SubscriptionRow
  <2>3. subLock' \in [Subs -> Requests \cup {Null}]
    BY <1>9, <2>1 DEF LockSubscription
  <2>4. sub' \in [Requests -> Subs \cup {Null}]
    <3>1. sub' = [sub EXCEPT ![r] = Head(ranking[r])] \/ sub' = sub
      BY <1>9 DEF LockSubscription
    <3> QED
      BY <2>1, <3>1
  <2>5. left' \in [Requests -> Quantity]
    BY <1>9, <2>2 DEF LockSubscription
  <2>6. ranking' \in [Requests -> Seq(Subs)]
    <3>1. \/ ranking' = [ranking EXCEPT ![r] = <<>>]
          \/ ranking' = [ranking EXCEPT ![r] = Tail(ranking[r])]
      BY <1>9 DEF LockSubscription
    <3>2. <<>> \in Seq(Subs)
      OBVIOUS
    <3> QED
      BY <2>1, <3>1, <3>2
  <2>7. pc' \in [Requests -> States]
    BY <1>9 DEF LockSubscription
  <2> QED
    BY <1>9, <2>3, <2>4, <2>5, <2>6, <2>7 DEF LockSubscription, tables
<1>10. ASSUME NEW r \in Requests, DeductSubscription(r) PROVE TypeOK'
  <2>1. left[r] > 0 => left[r] - 1 \in Quantity
    <3>1. left[r] \in Nat \cup {0 - 1}
      BY DEF Quantity, Unlimited
    <3> QED
      BY <3>1 DEF Quantity
  <2>2. left' \in [Requests -> Quantity]
    BY <1>10, <2>1 DEF DeductSubscription
  <2> QED
    BY <1>10, <2>2 DEF DeductSubscription, storeVars, tables, locks
<1>11. ASSUME NEW r \in Requests, AskAi(r) PROVE TypeOK'
  BY <1>11 DEF AskAi, storeVars, tables, locks, locals
<1>12. ASSUME NEW r \in Requests, CreateMessage(r) PROVE TypeOK'
  BY <1>12 DEF CreateMessage, storeVars, tables, locks, locals
<1>13. ASSUME NEW r \in Requests, CreateLedgerRow(r) PROVE TypeOK'
  BY <1>13 DEF CreateLedgerRow, storeVars, tables, locks, locals
<1>14. ASSUME NEW r \in Requests, Respond(r) PROVE TypeOK'
  BY <1>14 DEF Respond, storeVars, tables, locks, locals
<1>15. ASSUME Tick, UNCHANGED <<tables, locks, askVars>> PROVE TypeOK'
  BY <1>15 DEF Tick, tables, locks, askVars, locals
<1>16. ASSUME UNCHANGED vars PROVE TypeOK'
  BY <1>16 DEF vars, storeVars, tables, locks, askVars, locals
<1>17. ASSUME NEW r \in Requests, Commit(r) PROVE TypeOK'
  <2>1. /\ freeLock' \in [UsageKeys -> Requests \cup {Null}]
        /\ subLock' \in [Subs -> Requests \cup {Null}]
    BY <1>17, ReleaseType DEF Commit
  <2>2. subs' \in [Subs -> SubscriptionRow]
    <3>1. \/ subs' = subs
          \/ subs' = [subs EXCEPT ![sub[r]].remaining = left[r]]
      BY <1>17 DEF Commit, Publish
    <3>2. subs \in [Subs -> SubscriptionRow] /\ left[r] \in Quantity
      OBVIOUS
    <3> QED
      BY ONLY <3>1, <3>2, RemainingType
  <2>3. ledger' \subseteq LedgerRow
    <3>1. source[r] \in {"free", "subscription"}
      BY <1>17 DEF Commit, ChoiceInv, ChoiceOK, Deducted
    <3>2. RowOf(r) \in LedgerRow
      BY <3>1 DEF LedgerRow, RowOf
    <3>3. ledger' = ledger \/ ledger' = ledger \cup {RowOf(r)}
      BY <1>17 DEF Commit, Publish
    <3> QED
      BY <3>2, <3>3
  <2>4. freeRows' \subseteq UsageKeys /\ freeUsed' \in [UsageKeys -> Nat]
    <3>1. \/ freeRows' = freeRows /\ freeUsed' = freeUsed
          \/ /\ freeRows' = freeRows \cup {Key(r)}
             /\ freeUsed' = [freeUsed EXCEPT ![Key(r)] = used[r]]
      BY <1>17 DEF Commit, Publish
    <3>2. Key(r) \in UsageKeys /\ used[r] \in Nat
      OBVIOUS
    <3> QED
      BY <3>1, <3>2
  <2>5. messages' \subseteq Requests
    BY <1>17 DEF Commit, Publish
  <2> QED
    BY <1>17, <2>1, <2>2, <2>3, <2>4, <2>5 DEF Commit, locals
<1>18. ASSUME NEW r \in Requests, LoseAnswer(r) PROVE TypeOK'
  BY <1>18 DEF LoseAnswer, storeVars, tables, locks, locals
<1> QED
  <2>1. ASSUME NEW r \in Requests, Execute(r) PROVE TypeOK'
    <3>1. CASE DeductFreeQuota(r)
      BY <3>1, <1>2, <1>3, <1>4, <1>5, <1>6, <1>7
      DEF DeductFreeQuota, ViolateUniqueMonth
    <3>2. CASE DeductSubscriptionQuota(r)
      BY <3>2, <1>5, <1>8, <1>9, <1>10
      DEF DeductSubscriptionQuota, NoActiveSubscription, RejectSubscription,
          Refuse
    <3> QED
      BY <2>1, <3>1, <3>2, <1>1, <1>11, <1>12, <1>13, <1>14, <1>17 DEF Execute
  <2>2. ASSUME NEW r \in Requests, Fail(r) PROVE TypeOK'
    BY <2>2, <1>5 DEF Fail
  <2> QED
    BY <1>15, <1>16, <1>18, <2>1, <2>2 DEF Next, AskNext, Quiescent

-----------------------------------------------------------------------------
\* The kinds of step there are: every abort is a Rollback.
LEMMA StepCases ==
  ASSUME [Next]_vars
  PROVE  \/ \E r \in Requests :
               \/ Begin(r) \/ LockFreeUsage(r) \/ MissFreeUsage(r)
               \/ InsertFreeUsage(r) \/ DeductFree(r)
               \/ FallBackToSubscription(r) \/ RankSubscriptions(r)
               \/ LockSubscription(r) \/ DeductSubscription(r) \/ AskAi(r)
               \/ CreateMessage(r) \/ CreateLedgerRow(r) \/ Commit(r)
               \/ Respond(r)
               \/ LoseAnswer(r)
               \/ \E o \in {"refused", "failed"} : 
                       /\ pc[r] = "queued" \/ InTransaction(r)
                       /\ Rollback(r, o)
         \/ Tick /\ UNCHANGED <<tables, locks, askVars>>
         \/ UNCHANGED vars
BY DEF Next, AskNext, Execute, DeductFreeQuota, DeductSubscriptionQuota,
       ViolateUniqueMonth, NoActiveSubscription, RejectSubscription, Refuse,
       Fail, Quiescent, InTransaction, Statements

\* Taking the free row, found or inserted, keeps LockInv: nobody else has it.
LEMMA LockFree ==
  ASSUME NEW r \in Requests, IInv,
         freeLock[Key(r)] = Null,
         freeLock' = [freeLock EXCEPT ![Key(r)] = r],
         pc[r] \in {"findFreeUsage", "insertFreeUsage"},
         pc' = [pc EXCEPT ![r] = "deductFree"],
         UNCHANGED <<user, month, sub, source, subLock>>
  PROVE  LockInv'
<1> USE DEF IInv, TypeOK, StoreTypeOK, LockInv, Key, HoldsFreeRow,
            HoldsSubscription, Deducted, Statements
<1>1. Key(r) \in UsageKeys
  BY DEF UsageKeys
<1>2. ASSUME NEW q \in Requests, HoldsFreeRow(q)'
      PROVE  freeLock'[Key(q)'] = q
  <2>1. CASE q = r
    BY <1>1, <2>1
  <2>2. CASE q # r
    <3>1. Key(q) # Key(r) /\ freeLock[Key(q)] = q /\ Key(q)' = Key(q)
      BY <1>2, <2>2
    <3> QED
      BY <1>1, <3>1
  <2> QED
    BY <2>1, <2>2
<1>3. ASSUME NEW key \in UsageKeys, freeLock'[key] # Null
      PROVE  (HoldsFreeRow(freeLock[key]))' /\ (Key(freeLock[key]))' = key
  <2>1. CASE key = Key(r)
    BY <1>1, <2>1
  <2>2. CASE key # Key(r)
    <3>1. freeLock'[key] = freeLock[key] /\ freeLock[key] \in Requests
      BY <1>1, <1>3, <2>2
    <3>2. HoldsFreeRow(freeLock[key]) /\ Key(freeLock[key]) = key
      BY <3>1
    <3> QED
      BY <2>2, <3>1, <3>2
  <2> QED
    BY <2>1, <2>2
<1>4. ASSUME NEW q \in Requests, HoldsSubscription(q)'
      PROVE  sub'[q] \in Subs /\ subLock'[sub'[q]] = q
  BY <1>4
<1>5. ASSUME NEW s \in Subs, subLock'[s] # Null
      PROVE  (HoldsFreeRow(subLock[s]))'
  BY <1>5
<1> QED
  BY <1>2, <1>3, <1>4, <1>5

\* So does the end of a transaction.
LEMMA ReleaseKeepsLockInv ==
  ASSUME NEW r \in Requests, IInv, ReleaseLocks(r),
         NEW o \in States \ Statements, pc' = [pc EXCEPT ![r] = o],
         UNCHANGED locals
  PROVE  LockInv'
<1> USE DEF IInv, TypeOK, StoreTypeOK, LockInv, Key, HoldsFreeRow,
            HoldsSubscription, Deducted, Statements, locals
<1>1. ASSUME NEW q \in Requests, HoldsFreeRow(q)'
      PROVE  freeLock'[Key(q)'] = q
  <2>1. Key(q) \in UsageKeys
    BY DEF UsageKeys
  <2>2. q # r /\ HoldsFreeRow(q)
    BY <1>1
  <2> QED
    BY <2>1, <2>2 DEF ReleaseLocks
<1>2. ASSUME NEW key \in UsageKeys, freeLock'[key] # Null
      PROVE  (HoldsFreeRow(freeLock[key]))' /\ (Key(freeLock[key]))' = key
  <2>1. /\ freeLock'[key] = freeLock[key]
        /\ freeLock[key] \in Requests \ {r}
    BY <1>2 DEF ReleaseLocks
  <2>2. HoldsFreeRow(freeLock[key]) /\ Key(freeLock[key]) = key
    BY <2>1
  <2> QED
    BY <2>1, <2>2
<1>3. ASSUME NEW q \in Requests, HoldsSubscription(q)'
      PROVE  sub'[q] \in Subs /\ subLock'[sub'[q]] = q
  <2>1. q # r /\ HoldsSubscription(q)
    BY <1>3
  <2> QED
    BY <2>1 DEF ReleaseLocks
<1>4. ASSUME NEW s \in Subs, subLock'[s] # Null
      PROVE  (HoldsFreeRow(subLock[s]))'
  <2>1. subLock'[s] = subLock[s] /\ subLock[s] \in Requests \ {r}
    BY <1>4 DEF ReleaseLocks
  <2> QED
    BY <2>1
<1> QED
  BY <1>1, <1>2, <1>3, <1>4

\* used_messages stays within the limit in every step.
LEMMA RowStep == IInv /\ [Next]_vars => RowInv'
<1> SUFFICES ASSUME IInv, [Next]_vars PROVE RowInv'
  OBVIOUS
<1> USE DEF Key, HoldsFreeRow, HoldsSubscription, Deducted, Statements, InTransaction
<1>1. ASSUME NEW r \in Requests, Begin(r) PROVE RowInv'
  BY <1>1 DEF Begin, storeVars, tables, locks, IInv, TypeOK, StoreTypeOK,
     RowInv, EntityInv, EntityOK, ChoiceInv, ChoiceOK
<1>2. ASSUME NEW r \in Requests, LockFreeUsage(r) PROVE RowInv'
  BY <1>2 DEF LockFreeUsage, tables, IInv, TypeOK, StoreTypeOK, RowInv,
     EntityInv, EntityOK, ChoiceInv, ChoiceOK
<1>3. ASSUME NEW r \in Requests, MissFreeUsage(r) PROVE RowInv'
  BY <1>3 DEF MissFreeUsage, storeVars, tables, locks, locals, IInv, TypeOK,
     StoreTypeOK, RowInv, EntityInv, EntityOK, ChoiceInv, ChoiceOK
<1>4. ASSUME NEW r \in Requests, InsertFreeUsage(r) PROVE RowInv'
  BY <1>4 DEF InsertFreeUsage, tables, IInv, TypeOK, StoreTypeOK, RowInv,
     EntityInv, EntityOK, ChoiceInv, ChoiceOK
<1>5. ASSUME NEW r \in Requests, NEW o \in {"refused", "failed"},
             Rollback(r, o), pc[r] = "queued" \/ InTransaction(r)
      PROVE RowInv'
  BY <1>5 DEF Rollback, ReleaseLocks, tables, locals, IInv, TypeOK,
     StoreTypeOK, RowInv, EntityInv, EntityOK, ChoiceInv, ChoiceOK
<1>6. ASSUME NEW r \in Requests, DeductFree(r) PROVE RowInv'
  BY <1>6 DEF DeductFree, storeVars, tables, locks, IInv, TypeOK, StoreTypeOK,
     RowInv, EntityInv, EntityOK, ChoiceInv, ChoiceOK
<1>7. ASSUME NEW r \in Requests, FallBackToSubscription(r) PROVE RowInv'
  BY <1>7 DEF FallBackToSubscription, storeVars, tables, locks, locals, IInv,
     TypeOK, StoreTypeOK, RowInv, EntityInv, EntityOK, ChoiceInv, ChoiceOK
<1>8. ASSUME NEW r \in Requests, RankSubscriptions(r) PROVE RowInv'
  BY <1>8 DEF RankSubscriptions, storeVars, tables, locks, IInv, TypeOK,
     StoreTypeOK, RowInv, EntityInv, EntityOK, ChoiceInv, ChoiceOK
<1>9. ASSUME NEW r \in Requests, LockSubscription(r) PROVE RowInv'
  BY <1>9 DEF LockSubscription, tables, IInv, TypeOK, StoreTypeOK, RowInv,
     EntityInv, EntityOK, ChoiceInv, ChoiceOK
<1>10. ASSUME NEW r \in Requests, DeductSubscription(r) PROVE RowInv'
  BY <1>10 DEF DeductSubscription, storeVars, tables, locks, IInv, TypeOK,
     StoreTypeOK, RowInv, EntityInv, EntityOK, ChoiceInv, ChoiceOK
<1>11. ASSUME NEW r \in Requests, AskAi(r) PROVE RowInv'
  BY <1>11 DEF AskAi, storeVars, tables, locks, locals, IInv, TypeOK,
     StoreTypeOK, RowInv, EntityInv, EntityOK, ChoiceInv, ChoiceOK
<1>12. ASSUME NEW r \in Requests, CreateMessage(r) PROVE RowInv'
  BY <1>12 DEF CreateMessage, storeVars, tables, locks, locals, IInv, TypeOK,
     StoreTypeOK, RowInv, EntityInv, EntityOK, ChoiceInv, ChoiceOK
<1>13. ASSUME NEW r \in Requests, CreateLedgerRow(r) PROVE RowInv'
  BY <1>13 DEF CreateLedgerRow, storeVars, tables, locks, locals, IInv, TypeOK,
     StoreTypeOK, RowInv, EntityInv, EntityOK, ChoiceInv, ChoiceOK
<1>14. ASSUME NEW r \in Requests, Commit(r) PROVE RowInv'
  <2>1. CASE source[r] = "free"
    <3>1. used[r] <= FreeLimit
      BY <1>14, <2>1 DEF IInv, TypeOK, StoreTypeOK, RowInv, EntityInv,
         EntityOK, ChoiceInv, ChoiceOK, Commit
    <3>2. /\ freeRows' = freeRows \cup {Key(r)}
          /\ freeUsed' = [freeUsed EXCEPT ![Key(r)] = used[r]]
          /\ subs' = subs
      BY <1>14, <2>1 DEF IInv, TypeOK, StoreTypeOK, RowInv, EntityInv,
         EntityOK, ChoiceInv, ChoiceOK, Commit, Publish
    <3> QED
      BY <3>1, <3>2 DEF IInv, TypeOK, StoreTypeOK, RowInv, EntityInv, EntityOK,
         ChoiceInv, ChoiceOK
  <2>2. CASE source[r] = "subscription"
    <3>1. subs[sub[r]].limit = Unlimited <=> left[r] = Unlimited
      <4>1. IF subs[sub[r]].limit = Unlimited
              THEN left[r] = Unlimited ELSE left[r] >= 0
        BY <1>14, <2>2 DEF IInv, EntityInv, EntityOK, Commit
      <4> QED
        BY <4>1 DEF Unlimited
    <3>2. /\ subs' = [subs EXCEPT ![sub[r]].remaining = left[r]]
          /\ freeRows' = freeRows
          /\ freeUsed' = freeUsed
      BY <1>14, <2>2 DEF IInv, TypeOK, StoreTypeOK, RowInv, EntityInv,
         EntityOK, ChoiceInv, ChoiceOK, Commit, Publish
    <3>3. subs'[sub[r]].limit = subs[sub[r]].limit
          /\ subs'[sub[r]].remaining = left[r]
      BY <3>2, <2>2 DEF IInv, TypeOK, StoreTypeOK, RowInv, EntityInv, EntityOK,
         ChoiceInv, ChoiceOK, SubscriptionRow
    <3> QED
      BY <3>1, <3>2, <3>3 DEF IInv, TypeOK, StoreTypeOK, RowInv, EntityInv,
         EntityOK, ChoiceInv, ChoiceOK
  <2> QED
    BY <1>14, <2>1, <2>2 DEF IInv, TypeOK, StoreTypeOK, RowInv, EntityInv,
       EntityOK, ChoiceInv, ChoiceOK, Commit
<1>15. ASSUME NEW r \in Requests, Respond(r) PROVE RowInv'
  BY <1>15 DEF Respond, storeVars, tables, locks, locals, IInv, TypeOK,
     StoreTypeOK, RowInv, EntityInv, EntityOK, ChoiceInv, ChoiceOK
<1>16. ASSUME NEW r \in Requests, LoseAnswer(r) PROVE RowInv'
  BY <1>16 DEF LoseAnswer, storeVars, tables, locks, locals, IInv, TypeOK,
     StoreTypeOK, RowInv, EntityInv, EntityOK, ChoiceInv, ChoiceOK
<1>17. ASSUME Tick, UNCHANGED <<tables, locks, askVars>> PROVE RowInv'
  BY <1>17 DEF Tick, tables, locks, askVars, locals, IInv, TypeOK, StoreTypeOK,
     RowInv, EntityInv, EntityOK, ChoiceInv, ChoiceOK
<1>18. ASSUME UNCHANGED vars PROVE RowInv'
  BY <1>18 DEF vars, storeVars, tables, locks, askVars, locals, IInv, TypeOK,
     StoreTypeOK, RowInv, EntityInv, EntityOK, ChoiceInv, ChoiceOK
<1> QED
  BY <1>1, <1>2, <1>3, <1>4, <1>5, <1>6, <1>7, <1>8, <1>9, <1>10, <1>11, <1>12,
     <1>13, <1>14, <1>15, <1>16, <1>17, <1>18, StepCases

\* Every step keeps locks and statements in agreement.
LEMMA LockStep == IInv /\ [Next]_vars => LockInv'
<1> SUFFICES ASSUME IInv, [Next]_vars PROVE LockInv'
  OBVIOUS
<1> USE DEF Key, HoldsFreeRow, HoldsSubscription, Deducted, Statements, InTransaction
<1>1. ASSUME NEW r \in Requests, Begin(r) PROVE LockInv'
  BY <1>1 DEF Begin, storeVars, tables, locks, IInv, TypeOK, StoreTypeOK,
     LockInv
<1>2. ASSUME NEW r \in Requests, LockFreeUsage(r) PROVE LockInv'
  BY <1>2, LockFree DEF LockFreeUsage
<1>3. ASSUME NEW r \in Requests, MissFreeUsage(r) PROVE LockInv'
  BY <1>3 DEF MissFreeUsage, storeVars, tables, locks, locals, IInv, TypeOK,
     StoreTypeOK, LockInv
<1>4. ASSUME NEW r \in Requests, InsertFreeUsage(r) PROVE LockInv'
  BY <1>4, LockFree DEF InsertFreeUsage
<1>5. ASSUME NEW r \in Requests, NEW o \in {"refused", "failed"},
             Rollback(r, o), pc[r] = "queued" \/ InTransaction(r)
      PROVE LockInv'
  <2> QED
    BY <1>5, ReleaseKeepsLockInv DEF Rollback, States, Outcomes
<1>6. ASSUME NEW r \in Requests, DeductFree(r) PROVE LockInv'
  BY <1>6 DEF DeductFree, storeVars, tables, locks, IInv, TypeOK, StoreTypeOK,
     LockInv
<1>7. ASSUME NEW r \in Requests, FallBackToSubscription(r) PROVE LockInv'
  BY <1>7 DEF FallBackToSubscription, storeVars, tables, locks, locals, IInv,
     TypeOK, StoreTypeOK, LockInv
<1>8. ASSUME NEW r \in Requests, RankSubscriptions(r) PROVE LockInv'
  BY <1>8 DEF RankSubscriptions, storeVars, tables, locks, IInv, TypeOK,
     StoreTypeOK, LockInv
<1>9. ASSUME NEW r \in Requests, LockSubscription(r) PROVE LockInv'
  <2> DEFINE s == Head(ranking[r])
  <2>1. /\ s \in Subs /\ subLock[s] = Null
        /\ subLock' = [subLock EXCEPT ![s] = r]
        /\ UNCHANGED <<user, month, source, freeLock>>
    BY <1>9 DEF IInv, TypeOK, StoreTypeOK, LockInv, LockSubscription
  <2>2. \/ sub' = [sub EXCEPT ![r] = s]
           /\ pc' = [pc EXCEPT ![r] = "deductSubscription"]
        \/ sub' = sub /\ pc' = pc
    BY <1>9 DEF IInv, TypeOK, StoreTypeOK, LockInv, LockSubscription
  <2> HIDE DEF s
  <2>3. pc[r] = "lockSubscription"
    BY <1>9 DEF IInv, TypeOK, StoreTypeOK, LockInv, LockSubscription
  <2>4. ASSUME NEW q \in Requests, HoldsFreeRow(q)'
        PROVE  freeLock'[Key(q)'] = q
    BY <2>1, <2>2, <2>3, <2>4 DEF IInv, TypeOK, StoreTypeOK, LockInv
  <2>5. ASSUME NEW key \in UsageKeys, freeLock'[key] # Null
        PROVE  (HoldsFreeRow(freeLock[key]))' /\ (Key(freeLock[key]))' = key
    <3>1. freeLock[key] \in Requests /\ HoldsFreeRow(freeLock[key])
      BY <2>1, <2>5 DEF IInv, TypeOK, StoreTypeOK, LockInv
    <3> QED
      BY <2>1, <2>2, <2>3, <2>5, <3>1 DEF IInv, TypeOK, StoreTypeOK, LockInv
  <2>6. ASSUME NEW q \in Requests, HoldsSubscription(q)'
        PROVE  sub'[q] \in Subs /\ subLock'[sub'[q]] = q
    <3>1. CASE q = r
      BY <2>1, <2>2, <2>3, <2>6, <3>1 DEF IInv, TypeOK, StoreTypeOK, LockInv
    <3>2. CASE q # r
      <4>1. HoldsSubscription(q) /\ sub'[q] = sub[q]
        BY <2>1, <2>2, <2>6, <3>2 DEF IInv, TypeOK, StoreTypeOK, LockInv
      <4>2. sub[q] \in Subs /\ subLock[sub[q]] = q
        BY <4>1 DEF IInv, TypeOK, StoreTypeOK, LockInv
      <4> QED
        BY <2>1, <4>1, <4>2, NullAssumption DEF IInv, TypeOK, StoreTypeOK, LockInv
    <3> QED
      BY <3>1, <3>2
  <2>7. ASSUME NEW w \in Subs, subLock'[w] # Null
        PROVE  (HoldsFreeRow(subLock[w]))'
    <3>1. CASE w = s
      BY <2>1, <2>2, <2>3, <3>1 DEF IInv, TypeOK, StoreTypeOK, LockInv
    <3>2. CASE w # s
      <4>1. subLock'[w] = subLock[w] /\ subLock[w] \in Requests
            /\ HoldsFreeRow(subLock[w])
        BY <2>1, <2>7, <3>2 DEF IInv, TypeOK, StoreTypeOK, LockInv
      <4> QED
        BY <2>2, <2>3, <4>1 DEF IInv, TypeOK, StoreTypeOK, LockInv
    <3> QED
      BY <3>1, <3>2
  <2> QED
    BY <2>4, <2>5, <2>6, <2>7 DEF LockInv
<1>10. ASSUME NEW r \in Requests, DeductSubscription(r) PROVE LockInv'
  BY <1>10 DEF DeductSubscription, storeVars, tables, locks, IInv, TypeOK,
     StoreTypeOK, LockInv
<1>11. ASSUME NEW r \in Requests, AskAi(r) PROVE LockInv'
  BY <1>11 DEF AskAi, storeVars, tables, locks, locals, IInv, TypeOK,
     StoreTypeOK, LockInv
<1>12. ASSUME NEW r \in Requests, CreateMessage(r) PROVE LockInv'
  BY <1>12 DEF CreateMessage, storeVars, tables, locks, locals, IInv, TypeOK,
     StoreTypeOK, LockInv
<1>13. ASSUME NEW r \in Requests, CreateLedgerRow(r) PROVE LockInv'
  BY <1>13 DEF CreateLedgerRow, storeVars, tables, locks, locals, IInv, TypeOK,
     StoreTypeOK, LockInv
<1>14. ASSUME NEW r \in Requests, Commit(r) PROVE LockInv'
  <2>1. "respond" \in States \ Statements
    BY DEF IInv, TypeOK, StoreTypeOK, LockInv, States
  <2> QED
    BY <1>14, <2>1, ReleaseKeepsLockInv DEF Commit
<1>15. ASSUME NEW r \in Requests, Respond(r) PROVE LockInv'
  BY <1>15 DEF Respond, storeVars, tables, locks, locals, IInv, TypeOK,
     StoreTypeOK, LockInv
<1>16. ASSUME NEW r \in Requests, LoseAnswer(r) PROVE LockInv'
  BY <1>16 DEF LoseAnswer, storeVars, tables, locks, locals, IInv, TypeOK,
     StoreTypeOK, LockInv
<1>17. ASSUME Tick, UNCHANGED <<tables, locks, askVars>> PROVE LockInv'
  BY <1>17 DEF Tick, tables, locks, askVars, locals, IInv, TypeOK, StoreTypeOK,
     LockInv
<1>18. ASSUME UNCHANGED vars PROVE LockInv'
  BY <1>18 DEF vars, storeVars, tables, locks, askVars, locals, IInv, TypeOK,
     StoreTypeOK, LockInv
<1> QED
  BY <1>1, <1>2, <1>3, <1>4, <1>5, <1>6, <1>7, <1>8, <1>9, <1>10, <1>11, <1>12,
     <1>13, <1>14, <1>15, <1>16, <1>17, <1>18, StepCases

\* Every step keeps the locked rows and the entities in agreement.
LEMMA EntityStep == IInv /\ [Next]_vars => EntityInv'
<1> SUFFICES ASSUME IInv, [Next]_vars PROVE EntityInv'
  OBVIOUS
<1> USE DEF Key, HoldsFreeRow, HoldsSubscription, Deducted, Statements, InTransaction
<1>1. ASSUME NEW r \in Requests, Begin(r) PROVE EntityInv'
  BY <1>1 DEF Begin, storeVars, tables, locks, IInv, TypeOK, StoreTypeOK,
     LockInv, EntityInv, EntityOK, ChoiceInv, ChoiceOK, RowInv
<1>2. ASSUME NEW r \in Requests, LockFreeUsage(r) PROVE EntityInv'
  <2>1. ASSUME NEW q \in Requests, q # r PROVE EntityOK(q)'
    BY <1>2, <2>1 DEF IInv, TypeOK, StoreTypeOK, LockInv, EntityInv, EntityOK,
       ChoiceInv, ChoiceOK, RowInv, LockFreeUsage, tables
  <2>2. EntityOK(r)'
    BY <1>2 DEF IInv, TypeOK, StoreTypeOK, LockInv, EntityInv, EntityOK,
       ChoiceInv, ChoiceOK, RowInv, LockFreeUsage, tables
  <2> QED
    BY <2>1, <2>2 DEF EntityInv
<1>3. ASSUME NEW r \in Requests, MissFreeUsage(r) PROVE EntityInv'
  BY <1>3 DEF MissFreeUsage, storeVars, tables, locks, locals, IInv, TypeOK,
     StoreTypeOK, LockInv, EntityInv, EntityOK, ChoiceInv, ChoiceOK, RowInv
<1>4. ASSUME NEW r \in Requests, InsertFreeUsage(r) PROVE EntityInv'
  <2>1. ASSUME NEW q \in Requests, q # r PROVE EntityOK(q)'
    BY <1>4, <2>1 DEF IInv, TypeOK, StoreTypeOK, LockInv, EntityInv, EntityOK,
       ChoiceInv, ChoiceOK, RowInv, InsertFreeUsage, tables
  <2>2. used'[r] = freeUsed'[Key(r)]
    BY <1>4 DEF IInv, TypeOK, StoreTypeOK, UsageKeys, RowInv, InsertFreeUsage,
       tables
  <2>3. EntityOK(r)'
    BY <1>4, <2>2 DEF IInv, TypeOK, EntityOK, InsertFreeUsage
  <2> QED
    BY <2>1, <2>3 DEF EntityInv
<1>5. ASSUME NEW r \in Requests, NEW o \in {"refused", "failed"},
             Rollback(r, o), pc[r] = "queued" \/ InTransaction(r)
      PROVE EntityInv'
  BY <1>5 DEF Rollback, ReleaseLocks, tables, locals, IInv, TypeOK,
     StoreTypeOK, LockInv, EntityInv, EntityOK, ChoiceInv, ChoiceOK, RowInv
<1>6. ASSUME NEW r \in Requests, DeductFree(r) PROVE EntityInv'
  BY <1>6 DEF DeductFree, storeVars, tables, locks, IInv, TypeOK, StoreTypeOK,
     LockInv, EntityInv, EntityOK, ChoiceInv, ChoiceOK, RowInv
<1>7. ASSUME NEW r \in Requests, FallBackToSubscription(r) PROVE EntityInv'
  <2>1. ASSUME NEW q \in Requests, q # r PROVE EntityOK(q)'
    BY <1>7, <2>1 DEF IInv, TypeOK, StoreTypeOK, LockInv, EntityInv, EntityOK,
       ChoiceInv, ChoiceOK, RowInv, FallBackToSubscription, storeVars, tables,
       locks, locals
  <2>2. freeUsed[Key(r)] = FreeLimit
    <3>1. /\ freeUsed[Key(r)] \in Nat
          /\ freeUsed[Key(r)] <= FreeLimit
      BY DEF IInv, TypeOK, StoreTypeOK, RowInv, UsageKeys
    <3>2. used[r] = freeUsed[Key(r)] /\ used[r] >= FreeLimit
      BY <1>7 DEF IInv, EntityInv, EntityOK, FallBackToSubscription
    <3> QED
      BY <3>1, <3>2
  <2>3. EntityOK(r)'
    BY <1>7, <2>2 DEF IInv, TypeOK, EntityOK, FallBackToSubscription,
       storeVars, tables, locals
  <2> QED
    BY <2>1, <2>3 DEF EntityInv
<1>8. ASSUME NEW r \in Requests, RankSubscriptions(r) PROVE EntityInv'
  BY <1>8 DEF RankSubscriptions, storeVars, tables, locks, IInv, TypeOK,
     StoreTypeOK, LockInv, EntityInv, EntityOK, ChoiceInv, ChoiceOK, RowInv
<1>9. ASSUME NEW r \in Requests, LockSubscription(r) PROVE EntityInv'
  BY <1>9 DEF LockSubscription, tables, IInv, TypeOK, StoreTypeOK, LockInv,
     EntityInv, EntityOK, ChoiceInv, ChoiceOK, RowInv
<1>10. ASSUME NEW r \in Requests, DeductSubscription(r) PROVE EntityInv'
  <2>1. ASSUME NEW q \in Requests, q # r PROVE EntityOK(q)'
    BY <1>10, <2>1 DEF IInv, TypeOK, StoreTypeOK, LockInv, EntityInv, EntityOK,
       ChoiceInv, ChoiceOK, RowInv, DeductSubscription, storeVars, tables, locks
  <2>2. IF subs[sub[r]].limit = Unlimited
          THEN left'[r] = Unlimited
          ELSE left'[r] = subs[sub[r]].remaining - 1 /\ left'[r] >= 0
    <3>1. /\ left[r] = subs[sub[r]].remaining
          /\ subs[sub[r]].limit = Unlimited =>
               subs[sub[r]].remaining = Unlimited
      BY <1>10 DEF IInv, EntityInv, EntityOK, ChoiceInv, ChoiceOK, RowInv,
         DeductSubscription
    <3>2. CASE subs[sub[r]].limit = Unlimited
      BY <1>10, <3>1, <3>2 DEF DeductSubscription
    <3>3. CASE subs[sub[r]].limit # Unlimited
      <4>1. left[r] > 0 /\ left'[r] = left[r] - 1
        BY <1>10, <3>3 DEF IInv, TypeOK, DeductSubscription
      <4>2. left[r] \in Nat \cup {0 - 1}
        BY DEF IInv, TypeOK, Quantity, Unlimited
      <4> QED
        BY <3>1, <3>3, <4>1, <4>2
    <3> QED
      BY <3>2, <3>3
  <2>3. freeUsed[Key(r)] = FreeLimit
    BY <1>10 DEF IInv, EntityInv, EntityOK, DeductSubscription
  <2>4. EntityOK(r)'
    BY <1>10, <2>2, <2>3 DEF IInv, TypeOK, EntityOK, DeductSubscription,
       storeVars, tables
  <2> QED
    BY <2>1, <2>4 DEF EntityInv
<1>11. ASSUME NEW r \in Requests, AskAi(r) PROVE EntityInv'
  BY <1>11 DEF AskAi, storeVars, tables, locks, locals, IInv, TypeOK,
     StoreTypeOK, LockInv, EntityInv, EntityOK, ChoiceInv, ChoiceOK, RowInv
<1>12. ASSUME NEW r \in Requests, CreateMessage(r) PROVE EntityInv'
  BY <1>12 DEF CreateMessage, storeVars, tables, locks, locals, IInv, TypeOK,
     StoreTypeOK, LockInv, EntityInv, EntityOK, ChoiceInv, ChoiceOK, RowInv
<1>13. ASSUME NEW r \in Requests, CreateLedgerRow(r) PROVE EntityInv'
  BY <1>13 DEF CreateLedgerRow, storeVars, tables, locks, locals, IInv, TypeOK,
     StoreTypeOK, LockInv, EntityInv, EntityOK, ChoiceInv, ChoiceOK, RowInv
<1>14. ASSUME NEW r \in Requests, Commit(r) PROVE EntityInv'
  <2>1. ASSUME NEW q \in Requests, q # r, HoldsFreeRow(q)
        PROVE  freeUsed'[Key(q)] = freeUsed[Key(q)]
    <3>1. Key(q) # Key(r)
      <4>1. freeLock[Key(q)] = q /\ freeLock[Key(r)] = r
        BY <1>14, <2>1 DEF IInv, LockInv, Commit
      <4> QED
        BY <2>1, <4>1
    <3>2. \/ freeUsed' = freeUsed
          \/ freeUsed' = [freeUsed EXCEPT ![Key(r)] = used[r]]
      BY <1>14 DEF Commit, Publish
    <3>3. Key(q) \in UsageKeys
      BY DEF IInv, TypeOK, UsageKeys
    <3> QED
      BY <3>1, <3>2, <3>3 DEF IInv, TypeOK, StoreTypeOK
  <2>2. ASSUME NEW q \in Requests, q # r, HoldsSubscription(q)
        PROVE  subs'[sub[q]] = subs[sub[q]]
    <3>1. sub[q] \in Subs /\ subLock[sub[q]] = q
      BY <2>2 DEF IInv, LockInv
    <3>2. CASE source[r] = "subscription"
      <4>1. subLock[sub[r]] = r
        BY <1>14, <3>2 DEF IInv, LockInv, Commit
      <4>2. subs' = [subs EXCEPT ![sub[r]].remaining = left[r]]
        BY <1>14, <3>2 DEF Commit, Publish
      <4> QED
        BY <2>2, <3>1, <4>1, <4>2 DEF IInv, TypeOK, StoreTypeOK
    <3>3. CASE source[r] = "free"
      BY <1>14, <3>3 DEF Commit, Publish
    <3> QED
      BY <1>14, <3>2, <3>3 DEF IInv, TypeOK, ChoiceInv, ChoiceOK, Commit
  <2>3. ASSUME NEW q \in Requests, q # r PROVE EntityOK(q)'
    <3>1. /\ pc'[q] = pc[q]
          /\ UNCHANGED <<user, month, used, source, sub, left>>
      BY <1>14, <2>3 DEF IInv, TypeOK, Commit, locals
    <3>2. EntityOK(q)
      BY DEF IInv, EntityInv
    <3> QED
      BY <2>1, <2>2, <2>3, <3>1, <3>2 DEF EntityOK
  <2>4. EntityOK(r)'
    BY <1>14 DEF IInv, TypeOK, StoreTypeOK, LockInv, EntityInv, EntityOK,
       ChoiceInv, ChoiceOK, RowInv, Commit
  <2> QED
    BY <2>3, <2>4 DEF EntityInv
<1>15. ASSUME NEW r \in Requests, Respond(r) PROVE EntityInv'
  BY <1>15 DEF Respond, storeVars, tables, locks, locals, IInv, TypeOK,
     StoreTypeOK, LockInv, EntityInv, EntityOK, ChoiceInv, ChoiceOK, RowInv
<1>16. ASSUME NEW r \in Requests, LoseAnswer(r) PROVE EntityInv'
  BY <1>16 DEF LoseAnswer, storeVars, tables, locks, locals, IInv, TypeOK,
     StoreTypeOK, LockInv, EntityInv, EntityOK, ChoiceInv, ChoiceOK, RowInv
<1>17. ASSUME Tick, UNCHANGED <<tables, locks, askVars>> PROVE EntityInv'
  BY <1>17 DEF Tick, tables, locks, askVars, locals, IInv, TypeOK, StoreTypeOK,
     LockInv, EntityInv, EntityOK, ChoiceInv, ChoiceOK, RowInv
<1>18. ASSUME UNCHANGED vars PROVE EntityInv'
  BY <1>18 DEF vars, storeVars, tables, locks, askVars, locals, IInv, TypeOK,
     StoreTypeOK, LockInv, EntityInv, EntityOK, ChoiceInv, ChoiceOK, RowInv
<1> QED
  BY <1>1, <1>2, <1>3, <1>4, <1>5, <1>6, <1>7, <1>8, <1>9, <1>10, <1>11, <1>12,
     <1>13, <1>14, <1>15, <1>16, <1>17, <1>18, StepCases

\* Every step keeps the choices of the requests.
LEMMA ChoiceStep == IInv /\ [Next]_vars => ChoiceInv'
<1> SUFFICES ASSUME IInv, [Next]_vars PROVE ChoiceInv'
  OBVIOUS
<1> USE DEF Key, HoldsFreeRow, HoldsSubscription, Deducted, Statements, InTransaction
<1>1. ASSUME NEW r \in Requests, Begin(r) PROVE ChoiceInv'
  BY <1>1 DEF Begin, storeVars, tables, locks, IInv, TypeOK, StoreTypeOK,
     ChoiceInv, ChoiceOK, StoredInv, StoredOK, Ended, Outcomes
<1>2. ASSUME NEW r \in Requests, LockFreeUsage(r) PROVE ChoiceInv'
  BY <1>2 DEF LockFreeUsage, tables, IInv, TypeOK, StoreTypeOK, ChoiceInv,
     ChoiceOK, StoredInv, StoredOK, Ended, Outcomes
<1>3. ASSUME NEW r \in Requests, MissFreeUsage(r) PROVE ChoiceInv'
  BY <1>3 DEF MissFreeUsage, storeVars, tables, locks, locals, IInv, TypeOK,
     StoreTypeOK, ChoiceInv, ChoiceOK, StoredInv, StoredOK, Ended, Outcomes
<1>4. ASSUME NEW r \in Requests, InsertFreeUsage(r) PROVE ChoiceInv'
  BY <1>4 DEF InsertFreeUsage, tables, IInv, TypeOK, StoreTypeOK, ChoiceInv,
     ChoiceOK, StoredInv, StoredOK, Ended, Outcomes
<1>5. ASSUME NEW r \in Requests, NEW o \in {"refused", "failed"},
             Rollback(r, o), pc[r] = "queued" \/ InTransaction(r)
      PROVE ChoiceInv'
  BY <1>5 DEF Rollback, ReleaseLocks, tables, locals, IInv, TypeOK,
     StoreTypeOK, ChoiceInv, ChoiceOK, StoredInv, StoredOK, Ended, Outcomes
<1>6. ASSUME NEW r \in Requests, DeductFree(r) PROVE ChoiceInv'
  BY <1>6 DEF DeductFree, storeVars, tables, locks, IInv, TypeOK, StoreTypeOK,
     ChoiceInv, ChoiceOK, StoredInv, StoredOK, Ended, Outcomes
<1>7. ASSUME NEW r \in Requests, FallBackToSubscription(r) PROVE ChoiceInv'
  BY <1>7 DEF FallBackToSubscription, storeVars, tables, locks, locals, IInv,
     TypeOK, StoreTypeOK, ChoiceInv, ChoiceOK, StoredInv, StoredOK, Ended,
     Outcomes
<1>8. ASSUME NEW r \in Requests, RankSubscriptions(r) PROVE ChoiceInv'
  <2>1. PICK q \in Rankings(user[r]) : ranking' = [ranking EXCEPT ![r] = q]
    BY <1>8 DEF IInv, TypeOK, StoreTypeOK, ChoiceInv, ChoiceOK, StoredInv,
       StoredOK, Ended, Outcomes, RankSubscriptions
  <2>2. \A i \in DOMAIN q : subs[q[i]].user = user[r]
    BY RankingsType
  <2> QED
    BY <1>8, <2>1, <2>2 DEF IInv, TypeOK, StoreTypeOK, ChoiceInv, ChoiceOK,
       StoredInv, StoredOK, Ended, Outcomes, RankSubscriptions, storeVars, tables,
       locks
<1>9. ASSUME NEW r \in Requests, LockSubscription(r) PROVE ChoiceInv'
  <2> DEFINE s == Head(ranking[r])
  <2>1. /\ s \in Subs
        /\ subs[s].user = user[r]
        /\ \A i \in DOMAIN Tail(ranking[r]) :
             subs[Tail(ranking[r])[i]].user = user[r]
    BY <1>9 DEF IInv, TypeOK, StoreTypeOK, ChoiceInv, ChoiceOK, StoredInv,
       StoredOK, Ended, Outcomes, LockSubscription
  <2>2. /\ pc[r] = "lockSubscription"
        /\ UNCHANGED <<subs, messages, user, source>>
    BY <1>9 DEF IInv, TypeOK, StoreTypeOK, ChoiceInv, ChoiceOK, StoredInv,
       StoredOK, Ended, Outcomes, LockSubscription, tables
  <2>3. \/ /\ sub' = [sub EXCEPT ![r] = s]
           /\ ranking' = [ranking EXCEPT ![r] = <<>>]
           /\ pc' = [pc EXCEPT ![r] = "deductSubscription"]
        \/ /\ ranking' = [ranking EXCEPT ![r] = Tail(ranking[r])]
           /\ sub' = sub /\ pc' = pc
    BY <1>9 DEF IInv, TypeOK, StoreTypeOK, ChoiceInv, ChoiceOK, StoredInv,
       StoredOK, Ended, Outcomes, LockSubscription
  <2> HIDE DEF s
  <2>4. ASSUME NEW q \in Requests, q # r PROVE ChoiceOK(q)'
    BY <2>2, <2>3, <2>4 DEF IInv, TypeOK, StoreTypeOK, ChoiceInv, ChoiceOK,
       StoredInv, StoredOK, Ended, Outcomes
  <2>5. ChoiceOK(r)'
    <3>1. /\ source[r] = "none" /\ sub[r] = Null /\ r \notin messages
          /\ \A i \in DOMAIN ranking[r] : subs[ranking[r][i]].user = user[r]
      BY <2>2 DEF IInv, TypeOK, ChoiceInv, ChoiceOK, StoredInv, StoredOK,
         Ended, Outcomes
    <3>2. CASE pc' = pc
      BY <2>1, <2>2, <2>3, <3>1, <3>2 DEF IInv, TypeOK, ChoiceOK
    <3>3. CASE sub' = [sub EXCEPT ![r] = s]
      BY <2>1, <2>2, <2>3, <3>1, <3>3 DEF IInv, TypeOK, ChoiceOK
    <3> QED
      BY <2>3, <3>2, <3>3
  <2> QED
    BY <2>4, <2>5 DEF ChoiceInv
<1>10. ASSUME NEW r \in Requests, DeductSubscription(r) PROVE ChoiceInv'
  BY <1>10 DEF DeductSubscription, storeVars, tables, locks, IInv, TypeOK,
     StoreTypeOK, ChoiceInv, ChoiceOK, StoredInv, StoredOK, Ended, Outcomes
<1>11. ASSUME NEW r \in Requests, AskAi(r) PROVE ChoiceInv'
  BY <1>11 DEF AskAi, storeVars, tables, locks, locals, IInv, TypeOK,
     StoreTypeOK, ChoiceInv, ChoiceOK, StoredInv, StoredOK, Ended, Outcomes
<1>12. ASSUME NEW r \in Requests, CreateMessage(r) PROVE ChoiceInv'
  BY <1>12 DEF CreateMessage, storeVars, tables, locks, locals, IInv, TypeOK,
     StoreTypeOK, ChoiceInv, ChoiceOK, StoredInv, StoredOK, Ended, Outcomes
<1>13. ASSUME NEW r \in Requests, CreateLedgerRow(r) PROVE ChoiceInv'
  BY <1>13 DEF CreateLedgerRow, storeVars, tables, locks, locals, IInv, TypeOK,
     StoreTypeOK, ChoiceInv, ChoiceOK, StoredInv, StoredOK, Ended, Outcomes
<1>14. ASSUME NEW r \in Requests, Commit(r) PROVE ChoiceInv'
  <2>1. \A s \in Subs : subs'[s].user = subs[s].user
    <3>1. \/ subs' = subs
          \/ subs' = [subs EXCEPT ![sub[r]].remaining = left[r]]
      BY <1>14 DEF Commit, Publish
    <3>2. subs \in [Subs -> SubscriptionRow]
      BY DEF IInv, TypeOK, StoreTypeOK
    <3> QED
      BY <3>1, <3>2 DEF SubscriptionRow
  <2>2. messages' \subseteq messages \cup {r}
    BY <1>14 DEF Commit, Publish
  <2>3. UNCHANGED <<user, source, sub, ranking>>
    BY <1>14 DEF Commit, locals
  <2>4. \A q \in Requests : \A i \in DOMAIN ranking[q] :
          ranking[q][i] \in Subs
    BY DEF IInv, TypeOK
  <2>5. ASSUME NEW q \in Requests, q # r PROVE ChoiceOK(q)'
    <3>1. pc'[q] = pc[q] /\ ChoiceOK(q) /\ sub[q] \in Subs \cup {Null}
      BY <1>14, <2>5 DEF IInv, TypeOK, ChoiceInv, Commit
    <3> QED
      BY <2>1, <2>2, <2>3, <2>4, <2>5, <3>1 DEF ChoiceOK, Ended, Outcomes
  <2>6. ChoiceOK(r)'
    <3>1. /\ pc[r] = "commit" /\ pc'[r] = "respond"
          /\ ChoiceOK(r) /\ sub[r] \in Subs \cup {Null}
      BY <1>14 DEF IInv, TypeOK, ChoiceInv, Commit
    <3> QED
      BY <2>1, <2>3, <2>4, <3>1 DEF ChoiceOK
  <2> QED
    BY <2>5, <2>6 DEF ChoiceInv
<1>15. ASSUME NEW r \in Requests, Respond(r) PROVE ChoiceInv'
  BY <1>15 DEF Respond, storeVars, tables, locks, locals, IInv, TypeOK,
     StoreTypeOK, ChoiceInv, ChoiceOK, StoredInv, StoredOK, Ended, Outcomes
<1>16. ASSUME NEW r \in Requests, LoseAnswer(r) PROVE ChoiceInv'
  BY <1>16 DEF LoseAnswer, storeVars, tables, locks, locals, IInv, TypeOK,
     StoreTypeOK, ChoiceInv, ChoiceOK, StoredInv, StoredOK, Ended, Outcomes
<1>17. ASSUME Tick, UNCHANGED <<tables, locks, askVars>> PROVE ChoiceInv'
  BY <1>17 DEF Tick, tables, locks, askVars, locals, IInv, TypeOK, StoreTypeOK,
     ChoiceInv, ChoiceOK, StoredInv, StoredOK, Ended, Outcomes
<1>18. ASSUME UNCHANGED vars PROVE ChoiceInv'
  BY <1>18 DEF vars, storeVars, tables, locks, askVars, locals, IInv, TypeOK,
     StoreTypeOK, ChoiceInv, ChoiceOK, StoredInv, StoredOK, Ended, Outcomes
<1> QED
  BY <1>1, <1>2, <1>3, <1>4, <1>5, <1>6, <1>7, <1>8, <1>9, <1>10, <1>11, <1>12,
     <1>13, <1>14, <1>15, <1>16, <1>17, <1>18, StepCases

\* Every step keeps messages, ledger and inserts in agreement.
LEMMA StoredStep == IInv /\ [Next]_vars => StoredInv'
<1> SUFFICES ASSUME IInv, [Next]_vars PROVE StoredInv'
  OBVIOUS
<1> USE DEF Key, HoldsFreeRow, HoldsSubscription, Deducted, Statements, InTransaction
<1>1. ASSUME NEW r \in Requests, Begin(r) PROVE StoredInv'
  BY <1>1 DEF Begin, storeVars, tables, locks, IInv, TypeOK, StoreTypeOK,
     ChoiceInv, ChoiceOK, StoredInv, StoredOK, RowOf
<1>2. ASSUME NEW r \in Requests, LockFreeUsage(r) PROVE StoredInv'
  BY <1>2 DEF LockFreeUsage, tables, IInv, TypeOK, StoreTypeOK, ChoiceInv,
     ChoiceOK, StoredInv, StoredOK, RowOf
<1>3. ASSUME NEW r \in Requests, MissFreeUsage(r) PROVE StoredInv'
  BY <1>3 DEF MissFreeUsage, storeVars, tables, locks, locals, IInv, TypeOK,
     StoreTypeOK, ChoiceInv, ChoiceOK, StoredInv, StoredOK, RowOf
<1>4. ASSUME NEW r \in Requests, InsertFreeUsage(r) PROVE StoredInv'
  BY <1>4 DEF InsertFreeUsage, tables, IInv, TypeOK, StoreTypeOK, ChoiceInv,
     ChoiceOK, StoredInv, StoredOK, RowOf
<1>5. ASSUME NEW r \in Requests, NEW o \in {"refused", "failed"},
             Rollback(r, o), pc[r] = "queued" \/ InTransaction(r)
      PROVE StoredInv'
  BY <1>5 DEF Rollback, ReleaseLocks, tables, locals, IInv, TypeOK,
     StoreTypeOK, ChoiceInv, ChoiceOK, StoredInv, StoredOK, RowOf
<1>6. ASSUME NEW r \in Requests, DeductFree(r) PROVE StoredInv'
  <2>1. r \notin messages
    BY <1>6 DEF IInv, StoredInv, StoredOK, DeductFree
  <2>2. \A q \in messages : RowOf(q)' = RowOf(q)
    BY <1>6, <2>1 DEF IInv, TypeOK, StoreTypeOK, RowOf, DeductFree
  <2>3. ledger' = {RowOf(q) : q \in messages}'
    BY <1>6, <2>2 DEF IInv, StoredInv, DeductFree, storeVars, tables
  <2>4. \A q \in Requests : StoredOK(q)'
    BY <1>6, <2>1 DEF IInv, TypeOK, StoredInv, StoredOK, DeductFree, storeVars, tables
  <2> QED
    BY <2>3, <2>4 DEF StoredInv
<1>7. ASSUME NEW r \in Requests, FallBackToSubscription(r) PROVE StoredInv'
  BY <1>7 DEF FallBackToSubscription, storeVars, tables, locks, locals, IInv,
     TypeOK, StoreTypeOK, ChoiceInv, ChoiceOK, StoredInv, StoredOK, RowOf
<1>8. ASSUME NEW r \in Requests, RankSubscriptions(r) PROVE StoredInv'
  BY <1>8 DEF RankSubscriptions, storeVars, tables, locks, IInv, TypeOK,
     StoreTypeOK, ChoiceInv, ChoiceOK, StoredInv, StoredOK, RowOf
<1>9. ASSUME NEW r \in Requests, LockSubscription(r) PROVE StoredInv'
  <2>1. r \notin messages
    BY <1>9 DEF IInv, StoredInv, StoredOK, LockSubscription
  <2>2. \A q \in messages : RowOf(q)' = RowOf(q)
    BY <1>9, <2>1 DEF IInv, TypeOK, StoreTypeOK, RowOf, LockSubscription
  <2>3. ledger' = {RowOf(q) : q \in messages}'
    BY <1>9, <2>2 DEF IInv, StoredInv, LockSubscription, tables
  <2>4. \A q \in Requests : StoredOK(q)'
    BY <1>9, <2>1 DEF IInv, TypeOK, StoredInv, StoredOK, LockSubscription, tables
  <2> QED
    BY <2>3, <2>4 DEF StoredInv
<1>10. ASSUME NEW r \in Requests, DeductSubscription(r) PROVE StoredInv'
  <2>1. r \notin messages
    BY <1>10 DEF IInv, StoredInv, StoredOK, DeductSubscription
  <2>2. \A q \in messages : RowOf(q)' = RowOf(q)
    BY <1>10, <2>1 DEF IInv, TypeOK, StoreTypeOK, RowOf, DeductSubscription
  <2>3. ledger' = {RowOf(q) : q \in messages}'
    BY <1>10, <2>2 DEF IInv, StoredInv, DeductSubscription, storeVars, tables
  <2>4. \A q \in Requests : StoredOK(q)'
    BY <1>10, <2>1 DEF IInv, TypeOK, StoredInv, StoredOK, DeductSubscription, storeVars, tables
  <2> QED
    BY <2>3, <2>4 DEF StoredInv
<1>11. ASSUME NEW r \in Requests, AskAi(r) PROVE StoredInv'
  BY <1>11 DEF AskAi, storeVars, tables, locks, locals, IInv, TypeOK,
     StoreTypeOK, ChoiceInv, ChoiceOK, StoredInv, StoredOK, RowOf
<1>12. ASSUME NEW r \in Requests, CreateMessage(r) PROVE StoredInv'
  BY <1>12 DEF CreateMessage, storeVars, tables, locks, locals, IInv, TypeOK,
     StoreTypeOK, ChoiceInv, ChoiceOK, StoredInv, StoredOK, RowOf
<1>13. ASSUME NEW r \in Requests, CreateLedgerRow(r) PROVE StoredInv'
  BY <1>13 DEF CreateLedgerRow, storeVars, tables, locks, locals, IInv, TypeOK,
     StoreTypeOK, ChoiceInv, ChoiceOK, StoredInv, StoredOK, RowOf
<1>14. ASSUME NEW r \in Requests, Commit(r) PROVE StoredInv'
  BY <1>14 DEF Commit, Publish, ReleaseLocks, locals, IInv, TypeOK,
     StoreTypeOK, ChoiceInv, ChoiceOK, StoredInv, StoredOK, RowOf
<1>15. ASSUME NEW r \in Requests, Respond(r) PROVE StoredInv'
  BY <1>15 DEF Respond, storeVars, tables, locks, locals, IInv, TypeOK,
     StoreTypeOK, ChoiceInv, ChoiceOK, StoredInv, StoredOK, RowOf
<1>16. ASSUME NEW r \in Requests, LoseAnswer(r) PROVE StoredInv'
  BY <1>16 DEF LoseAnswer, storeVars, tables, locks, locals, IInv, TypeOK,
     StoreTypeOK, ChoiceInv, ChoiceOK, StoredInv, StoredOK, RowOf
<1>17. ASSUME Tick, UNCHANGED <<tables, locks, askVars>> PROVE StoredInv'
  BY <1>17 DEF Tick, tables, locks, askVars, locals, IInv, TypeOK, StoreTypeOK,
     ChoiceInv, ChoiceOK, StoredInv, StoredOK, RowOf
<1>18. ASSUME UNCHANGED vars PROVE StoredInv'
  BY <1>18 DEF vars, storeVars, tables, locks, askVars, locals, IInv, TypeOK,
     StoreTypeOK, ChoiceInv, ChoiceOK, StoredInv, StoredOK, RowOf
<1> QED
  BY <1>1, <1>2, <1>3, <1>4, <1>5, <1>6, <1>7, <1>8, <1>9, <1>10, <1>11, <1>12,
     <1>13, <1>14, <1>15, <1>16, <1>17, <1>18, StepCases

-----------------------------------------------------------------------------

\* The invariant holds initially.
LEMMA InductiveInit == Init => IInv
<1> SUFFICES ASSUME Init PROVE IInv
  OBVIOUS
<1>1. TypeOK
  BY TypeInit
<1>2. LockInv
  BY DEF Init, StoreInit, AskInit, LockInv, HoldsFreeRow, HoldsSubscription,
     Deducted, Statements
<1>3. EntityInv
  BY DEF Init, StoreInit, AskInit, EntityInv, EntityOK, HoldsSubscription,
     Deducted
<1>4. ChoiceInv
  BY DEF Init, StoreInit, AskInit, ChoiceInv, ChoiceOK, Deducted
<1>5. StoredInv
  BY DEF Init, StoreInit, AskInit, StoredInv, StoredOK
<1>6. RowInv
  BY <1>1 DEF Init, StoreInit, RowInv, TypeOK, StoreTypeOK
<1> QED
  BY <1>1, <1>2, <1>3, <1>4, <1>5, <1>6 DEF IInv

\* IInv holds in every state: types, and the agreement of row locks, entities,
\* uncommitted inserts and committed tables, however requests interleave.
THEOREM Inductive == Spec => []IInv
<1>1. IInv /\ [Next]_vars => IInv'
  BY TypeStep, LockStep, EntityStep, ChoiceStep, StoredStep, RowStep DEF IInv
<1> QED
  BY InductiveInit, <1>1, PTL DEF Spec

\* Every variable keeps its type.
THEOREM TypeCorrect == Spec => []TypeOK
<1>1. IInv => TypeOK
  BY DEF IInv
<1> QED
  BY Inductive, <1>1, PTL

=============================================================================
