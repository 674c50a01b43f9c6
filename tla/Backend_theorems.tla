-------------------------- MODULE Backend_theorems --------------------------
(***************************************************************************)
(* The two inductive invariants survive each other's steps: a chat step    *)
(* changes nothing of a row but remaining_messages, and a writer changes   *)
(* no row that a chat transaction holds.                                   *)
(***************************************************************************)
EXTENDS Backend, AskQuestion_theorems, Billing_proofs

-----------------------------------------------------------------------------
(* Steps of the writers                                                    *)

\* A writer changes nothing of the store but rows of subscriptions.
LEMMA BillingFrame ==
  ASSUME BillingNext
  PROVE  UNCHANGED chatTables
BY BillingCases
DEF CreateSubscription, StartRun, ChargeAccepted, ChargeDeclined, LoadToRenew,
    LoadToDeactivate, EndRun, CheckCancel, LoadToCancel, Load, Compare, Save,
    FailWriter, storeVars, tables, chatTables, locks

\* A row that a transaction refers to keeps its owner and is still there; one
\* that it holds is not changed at all.
LEMMA ReferredRow ==
  ASSUME BackendInv, BillingNext, NEW s \in Subs, subs[s].status # "absent"
  PROVE  /\ subs'[s].user = subs[s].user
         /\ subs'[s].status # "absent"
         /\ subLock[s] # Null => subs'[s] = subs[s]
BY RowEffect DEF BackendInv, IInv, TypeOK

\* The steps of the writers keep the invariant of the chat transactions.
LEMMA BillingKeepsChat ==
  ASSUME BackendInv, BillingNext, UNCHANGED askVars
  PROVE  IInv' /\ HeldRowsInv'
<1> USE DEF BackendInv
<1>1. UNCHANGED <<freeRows, freeUsed, messages, ledger, freeLock, subLock>>
  BY BillingFrame DEF chatTables, locks
<1>2. UNCHANGED <<pc, user, month, used, source, ranking, sub, left, inserted>>
  BY DEF askVars, locals
<1>3. BillingInv' /\ StoreTypeOK'
  BY BillingStep DEF IInv, TypeOK
<1>4. TypeOK'
  BY <1>2, <1>3 DEF IInv, TypeOK
<1>5. LockInv'
  BY <1>1, <1>2 DEF IInv, LockInv, HoldsFreeRow, HoldsSubscription, Deducted,
     Key
<1>6. ASSUME NEW r \in Requests, sub[r] # Null
      PROVE  /\ sub[r] \in Subs
             /\ subs'[sub[r]].user = subs[sub[r]].user
             /\ subs'[sub[r]].status # "absent"
  <2>1. sub[r] \in Subs /\ subs[sub[r]].status # "absent"
    BY <1>6 DEF IInv, TypeOK, HeldRowsInv
  <2> QED
    BY <2>1, ReferredRow
<1>7. ASSUME NEW r \in Requests, HoldsSubscription(r)
      PROVE  subs'[sub[r]] = subs[sub[r]]
  <2>1. sub[r] \in Subs /\ subLock[sub[r]] = r
    BY <1>7 DEF IInv, LockInv
  <2>2. sub[r] # Null /\ subLock[sub[r]] # Null
    BY <2>1, NullAssumption
  <2>3. subs[sub[r]].status # "absent"
    BY <2>2 DEF HeldRowsInv
  <2> QED
    BY <2>1, <2>2, <2>3, ReferredRow
<1>8. ASSUME NEW r \in Requests, NEW i \in DOMAIN ranking[r]
      PROVE  /\ subs'[ranking[r][i]].user = subs[ranking[r][i]].user
             /\ subs'[ranking[r][i]].status # "absent"
  <2>1. ranking[r][i] \in Subs
    BY DEF IInv, TypeOK
  <2>2. subs[ranking[r][i]].status # "absent"
    BY DEF HeldRowsInv
  <2> QED
    BY <2>1, <2>2, ReferredRow
<1>9. EntityInv'
  <2> SUFFICES ASSUME NEW r \in Requests PROVE EntityOK(r)'
    BY DEF EntityInv
  <2>1. EntityOK(r)
    BY DEF IInv, EntityInv
  <2>2. HoldsSubscription(r)' <=> HoldsSubscription(r)
    BY <1>2 DEF HoldsSubscription, Deducted
  <2> QED
    BY <1>1, <1>2, <1>7, <2>1, <2>2
    DEF EntityOK, HoldsSubscription, Deducted, Key
<1>10. ChoiceInv'
  <2> SUFFICES ASSUME NEW r \in Requests PROVE ChoiceOK(r)'
    BY DEF ChoiceInv
  <2>1. ChoiceOK(r)
    BY DEF IInv, ChoiceInv
  <2> QED
    BY <1>1, <1>2, <1>6, <1>8, <2>1 DEF ChoiceOK, Deducted, Ended
<1>11. StoredInv'
  BY <1>1, <1>2 DEF IInv, StoredInv, StoredOK, RowOf
<1>12. RowInv'
  <2>1. \A s \in Subs : subs'[s].limit = Unlimited
                          <=> subs'[s].remaining = Unlimited
    <3> SUFFICES ASSUME NEW s \in Subs
                 PROVE  subs'[s].limit = Unlimited
                          <=> subs'[s].remaining = Unlimited
      OBVIOUS
    <3>1. subs'[s].limit \in Quantity /\ WithinAllotment(subs[s])'
      BY <1>3 DEF StoreTypeOK, SubscriptionRow, BillingInv, AllotmentInv
    <3> QED
      BY <3>1 DEF WithinAllotment, Quantity, Unlimited
  <2>2. \A key \in UsageKeys : /\ key \notin freeRows' => freeUsed'[key] = 0
                               /\ freeUsed'[key] <= FreeLimit
    BY <1>1 DEF IInv, RowInv
  <2> QED
    BY <2>1, <2>2 DEF RowInv
<1>13. HeldRowsInv'
  <2> SUFFICES ASSUME NEW r \in Requests
               PROVE  /\ sub'[r] # Null => subs'[sub'[r]].status # "absent"
                      /\ \A i \in DOMAIN ranking'[r] :
                           subs'[ranking'[r][i]].status # "absent"
                      /\ HoldsSubscription(r)' =>
                           subs'[sub'[r]].status = "active"
    BY DEF HeldRowsInv
  <2>1. HoldsSubscription(r)' <=> HoldsSubscription(r)
    BY <1>2 DEF HoldsSubscription, Deducted
  <2>2. HoldsSubscription(r) => subs[sub[r]].status = "active"
    BY DEF HeldRowsInv
  <2> QED
    BY <1>2, <1>6, <1>7, <1>8, <2>1, <2>2
<1> QED
  BY <1>4, <1>5, <1>9, <1>10, <1>11, <1>12, <1>13 DEF IInv

-----------------------------------------------------------------------------
(* Steps of the chat transactions                                          *)

\* A chat step changes nothing of a row but remaining_messages, and keeps it
\* within the allotment.
LEMMA ChatRow ==
  ASSUME IInv, [Next]_vars, NEW s \in Subs
  PROVE  /\ subs'[s].user = subs[s].user
         /\ subs'[s].status = subs[s].status
         /\ subs'[s].limit = subs[s].limit
         /\ subs'[s].endDate = subs[s].endDate
         /\ subs'[s].autoRenew = subs[s].autoRenew
         /\ WithinAllotment(subs[s]) => WithinAllotment(subs[s])'
<1>1. subs \in [Subs -> SubscriptionRow] /\ subs[s] \in SubscriptionRow
  BY DEF IInv, TypeOK, StoreTypeOK
<1>2. CASE subs'[s] = subs[s]
  BY <1>2 DEF WithinAllotment
<1>3. ASSUME NEW r \in Requests, Commit(r), subs'[s] # subs[s]
      PROVE  /\ subs'[s] = [subs[s] EXCEPT !.remaining = left[r]]
             /\ IF subs[s].limit = Unlimited
                  THEN left[r] = subs[s].remaining
                  ELSE left[r] = subs[s].remaining - 1 /\ left[r] >= 0
  <2>1. sub[r] = s
    BY <1>1, <1>3, CommitEffect
  <2> QED
    BY <1>1, <1>3, <2>1, CommitEffect
<1>4. ASSUME NEW n, subs'[s] = [subs[s] EXCEPT !.remaining = n],
             IF subs[s].limit = Unlimited
               THEN n = subs[s].remaining
               ELSE n = subs[s].remaining - 1 /\ n >= 0
      PROVE  /\ subs'[s].user = subs[s].user
             /\ subs'[s].status = subs[s].status
             /\ subs'[s].limit = subs[s].limit
             /\ subs'[s].endDate = subs[s].endDate
             /\ subs'[s].autoRenew = subs[s].autoRenew
             /\ WithinAllotment(subs[s]) => WithinAllotment(subs[s])'
  <2>1. /\ subs'[s].user = subs[s].user
        /\ subs'[s].status = subs[s].status
        /\ subs'[s].limit = subs[s].limit
        /\ subs'[s].endDate = subs[s].endDate
        /\ subs'[s].autoRenew = subs[s].autoRenew
        /\ subs'[s].remaining = n
    BY <1>1, <1>4 DEF SubscriptionRow
  <2>2. subs[s].limit \in Quantity
    BY <1>1 DEF SubscriptionRow
  <2> QED
    BY <1>4, <2>1, <2>2 DEF WithinAllotment, Quantity, Unlimited
<1>5. subs'[s] # subs[s] => \E r \in Requests : Commit(r)
  BY TablesChangeAtCommit DEF tables
<1> QED
  BY <1>2, <1>3, <1>4, <1>5

\* The steps of the chat transactions keep the invariant of the writers.
LEMMA ChatKeepsBilling ==
  ASSUME BackendInv, [Next]_vars, UNCHANGED billingVars
  PROVE  BillingInv'
<1> USE DEF BackendInv, BillingInv
<1>1. UNCHANGED <<step, due, order, entity, changed, charged, failures>>
  BY DEF billingVars
<1>2. BillingTypeOK' /\ StepInv'
  BY <1>1 DEF BillingTypeOK, StepInv, HasEntity
<1>3. ASSUME NEW w \in Writers, HasEntity(w)
      PROVE  Target(w) \in Subs
  BY <1>3, TargetType DEF HasEntity
<1>4. \A w \in Writers : /\ Target(w)' = Target(w)
                         /\ HasEntity(w)' <=> HasEntity(w)
  BY <1>1 DEF Target, HasEntity
<1>5. RowsKept'
  <2>1. ASSUME NEW j \in Runs, NEW i \in DOMAIN due[j]
        PROVE  subs'[due[j][i].id].status # "absent"
    <3>1. due[j][i] \in DueRow
      BY DEF BillingTypeOK
    <3> QED
      BY <3>1, ChatRow DEF RowsKept, DueRow
  <2>2. ASSUME NEW c \in Cancels, step[c] \in {"checked", "loaded", "saving"}
        PROVE  subs'[order[c].id].status # "absent"
    BY <2>2, ChatRow DEF RowsKept, BillingTypeOK
  <2>3. ASSUME NEW w \in Writers, HasEntity(w)
        PROVE  /\ entity[w].status # "absent"
               /\ entity[w].user = subs'[Target(w)].user
               /\ entity[w].limit = subs'[Target(w)].limit
    BY <1>3, <2>3, ChatRow DEF RowsKept
  <2> QED
    BY <1>1, <1>4, <2>1, <2>2, <2>3 DEF RowsKept
<1>6. AllotmentInv'
  <2>1. \A s \in Subs : WithinAllotment(subs[s])'
    BY ChatRow DEF AllotmentInv
  <2>2. \A w \in Writers : HasEntity(w) => WithinAllotment(entity[w])'
    BY <1>1 DEF AllotmentInv, WithinAllotment
  <2> QED
    BY <1>4, <2>1, <2>2 DEF AllotmentInv
<1>7. PeriodInv'
  <2>1. ASSUME NEW s \in Subs
        PROVE  Ends(s)' = Ends(s) /\ subs'[s].status = subs[s].status
    BY <1>1, <1>4, ChatRow DEF Ends
  <2>2. ASSUME NEW s \in Subs, NEW b
        PROVE  Paid(s, b)' <=> Paid(s, b)
    BY <1>1 DEF Paid
  <2>3. ASSUME NEW j \in Runs, step'[j] = "charged"
        PROVE  charged'[<<Target(j), Head(due[j]).endDate>>'] > 0
    <3>1. charged[<<Target(j), Head(due[j]).endDate>>] > 0
      BY <1>1, <2>3 DEF PeriodInv
    <3>2. Target(j)' = Target(j) /\ Head(due[j])' = Head(due[j])
      BY <1>1, <1>4 DEF Writers
    <3> QED
      BY <1>1, <3>1, <3>2
  <2> QED
    BY <2>1, <2>2, <2>3 DEF PeriodInv
<1> QED
  BY <1>2, <1>5, <1>6, <1>7

\* A request's ranking after a step is what it was, less its head, or is
\* empty, or has just been read from the table.
LEMMA RankingCases ==
  ASSUME IInv, [Next]_vars, NEW r \in Requests
  PROVE  \/ ranking'[r] = ranking[r]
         \/ ranking[r] # <<>> /\ ranking'[r] = Tail(ranking[r])
         \/ ranking'[r] = <<>>
         \/ ranking'[r] \in Rankings(user[r])
<1> USE DEF IInv, TypeOK
<1>1. ASSUME NEW q \in Requests, RankSubscriptions(q)
      PROVE  ranking'[r] = ranking[r] \/ ranking'[r] \in Rankings(user[r])
  BY <1>1 DEF RankSubscriptions
<1>2. ASSUME NEW q \in Requests, LockSubscription(q)
      PROVE  \/ ranking'[r] = ranking[r]
             \/ ranking[r] # <<>> /\ ranking'[r] = Tail(ranking[r])
             \/ ranking'[r] = <<>>
  BY <1>2 DEF LockSubscription
<1>3. \/ ranking' = ranking
      \/ \E q \in Requests : RankSubscriptions(q) \/ LockSubscription(q)
  BY StepCases
  DEF vars, askVars, locals, Begin, LockFreeUsage, MissFreeUsage,
      InsertFreeUsage, DeductFree, FallBackToSubscription, DeductSubscription,
      AskAi, CreateMessage, CreateLedgerRow, Commit, Respond, LoseAnswer,
      Rollback
<1> QED
  BY <1>1, <1>2, <1>3

\* A request refers to the subscription it did, or has just locked one that
\* it found active.
LEMMA HeldCases ==
  ASSUME BackendInv, [Next]_vars, NEW r \in Requests
  PROVE  \/ /\ sub'[r] = sub[r]
            /\ HoldsSubscription(r)' => HoldsSubscription(r)
         \/ sub'[r] \in Subs /\ subs[sub'[r]].status = "active"
<1> USE DEF BackendInv, IInv, TypeOK
<1>1. ASSUME NEW q \in Requests, LockSubscription(q)
      PROVE  \/ /\ sub'[r] = sub[r]
                /\ HoldsSubscription(r)' => HoldsSubscription(r)
             \/ sub'[r] \in Subs /\ subs[sub'[r]].status = "active"
  <2>1. Head(ranking[q]) \in Subs
    BY <1>1 DEF LockSubscription
  <2>2. CASE r # q \/ subs[Head(ranking[q])].status # "active"
    <3>1. sub'[r] = sub[r] /\ pc'[r] = pc[r] /\ source' = source
      BY <1>1, <2>2 DEF LockSubscription
    <3> QED
      BY <3>1 DEF HoldsSubscription, Deducted
  <2>3. CASE r = q /\ subs[Head(ranking[q])].status = "active"
    <3>1. sub'[r] = Head(ranking[q])
      BY <1>1, <2>3 DEF LockSubscription
    <3> QED
      BY <2>1, <2>3, <3>1
  <2> QED
    BY <2>2, <2>3
<1>2. ASSUME NEW q \in Requests,
             \/ Begin(q) \/ LockFreeUsage(q) \/ MissFreeUsage(q)
             \/ InsertFreeUsage(q) \/ DeductFree(q)
             \/ FallBackToSubscription(q) \/ RankSubscriptions(q)
             \/ DeductSubscription(q)
      PROVE  sub'[r] = sub[r] /\ (HoldsSubscription(r)' => HoldsSubscription(r))
  BY <1>2 DEF Begin, LockFreeUsage, MissFreeUsage, InsertFreeUsage, DeductFree,
     FallBackToSubscription, RankSubscriptions, DeductSubscription, locals,
     HoldsSubscription, Deducted
<1>3. ASSUME NEW q \in Requests,
             \/ AskAi(q) \/ CreateMessage(q) \/ CreateLedgerRow(q) \/ Commit(q)
             \/ Respond(q) \/ LoseAnswer(q)
             \/ \E o \in {"refused", "failed"} : Rollback(q, o)
      PROVE  sub'[r] = sub[r] /\ (HoldsSubscription(r)' => HoldsSubscription(r))
  BY <1>3 DEF AskAi, CreateMessage, CreateLedgerRow, Commit, Respond,
     LoseAnswer, Rollback, locals, HoldsSubscription, Deducted
<1>4. CASE UNCHANGED askVars
  BY <1>4 DEF askVars, locals, HoldsSubscription, Deducted
<1> QED
  BY <1>1, <1>2, <1>3, <1>4, StepCases DEF vars

\* The chat's own steps keep the rows that it refers to.
LEMMA HeldRowsStep ==
  ASSUME BackendInv, [Next]_vars
  PROVE  HeldRowsInv'
<1> USE DEF BackendInv
<1> SUFFICES ASSUME NEW r \in Requests
             PROVE  /\ sub'[r] # Null => subs'[sub'[r]].status # "absent"
                    /\ \A i \in DOMAIN ranking'[r] :
                         subs'[ranking'[r][i]].status # "absent"
                    /\ HoldsSubscription(r)' =>
                         subs'[sub'[r]].status = "active"
  BY DEF HeldRowsInv
<1>1. \A s \in Subs : subs'[s].status = subs[s].status
  BY ChatRow
<1>2. sub[r] \in Subs \cup {Null} /\ ranking[r] \in Seq(Subs)
  BY DEF IInv, TypeOK
<1>3. sub'[r] # Null => subs'[sub'[r]].status # "absent"
  BY <1>1, <1>2, HeldCases DEF HeldRowsInv
<1>4. HoldsSubscription(r)' => subs'[sub'[r]].status = "active"
  BY <1>1, <1>2, HeldCases DEF HeldRowsInv, IInv, LockInv
<1>5. ASSUME NEW i \in DOMAIN ranking'[r]
      PROVE  subs'[ranking'[r][i]].status # "absent"
  <2>1. \A k \in DOMAIN ranking[r] : ranking[r][k] \in Subs
    BY <1>2
  <2>2. CASE ranking'[r] = ranking[r]
    BY <1>1, <1>5, <2>1, <2>2 DEF HeldRowsInv
  <2>3. CASE ranking[r] # <<>> /\ ranking'[r] = Tail(ranking[r])
    <3>1. i + 1 \in DOMAIN ranking[r] /\ ranking'[r][i] = ranking[r][i + 1]
      BY <1>2, <1>5, <2>3, HeadAndTail
    <3> QED
      BY <1>1, <2>1, <3>1 DEF HeldRowsInv
  <2>4. CASE ranking'[r] = <<>>
    BY <1>5, <2>4
  <2>5. CASE ranking'[r] \in Rankings(user[r])
    <3>1. ranking'[r][i] \in Candidates(user[r])
      BY <1>5, <2>5 DEF Rankings
    <3> QED
      BY <1>1, <3>1 DEF Candidates
  <2> QED
    BY <2>2, <2>3, <2>4, <2>5, RankingCases DEF IInv
<1> QED
  BY <1>3, <1>4, <1>5

-----------------------------------------------------------------------------
(* The inductive invariant                                                 *)

\* The invariant of the composition holds in every state: the theorems below
\* read off it.
THEOREM BackendInductive == BackendSpec => []BackendInv
<1>1. BackendInit => BackendInv
  <2> SUFFICES ASSUME BackendInit PROVE BackendInv
    OBVIOUS
  <2>1. IInv
    BY InductiveInit DEF BackendInit
  <2>2. BillingInv
    BY BillingInitInv DEF BackendInit, Init
  <2>3. HeldRowsInv
    BY DEF BackendInit, Init, AskInit, HeldRowsInv, HoldsSubscription, Deducted
  <2> QED
    BY <2>1, <2>2, <2>3 DEF BackendInv
<1>2. BackendInv /\ [BackendNext]_backendVars => BackendInv'
  <2> SUFFICES ASSUME BackendInv, [BackendNext]_backendVars PROVE BackendInv'
    OBVIOUS
  <2>1. CASE BillingNext /\ UNCHANGED askVars
    <3>1. BillingInv'
      BY <2>1, BillingStep DEF BackendInv, IInv, TypeOK
    <3> QED
      BY <2>1, <3>1, BillingKeepsChat DEF BackendInv
  <2>2. CASE [Next]_vars /\ UNCHANGED billingVars
    <3>1. IInv'
      BY <2>2, TypeStep, LockStep, EntityStep, ChoiceStep, StoredStep, RowStep
      DEF BackendInv, IInv
    <3> QED
      BY <2>2, <3>1, ChatKeepsBilling, HeldRowsStep DEF BackendInv
  <2>3. CASE UNCHANGED backendVars
    BY <2>2, <2>3 DEF backendVars, vars
  <2> QED
    BY <2>1, <2>2, <2>3 DEF BackendNext, Next
<1> QED
  BY <1>1, <1>2, PTL DEF BackendSpec

-----------------------------------------------------------------------------
(* The safety properties                                                   *)

\* No interleaving of saves and deductions takes the counter of a bundle out
\* of zero to the allotment.
THEOREM RemainingSafe == BackendSpec => []RemainingWithinAllotment
<1>1. BackendInv => RemainingWithinAllotment
  BY DEF BackendInv, BillingInv, AllotmentInv, WithinAllotment,
     RemainingWithinAllotment
<1> QED
  BY BackendInductive, <1>1, PTL

\* A charge commits while its subscription is still active, however long the
\* AI provider took and whoever cancelled in the meantime.
THEOREM ActiveWhenCharged == BackendSpec => ChargesOnlyActive
<1>1. BackendInv /\ [BackendNext]_backendVars =>
        [\A r \in Requests :
           /\ pc[r] = "commit"
           /\ pc'[r] = "respond"
           /\ source[r] = "subscription"
           => subs[sub[r]].status = "active"]_backendVars
  BY DEF BackendInv, HeldRowsInv, HoldsSubscription, Deducted
<1> QED
  BY BackendInductive, <1>1, PTL DEF BackendSpec, ChargesOnlyActive

\* No save of a stale entity moves an end forward by a period that the
\* gateway has not charged for.
THEOREM OnlyPaidPeriods == BackendSpec => ExtendsOnlyPaidPeriods
<1> DEFINE Extends(s) == /\ subs[s].status # "absent"
                         /\ subs'[s].endDate > subs[s].endDate
<1>1. ASSUME BackendInv, [BackendNext]_backendVars, NEW s \in Subs, Extends(s)
      PROVE  Paid(s, subs'[s].endDate)
  <2>1. BillingNext
    <3>1. subs[s].endDate \in Nat
      BY <1>1 DEF BackendInv, IInv, TypeOK, StoreTypeOK, SubscriptionRow
    <3>2. ASSUME [Next]_vars PROVE FALSE
      <4>1. subs'[s].endDate = subs[s].endDate
        BY <1>1, <3>2, ChatRow DEF BackendInv
      <4> QED
        BY <1>1, <3>1, <4>1
    <3> QED
      BY <1>1, <3>2 DEF BackendNext, backendVars, vars, Next
  <2>2. subs'[s].endDate \in Ends(s)' /\ subs[s].endDate \in Ends(s)
    BY DEF Ends
  <2>3. CASE subs'[s].endDate \in Ends(s)
    BY <1>1, <2>2, <2>3 DEF BackendInv, BillingInv, PeriodInv
  <2>4. ASSUME NEW x \in Periods, subs'[s].endDate = x + CycleLength,
               charged[<<s, x>>] > 0
        PROVE  Paid(s, subs'[s].endDate)
    <3>1. subs'[s].endDate - CycleLength = x
      BY <2>4, CycleAssumption DEF Periods
    <3> QED
      BY <2>4, <3>1 DEF Paid
  <2> QED
    BY <1>1, <2>1, <2>2, <2>3, <2>4, EndsStep DEF BackendInv, IInv, TypeOK
<1>2. BackendInv /\ [BackendNext]_backendVars =>
        [\A s \in Subs :
           subs[s].status # "absent" /\ subs'[s].endDate > subs[s].endDate
           => LET paid == subs'[s].endDate - CycleLength
              IN paid \in Periods /\ charged[<<s, paid>>] > 0]_backendVars
  BY <1>1 DEF Paid
<1> QED
  BY BackendInductive, <1>2, PTL DEF BackendSpec, ExtendsOnlyPaidPeriods

\* A cancel request has one thing in mind.
CancelInv == \A c \in Cancels : HasEntity(c) => entity[c].status = "cancelled"

\* A billing step that takes a subscription out of "cancelled" is the save of
\* a run that works on it.
LEMMA RunsUndoCancellations ==
  ASSUME BackendInv, CancelInv, BillingNext, NEW s \in Subs,
         subs[s].status = "cancelled", subs'[s].status # "cancelled"
  PROVE  \E j \in Runs : Save(j) /\ Target(j) = s
<1>1. subs \in [Subs -> SubscriptionRow]
  BY DEF BackendInv, IInv, TypeOK, StoreTypeOK
<1>2. ASSUME NEW t \in Subs, CreateSubscription(t) PROVE FALSE
  BY <1>1, <1>2 DEF CreateSubscription
<1>3. PICK w \in Writers : Save(w)
  <2>1. subs' # subs
    OBVIOUS
  <2> QED
    BY <1>2, <2>1, BillingCases
    DEF CheckCancel, LoadToCancel, Load, StartRun, ChargeAccepted,
        ChargeDeclined, LoadToRenew, LoadToDeactivate, EndRun, Compare,
        FailWriter, storeVars, tables
<1>4. HasEntity(w) /\ step[w] = "saving"
  BY <1>3 DEF Save, HasEntity
<1>5. Target(w) \in Subs /\ entity[w] \in SubscriptionRow
  BY <1>4, TargetType
  DEF BackendInv, BillingInv, StepInv, BillingTypeOK, HasEntity
<1>6. Target(w) = s /\ subs'[s] = Updated(w)
  BY <1>1, <1>3, <1>5 DEF Save
<1>7. Updated(w).status \in {subs[s].status, entity[w].status}
  BY <1>1, <1>5, <1>6, UpdatedRow
<1>8. w \notin Cancels
  BY <1>4, <1>6, <1>7 DEF CancelInv
<1> QED
  BY <1>3, <1>6, <1>8 DEF Writers

LEMMA CancelStep ==
  ASSUME BackendInv, CancelInv, BillingNext
  PROVE  CancelInv'
<1> SUFFICES ASSUME NEW c \in Cancels, HasEntity(c)'
             PROVE  entity'[c].status = "cancelled"
  BY DEF CancelInv
<1> USE DEF HasEntity
<1>1. /\ step \in [Writers -> Steps]
      /\ entity \in [Writers -> SubscriptionRow \cup {Null}]
      /\ c \in Writers /\ c \notin Runs
      /\ subs \in [Subs -> SubscriptionRow]
      /\ order[c].id \in Subs
  BY WritersAssumption
  DEF BackendInv, BillingInv, BillingTypeOK, Writers, IInv, TypeOK, StoreTypeOK
<1>2. CASE LoadToCancel(c)
  <2>1. entity'[c] = [subs[order[c].id] EXCEPT !.autoRenew = FALSE,
                                               !.status = "cancelled"]
    BY <1>1, <1>2 DEF LoadToCancel, Load
  <2>2. subs[order[c].id] \in SubscriptionRow
    BY <1>1
  <2> QED
    BY <2>1, <2>2 DEF SubscriptionRow
<1>3. CASE ~ LoadToCancel(c)
  <2>1. HasEntity(c) /\ entity'[c] = entity[c]
    BY <1>1, <1>3, BillingCases
    DEF CreateSubscription, billingVars, CheckCancel, LoadToCancel, Load,
        StartRun, ChargeAccepted, ChargeDeclined, LoadToRenew,
        LoadToDeactivate, EndRun, Compare, Save, Saved, FailWriter
  <2> QED
    BY <2>1 DEF CancelInv
<1> QED
  BY <1>2, <1>3

\* Some run still has the subscription before it.
Listed(s) == \E j \in Runs : \E i \in DOMAIN due[j] : due[j][i].id = s

\* The row is cancelled by this step.
CancelsRow(s) ==
  subs[s].status # "cancelled" /\ subs'[s].status = "cancelled"

\* Only active rows get on the list of a run.
LEMMA ListsGrow ==
  ASSUME BackendInv, BillingNext, NEW s \in Subs, Listed(s)'
  PROVE  Listed(s) \/ (subs' = subs /\ subs[s].status = "active")
<1>1. due \in [Runs -> Seq(DueRow)]
  BY DEF BackendInv, BillingInv, BillingTypeOK
<1>2. PICK j \in Runs : \E i \in DOMAIN due'[j] : due'[j][i].id = s
  BY DEF Listed
<1>3. ASSUME NEW k \in Runs, StartRun(k)
      PROVE  Listed(s) \/ (subs' = subs /\ subs[s].status = "active")
  <2>1. CASE k # j
    <3>1. due'[j] = due[j]
      BY <1>1, <1>3, <2>1 DEF StartRun
    <3> QED
      BY <1>2, <3>1 DEF Listed
  <2>2. CASE k = j
    <3>1. PICK q \in DueLists :
            due' = [due EXCEPT ![j] = [i \in DOMAIN q |->
                      [id |-> q[i], endDate |-> subs[q[i]].endDate]]]
      BY <1>3, <2>2 DEF StartRun
    <3>2. \A i \in DOMAIN q : q[i] \in DueNow
      BY DEF DueLists
    <3>3. due'[j] = [i \in DOMAIN q |->
                      [id |-> q[i], endDate |-> subs[q[i]].endDate]]
      BY <1>1, <3>1
    <3>4. s \in DueNow
      BY <1>2, <3>2, <3>3
    <3> QED
      BY <1>3, <3>4 DEF DueNow, IsDue, StartRun, storeVars, tables
  <2> QED
    BY <2>1, <2>2
<1>4. ASSUME NEW w \in Writers, Save(w)
      PROVE  Listed(s)
  <2>1. due'[j] = IF j = w THEN Tail(due[j]) ELSE due[j]
    BY <1>4 DEF Save, Saved
  <2>2. due[j] \in Seq(DueRow)
    BY <1>1
  <2>3. CASE j = w
    <3>1. PICK i \in DOMAIN Tail(due[j]) : Tail(due[j])[i].id = s
      BY <1>2, <2>1, <2>3
    <3>2. due[j] # <<>>
      BY <1>4, <2>3 DEF Save, BackendInv, BillingInv, StepInv
    <3>3. i + 1 \in DOMAIN due[j] /\ due[j][i + 1] = Tail(due[j])[i]
      BY <2>2, <3>1, <3>2
    <3> QED
      BY <3>1, <3>3 DEF Listed
  <2>4. CASE j # w
    BY <1>2, <2>1, <2>4 DEF Listed
  <2> QED
    BY <2>3, <2>4
<1>5. ASSUME NEW w \in Writers, FailWriter(w)
      PROVE  Listed(s)
  <2>1. due'[j] = IF j = w THEN <<>> ELSE due[j]
    BY <1>5 DEF FailWriter
  <2> QED
    BY <1>2, <2>1 DEF Listed
<1>6. CASE due' = due
  BY <1>2, <1>6 DEF Listed
<1> QED
  BY <1>3, <1>4, <1>5, <1>6, BillingCases
  DEF CreateSubscription, billingVars, CheckCancel, LoadToCancel, Load,
      ChargeAccepted, ChargeDeclined, LoadToRenew, LoadToDeactivate, EndRun,
      Compare

\* A cancellation that commits while no run has the subscription on its list
\* stands for good: against later runs, chat transactions, other cancel
\* requests with old entities, and failures.  Those that a run undoes, the
\* finding, are the ones that commit between its list and its save.
THEOREM CancellationStandsOffLists ==
  BackendSpec
    /\ [][\A s \in Subs : CancelsRow(s) => ~ Listed(s)]_backendVars
  => CancellationStands
<1> DEFINE OffLists ==
             \A s \in Subs : subs[s].status = "cancelled" => ~ Listed(s)
<1>1. BackendInit => CancelInv /\ OffLists
  BY DEF BackendInit, BillingInit, CancelInv, HasEntity, Writers, Listed
<1>2. BackendInv /\ CancelInv /\ [BackendNext]_backendVars => CancelInv'
  <2>1. CASE UNCHANGED billingVars
    BY <2>1 DEF CancelInv, HasEntity, billingVars
  <2> QED
    BY <2>1, CancelStep DEF BackendNext, backendVars
<1>3. ASSUME BackendInv, OffLists, [BackendNext]_backendVars,
             [\A s \in Subs : CancelsRow(s) => ~ Listed(s)]_backendVars
      PROVE  OffLists'
  <2> SUFFICES ASSUME NEW s \in Subs, subs'[s].status = "cancelled", Listed(s)'
               PROVE  FALSE
    OBVIOUS
  <2>1. ~ Listed(s)
    BY <1>3 DEF CancelsRow, backendVars, storeVars, tables
  <2>2. CASE BillingNext
    BY <1>3, <2>1, <2>2, ListsGrow
  <2>3. CASE UNCHANGED billingVars
    BY <2>1, <2>3 DEF Listed, billingVars
  <2> QED
    BY <1>3, <2>2, <2>3 DEF BackendNext, backendVars
<1>4. BackendInv /\ CancelInv /\ OffLists /\ [BackendNext]_backendVars =>
        [\A s \in Subs : subs[s].status = "cancelled" =>
                          subs'[s].status = "cancelled"]_backendVars
  <2> SUFFICES ASSUME BackendInv, CancelInv, OffLists,
                      [BackendNext]_backendVars,
                      NEW s \in Subs, subs[s].status = "cancelled"
               PROVE  subs'[s].status = "cancelled"
    OBVIOUS
  <2>1. CASE BillingNext
    <3> SUFFICES ASSUME subs'[s].status # "cancelled" PROVE FALSE
      OBVIOUS
    <3>1. PICK j \in Runs : Save(j) /\ Target(j) = s
      BY <2>1, RunsUndoCancellations
    <3>2. due[j] # <<>> /\ due[j] \in Seq(DueRow)
      BY <3>1 DEF Save, BackendInv, BillingInv, StepInv, BillingTypeOK
    <3>3. 1 \in DOMAIN due[j] /\ due[j][1].id = s
      BY <3>1, <3>2 DEF Target
    <3> QED
      BY <3>3 DEF Listed
  <2>2. CASE [Next]_vars
    BY <2>2, ChatRow DEF BackendInv
  <2> QED
    BY <2>1, <2>2 DEF BackendNext, backendVars, vars, Next
<1> QED
  BY BackendInductive, <1>1, <1>2, <1>3, <1>4, PTL
  DEF BackendSpec, CancellationStands

-----------------------------------------------------------------------------
(* What the chat promises, kept beside the writers                         *)

\* No writer touches the free counters or the ledger.
LEMMA AlwaysFreeAccounted == BackendSpec => []FreeAccounted
<1>1. BackendInit => FreeAccounted
  BY AccountedInit DEF BackendInit, Accounted
<1>2. BackendInv /\ FreeAccounted /\ [BackendNext]_backendVars
        => FreeAccounted'
  <2> SUFFICES ASSUME BackendInv, FreeAccounted, [BackendNext]_backendVars
               PROVE  FreeAccounted'
    OBVIOUS
  <2>1. CASE [Next]_vars
    BY <2>1, FreeAccountedStep DEF BackendInv
  <2>2. CASE BillingNext /\ UNCHANGED askVars
    <3>1. UNCHANGED <<freeUsed, ledger, month>>
      BY <2>2, BillingFrame DEF chatTables, askVars, locals
    <3>2. \A key \in UsageKeys : FreeCharges(key)' = FreeCharges(key)
      BY <3>1 DEF FreeCharges
    <3> QED
      BY <3>1, <3>2 DEF FreeAccounted
  <2> QED
    BY <2>1, <2>2 DEF BackendNext, Next, backendVars, vars
<1> QED
  BY BackendInductive, <1>1, <1>2, PTL DEF BackendSpec

\* Renewals, cancellations and new subscriptions leave the free quota alone:
\* it is never overspent and counts its ledger rows.
THEOREM FreeQuotaSafeInBackend == BackendSpec => []FreeQuotaNeverOverspent
<1>1. BackendInv /\ FreeAccounted => FreeQuotaNeverOverspent
  BY FreeCounted DEF BackendInv
<1> QED
  BY BackendInductive, AlwaysFreeAccounted, <1>1, PTL

\* A message is stored exactly when one ledger row charges it, also while the
\* charged row is being renewed or cancelled.
THEOREM StoredInBackend == BackendSpec => []ChargedIffStored
<1>1. BackendInv => ChargedIffStored
  BY StoredWhenCharged DEF BackendInv
<1> QED
  BY BackendInductive, <1>1, PTL

\* No save moves a charged subscription to another user.
THEOREM AskerInBackend == BackendSpec => []ChargedToTheAsker
<1>1. BackendInv => ChargedToTheAsker
  BY AskerWhenCharged DEF BackendInv
<1> QED
  BY BackendInductive, <1>1, PTL

\* Saves wait for row locks and never leave one behind.
THEOREM LocksReleasedInBackend == BackendSpec => []NoOrphanLock
<1>1. BackendInv => NoOrphanLock
  BY HoldersAreOpen DEF BackendInv
<1> QED
  BY BackendInductive, <1>1, PTL

\* The writers take rows and their locks from the chat, never its place: each
\* statement of a request takes it nearer its end beside them too.
THEOREM ProgressInBackend == BackendSpec => NearerTheEnd
<1>1. BackendInv /\ [BackendNext]_backendVars =>
        [\A r \in Requests :
           \/ StatementsLeft(r)' < StatementsLeft(r)
           \/ UNCHANGED <<pc[r], ranking[r]>>]_vars
  <2> SUFFICES ASSUME BackendInv, [BackendNext]_backendVars, NEW r \in Requests
               PROVE  \/ StatementsLeft(r)' < StatementsLeft(r)
                      \/ UNCHANGED <<pc[r], ranking[r]>>
    OBVIOUS
  <2>1. CASE [Next]_vars
    BY <2>1, StepIsNearer DEF BackendInv
  <2>2. CASE UNCHANGED askVars
    BY <2>2 DEF askVars, locals
  <2> QED
    BY <2>1, <2>2 DEF BackendNext, Next, backendVars, vars
<1> QED
  BY BackendInductive, <1>1, PTL DEF BackendSpec, NearerTheEnd

-----------------------------------------------------------------------------
(* What a bundle lacks beside the writers                                  *)

\* What a row or an entity lacks of its allotment has been charged.
Explained(row, s) ==
  row.limit # Unlimited =>
    row.limit - row.remaining <= Cardinality(LedgerOf(s))

\* It is so of every row, and of every copy that may yet be saved over it.
ExplainedInv ==
  /\ \A s \in Subs : Explained(subs[s], s)
  /\ \A w \in Writers : HasEntity(w) => Explained(entity[w], Target(w))

\* The ledger only grows, and with it what was charged to each bundle.
LEMMA ChargesGrow ==
  ASSUME BackendInv, FreeAccounted, FreeAccounted', [BackendNext]_backendVars,
         NEW s \in Subs
  PROVE  /\ Cardinality(LedgerOf(s)) \in Nat
         /\ Cardinality(LedgerOf(s)') \in Nat
         /\ Cardinality(LedgerOf(s)) <= Cardinality(LedgerOf(s)')
<1>1. ledger \subseteq ledger'
  <2>1. CASE BillingNext
    BY <2>1, BillingFrame DEF chatTables
  <2>2. CASE [Next]_vars
    <3>1. CASE \E r \in Requests : Commit(r)
      BY <3>1, CommitEffect DEF BackendInv
    <3>2. CASE \A r \in Requests : ~ Commit(r)
      BY <2>2, <3>2, TablesChangeAtCommit DEF BackendInv, tables
    <3> QED
      BY <3>1, <3>2
  <2> QED
    BY <2>1, <2>2 DEF BackendNext, Next, backendVars, vars
<1>2. LedgerOf(s) \in SUBSET ledger /\ LedgerOf(s)' \in SUBSET ledger'
  BY DEF LedgerOf
<1>3. LedgerOf(s) \in SUBSET (LedgerOf(s)')
  BY <1>1 DEF LedgerOf
<1>4. IsFiniteSet(LedgerOf(s)) /\ IsFiniteSet(LedgerOf(s)')
  BY <1>2, FS_Subset DEF FreeAccounted
<1> QED
  BY <1>3, <1>4, FS_CardinalityType, FS_Subset

\* A billing step leaves a counter as it is, sets it to the allotment, or
\* saves that of an entity.
LEMMA SavedCounter ==
  ASSUME BackendInv, BillingNext, NEW s \in Subs
  PROVE  \/ /\ subs'[s].remaining = subs[s].remaining
            /\ subs'[s].limit = subs[s].limit
         \/ subs'[s].remaining = subs'[s].limit
         \/ \E w \in Writers : /\ HasEntity(w) /\ Target(w) = s
                               /\ subs'[s].limit = entity[w].limit
                               /\ subs'[s].remaining = entity[w].remaining
<1>1. subs \in [Subs -> SubscriptionRow]
  BY DEF BackendInv, IInv, TypeOK, StoreTypeOK
<1>2. CASE subs'[s] = subs[s]
  BY <1>2
<1>3. ASSUME NEW t \in Subs, CreateSubscription(t), subs'[s] # subs[s]
      PROVE  subs'[s].remaining = subs'[s].limit
  <2>1. PICK body \in NewRows :
          subs' = [subs EXCEPT ![t] =
                    [user |-> body.user, status |-> "active",
                     limit |-> body.limit, remaining |-> body.limit,
                     endDate |-> now + CycleLength,
                     autoRenew |-> body.autoRenew]]
    BY <1>3 DEF CreateSubscription
  <2>2. s = t
    BY <1>1, <1>3, <2>1
  <2> DEFINE row == [user |-> body.user, status |-> "active",
                     limit |-> body.limit, remaining |-> body.limit,
                     endDate |-> now + CycleLength,
                     autoRenew |-> body.autoRenew]
  <2>3. subs'[s] = row
    BY <1>1, <2>1, <2>2
  <2>4. row.remaining = row.limit
    OBVIOUS
  <2> QED
    BY <2>3, <2>4
<1>4. ASSUME NEW w \in Writers, Save(w), subs'[s] # subs[s]
      PROVE  /\ HasEntity(w) /\ Target(w) = s
             /\ subs'[s].limit = subs[s].limit
             /\ subs[s].limit = entity[w].limit
             /\ subs'[s].remaining \in {subs[s].remaining, entity[w].remaining}
  <2>1. HasEntity(w)
    BY <1>4 DEF Save, HasEntity
  <2>2. subs' = [subs EXCEPT ![Target(w)] = Updated(w)]
    BY <1>4 DEF Save
  <2>3. Target(w) = s /\ subs'[s] = Updated(w)
    BY <1>1, <1>4, <2>2
  <2>4. entity[w].limit = subs[s].limit
    BY <2>1, <2>3 DEF BackendInv, BillingInv, RowsKept
  <2>5. /\ Updated(w).limit = subs[s].limit
        /\ Updated(w).remaining \in {subs[s].remaining, entity[w].remaining}
    BY <1>1, <2>3 DEF Updated, SubscriptionRow
  <2> QED
    BY <2>1, <2>3, <2>4, <2>5
<1>5. \/ subs' = subs
      \/ \E t \in Subs : CreateSubscription(t)
      \/ \E w \in Writers : Save(w)
  BY BillingCases
  DEF CheckCancel, LoadToCancel, Load, StartRun, ChargeAccepted,
      ChargeDeclined, LoadToRenew, LoadToDeactivate, EndRun, Compare,
      FailWriter, storeVars, tables
<1> QED
  BY <1>2, <1>3, <1>4, <1>5

\* A charge explains itself, an entity is read from an explained row or has its
\* whole allotment, and what is explained once stays so.
LEMMA ExplainedStep ==
  ASSUME BackendInv, FreeAccounted, FreeAccounted', ExplainedInv,
         [BackendNext]_backendVars
  PROVE  ExplainedInv'
<1> DEFINE count(s) == Cardinality(LedgerOf(s))
<1>1. /\ subs \in [Subs -> SubscriptionRow]
      /\ \A s \in Subs : subs[s].limit \in Int /\ subs[s].remaining \in Int
  <2>1. subs \in [Subs -> SubscriptionRow]
    BY DEF BackendInv, IInv, TypeOK, StoreTypeOK
  <2> QED
    BY <2>1 DEF SubscriptionRow, Quantity, Unlimited
<1>2. \A s \in Subs : /\ count(s) \in Nat /\ count(s)' \in Nat
                      /\ count(s) <= count(s)'
  BY ChargesGrow
<1>3. \A w \in Writers : HasEntity(w) => /\ Target(w) \in Subs
                                         /\ entity[w].limit \in Int
                                         /\ entity[w].remaining \in Int
  <2> SUFFICES ASSUME NEW w \in Writers, HasEntity(w)
               PROVE  /\ Target(w) \in Subs
                      /\ entity[w].limit \in Int
                      /\ entity[w].remaining \in Int
    OBVIOUS
  <2>1. Target(w) \in Subs
    BY TargetType DEF BackendInv, BillingInv, HasEntity
  <2>2. entity[w] \in SubscriptionRow
    BY DEF BackendInv, BillingInv, BillingTypeOK, StepInv
  <2> QED
    BY <2>1, <2>2 DEF SubscriptionRow, Quantity, Unlimited
<1> HIDE DEF count
<1>4. CASE BillingNext /\ UNCHANGED askVars
  <2>1. ASSUME NEW s \in Subs PROVE Explained(subs[s], s)'
    <3>1. CASE /\ subs'[s].remaining = subs[s].remaining
               /\ subs'[s].limit = subs[s].limit
      BY <1>1, <1>2, <3>1 DEF ExplainedInv, Explained, count
    <3>2. CASE subs'[s].remaining = subs'[s].limit
      <4>1. subs'[s].limit \in Int
        <5>1. StoreTypeOK'
          BY <1>4, BillingStep DEF BackendInv, IInv, TypeOK
        <5> QED
          BY <5>1 DEF StoreTypeOK, SubscriptionRow, Quantity, Unlimited
      <4> QED
        BY <1>2, <3>2, <4>1 DEF Explained, count
    <3>3. ASSUME NEW w \in Writers, HasEntity(w), Target(w) = s,
                 subs'[s].limit = entity[w].limit,
                 subs'[s].remaining = entity[w].remaining
          PROVE  Explained(subs[s], s)'
      <4>1. Explained(entity[w], s)
        BY <3>3 DEF ExplainedInv
      <4> QED
        BY <1>2, <1>3, <3>3, <4>1 DEF Explained, count
    <3> QED
      BY <1>4, <3>1, <3>2, <3>3, SavedCounter
  <2>2. ASSUME NEW w \in Writers, HasEntity(w)'
        PROVE  Explained(entity[w], Target(w))'
    <3>1. Target(w)' = Target(w) /\ Target(w) \in Subs
      BY <1>4, <2>2, EntityCases DEF BackendInv, IInv, TypeOK
    <3>2. CASE HasEntity(w) /\ entity'[w] = entity[w]
      <4>1. Explained(entity[w], Target(w))
        BY <3>2 DEF ExplainedInv
      <4> QED
        BY <1>2, <1>3, <3>1, <3>2, <4>1 DEF Explained, count
    <3>3. CASE /\ entity'[w].limit = subs[Target(w)].limit
               /\ entity'[w].remaining \in
                    {subs[Target(w)].remaining, subs[Target(w)].limit}
      <4>1. Explained(subs[Target(w)], Target(w))
        BY <3>1 DEF ExplainedInv
      <4> QED
        BY <1>1, <1>2, <3>1, <3>3, <4>1 DEF Explained, count
    <3> QED
      BY <1>4, <2>2, <3>2, <3>3, EntityCases DEF BackendInv, IInv, TypeOK
  <2> QED
    BY <2>1, <2>2 DEF ExplainedInv
<1>5. CASE [Next]_vars /\ UNCHANGED billingVars
  <2>1. ASSUME NEW s \in Subs PROVE Explained(subs[s], s)'
    <3>1. Explained(subs[s], s)
      BY DEF ExplainedInv
    <3>2. CASE subs'[s] = subs[s]
      BY <1>1, <1>2, <3>1, <3>2 DEF Explained, count
    <3>3. ASSUME NEW r \in Requests, Commit(r), subs'[s] # subs[s]
          PROVE  Explained(subs[s], s)'
      <4>1. /\ sub[r] = s /\ source[r] = "subscription"
            /\ subs' = [subs EXCEPT ![s].remaining = left[r]]
            /\ subs[s].limit # Unlimited => left[r] = subs[s].remaining - 1
        BY <1>1, <3>3, CommitEffect DEF BackendInv
      <4>2. /\ subs'[s].limit = subs[s].limit
            /\ subs'[s].remaining = left[r]
        BY <1>1, <4>1 DEF SubscriptionRow
      <4>3. count(s)' = count(s) + 1
        <5>1. RowOf(r) \notin ledger /\ ledger' = ledger \cup {RowOf(r)}
          BY <3>3, CommitEffect DEF BackendInv
        <5>2. LedgerOf(s)' = LedgerOf(s) \cup {RowOf(r)}
          BY <4>1, <5>1 DEF LedgerOf, RowOf
        <5>3. LedgerOf(s) \in SUBSET ledger
          BY DEF LedgerOf
        <5>4. IsFiniteSet(LedgerOf(s)) /\ RowOf(r) \notin LedgerOf(s)
          BY <5>1, <5>3, FS_Subset DEF FreeAccounted
        <5> QED
          BY <5>2, <5>4, FS_AddElement DEF count
      <4> QED
        BY <1>1, <1>2, <3>1, <4>1, <4>2, <4>3 DEF Explained, count
    <3>4. subs'[s] # subs[s] => \E r \in Requests : Commit(r)
      BY <1>5, TablesChangeAtCommit DEF BackendInv, tables
    <3> QED
      BY <3>2, <3>3, <3>4
  <2>2. ASSUME NEW w \in Writers, HasEntity(w)'
        PROVE  Explained(entity[w], Target(w))'
    <3>1. HasEntity(w) /\ entity'[w] = entity[w] /\ Target(w)' = Target(w)
      BY <1>5, <2>2 DEF billingVars, HasEntity, Target
    <3>2. Explained(entity[w], Target(w))
      BY <3>1 DEF ExplainedInv
    <3> QED
      BY <1>2, <1>3, <3>1, <3>2 DEF Explained, count
  <2> QED
    BY <2>1, <2>2 DEF ExplainedInv
<1>6. CASE UNCHANGED backendVars
  BY <1>5, <1>6 DEF backendVars, vars
<1> QED
  BY <1>4, <1>5, <1>6 DEF BackendNext, Next

\* However old the entities that cancellations and renewals save, no user is
\* charged for a message that was not asked: what SubscriptionSafe says of chat
\* alone, refund_on_cancel refutes beside the writers in one direction only.
THEOREM NeverOverchargedInBackend == BackendSpec => []NeverOvercharged
<1>1. BackendInit => ExplainedInv
  <2> SUFFICES ASSUME BackendInit PROVE ExplainedInv
    OBVIOUS
  <2>1. \A s \in Subs : LedgerOf(s) = {}
    BY DEF BackendInit, Init, StoreInit, LedgerOf
  <2>2. \A s \in Subs : subs[s].limit \in Int /\ subs[s].remaining = subs[s].limit
    BY RowsAssumption
    DEF BackendInit, Init, StoreInit, SubscriptionRow, Quantity, Unlimited
  <2>3. \A w \in Writers : ~ HasEntity(w)
    BY DEF BackendInit, BillingInit, HasEntity
  <2> QED
    BY <2>1, <2>2, <2>3, FS_EmptySet DEF ExplainedInv, Explained
<1>2. BackendInv /\ FreeAccounted /\ FreeAccounted' /\ ExplainedInv
        /\ [BackendNext]_backendVars => ExplainedInv'
  BY ExplainedStep
<1>3. ExplainedInv => NeverOvercharged
  BY DEF ExplainedInv, Explained, NeverOvercharged
<1> QED
  BY BackendInductive, AlwaysFreeAccounted, <1>1, <1>2, <1>3, PTL DEF BackendSpec

-----------------------------------------------------------------------------
(* Deadlock beside the writers                                             *)

\* A bundle that a request has locked is the one it charges, or one that it
\* has skipped: then it is not active and does not come up again.
LockedOK(s) ==
  LET r == subLock[s]
  IN /\ subs[s].status # "absent"
     /\ subs[s].user = user[r]
     /\ \/ HoldsSubscription(r) /\ sub[r] = s
        \/ /\ HoldsSubscription(r) \/ pc[r] = "lockSubscription"
           /\ subs[s].status # "active"
           /\ \A i \in DOMAIN ranking[r] : ranking[r][i] # s

RankedOnce(r) ==
  pc[r] = "lockSubscription" =>
    \A i, j \in DOMAIN ranking[r] : i < j => ranking[r][i] # ranking[r][j]

LockedInv ==
  /\ \A s \in Subs : subLock[s] # Null => LockedOK(s)
  /\ \A r \in Requests : RankedOnce(r)

\* A row that stays as it is stays locked as it was, if its holder does.
LEMMA LockedKept ==
  ASSUME LockedInv, NEW s \in Subs, subLock'[s] # Null,
         subLock'[s] = subLock[s],
         subs'[s].user = subs[s].user, subs'[s].status = subs[s].status,
         UNCHANGED <<user[subLock[s]], sub[subLock[s]], ranking[subLock[s]]>>,
         HoldsSubscription(subLock[s])' <=> HoldsSubscription(subLock[s]),
         pc'[subLock[s]] = "lockSubscription"
           <=> pc[subLock[s]] = "lockSubscription"
  PROVE  LockedOK(s)'
<1> DEFINE r == subLock[s]
<1>1. LockedOK(s)
  BY DEF LockedInv
<1>2. r' = r /\ (HoldsSubscription(subLock[s])' <=> HoldsSubscription(r))
  OBVIOUS
<1> QED
  BY <1>1, <1>2 DEF LockedOK

\* A chat step locks the row at the head of a ranking, which it has not locked
\* before, or leaves the locks of open transactions as they are.
LEMMA LockedStep ==
  ASSUME BackendInv, LockedInv, [Next]_vars
  PROVE  LockedInv'
<1>1. user' = user
  BY ChatRows DEF BackendInv
<1>2. /\ TypeOK /\ subLock \in [Subs -> Requests \cup {Null}]
      /\ ranking \in [Requests -> Seq(Subs)]
  BY DEF BackendInv, IInv, TypeOK, StoreTypeOK
<1>3. \A s \in Subs : /\ subs'[s].user = subs[s].user
                      /\ subs'[s].status = subs[s].status
  BY ChatRow DEF BackendInv
<1>4. ASSUME UNCHANGED <<ranking, sub, subLock>>,
             \A q \in Requests :
               /\ pc'[q] = "lockSubscription" <=> pc[q] = "lockSubscription"
               /\ HoldsSubscription(q)' <=> HoldsSubscription(q)
      PROVE  LockedInv'
  <2>1. ASSUME NEW s \in Subs, subLock'[s] # Null PROVE LockedOK(s)'
    <3>1. subLock[s] \in Requests /\ subLock'[s] = subLock[s]
      BY <1>2, <1>4, <2>1
    <3>2. HoldsSubscription(subLock[s])' <=> HoldsSubscription(subLock[s])
      BY <1>4, <3>1 DEF HoldsSubscription, Deducted
    <3> QED
      BY <1>1, <1>3, <1>4, <2>1, <3>1, <3>2, LockedKept
  <2> QED
    BY <1>4, <2>1 DEF LockedInv, RankedOnce
<1>5. ASSUME NEW r \in Requests, Elsewhere(r) PROVE LockedInv'
  <2>1. ASSUME NEW q \in Requests
        PROVE  /\ pc'[q] = "lockSubscription" <=> pc[q] = "lockSubscription"
               /\ HoldsSubscription(q)' <=> HoldsSubscription(q)
    BY <1>2, <1>5, ElsewhereFrame DEF HoldsSubscription, Deducted
  <2> QED
    BY <1>2, <1>4, <1>5, <2>1, ElsewhereFrame
<1>6. ASSUME NEW r \in Requests, RankSubscriptions(r) PROVE LockedInv'
  <2>1. PICK q \in Rankings(user[r]) : ranking' = [ranking EXCEPT ![r] = q]
    BY <1>6 DEF RankSubscriptions
  <2>2. /\ pc[r] = "rankSubscriptions" /\ ~ HoldsSubscription(r)
        /\ pc' = [pc EXCEPT ![r] = "lockSubscription"]
        /\ sub' = sub /\ source' = source /\ subLock' = subLock
    BY <1>6 DEF RankSubscriptions, storeVars, locks, HoldsSubscription, Deducted
  <2>3. ASSUME NEW p \in Requests \ {r}
        PROVE  /\ ranking'[p] = ranking[p] /\ pc'[p] = pc[p]
               /\ HoldsSubscription(p)' <=> HoldsSubscription(p)
    BY <1>2, <2>1, <2>2 DEF TypeOK, HoldsSubscription, Deducted
  <2>4. ASSUME NEW s \in Subs, subLock'[s] # Null PROVE LockedOK(s)'
    <3>1. subLock[s] \in Requests /\ subLock[s] # r
      BY <1>2, <2>2, <2>4 DEF LockedInv, LockedOK
    <3>2. HoldsSubscription(subLock[s])' <=> HoldsSubscription(subLock[s])
      BY <2>2, <2>3, <3>1 DEF HoldsSubscription, Deducted
    <3> QED
      BY <1>1, <1>3, <2>2, <2>3, <2>4, <3>1, <3>2, LockedKept
  <2>5. RankedOnce(r)'
    BY <1>2, <2>1 DEF RankedOnce, Rankings
  <2>6. \A p \in Requests \ {r} : RankedOnce(p)'
    BY <2>3 DEF RankedOnce, LockedInv
  <2> QED
    BY <2>4, <2>5, <2>6 DEF LockedInv
<1>7. ASSUME NEW r \in Requests, LockSubscription(r) PROVE LockedInv'
  <2>0. PICK s \in Subs : s = Head(ranking[r])
    BY <1>2, <1>7, HeadAndTail DEF LockSubscription
  <2>1. /\ pc[r] = "lockSubscription" /\ ~ HoldsSubscription(r)
        /\ ranking[r] # <<>> /\ ranking[r] \in Seq(Subs)
        /\ subLock' = [subLock EXCEPT ![s] = r]
        /\ source' = source
    BY <1>2, <1>7, <2>0 DEF LockSubscription, HoldsSubscription, Deducted
  <2>2. /\ s \in Subs /\ s = ranking[r][1] /\ 1 \in DOMAIN ranking[r]
        /\ subs[s].user = user[r] /\ subs[s].status # "absent"
    <3>1. s \in Subs /\ s = ranking[r][1] /\ 1 \in DOMAIN ranking[r]
      BY <2>0, <2>1, HeadAndTail
    <3> QED
      BY <3>1 DEF BackendInv, IInv, ChoiceInv, ChoiceOK, HeldRowsInv
  <2>3. ASSUME NEW p \in Requests \ {r}
        PROVE  /\ ranking'[p] = ranking[p] /\ sub'[p] = sub[p]
               /\ pc'[p] = pc[p]
               /\ HoldsSubscription(p)' <=> HoldsSubscription(p)
    BY <1>2, <1>7 DEF LockSubscription, TypeOK, HoldsSubscription, Deducted
  <2>4. \/ /\ subs[s].status = "active"
           /\ HoldsSubscription(r)' /\ pc'[r] = "deductSubscription"
           /\ sub'[r] = s /\ ranking'[r] = <<>>
        \/ /\ subs[s].status # "active"
           /\ pc'[r] = "lockSubscription" /\ sub' = sub
           /\ ranking'[r] = Tail(ranking[r])
    BY <1>2, <1>7, <2>0 DEF LockSubscription, TypeOK, HoldsSubscription
  <2>5. /\ ranking'[r] \in Seq(Subs)
        /\ \A i \in DOMAIN ranking'[r] :
             /\ i + 1 \in DOMAIN ranking[r] /\ i \in Nat \ {0}
             /\ ranking'[r][i] = ranking[r][i + 1]
    <3>1. CASE ranking'[r] = <<>>
      BY <3>1
    <3>2. CASE ranking'[r] = Tail(ranking[r])
      <4>1. /\ ranking'[r] \in Seq(Subs)
            /\ \A i \in DOMAIN ranking'[r] :
                 i + 1 \in DOMAIN ranking[r]
                   /\ ranking'[r][i] = ranking[r][i + 1]
        BY <2>1, <3>2, HeadAndTail
      <4> QED
        BY <4>1
    <3> QED
      BY <2>4, <3>1, <3>2
  <2>6. ASSUME NEW i \in DOMAIN ranking'[r] PROVE ranking'[r][i] # s
    <3>1. 1 < i + 1 /\ i + 1 \in DOMAIN ranking[r]
      BY <2>5
    <3>2. ranking[r][1] # ranking[r][i + 1]
      BY <2>1, <2>2, <3>1 DEF LockedInv, RankedOnce
    <3> QED
      BY <2>2, <2>5, <3>2
  <2>7. RankedOnce(r)'
    <3> SUFFICES ASSUME NEW i \in DOMAIN ranking'[r],
                        NEW j \in DOMAIN ranking'[r], i < j
                 PROVE  ranking'[r][i] # ranking'[r][j]
      BY DEF RankedOnce
    <3>1. /\ i + 1 \in DOMAIN ranking[r] /\ j + 1 \in DOMAIN ranking[r]
          /\ i + 1 < j + 1
      BY <2>5
    <3>2. ranking[r][i + 1] # ranking[r][j + 1]
      BY <2>1, <3>1 DEF LockedInv, RankedOnce
    <3> QED
      BY <2>5, <3>2
  <2>8. \A p \in Requests \ {r} : RankedOnce(p)'
    BY <2>3 DEF RankedOnce, LockedInv
  <2>9. LockedOK(s)'
    <3>1. subLock'[s] = r /\ user'[r] = user[r]
      BY <1>1, <1>2, <2>1, <2>2
    <3>2. subs'[s].status = subs[s].status /\ subs'[s].user = user[r]
      BY <1>3, <2>2
    <3>3. CASE HoldsSubscription(r)' /\ sub'[r] = s
      <4>1. HoldsSubscription(subLock[s])'
        BY <3>1, <3>3 DEF HoldsSubscription, Deducted
      <4> QED
        BY <1>1, <2>2, <3>1, <3>2, <3>3, <4>1 DEF LockedOK
    <3>4. CASE subs[s].status # "active" /\ pc'[r] = "lockSubscription"
      BY <1>1, <2>2, <2>6, <3>1, <3>2, <3>4 DEF LockedOK
    <3> QED
      BY <2>4, <3>3, <3>4
  <2>10. ASSUME NEW t \in Subs \ {s}, subLock'[t] # Null PROVE LockedOK(t)'
    <3>1. subLock'[t] = subLock[t] /\ subLock[t] \in Requests
      BY <1>2, <2>1, <2>10
    <3>2. CASE subLock[t] # r
      <4>1. HoldsSubscription(subLock[t])' <=> HoldsSubscription(subLock[t])
        BY <2>3, <3>1, <3>2 DEF HoldsSubscription, Deducted
      <4> QED
        BY <1>1, <1>3, <2>3, <2>10, <3>1, <3>2, <4>1, LockedKept
    <3>3. CASE subLock[t] = r
      <4>1. /\ subs[t].status # "absent" /\ subs[t].user = user[r]
            /\ subs[t].status # "active"
            /\ \A i \in DOMAIN ranking[r] : ranking[r][i] # t
        BY <2>1, <2>10, <3>1, <3>3 DEF LockedInv, LockedOK
      <4>2. \A i \in DOMAIN ranking'[r] : ranking'[r][i] # t
        BY <2>5, <4>1
      <4>3. subLock'[t] = r
        BY <3>1, <3>3
      <4>4. HoldsSubscription(subLock[t])' \/ pc'[r] = "lockSubscription"
        BY <2>4, <4>3 DEF HoldsSubscription, Deducted
      <4> QED
        BY <1>1, <1>3, <4>1, <4>2, <4>3, <4>4 DEF LockedOK
    <3> QED
      BY <3>2, <3>3
  <2> QED
    BY <2>7, <2>8, <2>9, <2>10 DEF LockedInv
<1>8. ASSUME NEW r \in Requests, DeductSubscription(r) PROVE LockedInv'
  <2>1. /\ pc[r] = "deductSubscription"
        /\ pc' = [pc EXCEPT ![r] = "askAi"]
        /\ source' = [source EXCEPT ![r] = "subscription"]
        /\ UNCHANGED <<ranking, sub, subLock>>
    BY <1>8 DEF DeductSubscription, storeVars, locks
  <2> QED
    BY <1>2, <1>4, <2>1 DEF TypeOK, HoldsSubscription, Deducted
<1>9. ASSUME NEW r \in Requests, ReleaseLocks(r), UNCHANGED locals,
             NEW o \in States \ Statements, pc' = [pc EXCEPT ![r] = o]
      PROVE  LockedInv'
  <2>1. ranking' = ranking /\ sub' = sub /\ source' = source
    BY <1>9 DEF locals
  <2>2. ASSUME NEW q \in Requests \ {r}
        PROVE  /\ pc'[q] = pc[q]
               /\ HoldsSubscription(q)' <=> HoldsSubscription(q)
    BY <1>2, <1>9, <2>1 DEF TypeOK, HoldsSubscription, Deducted
  <2>3. pc'[r] # "lockSubscription"
    BY <1>2, <1>9 DEF TypeOK, States, Statements
  <2>4. ASSUME NEW s \in Subs, subLock'[s] # Null PROVE LockedOK(s)'
    <3>1. subLock'[s] = subLock[s] /\ subLock[s] \in Requests \ {r}
      BY <1>2, <1>9, <2>4 DEF ReleaseLocks
    <3>2. HoldsSubscription(subLock[s])' <=> HoldsSubscription(subLock[s])
      BY <2>2, <3>1 DEF HoldsSubscription, Deducted
    <3> QED
      BY <1>1, <1>3, <2>1, <2>2, <2>4, <3>1, <3>2, LockedKept
  <2> QED
    BY <2>1, <2>2, <2>3, <2>4 DEF LockedInv, RankedOnce
<1>10. ASSUME NEW r \in Requests, Commit(r) PROVE LockedInv'
  BY <1>9, <1>10 DEF Commit, States, Statements, Outcomes
<1>11. ASSUME NEW r \in Requests, NEW o \in {"refused", "failed"},
              Rollback(r, o)
       PROVE  LockedInv'
  BY <1>9, <1>11 DEF Rollback, States, Statements, Outcomes
<1>12. CASE UNCHANGED <<locks, askVars>>
  BY <1>2, <1>4, <1>12
  DEF locks, askVars, locals, HoldsSubscription, Deducted
<1>13. CASE UNCHANGED vars
  BY <1>12, <1>13 DEF vars, storeVars
<1> QED
  BY <1>5, <1>6, <1>7, <1>8, <1>10, <1>11, <1>12, <1>13, StepCases
  DEF Elsewhere

\* A save waits for the locks, so a row that is skipped stays what it was.
LEMMA BillingKeepsLocked ==
  ASSUME BackendInv, LockedInv, BillingNext, UNCHANGED askVars
  PROVE  LockedInv'
<1>1. UNCHANGED <<pc, user, source, ranking, sub, subLock>>
  BY BillingFrame DEF askVars, locals, chatTables, locks
<1>2. ASSUME NEW s \in Subs, subLock'[s] # Null PROVE LockedOK(s)'
  <2>1. LockedOK(s) /\ subLock[s] # Null
    BY <1>1, <1>2 DEF LockedInv
  <2>2. subs'[s] = subs[s]
    BY <2>1, ReferredRow DEF LockedOK
  <2>3. HoldsSubscription(subLock[s])' <=> HoldsSubscription(subLock[s])
    BY <1>1 DEF HoldsSubscription, Deducted
  <2> QED
    BY <1>1, <1>2, <2>2, <2>3, LockedKept
<1> QED
  BY <1>1, <1>2 DEF LockedInv, RankedOnce

\* A request that waits for a bundle, and for a request that waits itself, waits
\* for one of its user in another month that has skipped the bundle.
LEMMA WaitsForSkipped ==
  ASSUME BackendInv, LockedInv, NEW S \in SUBSET Waiting, NEW r \in S,
         pc[r] = "lockSubscription", WaitsFor(r) \cap S # {}
  PROVE  \E q \in S : /\ pc[q] = "lockSubscription"
                      /\ user[q] = user[r] /\ month[q] # month[r]
                      /\ HoldsSkipped(q)
<1>1. PICK q \in S : q \in WaitsFor(r)
  OBVIOUS
<1>2. q \in Requests /\ r \in Requests
  BY DEF Waiting
<1> DEFINE s == Head(ranking[r])
<1>3. ranking[r] # <<>> /\ subLock[s] = q /\ subLock[s] # Null
  BY <1>1, <1>2, NullAssumption DEF WaitsFor
<1>4. /\ s \in Subs /\ 1 \in DOMAIN ranking[r] /\ s = ranking[r][1]
  BY <1>2, <1>3, HeadAndTail DEF BackendInv, IInv, TypeOK
<1>5. subs[s].user = user[r]
  BY <1>2, <1>4 DEF BackendInv, IInv, ChoiceInv, ChoiceOK
<1>6. LockedOK(s)
  BY <1>3, <1>4 DEF LockedInv
<1> HIDE DEF s
<1>7. ~ HoldsSubscription(q)
  BY <1>1, <1>2 DEF Waiting, WaitsFor, HoldsSubscription, Deducted
<1>8. /\ user[q] = user[r] /\ pc[q] = "lockSubscription"
      /\ subs[s].status # "active"
      /\ \A i \in DOMAIN ranking[q] : ranking[q][i] # s
  BY <1>3, <1>5, <1>6, <1>7 DEF LockedOK
<1>9. q # r
  BY <1>4, <1>8
<1>10. month[q] # month[r]
  <2>1. freeLock[Key(q)] = q /\ freeLock[Key(r)] = r
    BY <1>2, <1>8 DEF BackendInv, IInv, LockInv, HoldsFreeRow, Statements
  <2> QED
    BY <1>8, <1>9, <2>1 DEF Key
<1> QED
  BY <1>1, <1>3, <1>4, <1>8, <1>10 DEF HoldsSkipped

\* Of the requests in a deadlock one waits for a bundle: the others wait for
\* free rows, whose holders wait for bundles, or for connections.
LEMMA SomeWaitForBundles ==
  ASSUME BackendInv, NEW S \in SUBSET Waiting, S # {},
         \A r \in S : WaitsFor(r) \cap S # {}
  PROVE  \E r \in S : pc[r] = "lockSubscription"
<1> SUFFICES ASSUME \A r \in S : pc[r] # "lockSubscription" PROVE FALSE
  OBVIOUS
<1>1. \A r \in S : /\ r \in Requests
                   /\ pc[r] \in {"queued", "findFreeUsage", "insertFreeUsage"}
  BY DEF Waiting, WaitsFor
<1>2. ASSUME NEW r \in S, pc[r] # "queued" PROVE FALSE
  <2>1. PICK q \in S : q \in WaitsFor(r)
    OBVIOUS
  <2>2. freeLock[Key(r)] = q /\ q \in Requests /\ q # Null
    BY <1>1, <1>2, <2>1, NullAssumption DEF WaitsFor
  <2>3. Key(r) \in UsageKeys
    BY <1>1 DEF BackendInv, IInv, TypeOK, UsageKeys, Key
  <2>4. HoldsFreeRow(q)
    BY <2>2, <2>3 DEF BackendInv, IInv, LockInv
  <2> QED
    BY <1>1, <2>4 DEF HoldsFreeRow, Statements
<1>3. ASSUME NEW r \in S PROVE FALSE
  <2>1. PICK q \in S : q \in WaitsFor(r)
    OBVIOUS
  <2>2. pc[r] = "queued" /\ pc[q] = "queued"
    BY <1>2
  <2> QED
    BY <2>1, <2>2 DEF WaitsFor, InTransaction, Statements
<1> QED
  BY <1>3

\* Whatever the writers do, chat requests wait for one another in a circle only
\* across months and over bundles that have ended: within a month, or while
\* ranked bundles stay active, there is no deadlock.
THEOREM DeadlockNeedsSkipped == BackendSpec => []DeadlockOnlyOverSkipped
<1>1. BackendInit => LockedInv
  BY DEF BackendInit, Init, StoreInit, AskInit, LockedInv, RankedOnce
<1>2. BackendInv /\ LockedInv /\ [BackendNext]_backendVars => LockedInv'
  <2> SUFFICES ASSUME BackendInv, LockedInv, [BackendNext]_backendVars
               PROVE  LockedInv'
    OBVIOUS
  <2>1. CASE [Next]_vars
    BY <2>1, LockedStep
  <2>2. CASE BillingNext /\ UNCHANGED askVars
    BY <2>2, BillingKeepsLocked
  <2> QED
    BY <2>1, <2>2 DEF BackendNext, Next, backendVars, vars
<1>3. BackendInv /\ LockedInv => DeadlockOnlyOverSkipped
  <2> SUFFICES ASSUME BackendInv, LockedInv, NEW S \in SUBSET Waiting, S # {},
                      \A r \in S : WaitsFor(r) \cap S # {}
               PROVE  \E q, r \in S : /\ user[q] = user[r]
                                      /\ month[q] # month[r]
                                      /\ HoldsSkipped(q) /\ HoldsSkipped(r)
    BY DEF DeadlockOnlyOverSkipped
  <2>1. PICK r \in S : pc[r] = "lockSubscription"
    BY SomeWaitForBundles
  <2>2. PICK q \in S : pc[q] = "lockSubscription" /\ HoldsSkipped(q)
    BY <2>1, WaitsForSkipped
  <2>3. PICK p \in S : /\ user[p] = user[q] /\ month[p] # month[q]
                       /\ HoldsSkipped(p)
    BY <2>2, WaitsForSkipped
  <2> QED
    BY <2>2, <2>3
<1> QED
  BY BackendInductive, <1>1, <1>2, <1>3, PTL DEF BackendSpec

\* Within one month the requests of a user queue for the free row, and the
\* writers can bring nobody into a deadlock.
THEOREM DeadlockFreeInOneMonth ==
  ASSUME OneMonth
  PROVE  BackendSpec => []NoDeadlock
<1>1. BackendInv /\ DeadlockOnlyOverSkipped => NoDeadlock
  <2>1. \A t \in 0 .. Horizon : MonthOf(t) = 0
    BY ClockAssumption DEF OneMonth, MonthOf
  <2>2. BackendInv => \A q, r \in Requests : month[q] = month[r]
    BY <2>1 DEF BackendInv, IInv, TypeOK, Months
  <2> QED
    BY <2>2 DEF DeadlockOnlyOverSkipped, NoDeadlock, Waiting
<1> QED
  BY BackendInductive, DeadlockNeedsSkipped, <1>1, PTL

-----------------------------------------------------------------------------
(* The abstract specification beside the writers                           *)

\* A billing step creates one subscription with its whole allotment, or
\* writes one that is there within its allotment, or leaves the table alone.
LEMMA BillingRow ==
  ASSUME BackendInv, BillingNext
  PROVE  \/ subs' = subs
         \/ \E s \in Subs :
              /\ subs' = [subs EXCEPT ![s] = subs'[s]]
              /\ subs'[s] \in SubscriptionRow
              /\ \/ /\ subs[s].status = "absent"
                    /\ subs'[s].status = "active"
                    /\ subs'[s].remaining = subs'[s].limit
                 \/ /\ subs[s].status # "absent"
                    /\ subs'[s].status # "absent"
                    /\ subs'[s].user = subs[s].user
                    /\ subs'[s].limit = subs[s].limit
                    /\ WithinAllotment(subs[s])'
<1> USE DEF BackendInv
<1>1. /\ subs \in [Subs -> SubscriptionRow]
      /\ subs' \in [Subs -> SubscriptionRow]
  BY BillingStep DEF IInv, TypeOK, StoreTypeOK
<1>2. ASSUME NEW s \in Subs, CreateSubscription(s)
      PROVE  /\ subs' = [subs EXCEPT ![s] = subs'[s]]
             /\ subs[s].status = "absent"
             /\ subs'[s].status = "active"
             /\ subs'[s].remaining = subs'[s].limit
  <2>1. subs[s].status = "absent"
    BY <1>2 DEF CreateSubscription
  <2>2. PICK body \in NewRows :
          subs' = [subs EXCEPT ![s] =
                    [user |-> body.user, status |-> "active",
                     limit |-> body.limit, remaining |-> body.limit,
                     endDate |-> now + CycleLength,
                     autoRenew |-> body.autoRenew]]
    BY <1>2 DEF CreateSubscription
  <2> DEFINE row == [user |-> body.user, status |-> "active",
                     limit |-> body.limit, remaining |-> body.limit,
                     endDate |-> now + CycleLength,
                     autoRenew |-> body.autoRenew]
  <2>3. /\ subs' = [subs EXCEPT ![s] = row]
        /\ row.status = "active" /\ row.remaining = row.limit
    BY <2>2
  <2> HIDE DEF row
  <2>4. subs'[s] = row
    BY <1>1, <2>3
  <2> QED
    BY <2>1, <2>3, <2>4
<1>3. ASSUME NEW w \in Writers, Save(w), subs' # subs
      PROVE  /\ Target(w) \in Subs
             /\ subs' = [subs EXCEPT ![Target(w)] = subs'[Target(w)]]
             /\ subs[Target(w)].status # "absent"
  <2>1. HasEntity(w) /\ step[w] = "saving"
    BY <1>3 DEF Save, HasEntity
  <2>2. Target(w) \in Subs
    BY <2>1, TargetType DEF BillingInv
  <2>3. subs' = [subs EXCEPT ![Target(w)] = Updated(w)]
    BY <1>3 DEF Save
  <2>4. subs[Target(w)].status # "absent"
    <3>1. CASE w \in Runs
      <4>1. due[w] # <<>> /\ due[w] \in Seq(DueRow)
        BY <2>1, <3>1 DEF BillingInv, StepInv, BillingTypeOK
      <4>2. 1 \in DOMAIN due[w] /\ Head(due[w]) = due[w][1]
        BY <4>1
      <4> QED
        BY <3>1, <4>2 DEF BillingInv, RowsKept, Target
    <3>2. CASE w \notin Runs
      BY <2>1, <3>2 DEF BillingInv, RowsKept, Target, Writers
    <3> QED
      BY <3>1, <3>2
  <2> QED
    BY <1>1, <2>2, <2>3, <2>4
<1>4. \/ subs' = subs
      \/ \E s \in Subs : CreateSubscription(s)
      \/ \E w \in Writers : Save(w) /\ subs' # subs
  BY BillingCases
  DEF CheckCancel, LoadToCancel, Load, StartRun, ChargeAccepted,
      ChargeDeclined, LoadToRenew, LoadToDeactivate, EndRun, Compare,
      FailWriter, storeVars, tables
<1>5. ASSUME NEW s \in Subs, subs[s].status # "absent"
      PROVE  /\ subs'[s].status # "absent"
             /\ subs'[s].user = subs[s].user
             /\ subs'[s].limit = subs[s].limit
             /\ WithinAllotment(subs[s])'
  BY <1>5, RowEffect DEF IInv, TypeOK
<1> QED
  BY <1>1, <1>2, <1>3, <1>4, <1>5

\* The composed backend implements RefilledLedger: no save of a writer splits,
\* doubles or redirects a charge, or comes between its check and its commit.
THEOREM RefilledImplemented == BackendSpec => ImplementsRefilledLedger
<1> DEFINE credit == [s \in Subs |-> subs[s].remaining]
           owner == [s \in Subs |-> IF subs[s].status = "absent"
                                      THEN Null ELSE subs[s].user]
           allotment == [s \in Subs |-> subs[s].limit]
           active == [s \in Subs |-> subs[s].status = "active"]
<1>1. BackendInit => Refilled!RefilledInit
  <2> SUFFICES ASSUME BackendInit PROVE Refilled!RefilledInit
    OBVIOUS
  <2>1. subs \in [Subs -> SubscriptionRow]
    BY TypeInit DEF BackendInit, TypeOK, StoreTypeOK
  <2>2. \A s \in Subs : subs[s].remaining = subs[s].limit
    BY RowsAssumption DEF BackendInit, Init, StoreInit
  <2> QED
    BY <2>1, <2>2 DEF Refilled!RefilledInit, BackendInit, Init, StoreInit,
       UsageKeys, SubscriptionRow, Quantity
<1>2. ASSUME BackendInv, NEW r \in Requests, Commit(r)
      PROVE  Refilled!RefilledNext
  <2> USE DEF BackendInv
  <2>1. /\ user[r] \in Users /\ month[r] \in Months
        /\ subs \in [Subs -> SubscriptionRow]
    BY <1>2 DEF IInv, TypeOK, StoreTypeOK
  <2>2. CASE source[r] = "free"
    <3>1. Refilled!Answer(r, user[r], "free", Null)
      BY <1>2, <2>2, CommitEffect DEF Refilled!Answer, RowOf
    <3>2. subs' = subs
      BY <1>2, <2>2, CommitEffect
    <3>3. Refilled!ChargeFree(r, user[r], month[r])
      BY <1>2, <2>2, <3>1, <3>2, CommitEffect DEF Refilled!ChargeFree, Key
    <3> QED
      BY <2>1, <3>2, <3>3 DEF Refilled!RefilledNext, Refilled!Charge
  <2>3. CASE source[r] = "subscription"
    <3>1. Refilled!Answer(r, user[r], "subscription", sub[r])
      BY <1>2, <2>3, CommitEffect DEF Refilled!Answer, RowOf
    <3>2. /\ sub[r] \in Subs /\ subs[sub[r]].user = user[r]
          /\ subs' = [subs EXCEPT ![sub[r]].remaining = left[r]]
          /\ IF subs[sub[r]].limit = Unlimited
               THEN left[r] = subs[sub[r]].remaining
               ELSE left[r] = subs[sub[r]].remaining - 1 /\ left[r] >= 0
      BY <1>2, <2>3, CommitEffect
    <3>3. subs[sub[r]].status = "active"
      BY <1>2, <2>3 DEF HeldRowsInv, HoldsSubscription, Deducted, Commit
    <3>4. owner' = owner /\ allotment' = allotment /\ active' = active
      BY <2>1, <3>2 DEF SubscriptionRow
    <3>5. credit' = [credit EXCEPT ![sub[r]] = left[r]]
      BY <2>1, <3>2 DEF SubscriptionRow
    <3>6. \/ credit[sub[r]] = Unlimited /\ credit' = credit
          \/ /\ credit[sub[r]] > 0
             /\ credit' = [credit EXCEPT ![sub[r]] = @ - 1]
      <4>1. CASE subs[sub[r]].limit = Unlimited
        <5>1. credit[sub[r]] = Unlimited /\ left[r] = Unlimited
          BY <1>2, <3>2, <4>1 DEF IInv, RowInv
        <5> QED
          BY <3>2, <3>5, <5>1
      <4>2. CASE subs[sub[r]].limit # Unlimited
        <5>1. subs[sub[r]].remaining \in Int
          BY <2>1, <3>2 DEF SubscriptionRow, Quantity, Unlimited
        <5>2. credit[sub[r]] > 0 /\ left[r] = credit[sub[r]] - 1
          BY <3>2, <4>2, <5>1
        <5> QED
          BY <3>5, <5>2
      <4> QED
        BY <4>1, <4>2
    <3>7. Refilled!ChargeSubscription(r, user[r], month[r], sub[r])
      BY <1>2, <2>3, <3>1, <3>2, <3>3, <3>4, <3>6, CommitEffect
      DEF Refilled!ChargeSubscription, Key
    <3>8. active[sub[r]]
      BY <3>2, <3>3
    <3>9. Refilled!Charge(r, user[r], month[r])
      <4>1. \E s \in Subs : active[s] /\ Refilled!ChargeSubscription(
                                              r, user[r], month[r], s)
        <5>1. sub[r] \in Subs
          BY <3>2
        <5> HIDE DEF active, credit, owner
        <5> QED
          BY <3>7, <3>8, <5>1 DEF Refilled!ChargeSubscription
      <4>2. UNCHANGED <<allotment, active>>
        BY <3>4
      <4> QED
        BY <4>1, <4>2, Zenon DEF Refilled!Charge
    <3> QED
      BY <2>1, <3>9, Zenon DEF Refilled!RefilledNext
  <2> QED
    BY <1>2, <2>2, <2>3, CommitEffect
<1>3. ASSUME BackendInv, BillingNext, UNCHANGED askVars
      PROVE  [Refilled!RefilledNext]_(Refilled!refilledVars)
  <2>1. UNCHANGED <<freeUsed, messages, ledger>>
    BY <1>3, BillingFrame DEF chatTables
  <2>2. subs \in [Subs -> SubscriptionRow]
    BY <1>3 DEF BackendInv, IInv, TypeOK, StoreTypeOK
  <2>3. CASE subs' = subs
    BY <2>1, <2>3 DEF Refilled!refilledVars, Refilled!vars
  <2>4. ASSUME NEW s \in Subs,
               subs' = [subs EXCEPT ![s] = subs'[s]],
               subs'[s] \in SubscriptionRow,
               subs[s].status = "absent",
               subs'[s].status = "active",
               subs'[s].remaining = subs'[s].limit
        PROVE  Refilled!RefilledNext
    <3>1. /\ owner[s] = Null
          /\ owner'[s] \in Users
          /\ allotment'[s] \in Nat \cup {Unlimited}
      BY <2>4 DEF SubscriptionRow, Quantity
    <3>2. /\ owner' = [owner EXCEPT ![s] = owner'[s]]
          /\ allotment' = [allotment EXCEPT ![s] = allotment'[s]]
          /\ credit' = [credit EXCEPT ![s] = allotment'[s]]
          /\ active' = [active EXCEPT ![s] = TRUE]
      BY <2>2, <2>4
    <3>3. Refilled!Subscribe(s)
      BY <2>1, <3>1, <3>2 DEF Refilled!Subscribe
    <3> QED
      BY <3>3 DEF Refilled!RefilledNext
  <2>5. ASSUME NEW s \in Subs,
               subs' = [subs EXCEPT ![s] = subs'[s]],
               subs'[s] \in SubscriptionRow,
               subs[s].status # "absent",
               subs'[s].status # "absent",
               subs'[s].user = subs[s].user,
               subs'[s].limit = subs[s].limit,
               WithinAllotment(subs[s])'
        PROVE  Refilled!RefilledNext
    <3>1. owner[s] # Null
      BY <2>2, <2>5, NullAssumption DEF SubscriptionRow
    <3>2. owner' = owner /\ allotment' = allotment
      BY <2>2, <2>5
    <3>3. /\ credit' = [credit EXCEPT ![s] = credit'[s]]
          /\ active' = [active EXCEPT ![s] = active'[s]]
          /\ active'[s] \in BOOLEAN
      BY <2>2, <2>5
    <3>4. \/ allotment[s] = Unlimited /\ credit' = credit
          \/ allotment[s] # Unlimited /\ credit'[s] \in 0 .. allotment[s]
      <4>1. CASE subs[s].limit = Unlimited
        <5>1. subs[s].remaining = Unlimited /\ subs'[s].remaining = Unlimited
          BY <1>3, <2>5, <4>1
          DEF BackendInv, BillingInv, AllotmentInv, WithinAllotment
        <5> QED
          BY <2>2, <2>5, <4>1, <5>1
      <4>2. CASE subs[s].limit # Unlimited
        BY <2>5, <4>2 DEF WithinAllotment
      <4> QED
        BY <4>1, <4>2
    <3>5. Refilled!Refill(s)
      BY <2>1, <3>1, <3>2, <3>3, <3>4 DEF Refilled!Refill
    <3> QED
      BY <3>5 DEF Refilled!RefilledNext
  <2> QED
    BY <1>3, <2>3, <2>4, <2>5, BillingRow
<1>4. BackendInv /\ [BackendNext]_backendVars
        => [Refilled!RefilledNext]_(Refilled!refilledVars)
  <2> SUFFICES ASSUME BackendInv, [BackendNext]_backendVars
               PROVE  [Refilled!RefilledNext]_(Refilled!refilledVars)
    OBVIOUS
  <2>1. CASE [Next]_vars
    <3>1. CASE \E r \in Requests : Commit(r)
      BY <1>2, <3>1
    <3>2. CASE \A r \in Requests : ~ Commit(r)
      BY <2>1, <3>2, TablesChangeAtCommit
      DEF BackendInv, tables, Refilled!refilledVars, Refilled!vars
    <3> QED
      BY <3>1, <3>2
  <2>2. CASE BillingNext /\ UNCHANGED askVars
    BY <1>3, <2>2
  <2> QED
    BY <2>1, <2>2 DEF BackendNext, Next, backendVars, vars
<1> QED
  BY BackendInductive, <1>1, <1>4, PTL
  DEF BackendSpec, ImplementsRefilledLedger, Refilled!RefilledSpec

-----------------------------------------------------------------------------
(* A run on its own, while nobody cancels                                  *)

\* A lone run is all that can be pending for a period.
LEMMA PendingCount ==
  ASSUME LoneRun, NEW s, NEW end
  PROVE  /\ Cardinality(Pending(s, end)) \in {0, 1}
         /\ Cardinality(Pending(s, end)') \in {0, 1}
         /\ \A j \in Runs :
              /\ Cardinality(Pending(s, end)) =
                   IF j \in Pending(s, end) THEN 1 ELSE 0
              /\ Cardinality(Pending(s, end)') =
                   IF j \in Pending(s, end)' THEN 1 ELSE 0
<1>1. ASSUME NEW P \in SUBSET Runs
      PROVE  /\ Cardinality(P) \in {0, 1}
             /\ \A j \in Runs : Cardinality(P) = IF j \in P THEN 1 ELSE 0
  <2>1. CASE P = {}
    BY <2>1, FS_EmptySet
  <2>2. CASE P # {}
    <3>1. PICK j \in Runs : P = {j}
      BY <2>2 DEF LoneRun
    <3>2. \A k \in Runs : k = j
      BY DEF LoneRun
    <3> QED
      BY <3>1, <3>2, FS_Singleton
  <2> QED
    BY <2>1, <2>2
<1>2. Pending(s, end) \in SUBSET Runs /\ Pending(s, end)' \in SUBSET Runs
  BY DEF Pending
<1> QED
  BY <1>1, <1>2

\* What a lone run refers to, and its list, in the terms the invariant uses.
LEMMA LoneTarget ==
  ASSUME BackendInv, LoneInv, NEW j \in Runs, due[j] # <<>>
  PROVE  /\ Target(j) \in Subs /\ Target(j) = Head(due[j]).id
         /\ Head(due[j]) \in DueRow
         /\ IsDue(Target(j))
         /\ subs[Target(j)].endDate = Head(due[j]).endDate
         /\ \A i \in DOMAIN Tail(due[j]) : Tail(due[j])[i].id # Target(j)
<1>1. due[j] \in Seq(DueRow)
  BY DEF BackendInv, BillingInv, BillingTypeOK
<1>2. /\ 1 \in DOMAIN due[j] /\ Head(due[j]) = due[j][1]
      /\ Head(due[j]) \in DueRow
      /\ \A i \in DOMAIN Tail(due[j]) :
           /\ i + 1 \in DOMAIN due[j]
           /\ Tail(due[j])[i] = due[j][i + 1]
           /\ i + 1 # 1
  BY <1>1, HeadAndTail
<1>3. Target(j) = Head(due[j]).id
  BY DEF Target
<1>4. ListOK(j)
  BY DEF LoneInv
<1> QED
  BY <1>2, <1>3, <1>4 DEF ListOK, IsDue, DueRow

\* The save of a lone run gives the columns that only billing writes the
\* values of its entity, and touches no other row.
LEMMA LoneSave ==
  ASSUME BackendInv, LoneInv, NEW j \in Runs, Save(j)
  PROVE  /\ due[j] # <<>> /\ HasEntity(j) /\ DecisionOK(j)
         /\ DOMAIN subs' = Subs
         /\ \A s \in Subs : s # Target(j) => subs'[s] = subs[s]
         /\ subs'[Target(j)].status = entity[j].status
         /\ subs'[Target(j)].endDate = entity[j].endDate
         /\ subs'[Target(j)].autoRenew = entity[j].autoRenew
<1>1. step[j] = "saving"
  BY DEF Save
<1>2. due[j] # <<>> /\ HasEntity(j)
  BY <1>1 DEF BackendInv, BillingInv, StepInv, HasEntity
<1>3. DecisionOK(j) /\ DifferenceOK(j)
  BY <1>1, <1>2 DEF LoneInv
<1>4. Target(j) \in Subs /\ subs \in [Subs -> SubscriptionRow]
  BY <1>2, LoneTarget DEF BackendInv, IInv, TypeOK, StoreTypeOK
<1>5. CASE changed[j] = {} /\ UNCHANGED subs
  BY <1>2, <1>3, <1>4, <1>5 DEF DifferenceOK
<1>6. CASE subs' = [subs EXCEPT ![Target(j)] = Updated(j)]
  <2>1. subs[Target(j)] \in SubscriptionRow
    BY <1>4
  <2>2. /\ Updated(j).status = entity[j].status
        /\ Updated(j).endDate = entity[j].endDate
        /\ Updated(j).autoRenew = entity[j].autoRenew
    BY <1>3, <2>1 DEF Updated, DifferenceOK, SubscriptionRow
  <2> QED
    BY <1>2, <1>3, <1>4, <1>6, <2>2
<1> QED
  BY <1>5, <1>6 DEF Save

\* The steps of the writers, when there is one run and no cancel request.
LEMMA LoneCases ==
  ASSUME LoneRun, BillingNext
  PROVE  \/ \E s \in Subs : CreateSubscription(s)
         \/ \E j \in Runs : \/ StartRun(j) \/ ChargeAccepted(j)
                            \/ ChargeDeclined(j) \/ LoadToRenew(j)
                            \/ LoadToDeactivate(j) \/ EndRun(j)
                            \/ Compare(j) \/ Save(j) \/ FailWriter(j)
BY BillingCases DEF LoneRun, Writers

\* A list stays a list of due rows while the rows on it, and the list, do not
\* change; the clock only moves on.
LEMMA ListKept ==
  ASSUME NEW j \in Runs, ListOK(j), due'[j] = due[j], now' \in Int, now \in Int,
         now' >= now,
         \A i \in DOMAIN due[j] :
           LET s == due[j][i].id
           IN /\ subs[s].endDate \in Int
              /\ subs'[s].status = subs[s].status
              /\ subs'[s].endDate = subs[s].endDate
              /\ subs'[s].autoRenew = subs[s].autoRenew
  PROVE  ListOK(j)'
<1>1. ASSUME NEW i \in DOMAIN due'[j]
      PROVE  LET row == subs'[due'[j][i].id]
             IN /\ row.status = "active" /\ row.autoRenew
                /\ row.endDate = due'[j][i].endDate /\ row.endDate <= now'
  BY DEF ListOK
<1>2. ASSUME NEW i \in DOMAIN due'[j], NEW k \in DOMAIN due'[j],
             due'[j][i].id = due'[j][k].id
      PROVE  i = k
  BY <1>2 DEF ListOK
<1> QED
  BY <1>1, <1>2 DEF ListOK

\* What a lone run has still to do stays due.
LEMMA LoneLists ==
  ASSUME LoneRun, BackendInv, LoneInv, BillingNext, NEW j \in Runs
  PROVE  ListOK(j)'
<1>1. due \in [Runs -> Seq(DueRow)] /\ now \in Int /\ now' = now
  BY BillingFrame
  DEF BackendInv, BillingInv, BillingTypeOK, IInv, TypeOK, StoreTypeOK,
      chatTables
<1>2. subs \in [Subs -> SubscriptionRow]
  BY DEF BackendInv, IInv, TypeOK, StoreTypeOK
<1>3. ListOK(j)
  BY DEF LoneInv
<1>4. \A i \in DOMAIN due[j] : due[j][i].id \in Subs
  <2>1. due[j] \in Seq(DueRow)
    BY <1>1
  <2>2. \A i \in DOMAIN due[j] : due[j][i] \in DueRow
    BY <2>1
  <2> QED
    BY <2>2 DEF DueRow
<1>5. \A s \in Subs : subs[s].endDate \in Int
  BY <1>2 DEF SubscriptionRow
<1>6. ASSUME NEW s \in Subs, CreateSubscription(s)
      PROVE  ListOK(j)'
  <2>1. \A t \in Subs : t # s => subs'[t] = subs[t]
    BY <1>2, <1>6 DEF CreateSubscription
  <2>2. \A i \in DOMAIN due[j] : due[j][i].id # s
    BY <1>3, <1>6 DEF ListOK, CreateSubscription
  <2>3. due'[j] = due[j]
    BY <1>6 DEF CreateSubscription, billingVars
  <2> QED
    BY <1>1, <1>3, <1>4, <1>5, <2>1, <2>2, <2>3, ListKept
<1>7. CASE StartRun(j)
  <2>1. PICK q \in DueLists :
          due' = [due EXCEPT ![j] = [i \in DOMAIN q |->
                   [id |-> q[i], endDate |-> subs[q[i]].endDate]]]
    BY <1>7 DEF StartRun
  <2>2. subs' = subs
    BY <1>7 DEF StartRun, storeVars, tables
  <2>3. due'[j] = [i \in DOMAIN q |->
                     [id |-> q[i], endDate |-> subs[q[i]].endDate]]
    BY <1>1, <2>1
  <2>4. q \in Seq(Subs) /\ \A i \in DOMAIN q : IsDue(q[i])
    BY DueListsType
  <2>5. \A i, k \in DOMAIN q : i < k => q[i] # q[k]
    BY DEF DueLists
  <2>6. \A i, k \in DOMAIN q : q[i] = q[k] => i = k
    <3>1. DOMAIN q \subseteq Int
      BY <2>4
    <3> QED
      BY <2>5, <3>1
  <2> QED
    BY <1>1, <2>2, <2>3, <2>4, <2>6 DEF ListOK, IsDue
<1>8. CASE \/ ChargeAccepted(j) \/ ChargeDeclined(j) \/ LoadToRenew(j)
           \/ LoadToDeactivate(j) \/ EndRun(j) \/ Compare(j)
  <2>1. due' = due /\ subs' = subs
    BY <1>8 DEF ChargeAccepted, ChargeDeclined, LoadToRenew, LoadToDeactivate,
       Load, EndRun, Compare, storeVars, tables
  <2> QED
    BY <1>1, <1>3, <1>4, <1>5, <2>1, ListKept
<1>9. CASE Save(j)
  <2>1. due[j] # <<>> /\ \A s \in Subs : s # Target(j) => subs'[s] = subs[s]
    BY <1>9, LoneSave
  <2>2. due'[j] = Tail(due[j])
    BY <1>9 DEF Save, Saved
  <2>3. \A i \in DOMAIN Tail(due[j]) :
          /\ i \in Int
          /\ i + 1 \in DOMAIN due[j]
          /\ Tail(due[j])[i] = due[j][i + 1]
          /\ Tail(due[j])[i].id # Target(j)
    BY <1>1, <2>1, HeadAndTail, LoneTarget
  <2>4. \A i \in DOMAIN Tail(due[j]) :
          subs'[Tail(due[j])[i].id] = subs[Tail(due[j])[i].id]
    BY <1>4, <2>1, <2>3
  <2>5. ASSUME NEW i \in DOMAIN due'[j]
        PROVE  LET row == subs'[due'[j][i].id]
               IN /\ row.status = "active" /\ row.autoRenew
                  /\ row.endDate = due'[j][i].endDate /\ row.endDate <= now'
    <3>1. /\ i + 1 \in DOMAIN due[j]
          /\ due'[j][i] = due[j][i + 1]
          /\ subs'[due'[j][i].id] = subs[due[j][i + 1].id]
      BY <2>2, <2>3, <2>4
    <3> QED
      BY <1>1, <1>3, <3>1 DEF ListOK
  <2>6. ASSUME NEW i \in DOMAIN due'[j], NEW k \in DOMAIN due'[j],
               due'[j][i].id = due'[j][k].id
        PROVE  i = k
    <3>1. due[j][i + 1].id = due[j][k + 1].id
      BY <2>2, <2>3, <2>6
    <3>2. i + 1 = k + 1
      BY <1>3, <2>2, <2>3, <3>1 DEF ListOK
    <3> QED
      BY <2>2, <2>3, <3>2
  <2> QED
    BY <2>5, <2>6 DEF ListOK
<1>10. CASE FailWriter(j)
  <2>1. due'[j] = <<>>
    BY <1>10 DEF FailWriter
  <2> QED
    BY <2>1 DEF ListOK
<1> QED
  BY <1>6, <1>7, <1>8, <1>9, <1>10, LoneCases DEF LoneRun

\* What a lone run has decided stays what save will find to differ.
LEMMA LoneDecisions ==
  ASSUME LoneRun, BackendInv, LoneInv, BillingNext, NEW j \in Runs
  PROVE  /\ HasEntity(j)' => DecisionOK(j)'
         /\ step'[j] = "saving" => DifferenceOK(j)'
<1>1. /\ step \in [Writers -> Steps] /\ j \in Writers
      /\ entity \in [Writers -> SubscriptionRow \cup {Null}]
      /\ changed \in [Writers -> SUBSET Columns]
      /\ subs \in [Subs -> SubscriptionRow]
  BY DEF BackendInv, BillingInv, BillingTypeOK, Writers, IInv, TypeOK,
     StoreTypeOK
<1>2. step[j] \notin {"idle", "next"} => due[j] # <<>>
  BY DEF BackendInv, BillingInv, StepInv
<1>3. /\ HasEntity(j) => DecisionOK(j)
      /\ step[j] = "saving" => DifferenceOK(j)
  BY DEF LoneInv
<1>4. ASSUME NEW s \in Subs, CreateSubscription(s)
      PROVE  /\ HasEntity(j)' => DecisionOK(j)'
             /\ step'[j] = "saving" => DifferenceOK(j)'
  <2>1. UNCHANGED <<step, due, entity, changed>>
    BY <1>4 DEF CreateSubscription, billingVars
  <2>2. Target(j)' = Target(j)
    BY <2>1 DEF Target
  <2>3. HasEntity(j) => subs'[Target(j)] = subs[Target(j)]
    <3>1. HasEntity(j) => Target(j) \in Subs /\ IsDue(Target(j))
      BY <1>2, LoneTarget DEF HasEntity
    <3> QED
      BY <1>1, <1>4, <3>1 DEF CreateSubscription, IsDue
  <2> QED
    BY <1>3, <2>1, <2>2, <2>3 DEF HasEntity, DecisionOK, DifferenceOK
<1>5. CASE LoadToRenew(j) \/ LoadToDeactivate(j)
  <2>1. due[j] # <<>> /\ step'[j] = "loaded" /\ UNCHANGED <<subs, due>>
    BY <1>1, <1>2, <1>5
    DEF LoadToRenew, LoadToDeactivate, Load, storeVars, tables
  <2>2. /\ Target(j)' = Target(j) /\ Target(j) \in Subs /\ IsDue(Target(j))
        /\ subs[Target(j)].endDate = Head(due[j]).endDate
    BY <2>1, LoneTarget DEF Target
  <2>3. subs[Target(j)] \in SubscriptionRow
    BY <1>1, <2>2
  <2>4. \/ entity'[j] = [subs[Target(j)] EXCEPT
                            !.endDate = Head(due[j]).endDate + CycleLength,
                            !.remaining = subs[Target(j)].limit,
                            !.status = "active"]
        \/ entity'[j] = [subs[Target(j)] EXCEPT !.status = "inactive",
                                                !.autoRenew = FALSE]
    BY <1>1, <1>5 DEF LoadToRenew, LoadToDeactivate, Load
  <2>5. \/ /\ entity'[j].status = "active"
           /\ entity'[j].autoRenew = subs[Target(j)].autoRenew
           /\ entity'[j].endDate = subs[Target(j)].endDate + CycleLength
        \/ /\ entity'[j].status = "inactive" /\ entity'[j].autoRenew = FALSE
           /\ entity'[j].endDate = subs[Target(j)].endDate
    BY <2>2, <2>3, <2>4 DEF SubscriptionRow
  <2>6. DecisionOK(j)'
    BY <2>1, <2>2, <2>5 DEF DecisionOK
  <2> QED
    BY <2>1, <2>6
<1>6. CASE Compare(j)
  <2>1. /\ UNCHANGED <<subs, due, entity>> /\ HasEntity(j)
        /\ changed'[j] = {c \in Columns : entity[j][c] # subs[Target(j)][c]}
    BY <1>1, <1>6 DEF Compare, HasEntity, storeVars, tables
  <2>2. Target(j)' = Target(j)
    BY <2>1 DEF Target
  <2>3. Target(j) \in Subs
    BY <1>2, <2>1, LoneTarget DEF HasEntity
  <2>4. DecisionOK(j)'
    BY <1>3, <2>1, <2>2 DEF DecisionOK
  <2>5. DifferenceOK(j)'
    BY <2>1, <2>2 DEF DifferenceOK, Columns
  <2> QED
    BY <2>4, <2>5
<1>7. CASE \/ StartRun(j) \/ ChargeAccepted(j) \/ ChargeDeclined(j)
           \/ EndRun(j) \/ Save(j) \/ FailWriter(j)
  <2>1. step'[j] \in {"next", "charged", "declined", "idle"}
    BY <1>1, <1>7 DEF StartRun, ChargeAccepted, ChargeDeclined, EndRun, Save,
       Saved, FailWriter
  <2> QED
    BY <2>1 DEF HasEntity
<1> QED
  BY <1>4, <1>5, <1>6, <1>7, LoneCases DEF LoneRun

\* The run has a charge in hand: accepted, and not saved yet.
ChargeInHand(j) ==
  step[j] = "charged" \/ (HasEntity(j) /\ entity[j].status = "active")

LosesCharge == \E j \in Runs : FailWriter(j) /\ ChargeInHand(j)

\* The charges of a period are matched by the period, by what a run has in hand,
\* or by as many losses as are granted.
Balanced(s, end, lost) ==
  charged[<<s, end>>] <= (IF subs[s].endDate > end THEN 1 ELSE 0)
                           + Cardinality(Pending(s, end)) + lost

\* Only a failure with a charge in hand takes one more loss to match.
LEMMA ChargeBalance ==
  ASSUME LoneRun, BackendInv, LoneInv, BillingNext,
         NEW s \in Subs, NEW end \in Periods,
         NEW lost \in Nat, NEW later \in Nat, lost <= later,
         LosesCharge => lost < later,
         Balanced(s, end, lost)
  PROVE  /\ subs'[s].status = "absent" => charged'[<<s, end>>] = 0
         /\ Balanced(s, end, later)'
<1> DEFINE Moved(t, e) == IF subs[t].endDate > e THEN 1 ELSE 0
           InHand(t, e) == Cardinality(Pending(t, e))
<1>1. /\ step \in [Writers -> Steps] /\ \A j \in Runs : j \in Writers
      /\ entity \in [Writers -> SubscriptionRow \cup {Null}]
      /\ charged \in [Subs \X Periods -> Nat]
      /\ subs \in [Subs -> SubscriptionRow]
  BY CycleAssumption DEF BackendInv, BillingInv, BillingTypeOK, Writers, IInv,
     TypeOK, StoreTypeOK
<1>2. /\ subs[s].status = "absent" => charged[<<s, end>>] = 0
      /\ charged[<<s, end>>] <= Moved(s, end) + InHand(s, end) + lost
  BY DEF LoneInv, Balanced
<1>3. /\ subs[s].endDate \in Nat /\ end \in Nat
      /\ <<s, end>> \in Subs \X Periods
      /\ charged[<<s, end>>] \in Nat
  BY <1>1 DEF SubscriptionRow, Periods
<1>4. SUFFICES /\ subs'[s].status = "absent" => charged'[<<s, end>>] = 0
               /\ charged'[<<s, end>>] <=
                    Moved(s, end)' + InHand(s, end)' + later
  BY DEF Balanced
<1> HIDE DEF InHand
<1>5. ASSUME NEW t \in Subs, CreateSubscription(t)
      PROVE  /\ subs'[s].status = "absent" => charged'[<<s, end>>] = 0
             /\ charged'[<<s, end>>] <=
                  Moved(s, end)' + InHand(s, end)' + later
  <2>1. /\ UNCHANGED <<step, due, entity, charged, failures>>
        /\ subs[t].status = "absent"
        /\ s # t => subs'[s] = subs[s]
    BY <1>1, <1>5 DEF CreateSubscription, billingVars
  <2>2. subs'[t].status = "active" /\ subs'[t].endDate = now + CycleLength
    BY <1>1, <1>5 DEF CreateSubscription
  <2>3. Pending(s, end)' = Pending(s, end)
    BY <2>1 DEF Pending, HasEntity, Target
  <2>4. InHand(s, end)' = InHand(s, end) /\ InHand(s, end) \in {0, 1}
    BY <2>3, PendingCount DEF InHand
  <2> QED
    BY <1>1, <1>2, <1>3, <2>1, <2>2, <2>4
<1>6. ASSUME NEW j \in Runs,
             \/ StartRun(j) \/ ChargeDeclined(j) \/ EndRun(j) \/ Compare(j)
             \/ LoadToRenew(j) \/ LoadToDeactivate(j)
      PROVE  /\ subs'[s].status = "absent" => charged'[<<s, end>>] = 0
             /\ charged'[<<s, end>>] <=
                  Moved(s, end)' + InHand(s, end)' + later
  <2>1. UNCHANGED <<subs, charged, failures>>
    BY <1>6 DEF StartRun, ChargeDeclined, EndRun, Compare, LoadToRenew,
       LoadToDeactivate, Load, storeVars, tables
  <2>2. j \in Pending(s, end)' <=> j \in Pending(s, end)
    <3>1. CASE StartRun(j) \/ ChargeDeclined(j) \/ EndRun(j)
      <4>1. /\ step[j] \notin {"charged", "loaded", "saving"}
            /\ step'[j] \notin {"charged", "loaded", "saving"}
        BY <1>1, <3>1 DEF StartRun, ChargeDeclined, EndRun
      <4> QED
        BY <4>1 DEF Pending, HasEntity
    <3>2. CASE Compare(j)
      <4>1. /\ step[j] = "loaded" /\ step'[j] = "saving"
            /\ UNCHANGED <<due, entity>>
        BY <1>1, <3>2 DEF Compare
      <4> QED
        BY <4>1 DEF Pending, HasEntity, Target
    <3>3. CASE LoadToRenew(j) \/ LoadToDeactivate(j)
      <4>1. /\ step'[j] = "loaded" /\ due' = due
            /\ step[j] = "charged" \/ step[j] = "declined"
        BY <1>1, <3>3 DEF LoadToRenew, LoadToDeactivate, Load
      <4>2. due[j] # <<>>
        BY <4>1 DEF BackendInv, BillingInv, StepInv
      <4>3. subs[Target(j)] \in SubscriptionRow
        BY <1>1, <4>2, LoneTarget
      <4>4. IF step[j] = "charged" THEN entity'[j].status = "active"
                                   ELSE entity'[j].status = "inactive"
        <5>1. CASE LoadToRenew(j)
          <6>1. entity'[j] = [subs[Target(j)] EXCEPT
                                !.endDate = Head(due[j]).endDate + CycleLength,
                                !.remaining = subs[Target(j)].limit,
                                !.status = "active"]
            BY <1>1, <5>1 DEF LoadToRenew, Load
          <6>2. step[j] = "charged"
            BY <5>1 DEF LoadToRenew
          <6> QED
            BY <4>3, <6>1, <6>2 DEF SubscriptionRow
        <5>2. CASE LoadToDeactivate(j)
          <6>1. entity'[j] = [subs[Target(j)] EXCEPT !.status = "inactive",
                                                     !.autoRenew = FALSE]
            BY <1>1, <5>2 DEF LoadToDeactivate, Load
          <6>2. step[j] = "declined"
            BY <5>2 DEF LoadToDeactivate
          <6> QED
            BY <4>3, <6>1, <6>2 DEF SubscriptionRow
        <5> QED
          BY <3>3, <5>1, <5>2
      <4> QED
        BY <4>1, <4>4 DEF Pending, HasEntity, Target
    <3> QED
      BY <1>6, <3>1, <3>2, <3>3
  <2>3. InHand(s, end)' = InHand(s, end) /\ InHand(s, end) \in {0, 1}
    BY <2>2, PendingCount DEF InHand
  <2> QED
    BY <1>1, <1>2, <1>3, <2>1, <2>3
<1>7. ASSUME NEW j \in Runs, ChargeAccepted(j)
      PROVE  /\ subs'[s].status = "absent" => charged'[<<s, end>>] = 0
             /\ charged'[<<s, end>>] <=
                  Moved(s, end)' + InHand(s, end)' + later
  <2>1. /\ UNCHANGED <<subs, failures, due, entity>>
        /\ step[j] = "next" /\ step'[j] = "charged" /\ due[j] # <<>>
        /\ charged' = [charged EXCEPT
             ![<<Head(due[j]).id, Head(due[j]).endDate>>] = @ + 1]
    BY <1>1, <1>7 DEF ChargeAccepted, storeVars, tables
  <2>2. /\ Head(due[j]) \in DueRow /\ Target(j) = Head(due[j]).id
        /\ IsDue(Target(j))
    BY <2>1, LoneTarget
  <2>3. j \notin Pending(s, end)
    BY <2>1 DEF Pending, HasEntity
  <2>4. CASE s = Head(due[j]).id /\ end = Head(due[j]).endDate
    <3>1. charged'[<<s, end>>] = charged[<<s, end>>] + 1
      BY <1>1, <1>3, <2>1, <2>4
    <3>2. j \in Pending(s, end)'
      BY <2>1, <2>2, <2>4 DEF Pending, Target
    <3>3. InHand(s, end)' = 1 /\ InHand(s, end) = 0
      BY <2>3, <3>2, PendingCount DEF InHand
    <3>4. subs'[s].status # "absent"
      BY <2>1, <2>2, <2>4 DEF IsDue
    <3> QED
      BY <1>1, <1>2, <1>3, <2>1, <3>1, <3>3, <3>4
  <2>5. CASE ~ (s = Head(due[j]).id /\ end = Head(due[j]).endDate)
    <3>1. charged'[<<s, end>>] = charged[<<s, end>>]
      BY <1>1, <1>3, <2>1, <2>5
    <3>2. InHand(s, end)' \in {0, 1} /\ InHand(s, end) = 0
      BY <2>3, PendingCount DEF InHand
    <3> QED
      BY <1>1, <1>2, <1>3, <2>1, <3>1, <3>2
  <2> QED
    BY <2>4, <2>5
<1>8. ASSUME NEW j \in Runs, Save(j)
      PROVE  /\ subs'[s].status = "absent" => charged'[<<s, end>>] = 0
             /\ charged'[<<s, end>>] <=
                  Moved(s, end)' + InHand(s, end)' + later
  <2>1. /\ UNCHANGED <<charged, failures>>
        /\ step[j] = "saving" /\ step'[j] \in {"next", "done"}
    BY <1>1, <1>8 DEF Save, Saved
  <2>2. InHand(s, end)' = 0 /\ InHand(s, end) \in {0, 1}
    <3>1. j \notin Pending(s, end)'
      BY <2>1 DEF Pending, HasEntity
    <3> QED
      BY <3>1, PendingCount DEF InHand
  <2>3. CASE s # Target(j)
    <3>1. subs'[s] = subs[s]
      BY <1>8, <2>3, LoneSave
    <3>2. InHand(s, end) = 0
      <4>1. j \notin Pending(s, end)
        BY <2>3 DEF Pending
      <4> QED
        BY <4>1, PendingCount DEF InHand
    <3> QED
      BY <1>1, <1>2, <1>3, <2>1, <2>2, <3>1, <3>2
  <2>4. CASE s = Target(j)
    <3>1. /\ due[j] # <<>> /\ DecisionOK(j)
          /\ subs'[s].status = entity[j].status
          /\ subs'[s].endDate = entity[j].endDate
      BY <1>8, <2>4, LoneSave
    <3>2. subs[s].endDate = Head(due[j]).endDate
      BY <2>4, <3>1, LoneTarget
    <3>3. CASE entity[j].status = "active"
      <4>1. subs'[s].endDate = subs[s].endDate + CycleLength
        BY <2>4, <3>1, <3>3 DEF DecisionOK
      <4>2. InHand(s, end) = 1 => end = subs[s].endDate
        <5>1. j \in Pending(s, end) => end = subs[s].endDate
          BY <3>2 DEF Pending
        <5> QED
          BY <5>1, PendingCount DEF InHand
      <4> QED
        BY <1>1, <1>2, <1>3, <2>1, <2>2, <3>1, <3>3, <4>1, <4>2,
           CycleAssumption
    <3>4. CASE entity[j].status = "inactive"
      <4>1. subs'[s].endDate = subs[s].endDate
        BY <2>4, <3>1, <3>4 DEF DecisionOK
      <4>2. InHand(s, end) = 0
        <5>1. j \notin Pending(s, end)
          BY <2>1, <3>4 DEF Pending
        <5> QED
          BY <5>1, PendingCount DEF InHand
      <4> QED
        BY <1>1, <1>2, <1>3, <2>1, <2>2, <3>1, <3>4, <4>1, <4>2
    <3> QED
      BY <3>1, <3>3, <3>4 DEF DecisionOK
  <2> QED
    BY <2>3, <2>4
<1>9. ASSUME NEW j \in Runs, FailWriter(j)
      PROVE  /\ subs'[s].status = "absent" => charged'[<<s, end>>] = 0
             /\ charged'[<<s, end>>] <=
                  Moved(s, end)' + InHand(s, end)' + later
  <2>1. UNCHANGED <<subs, charged>>
    BY <1>9 DEF FailWriter, storeVars, tables
  <2>2. InHand(s, end)' \in {0, 1} /\ InHand(s, end) \in {0, 1}
    BY PendingCount DEF InHand
  <2>3. CASE ChargeInHand(j)
    <3>1. lost < later
      BY <1>9, <2>3 DEF LosesCharge
    <3> QED
      BY <1>1, <1>2, <1>3, <2>1, <2>2, <3>1
  <2>4. CASE ~ ChargeInHand(j)
    <3>1. InHand(s, end) = 0
      <4>1. j \notin Pending(s, end)
        BY <2>4 DEF Pending, ChargeInHand
      <4> QED
        BY <4>1, PendingCount DEF InHand
    <3> QED
      BY <1>1, <1>2, <1>3, <2>1, <2>2, <3>1
  <2> QED
    BY <2>3, <2>4
<1> QED
  BY <1>5, <1>6, <1>7, <1>8, <1>9, LoneCases

\* What a lone run has charged for is matched by periods, by what it has in
\* memory, or by a failure.
LEMMA LoneCharges ==
  ASSUME LoneRun, BackendInv, LoneInv, BillingNext
  PROVE  /\ \A s \in Subs : subs'[s].status = "absent" =>
              \A end \in Periods : charged'[<<s, end>>] = 0
         /\ ChargesMatchPeriods'
<1>1. failures \in Nat
  BY CycleAssumption DEF BackendInv, BillingInv, BillingTypeOK
<1>2. failures' = failures \/ failures' = failures + 1
  BY LoneCases
  DEF CreateSubscription, StartRun, ChargeAccepted, ChargeDeclined, LoadToRenew,
      LoadToDeactivate, Load, Compare, Save, EndRun, FailWriter, billingVars
<1>3. PICK lost \in Nat : lost = failures
  BY <1>1
<1>4. PICK later \in Nat : later = failures'
  BY <1>1, <1>2
<1>5. lost <= later /\ (LosesCharge => lost < later)
  BY <1>1, <1>2, <1>3, <1>4 DEF LosesCharge, FailWriter
<1>6. \A s \in Subs, end \in Periods : Balanced(s, end, lost)
  BY <1>3 DEF LoneInv, ChargesMatchPeriods, Balanced
<1>7. \A s \in Subs, end \in Periods :
        /\ subs'[s].status = "absent" => charged'[<<s, end>>] = 0
        /\ Balanced(s, end, later)'
  BY <1>5, <1>6, ChargeBalance
<1> QED
  BY <1>4, <1>7 DEF ChargesMatchPeriods, Balanced

\* The chat transactions do not touch the clock.
LEMMA ChatClock ==
  ASSUME [Next]_vars
  PROVE  now' = now \/ now' = now + 1
<1>1. ASSUME NEW r \in Requests,
             \/ Begin(r) \/ LockFreeUsage(r) \/ MissFreeUsage(r)
             \/ InsertFreeUsage(r) \/ DeductFree(r)
             \/ FallBackToSubscription(r) \/ RankSubscriptions(r)
             \/ LockSubscription(r) \/ DeductSubscription(r)
      PROVE  now' = now
  BY <1>1 DEF Begin, LockFreeUsage, MissFreeUsage, InsertFreeUsage, DeductFree,
     FallBackToSubscription, RankSubscriptions, LockSubscription,
     DeductSubscription, storeVars
<1>2. ASSUME NEW r \in Requests,
             \/ AskAi(r) \/ CreateMessage(r) \/ CreateLedgerRow(r) \/ Commit(r)
             \/ Respond(r) \/ LoseAnswer(r)
             \/ \E o \in {"refused", "failed"} : Rollback(r, o)
      PROVE  now' = now
  BY <1>2 DEF AskAi, CreateMessage, CreateLedgerRow, Commit, Respond,
     LoseAnswer, Rollback, storeVars
<1> QED
  BY <1>1, <1>2, StepCases DEF Tick, vars, storeVars

\* The steps of the chat transactions leave everything a run relies on alone.
LEMMA ChatKeepsLone ==
  ASSUME BackendInv, LoneInv, [Next]_vars, UNCHANGED billingVars
  PROVE  LoneInv'
<1>1. UNCHANGED <<step, due, entity, changed, charged, failures>>
  BY DEF billingVars
<1>2. /\ due \in [Runs -> Seq(DueRow)] /\ \A j \in Runs : j \in Writers
      /\ subs \in [Subs -> SubscriptionRow] /\ now \in Int
  BY DEF BackendInv, BillingInv, BillingTypeOK, Writers, IInv, TypeOK,
     StoreTypeOK
<1>3. now' \in Int /\ now' >= now
  <2>1. now' = now \/ now' = now + 1
    BY ChatClock
  <2> QED
    BY <1>2, <2>1
<1>4. \A s \in Subs : /\ subs'[s].status = subs[s].status
                      /\ subs'[s].endDate = subs[s].endDate
                      /\ subs'[s].autoRenew = subs[s].autoRenew
  BY ChatRow DEF BackendInv
<1>5. \A j \in Runs : Target(j)' = Target(j)
  BY <1>1 DEF Target
<1>6. ASSUME NEW j \in Runs
      PROVE  /\ ListOK(j)'
             /\ HasEntity(j)' => DecisionOK(j)'
             /\ step'[j] = "saving" => DifferenceOK(j)'
  <2>1. /\ ListOK(j)
        /\ HasEntity(j) => DecisionOK(j)
        /\ step[j] = "saving" => DifferenceOK(j)
    BY DEF LoneInv
  <2>2. \A i \in DOMAIN due[j] : /\ due[j][i].id \in Subs
                                 /\ subs[due[j][i].id].endDate \in Int
    <3>1. due[j] \in Seq(DueRow)
      BY <1>2
    <3>2. \A i \in DOMAIN due[j] : due[j][i] \in DueRow
      BY <3>1
    <3> QED
      BY <1>2, <3>2 DEF DueRow, SubscriptionRow
  <2>3. ListOK(j)'
    BY <1>1, <1>2, <1>3, <1>4, <2>1, <2>2, ListKept
  <2>4. HasEntity(j) => Target(j) \in Subs
    BY LoneTarget DEF BackendInv, BillingInv, StepInv, HasEntity
  <2>5. /\ HasEntity(j)' => DecisionOK(j)'
        /\ step'[j] = "saving" => DifferenceOK(j)'
    BY <1>1, <1>4, <1>5, <2>1, <2>4 DEF HasEntity, DecisionOK, DifferenceOK
  <2> QED
    BY <2>3, <2>5
<1>7. ASSUME NEW s \in Subs, NEW end \in Periods
      PROVE  Pending(s, end)' = Pending(s, end)
  BY <1>1, <1>5 DEF Pending, HasEntity
<1>8. \A s \in Subs : subs'[s].status = "absent" =>
        \A end \in Periods : charged'[<<s, end>>] = 0
  BY <1>1, <1>4 DEF LoneInv
<1>9. ChargesMatchPeriods'
  BY <1>1, <1>4, <1>7 DEF LoneInv, ChargesMatchPeriods
<1> QED
  BY <1>6, <1>8, <1>9 DEF LoneInv

\* With one run and no cancel request both invariants hold together.
LEMMA LoneInductive ==
  ASSUME LoneRun
  PROVE  BackendSpec => [](BackendInv /\ LoneInv)
<1>1. BackendInit => LoneInv
  <2> SUFFICES ASSUME BackendInit PROVE LoneInv
    OBVIOUS
  <2>1. \A j \in Runs : due[j] = <<>> /\ step[j] = "idle"
    BY DEF BackendInit, BillingInit, Writers
  <2>2. \A s \in Subs, end \in Periods :
          charged[<<s, end>>] = 0 /\ subs[s].endDate \in Nat
    <3>1. subs \in [Subs -> SubscriptionRow]
      BY InductiveInit DEF BackendInit, IInv, TypeOK, StoreTypeOK
    <3> QED
      BY <3>1 DEF BackendInit, BillingInit, SubscriptionRow
  <2>3. ASSUME NEW s \in Subs, NEW end \in Periods
        PROVE  charged[<<s, end>>] <=
                 (IF subs[s].endDate > end THEN 1 ELSE 0)
                   + Cardinality(Pending(s, end)) + failures
    <3>1. failures = 0 /\ charged[<<s, end>>] = 0
      BY <2>2 DEF BackendInit, BillingInit
    <3>2. Cardinality(Pending(s, end)) \in {0, 1}
      BY PendingCount
    <3> QED
      BY <3>1, <3>2
  <2> QED
    BY <2>1, <2>2, <2>3 DEF LoneInv, ListOK, HasEntity, ChargesMatchPeriods
<1>2. BackendInv /\ LoneInv /\ [BackendNext]_backendVars => LoneInv'
  <2> SUFFICES ASSUME BackendInv, LoneInv, [BackendNext]_backendVars
               PROVE  LoneInv'
    OBVIOUS
  <2>1. CASE BillingNext
    BY <2>1, LoneLists, LoneDecisions, LoneCharges DEF LoneInv
  <2>2. CASE [Next]_vars /\ UNCHANGED billingVars
    BY <2>2, ChatKeepsLone
  <2>3. CASE UNCHANGED backendVars
    BY <2>2, <2>3 DEF backendVars, vars
  <2> QED
    BY <2>1, <2>2, <2>3 DEF BackendNext, Next
<1> QED
  BY BackendInductive, <1>1, <1>2, PTL DEF BackendSpec

\* Every charge of a lone run has bought a period, is about to, or was lost
\* with one of the counted failures.
THEOREM ChargesBuyPeriods ==
  ASSUME LoneRun
  PROVE  BackendSpec => []ChargesMatchPeriods
<1>1. LoneInv => ChargesMatchPeriods
  BY DEF LoneInv
<1> QED
  BY LoneInductive, <1>1, PTL

\* Chat transactions neither charge nor extend.
LEMMA ChatKeepsBalance ==
  ASSUME BackendInv, [Next]_vars, UNCHANGED billingVars,
         NEW s \in Subs, NEW end \in Periods, NEW lost, Balanced(s, end, lost)
  PROVE  Balanced(s, end, lost)'
<1>1. UNCHANGED <<step, due, entity, charged>>
  BY DEF billingVars
<1>2. subs'[s].endDate = subs[s].endDate
  BY ChatRow DEF BackendInv
<1>3. Pending(s, end)' = Pending(s, end)
  BY <1>1 DEF Pending, HasEntity, Target
<1> QED
  BY <1>1, <1>2, <1>3 DEF Balanced

\* A run on its own never has a period paid for twice, however it interleaves
\* with the chat and whatever else fails, unless it fails itself between an
\* accepted charge and its save: what it has listed is still due when it
\* charges, and a row that a charge is pending for has not moved on.
THEOREM PaidOnceByALoneRun ==
  ASSUME LoneRun
  PROVE  BackendSpec /\ [][~ LosesCharge]_backendVars => []PeriodPaidOnce
<1> DEFINE Exact == \A s \in Subs, end \in Periods : Balanced(s, end, 0)
<1>1. BackendInit => Exact
  <2> SUFFICES ASSUME BackendInit, NEW s \in Subs, NEW end \in Periods
               PROVE  Balanced(s, end, 0)
    OBVIOUS
  <2>1. charged[<<s, end>>] = 0
    BY DEF BackendInit, BillingInit
  <2>2. Cardinality(Pending(s, end)) \in {0, 1}
    BY PendingCount
  <2> QED
    BY <2>1, <2>2 DEF Balanced
<1>2. ASSUME BackendInv, LoneInv, Exact, [BackendNext]_backendVars,
             [~ LosesCharge]_backendVars
      PROVE  Exact'
  <2> SUFFICES ASSUME NEW s \in Subs, NEW end \in Periods
               PROVE  Balanced(s, end, 0)'
    OBVIOUS
  <2>1. Balanced(s, end, 0)
    BY <1>2
  <2>2. CASE [Next]_vars /\ UNCHANGED billingVars
    BY <1>2, <2>1, <2>2, ChatKeepsBalance
  <2>3. CASE BillingNext /\ ~ LosesCharge
    <3>1. 0 \in Nat /\ 0 <= 0 /\ (LosesCharge => 0 < 0)
      BY <2>3
    <3>2. BackendInv /\ LoneInv
      BY <1>2
    <3> HIDE <1>2
    <3> QED
      BY <2>1, <2>3, <3>1, <3>2, ChargeBalance
  <2> QED
    BY <1>2, <2>2, <2>3 DEF BackendNext, Next, backendVars, vars
<1>3. ASSUME BackendInv, LoneInv, Exact PROVE PeriodPaidOnce
  <2> SUFFICES ASSUME NEW s \in Subs, NEW end \in Periods
               PROVE  charged[<<s, end>>] <= 1
    BY DEF PeriodPaidOnce
  <2>1. /\ charged[<<s, end>>] \in Nat
        /\ charged[<<s, end>>] <= (IF subs[s].endDate > end THEN 1 ELSE 0)
                                    + Cardinality(Pending(s, end))
    <3>1. charged[<<s, end>>] \in Nat /\ Balanced(s, end, 0)
      BY <1>3 DEF BackendInv, BillingInv, BillingTypeOK
    <3>2. Cardinality(Pending(s, end)) \in {0, 1}
      BY PendingCount
    <3> QED
      BY <3>1, <3>2 DEF Balanced
  <2>2. CASE Pending(s, end) = {}
    BY <2>1, <2>2, FS_EmptySet
  <2>3. CASE Pending(s, end) # {}
    <3>1. PICK j \in Runs : j \in Pending(s, end)
      BY <2>3 DEF Pending
    <3>2. due[j] # <<>>
      BY <1>3, <3>1 DEF Pending, HasEntity, BackendInv, BillingInv, StepInv
    <3>3. subs[s].endDate = end /\ end \in Int
      <4>1. subs[Target(j)].endDate = Head(due[j]).endDate
        BY <1>3, <3>2, LoneTarget
      <4>2. Target(j) = s /\ Head(due[j]).endDate = end
        BY <3>1 DEF Pending
      <4> QED
        BY <4>1, <4>2 DEF Periods
    <3>4. Cardinality(Pending(s, end)) \in {0, 1}
      BY PendingCount
    <3> QED
      BY <2>1, <3>3, <3>4
  <2> QED
    BY <2>2, <2>3
<1> QED
  BY LoneInductive, <1>1, <1>2, <1>3, PTL DEF BackendSpec

\* The billing and chat transactions implement SubscriptionLife when one run
\* at a time renews and nobody cancels: a due subscription is extended by one
\* cycle or deactivated, and is due when that happens.
THEOREM LifeImplemented ==
  ASSUME LoneRun
  PROVE  BackendSpec => ImplementsSubscriptionLife
<1> DEFINE life == [s \in Subs |-> [status |-> subs[s].status,
                                   endDate |-> subs[s].endDate,
                                   autoRenew |-> subs[s].autoRenew]]
<1>1. BackendInit => Life!Init
  <2> SUFFICES ASSUME BackendInit PROVE Life!Init
    OBVIOUS
  <2>1. subs \in [Subs -> SubscriptionRow]
    BY InductiveInit DEF BackendInit, IInv, TypeOK, StoreTypeOK
  <2> QED
    BY <2>1 DEF BackendInit, Init, StoreInit, Life!Init, Life!Statuses,
       SubscriptionRow, Statuses
<1>2. BackendInv /\ LoneInv /\ [BackendNext]_backendVars =>
        [Life!Next]_<<now, life>>
  <2> SUFFICES ASSUME BackendInv, LoneInv, [BackendNext]_backendVars
               PROVE  Life!Next \/ UNCHANGED <<now, life>>
    OBVIOUS
  <2>1. subs \in [Subs -> SubscriptionRow]
    BY DEF BackendInv, IInv, TypeOK, StoreTypeOK
  <2>2. CASE [Next]_vars
    <3>1. UNCHANGED life
      BY <2>2, ChatRow DEF BackendInv
    <3>2. now' = now \/ now' = now + 1
      BY <2>2, ChatClock
    <3> QED
      BY <3>1, <3>2 DEF Life!Next, Life!Pass
  <2>3. CASE UNCHANGED backendVars
    BY <2>2, <2>3 DEF backendVars, vars
  <2>4. ASSUME NEW s \in Subs, CreateSubscription(s)
        PROVE  Life!Next
    <3>1. PICK body \in NewRows :
            subs' = [subs EXCEPT ![s] =
                       [user |-> body.user, status |-> "active",
                        limit |-> body.limit, remaining |-> body.limit,
                        endDate |-> now + CycleLength,
                        autoRenew |-> body.autoRenew]]
      BY <2>4 DEF CreateSubscription
    <3>2. /\ life[s].status = "absent" /\ now' = now
          /\ body.autoRenew \in BOOLEAN
      BY <2>4, NewRowsAssumption DEF CreateSubscription, chatTables
    <3>3. life' = [life EXCEPT ![s] = [status |-> "active",
                                       autoRenew |-> body.autoRenew,
                                       endDate |-> now + CycleLength]]
      BY <2>1, <3>1
    <3> QED
      BY <3>2, <3>3 DEF Life!Next, Life!Subscribe
  <2>5. ASSUME NEW j \in Runs, Save(j)
        PROVE  Life!Next
    <3>1. /\ due[j] # <<>> /\ DecisionOK(j)
          /\ \A s \in Subs : s # Target(j) => subs'[s] = subs[s]
          /\ subs'[Target(j)].status = entity[j].status
          /\ subs'[Target(j)].endDate = entity[j].endDate
          /\ subs'[Target(j)].autoRenew = entity[j].autoRenew
      BY <2>5, LoneSave
    <3>2. Target(j) \in Subs /\ IsDue(Target(j))
      BY <3>1, LoneTarget
    <3>3. Life!Due(Target(j)) /\ now' = now
      BY <2>5, <3>2 DEF Life!Due, IsDue, Save, chatTables
    <3>4. CASE /\ entity[j].status = "active"
               /\ entity[j].autoRenew = subs[Target(j)].autoRenew
               /\ entity[j].endDate = subs[Target(j)].endDate + CycleLength
      <4>1. life' = [life EXCEPT ![Target(j)].endDate = @ + CycleLength]
        BY <3>1, <3>2, <3>4 DEF IsDue
      <4> QED
        BY <3>2, <3>3, <4>1 DEF Life!Next, Life!Extend
    <3>5. CASE /\ entity[j].status = "inactive" /\ entity[j].autoRenew = FALSE
               /\ entity[j].endDate = subs[Target(j)].endDate
      <4>1. life' = [life EXCEPT ![Target(j)].status = "inactive",
                                 ![Target(j)].autoRenew = FALSE]
        BY <3>1, <3>2, <3>5
      <4> QED
        BY <3>2, <3>3, <4>1 DEF Life!Next, Life!Lapse
    <3> QED
      BY <3>1, <3>4, <3>5 DEF DecisionOK
  <2>6. ASSUME NEW j \in Runs,
               \/ StartRun(j) \/ ChargeAccepted(j) \/ ChargeDeclined(j)
               \/ LoadToRenew(j) \/ LoadToDeactivate(j) \/ EndRun(j)
               \/ Compare(j) \/ FailWriter(j)
        PROVE  UNCHANGED <<now, life>>
    BY <2>6 DEF StartRun, ChargeAccepted, ChargeDeclined, LoadToRenew,
       LoadToDeactivate, Load, EndRun, Compare, FailWriter, storeVars, tables
  <2> QED
    BY <2>2, <2>3, <2>4, <2>5, <2>6, LoneCases
    DEF BackendNext, Next, backendVars, vars
<1> QED
  BY LoneInductive, <1>1, <1>2, PTL
  DEF BackendSpec, ImplementsSubscriptionLife, Life!Spec

=============================================================================
