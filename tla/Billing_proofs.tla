--------------------------- MODULE Billing_proofs ---------------------------
(***************************************************************************)
(* The inductive invariant of the subscription writers is kept by their    *)
(* own steps.  Steps of the chat are in Backend_theorems.                  *)
(***************************************************************************)
EXTENDS Billing, FiniteSetTheorems, TLAPS

\* The first element and the rest of a list that is not empty.
LEMMA HeadAndTail ==
  ASSUME NEW S, NEW q \in Seq(S), q # <<>>
  PROVE  /\ 1 \in DOMAIN q /\ Head(q) = q[1] /\ Head(q) \in S
         /\ Tail(q) \in Seq(S)
         /\ \A i \in DOMAIN Tail(q) : i + 1 \in DOMAIN q /\ Tail(q)[i] = q[i + 1]
OBVIOUS

\* The list of due subscriptions has them as elements.
LEMMA DueListsType ==
  ASSUME NEW q \in DueLists
  PROVE  /\ q \in Seq(Subs)
         /\ \A i \in DOMAIN q : IsDue(q[i])
<1>1. IsFiniteSet(DueNow)
  BY FiniteAssumption, FS_Subset DEF DueNow
<1>2. Cardinality(DueNow) \in Nat
  BY <1>1, FS_CardinalityType
<1>3. q \in [1 .. Cardinality(DueNow) -> DueNow]
  BY DEF DueLists
<1>4. DueNow \subseteq Subs
  BY DEF DueNow
<1>5. q \in Seq(Subs)
  BY <1>2, <1>3, <1>4
<1>6. \A i \in DOMAIN q : q[i] \in DueNow
  BY <1>3
<1> QED
  BY <1>5, <1>6 DEF DueNow

\* What a writer with a row to work on refers to.
LEMMA TargetType ==
  ASSUME BillingTypeOK, StepInv, NEW w \in Writers,
         step[w] \in {"charged", "declined", "checked", "loaded", "saving"}
  PROVE  /\ Target(w) \in Subs
         /\ w \in Runs => due[w] # <<>> /\ Head(due[w]) \in DueRow
<1>1. CASE w \in Runs
  <2>1. due[w] \in Seq(DueRow) /\ due[w] # <<>>
    BY <1>1 DEF BillingTypeOK, StepInv
  <2>2. Head(due[w]) \in DueRow
    BY <2>1, HeadAndTail
  <2> QED
    BY <1>1, <2>1, <2>2 DEF Target, DueRow
<1>2. CASE w \notin Runs
  BY <1>2 DEF Target, BillingTypeOK, Writers
<1> QED
  BY <1>1, <1>2

\* Every billing step is one of these, by one writer or on one new row.
LEMMA BillingCases ==
  ASSUME BillingNext
  PROVE  \/ \E s \in Subs : CreateSubscription(s)
         \/ \E j \in Runs : \/ StartRun(j) \/ ChargeAccepted(j)
                            \/ ChargeDeclined(j) \/ LoadToRenew(j)
                            \/ LoadToDeactivate(j) \/ EndRun(j)
         \/ \E c \in Cancels : CheckCancel(c) \/ LoadToCancel(c)
         \/ \E w \in Writers : Compare(w) \/ Save(w) \/ FailWriter(w)
BY DEF BillingNext, Renewal, Cancellation, SaveEntity, Writers

\* The row save writes: the owner and the tier of the stored row, and every
\* other column from the stored row or from the entity.
LEMMA UpdatedRow ==
  ASSUME NEW w \in Writers, subs[Target(w)] \in SubscriptionRow,
         entity[w] \in SubscriptionRow
  PROVE  /\ Updated(w) \in SubscriptionRow
         /\ Updated(w).user = subs[Target(w)].user
         /\ Updated(w).limit = subs[Target(w)].limit
         /\ Updated(w).status \in {subs[Target(w)].status, entity[w].status}
         /\ Updated(w).remaining \in
              {subs[Target(w)].remaining, entity[w].remaining}
         /\ Updated(w).endDate \in {subs[Target(w)].endDate, entity[w].endDate}
BY DEF Updated, SubscriptionRow

-----------------------------------------------------------------------------
(* Types                                                                   *)

\* Every billing step keeps the types of the writers and of the table.
LEMMA BillingTypeStep ==
  ASSUME StoreTypeOK, BillingInv, BillingNext
  PROVE  BillingTypeOK' /\ StoreTypeOK'
<1> USE DEF BillingInv, BillingTypeOK, StoreTypeOK, Steps
<1>1. ASSUME NEW s \in Subs, CreateSubscription(s)
      PROVE  BillingTypeOK' /\ StoreTypeOK'
  <2>1. PICK body \in NewRows :
          subs' = [subs EXCEPT ![s] =
                  [user |-> body.user, status |-> "active",
                   limit |-> body.limit, remaining |-> body.limit,
                   endDate |-> now + CycleLength,
                   autoRenew |-> body.autoRenew]]
    BY <1>1 DEF CreateSubscription
  <2>2. body \in [user : Users, limit : Quantity, autoRenew : BOOLEAN]
    BY NewRowsAssumption
  <2>3. now + CycleLength \in Nat
    BY CycleAssumption
  <2>4. subs' \in [Subs -> SubscriptionRow]
    BY <2>1, <2>2, <2>3 DEF SubscriptionRow, Statuses
  <2> QED
    BY <1>1, <2>4 DEF CreateSubscription, chatTables, billingVars, locks
<1>2. ASSUME NEW c \in Cancels, CheckCancel(c)
      PROVE  BillingTypeOK' /\ StoreTypeOK'
  BY <1>2 DEF CheckCancel, storeVars, tables, locks
<1>3. ASSUME NEW w \in Writers, NEW row \in SubscriptionRow, Load(w, row)
      PROVE  BillingTypeOK' /\ StoreTypeOK'
  BY <1>3 DEF Load, storeVars, tables, locks
<1>4. ASSUME NEW c \in Cancels, LoadToCancel(c)
      PROVE  BillingTypeOK' /\ StoreTypeOK'
  <2>1. subs[order[c].id] \in SubscriptionRow
    OBVIOUS
  <2>2. [subs[order[c].id] EXCEPT !.autoRenew = FALSE, !.status = "cancelled"]
          \in SubscriptionRow
    BY <2>1 DEF SubscriptionRow, Statuses
  <2> QED
    BY <1>3, <1>4, <2>2 DEF LoadToCancel, Writers
<1>5. ASSUME NEW j \in Runs, StartRun(j)
      PROVE  BillingTypeOK' /\ StoreTypeOK'
  <2>1. PICK q \in DueLists :
          due' = [due EXCEPT ![j] = [i \in DOMAIN q |->
                   [id |-> q[i], endDate |-> subs[q[i]].endDate]]]
    BY <1>5 DEF StartRun
  <2>2. q \in Seq(Subs) /\ \A i \in DOMAIN q : IsDue(q[i])
    BY DueListsType
  <2>3. \A i \in DOMAIN q : [id |-> q[i], endDate |-> subs[q[i]].endDate]
                              \in DueRow
    <3> SUFFICES ASSUME NEW i \in DOMAIN q
                 PROVE  [id |-> q[i], endDate |-> subs[q[i]].endDate] \in DueRow
      OBVIOUS
    <3>1. q[i] \in Subs /\ subs[q[i]].endDate <= now
      BY <2>2 DEF IsDue
    <3>2. subs[q[i]].endDate \in Nat
      BY <3>1 DEF SubscriptionRow
    <3> QED
      BY <3>1, <3>2, ClockAssumption DEF DueRow, Periods
  <2>4. [i \in DOMAIN q |-> [id |-> q[i], endDate |-> subs[q[i]].endDate]]
          \in Seq(DueRow)
    <3> DEFINE f(i) == [id |-> q[i], endDate |-> subs[q[i]].endDate]
    <3>1. DOMAIN q = 1 .. Len(q) /\ Len(q) \in Nat
      BY <2>2
    <3>2. \A i \in 1 .. Len(q) : f(i) \in DueRow
      BY <2>3, <3>1
    <3> HIDE DEF f
    <3>3. [i \in 1 .. Len(q) |-> f(i)] \in Seq(DueRow)
      BY <3>1, <3>2
    <3> QED
      BY <3>1, <3>3 DEF f
  <2> QED
    BY <1>5, <2>1, <2>4 DEF StartRun, Writers, storeVars, tables, locks
<1>6. ASSUME NEW j \in Runs, ChargeAccepted(j)
      PROVE  BillingTypeOK' /\ StoreTypeOK'
  <2>1. Head(due[j]) \in DueRow
    BY <1>6, HeadAndTail DEF ChargeAccepted
  <2>2. <<Head(due[j]).id, Head(due[j]).endDate>> \in Subs \X Periods
    BY <2>1 DEF DueRow
  <2>3. charged' \in [Subs \X Periods -> Nat]
    BY <1>6, <2>2 DEF ChargeAccepted
  <2> QED
    BY <1>6, <2>3 DEF ChargeAccepted, Writers, storeVars, tables, locks
<1>7. ASSUME NEW j \in Runs, ChargeDeclined(j)
      PROVE  BillingTypeOK' /\ StoreTypeOK'
  BY <1>7 DEF ChargeDeclined, Writers, storeVars, tables, locks
<1>8. ASSUME NEW j \in Runs, LoadToRenew(j)
      PROVE  BillingTypeOK' /\ StoreTypeOK'
  <2>1. Target(j) \in Subs /\ Head(due[j]) \in DueRow
    BY <1>8, TargetType DEF LoadToRenew, Writers
  <2>2. Head(due[j]).endDate + CycleLength \in Nat
    BY <2>1, CycleAssumption DEF DueRow, Periods
  <2>3. [subs[Target(j)] EXCEPT
           !.endDate = Head(due[j]).endDate + CycleLength,
           !.remaining = subs[Target(j)].limit,
           !.status = "active"] \in SubscriptionRow
    BY <2>1, <2>2 DEF SubscriptionRow, Statuses
  <2> QED
    BY <1>3, <1>8, <2>3 DEF LoadToRenew, Writers
<1>9. ASSUME NEW j \in Runs, LoadToDeactivate(j)
      PROVE  BillingTypeOK' /\ StoreTypeOK'
  <2>1. Target(j) \in Subs
    BY <1>9, TargetType DEF LoadToDeactivate, Writers
  <2>2. [subs[Target(j)] EXCEPT !.status = "inactive", !.autoRenew = FALSE]
          \in SubscriptionRow
    BY <2>1 DEF SubscriptionRow, Statuses
  <2> QED
    BY <1>3, <1>9, <2>2 DEF LoadToDeactivate, Writers
<1>10. ASSUME NEW j \in Runs, EndRun(j)
       PROVE  BillingTypeOK' /\ StoreTypeOK'
  BY <1>10 DEF EndRun, Writers, storeVars, tables, locks
<1>11. ASSUME NEW w \in Writers, Compare(w)
       PROVE  BillingTypeOK' /\ StoreTypeOK'
  BY <1>11 DEF Compare, storeVars, tables, locks
<1>12. ASSUME NEW w \in Writers, Save(w)
       PROVE  BillingTypeOK' /\ StoreTypeOK'
  <2>1. Target(w) \in Subs /\ entity[w] \in SubscriptionRow
    BY <1>12, TargetType DEF Save, StepInv, HasEntity
  <2>2. subs' \in [Subs -> SubscriptionRow]
    BY <1>12, <2>1, UpdatedRow DEF Save
  <2>3. w \in Runs => due[w] \in Seq(DueRow) /\ due[w] # <<>>
    BY <1>12 DEF Save, StepInv
  <2>4. w \in Runs => Tail(due[w]) \in Seq(DueRow)
    BY <2>3, HeadAndTail
  <2>5. due' \in [Runs -> Seq(DueRow)]
    BY <1>12, <2>4 DEF Save, Saved
  <2> QED
    BY <1>12, <2>2, <2>5 DEF Save, Saved, chatTables, locks
<1>13. ASSUME NEW w \in Writers, FailWriter(w)
       PROVE  BillingTypeOK' /\ StoreTypeOK'
  <2>1. due' \in [Runs -> Seq(DueRow)]
    BY <1>13 DEF FailWriter
  <2>2. failures' \in 0 .. MaxFailures
    BY <1>13, CycleAssumption DEF FailWriter
  <2> QED
    BY <1>13, <2>1, <2>2 DEF FailWriter, storeVars, tables, locks
<1> QED
  BY BillingCases, <1>1, <1>2, <1>4, <1>5, <1>6, <1>7, <1>8, <1>9, <1>10,
     <1>11, <1>12, <1>13

-----------------------------------------------------------------------------
(* Steps                                                                   *)

\* Loading an entity keeps StepInv, when the loader had a row to work on.
LEMMA LoadKeepsStepInv ==
  ASSUME BillingTypeOK, StepInv, NEW w \in Writers, NEW row \in SubscriptionRow,
         step[w] \in {"charged", "declined", "checked"}, Load(w, row)
  PROVE  StepInv'
BY WritersAssumption DEF BillingTypeOK, StepInv, Load, HasEntity, Writers

\* Every billing step keeps what a writer has in memory in line with its step.
LEMMA StepStep ==
  ASSUME StoreTypeOK, BillingInv, BillingNext
  PROVE  StepInv'
<1> USE DEF BillingInv
<1>1. ASSUME NEW s \in Subs, CreateSubscription(s)
      PROVE  StepInv'
  BY <1>1 DEF CreateSubscription, billingVars, StepInv, HasEntity
<1>2. ASSUME NEW c \in Cancels, CheckCancel(c)
      PROVE  StepInv'
  BY <1>2, WritersAssumption
  DEF CheckCancel, BillingTypeOK, StepInv, HasEntity, Writers
<1>3. ASSUME NEW c \in Cancels, LoadToCancel(c)
      PROVE  StepInv'
  <2>1. [subs[order[c].id] EXCEPT !.autoRenew = FALSE, !.status = "cancelled"]
          \in SubscriptionRow
    <3>1. subs[order[c].id] \in SubscriptionRow
      BY DEF StoreTypeOK, BillingTypeOK
    <3> QED
      BY <3>1 DEF SubscriptionRow, Statuses
  <2>2. c \in Writers /\ step[c] = "checked"
    BY <1>3 DEF LoadToCancel, Writers
  <2>3. \E row \in SubscriptionRow : Load(c, row)
    BY <1>3, <2>1 DEF LoadToCancel
  <2> QED
    BY <2>2, <2>3, LoadKeepsStepInv
<1>4. ASSUME NEW j \in Runs,
             StartRun(j) \/ ChargeAccepted(j) \/ ChargeDeclined(j)
      PROVE  StepInv'
  <2>1. CASE StartRun(j)
    <3>1. PICK list : due' = [due EXCEPT ![j] = list]
      BY <2>1 DEF StartRun
    <3> QED
      BY <2>1, <3>1, WritersAssumption
      DEF StartRun, BillingTypeOK, StepInv, HasEntity, Writers
  <2>2. CASE ChargeAccepted(j) \/ ChargeDeclined(j)
    <3>1. due[j] # <<>> /\ step[j] = "next" /\ UNCHANGED <<due, entity, changed>>
      BY <2>2 DEF ChargeAccepted, ChargeDeclined
    <3>2. step' = [step EXCEPT ![j] = step'[j]]
          /\ step'[j] \in {"charged", "declined"}
      BY <2>2 DEF ChargeAccepted, ChargeDeclined, BillingTypeOK, Writers
    <3> QED
      BY <3>1, <3>2, WritersAssumption
      DEF BillingTypeOK, StepInv, HasEntity, Writers
  <2> QED
    BY <1>4, <2>1, <2>2
<1>5. ASSUME NEW j \in Runs, EndRun(j)
      PROVE  StepInv'
  BY <1>5, WritersAssumption
  DEF EndRun, BillingTypeOK, StepInv, HasEntity, Writers
<1>6. ASSUME NEW j \in Runs, LoadToRenew(j)
      PROVE  StepInv'
  <2>1. Target(j) \in Subs /\ Head(due[j]) \in DueRow
    BY <1>6, TargetType DEF LoadToRenew, Writers
  <2>2. Head(due[j]).endDate + CycleLength \in Nat
    BY <2>1, CycleAssumption DEF DueRow, Periods
  <2>3. [subs[Target(j)] EXCEPT
           !.endDate = Head(due[j]).endDate + CycleLength,
           !.remaining = subs[Target(j)].limit,
           !.status = "active"] \in SubscriptionRow
    BY <2>1, <2>2 DEF StoreTypeOK, SubscriptionRow, Statuses
  <2> QED
    BY <1>6, <2>3, LoadKeepsStepInv DEF LoadToRenew, Writers
<1>7. ASSUME NEW j \in Runs, LoadToDeactivate(j)
      PROVE  StepInv'
  <2>1. Target(j) \in Subs
    BY <1>7, TargetType DEF LoadToDeactivate, Writers
  <2>2. [subs[Target(j)] EXCEPT !.status = "inactive", !.autoRenew = FALSE]
          \in SubscriptionRow
    BY <2>1 DEF StoreTypeOK, SubscriptionRow, Statuses
  <2> QED
    BY <1>7, <2>2, LoadKeepsStepInv DEF LoadToDeactivate, Writers
<1>8. ASSUME NEW w \in Writers, Compare(w)
      PROVE  StepInv'
  BY <1>8, WritersAssumption
  DEF Compare, BillingTypeOK, StepInv, HasEntity, Writers
<1>9. ASSUME NEW w \in Writers, Save(w)
      PROVE  StepInv'
  BY <1>9, WritersAssumption
  DEF Save, Saved, BillingTypeOK, StepInv, HasEntity, Writers
<1>10. ASSUME NEW w \in Writers, FailWriter(w)
       PROVE  StepInv'
  BY <1>10, WritersAssumption
  DEF FailWriter, BillingTypeOK, StepInv, HasEntity, Writers
<1> QED
  BY BillingCases, <1>1, <1>2, <1>3, <1>4, <1>5, <1>6, <1>7, <1>8, <1>9, <1>10

-----------------------------------------------------------------------------
(* What a billing step does to a row                                       *)

\* A row is created, or keeps its owner and tier, does not disappear, stays
\* within its allotment, and changes only while no chat transaction holds it.
LEMMA RowEffect ==
  ASSUME StoreTypeOK, BillingInv, BillingNext, NEW s \in Subs
  PROVE  /\ subs[s].status # "absent" =>
              /\ subs'[s].status # "absent"
              /\ subs'[s].user = subs[s].user
              /\ subs'[s].limit = subs[s].limit
         /\ subs'[s] # subs[s] => subs[s].status = "absent" \/ subLock[s] = Null
         /\ WithinAllotment(subs[s])'
<1> USE DEF BillingInv
<1>1. CASE subs' = subs
  BY <1>1 DEF AllotmentInv, WithinAllotment
<1>2. ASSUME NEW t \in Subs, CreateSubscription(t)
      PROVE  /\ subs[s].status # "absent" => subs'[s] = subs[s]
             /\ WithinAllotment(subs[s])'
  <2>1. CASE s = t
    <3>1. PICK body \in NewRows : subs'[s] =
                  [user |-> body.user, status |-> "active",
                   limit |-> body.limit, remaining |-> body.limit,
                   endDate |-> now + CycleLength,
                   autoRenew |-> body.autoRenew]
      BY <1>2, <2>1 DEF CreateSubscription, StoreTypeOK
    <3>2. body.limit \in Quantity
      BY NewRowsAssumption
    <3> QED
      BY <1>2, <2>1, <3>1, <3>2
      DEF CreateSubscription, WithinAllotment, Quantity, Unlimited
  <2>2. CASE s # t
    BY <1>2, <2>2 DEF CreateSubscription, AllotmentInv, WithinAllotment
  <2> QED
    BY <2>1, <2>2
<1>3. ASSUME NEW w \in Writers, Save(w), subs' # subs
      PROVE  /\ subs[s].status # "absent" =>
                  /\ subs'[s].status # "absent"
                  /\ subs'[s].user = subs[s].user
                  /\ subs'[s].limit = subs[s].limit
             /\ subs'[s] # subs[s] => subLock[s] = Null
             /\ WithinAllotment(subs[s])'
  <2>1. Target(w) \in Subs /\ entity[w] \in SubscriptionRow
    BY <1>3, TargetType DEF Save, StepInv, HasEntity, BillingTypeOK
  <2>2. /\ subLock[Target(w)] = Null
        /\ subs' = [subs EXCEPT ![Target(w)] = Updated(w)]
    BY <1>3 DEF Save
  <2>3. CASE s = Target(w)
    <3>1. subs'[s] = Updated(w) /\ subs[s] \in SubscriptionRow
      BY <2>1, <2>2, <2>3 DEF StoreTypeOK
    <3>2. /\ entity[w].status # "absent"
          /\ entity[w].limit = subs[s].limit
          /\ WithinAllotment(entity[w])
          /\ WithinAllotment(subs[s])
      BY <1>3, <2>3 DEF Save, RowsKept, AllotmentInv, HasEntity
    <3> QED
      BY <2>1, <2>2, <2>3, <3>1, <3>2, UpdatedRow DEF WithinAllotment
  <2>4. CASE s # Target(w)
    BY <2>2, <2>4 DEF StoreTypeOK, AllotmentInv, WithinAllotment
  <2> QED
    BY <2>3, <2>4
<1>4. \/ subs' = subs
      \/ \E t \in Subs : CreateSubscription(t)
      \/ \E w \in Writers : Save(w) /\ subs' # subs
  BY BillingCases
  DEF CheckCancel, LoadToCancel, Load, StartRun, ChargeAccepted,
      ChargeDeclined, LoadToRenew, LoadToDeactivate, EndRun, Compare,
      FailWriter, storeVars, tables
<1> QED
  BY <1>1, <1>2, <1>3, <1>4

-----------------------------------------------------------------------------
(* What a billing step does to a writer                                    *)

\* A step of another writer leaves a writer as it is.
LEMMA WriterCases ==
  ASSUME BillingTypeOK, BillingNext, NEW w \in Writers
  PROVE  \/ /\ step'[w] = step[w]
            /\ entity'[w] = entity[w]
            /\ w \in Runs => due'[w] = due[w]
         \/ w \in Runs /\ \/ StartRun(w) \/ ChargeAccepted(w)
                          \/ ChargeDeclined(w) \/ LoadToRenew(w)
                          \/ LoadToDeactivate(w) \/ EndRun(w)
         \/ w \in Cancels /\ (CheckCancel(w) \/ LoadToCancel(w))
         \/ Compare(w) \/ Save(w) \/ FailWriter(w)
<1> USE DEF BillingTypeOK
<1>1. CASE \E s \in Subs : CreateSubscription(s)
  BY <1>1 DEF CreateSubscription, billingVars
<1>2. ASSUME NEW j \in Runs, j # w,
             StartRun(j) \/ ChargeAccepted(j) \/ ChargeDeclined(j)
             \/ LoadToRenew(j) \/ LoadToDeactivate(j) \/ EndRun(j)
      PROVE  step'[w] = step[w] /\ entity'[w] = entity[w]
             /\ (w \in Runs => due'[w] = due[w])
  <2>1. CASE StartRun(j)
    <3>1. PICK list : due' = [due EXCEPT ![j] = list]
      BY <2>1 DEF StartRun
    <3> QED
      BY <1>2, <2>1, <3>1 DEF StartRun
  <2>2. CASE ChargeAccepted(j) \/ ChargeDeclined(j) \/ EndRun(j)
    BY <1>2, <2>2 DEF ChargeAccepted, ChargeDeclined, EndRun
  <2>3. CASE \E row : Load(j, row)
    BY <1>2, <2>3 DEF Load
  <2> QED
    BY <1>2, <2>1, <2>2, <2>3 DEF LoadToRenew, LoadToDeactivate
<1>3. ASSUME NEW c \in Cancels, c # w, CheckCancel(c) \/ LoadToCancel(c)
      PROVE  step'[w] = step[w] /\ entity'[w] = entity[w]
             /\ (w \in Runs => due'[w] = due[w])
  <2>1. CASE CheckCancel(c)
    BY <1>3, <2>1 DEF CheckCancel
  <2>2. CASE \E row : Load(c, row)
    BY <1>3, <2>2 DEF Load
  <2> QED
    BY <1>3, <2>1, <2>2 DEF LoadToCancel
<1>4. ASSUME NEW v \in Writers, v # w, Compare(v) \/ Save(v) \/ FailWriter(v)
      PROVE  step'[w] = step[w] /\ entity'[w] = entity[w]
             /\ (w \in Runs => due'[w] = due[w])
  BY <1>4 DEF Compare, Save, Saved, FailWriter
<1> QED
  BY BillingCases, <1>1, <1>2, <1>3, <1>4

\* What a run has still to do is what it had, less its head, or nothing, or
\* the list it has just read.
LEMMA DueCases ==
  ASSUME BillingTypeOK, StepInv, BillingNext, NEW j \in Runs
  PROVE  \/ due'[j] = due[j]
         \/ due[j] # <<>> /\ due'[j] = Tail(due[j])
         \/ due'[j] = <<>>
         \/ /\ UNCHANGED subs
            /\ \E q \in DueLists : due'[j] = [i \in DOMAIN q |->
                 [id |-> q[i], endDate |-> subs[q[i]].endDate]]
<1>1. j \in Writers
  BY DEF Writers
<1>2. CASE StartRun(j)
  <2>1. PICK q \in DueLists :
          due' = [due EXCEPT ![j] = [i \in DOMAIN q |->
                   [id |-> q[i], endDate |-> subs[q[i]].endDate]]]
    BY <1>2 DEF StartRun
  <2>2. UNCHANGED subs
    BY <1>2 DEF StartRun, storeVars, tables
  <2> QED
    BY <2>1, <2>2 DEF BillingTypeOK
<1>3. CASE ChargeAccepted(j) \/ ChargeDeclined(j) \/ EndRun(j) \/ Compare(j)
  BY <1>3 DEF ChargeAccepted, ChargeDeclined, EndRun, Compare
<1>4. CASE LoadToRenew(j) \/ LoadToDeactivate(j)
  BY <1>4 DEF LoadToRenew, LoadToDeactivate, Load
<1>5. CASE Save(j)
  BY <1>5 DEF Save, Saved, StepInv
<1>6. CASE FailWriter(j)
  BY <1>6 DEF FailWriter
<1>7. CASE j \in Cancels
  BY <1>7, WritersAssumption
<1> QED
  BY <1>1, <1>2, <1>3, <1>4, <1>5, <1>6, <1>7, WriterCases

\* An entity a writer has after a step it had before, or has just loaded from
\* the stored row, with the end of that row or of the period it charged for.
LEMMA EntityCases ==
  ASSUME StoreTypeOK, BillingInv, BillingNext, NEW w \in Writers, HasEntity(w)'
  PROVE  /\ Target(w)' = Target(w)
         /\ Target(w) \in Subs
         /\ subs[Target(w)].status # "absent"
         /\ \/ HasEntity(w) /\ entity'[w] = entity[w]
            \/ /\ subs' = subs
               /\ entity'[w].user = subs[Target(w)].user
               /\ entity'[w].limit = subs[Target(w)].limit
               /\ entity'[w].status # "absent"
               /\ entity'[w].remaining \in
                    {subs[Target(w)].remaining, subs[Target(w)].limit}
               /\ \/ entity'[w].endDate = subs[Target(w)].endDate
                  \/ /\ w \in Runs
                     /\ step[w] = "charged"
                     /\ entity'[w].endDate = Head(due[w]).endDate + CycleLength
<1> USE DEF BillingInv
<1>1. step'[w] \in {"loaded", "saving"} /\ StepInv'
  BY StepStep DEF HasEntity
<1>2. ASSUME step[w] \in {"charged", "declined", "checked", "loaded", "saving"}
      PROVE  Target(w) \in Subs /\ subs[Target(w)].status # "absent"
  <2>1. Target(w) \in Subs
    BY <1>2, TargetType
  <2>2. CASE w \in Runs
    <3>1. due[w] \in Seq(DueRow) /\ due[w] # <<>>
      BY <1>2, <2>2 DEF BillingTypeOK, StepInv
    <3>2. 1 \in DOMAIN due[w] /\ Head(due[w]) = due[w][1]
      BY <3>1
    <3> QED
      BY <2>1, <2>2, <3>2 DEF RowsKept, Target
  <2>3. CASE w \notin Runs
    BY <1>2, <2>1, <2>3 DEF RowsKept, Target, Writers, StepInv
  <2> QED
    BY <2>1, <2>2, <2>3
<1>3. order' = order
  BY BillingCases DEF CreateSubscription, billingVars, StartRun,
     ChargeAccepted, ChargeDeclined, LoadToRenew, LoadToDeactivate, EndRun,
     CheckCancel, LoadToCancel, Load, Compare, Save, FailWriter
<1>4. CASE /\ step'[w] = step[w]
           /\ entity'[w] = entity[w]
           /\ w \in Runs => due'[w] = due[w]
  BY <1>1, <1>2, <1>3, <1>4 DEF HasEntity, Target
<1>5. CASE Compare(w)
  BY <1>2, <1>5 DEF Compare, HasEntity, Target
<1>6. ASSUME NEW row \in SubscriptionRow, Load(w, row)
      PROVE  /\ subs' = subs
             /\ entity'[w] = row
             /\ Target(w)' = Target(w)
  BY <1>6 DEF Load, Target, BillingTypeOK, storeVars, tables
<1>7. CASE w \in Cancels /\ LoadToCancel(w)
  <2>1. /\ Target(w) = order[w].id
        /\ Target(w) \in Subs
        /\ subs[Target(w)].status # "absent"
    BY <1>2, <1>7, WritersAssumption DEF LoadToCancel, Target
  <2>2. subs[Target(w)] \in SubscriptionRow
    BY <2>1 DEF StoreTypeOK
  <2> DEFINE row == [subs[Target(w)] EXCEPT !.autoRenew = FALSE,
                                            !.status = "cancelled"]
  <2>3. row \in SubscriptionRow
    BY <2>2 DEF SubscriptionRow, Statuses
  <2>4. subs' = subs /\ entity'[w] = row /\ Target(w)' = Target(w)
    BY <1>6, <1>7, <2>1, <2>3 DEF LoadToCancel
  <2> QED
    BY <2>1, <2>2, <2>4 DEF SubscriptionRow
<1>8. CASE w \in Runs /\ LoadToDeactivate(w)
  <2>1. Target(w) \in Subs /\ subs[Target(w)].status # "absent"
    BY <1>2, <1>8 DEF LoadToDeactivate
  <2>2. subs[Target(w)] \in SubscriptionRow
    BY <2>1 DEF StoreTypeOK
  <2> DEFINE row == [subs[Target(w)] EXCEPT !.status = "inactive",
                                            !.autoRenew = FALSE]
  <2>3. row \in SubscriptionRow
    BY <2>2 DEF SubscriptionRow, Statuses
  <2>4. subs' = subs /\ entity'[w] = row /\ Target(w)' = Target(w)
    BY <1>6, <1>8, <2>3 DEF LoadToDeactivate
  <2> QED
    BY <2>1, <2>2, <2>4 DEF SubscriptionRow
<1>9. CASE w \in Runs /\ LoadToRenew(w)
  <2>1. Target(w) \in Subs /\ subs[Target(w)].status # "absent"
    BY <1>2, <1>9 DEF LoadToRenew
  <2>2. subs[Target(w)] \in SubscriptionRow
    BY <2>1 DEF StoreTypeOK
  <2> DEFINE row == [subs[Target(w)] EXCEPT
                       !.endDate = Head(due[w]).endDate + CycleLength,
                       !.remaining = subs[Target(w)].limit,
                       !.status = "active"]
  <2>3. Head(due[w]).endDate + CycleLength \in Nat
    BY <1>9, TargetType, CycleAssumption DEF LoadToRenew, DueRow, Periods
  <2>4. row \in SubscriptionRow
    BY <2>2, <2>3 DEF SubscriptionRow, Statuses
  <2>5. subs' = subs /\ entity'[w] = row /\ Target(w)' = Target(w)
    BY <1>6, <1>9, <2>4 DEF LoadToRenew
  <2> QED
    BY <1>9, <2>1, <2>2, <2>5 DEF SubscriptionRow, LoadToRenew
<1>10. CASE \/ w \in Runs /\ (StartRun(w) \/ ChargeAccepted(w)
                              \/ ChargeDeclined(w) \/ EndRun(w))
            \/ w \in Cancels /\ CheckCancel(w)
            \/ Save(w) \/ FailWriter(w)
  <2>1. step'[w] \notin {"loaded", "saving"}
    BY <1>10 DEF StartRun, ChargeAccepted, ChargeDeclined, EndRun,
       CheckCancel, Save, Saved, FailWriter, BillingTypeOK
  <2> QED
    BY <1>1, <2>1
<1> QED
  BY <1>4, <1>5, <1>7, <1>8, <1>9, <1>10, WriterCases

-----------------------------------------------------------------------------
(* Rows                                                                    *)

\* What a run has still to do after a step are rows that are there, each with
\* an end it had before or the end that is stored.
LEMMA DueEntries ==
  ASSUME StoreTypeOK, BillingInv, BillingNext, NEW j \in Runs,
         NEW i \in DOMAIN due'[j]
  PROVE  /\ due'[j][i].id \in Subs
         /\ subs[due'[j][i].id].status # "absent"
         /\ \/ \E k \in DOMAIN due[j] : due[j][k] = due'[j][i]
            \/ due'[j][i].endDate = subs[due'[j][i].id].endDate
<1> USE DEF BillingInv
<1>1. due[j] \in Seq(DueRow)
  BY DEF BillingTypeOK
<1>2. ASSUME NEW k \in DOMAIN due[j]
      PROVE  due[j][k].id \in Subs /\ subs[due[j][k].id].status # "absent"
  <2>1. due[j][k] \in DueRow
    BY <1>1
  <2> QED
    BY <2>1 DEF DueRow, RowsKept
<1>3. CASE due'[j] = due[j]
  BY <1>2, <1>3
<1>4. CASE due[j] # <<>> /\ due'[j] = Tail(due[j])
  <2>1. i + 1 \in DOMAIN due[j] /\ due'[j][i] = due[j][i + 1]
    BY <1>1, <1>4, HeadAndTail
  <2> QED
    BY <1>2, <2>1
<1>5. CASE due'[j] = <<>>
  BY <1>5
<1>6. CASE \E q \in DueLists : due'[j] = [n \in DOMAIN q |->
                 [id |-> q[n], endDate |-> subs[q[n]].endDate]]
  <2>1. PICK q \in DueLists : due'[j] = [n \in DOMAIN q |->
                 [id |-> q[n], endDate |-> subs[q[n]].endDate]]
    BY <1>6
  <2>2. i \in DOMAIN q
    BY <2>1
  <2>3. q \in Seq(Subs) /\ IsDue(q[i])
    BY <2>2, DueListsType
  <2>4. q[i] \in Subs
    BY <2>2, <2>3
  <2>5. due'[j][i] = [id |-> q[i], endDate |-> subs[q[i]].endDate]
    BY <2>1, <2>2
  <2> QED
    BY <2>3, <2>4, <2>5 DEF IsDue
<1> QED
  BY <1>3, <1>4, <1>5, <1>6, DueCases

\* Every billing step keeps the rows that writers refer to.
LEMMA RowsStep ==
  ASSUME StoreTypeOK, BillingInv, BillingNext
  PROVE  RowsKept'
<1>1. ASSUME NEW j \in Runs, NEW i \in DOMAIN due'[j]
      PROVE  subs'[due'[j][i].id].status # "absent"
  BY <1>1, DueEntries, RowEffect
<1>2. ASSUME NEW c \in Cancels, step'[c] \in {"checked", "loaded", "saving"}
      PROVE  subs'[order'[c].id].status # "absent"
  <2>1. c \in Writers /\ c \notin Runs
    BY WritersAssumption DEF Writers
  <2>2. order' = order /\ order[c].id \in Subs
    BY BillingCases DEF CreateSubscription, billingVars, StartRun,
       ChargeAccepted, ChargeDeclined, LoadToRenew, LoadToDeactivate, EndRun,
       CheckCancel, LoadToCancel, Load, Compare, Save, FailWriter,
       BillingInv, BillingTypeOK
  <2>3. CASE step'[c] = "checked"
    <3>1. CASE step[c] = "checked"
      BY <2>2, <3>1, RowEffect DEF BillingInv, RowsKept
    <3>2. CASE step[c] # "checked"
      <4>1. CheckCancel(c)
        BY <2>1, <2>3, <3>2, WriterCases
        DEF BillingInv, BillingTypeOK, LoadToCancel, Load, Compare, Save,
            Saved, FailWriter
      <4>2. subs[order[c].id].status # "absent"
        BY <2>3, <4>1 DEF CheckCancel, BillingInv, BillingTypeOK, Writers
      <4> QED
        BY <2>2, <4>2, RowEffect
    <3> QED
      BY <3>1, <3>2
  <2>4. CASE step'[c] \in {"loaded", "saving"}
    <3>1. Target(c) \in Subs /\ subs[Target(c)].status # "absent"
      BY <2>1, <2>4, EntityCases DEF HasEntity
    <3> QED
      BY <2>1, <2>2, <3>1, RowEffect DEF Target
  <2> QED
    BY <1>2, <2>3, <2>4
<1>3. ASSUME NEW w \in Writers, HasEntity(w)'
      PROVE  /\ entity'[w].status # "absent"
             /\ entity'[w].user = subs'[Target(w)'].user
             /\ entity'[w].limit = subs'[Target(w)'].limit
  BY <1>3, EntityCases, RowEffect DEF BillingInv, RowsKept
<1> QED
  BY <1>1, <1>2, <1>3 DEF RowsKept

-----------------------------------------------------------------------------
(* Allotments                                                              *)

\* Every billing step leaves what is stored and what is in memory within the
\* allotment.
LEMMA AllotmentStep ==
  ASSUME StoreTypeOK, BillingInv, BillingNext
  PROVE  AllotmentInv'
<1>1. ASSUME NEW s \in Subs
      PROVE  WithinAllotment(subs[s])'
  BY RowEffect
<1>2. ASSUME NEW w \in Writers, HasEntity(w)'
      PROVE  WithinAllotment(entity[w])'
  <2>1. CASE HasEntity(w) /\ entity'[w] = entity[w]
    BY <2>1 DEF BillingInv, AllotmentInv, WithinAllotment
  <2>2. CASE /\ Target(w) \in Subs
             /\ entity'[w].limit = subs[Target(w)].limit
             /\ entity'[w].remaining \in
                  {subs[Target(w)].remaining, subs[Target(w)].limit}
    <3>1. subs[Target(w)].limit \in Quantity
      BY <2>2 DEF StoreTypeOK, SubscriptionRow
    <3>2. WithinAllotment(subs[Target(w)])
      BY <2>2 DEF BillingInv, AllotmentInv
    <3> QED
      BY <2>2, <3>1, <3>2 DEF WithinAllotment, Quantity, Unlimited
  <2> QED
    BY <1>2, <2>1, <2>2, EntityCases
<1> QED
  BY <1>1, <1>2 DEF AllotmentInv

-----------------------------------------------------------------------------
(* Periods                                                                 *)

\* Charges are never forgotten.
LEMMA ChargesKept ==
  ASSUME BillingTypeOK, BillingNext, NEW p \in Subs \X Periods
  PROVE  charged[p] > 0 => charged'[p] > 0
<1>1. CASE charged' = charged
  BY <1>1
<1>2. ASSUME NEW j \in Runs, ChargeAccepted(j)
      PROVE  charged[p] > 0 => charged'[p] > 0
  <2>1. PICK n : charged' = [charged EXCEPT ![n] = @ + 1]
    BY <1>2 DEF ChargeAccepted
  <2> QED
    BY <2>1 DEF BillingTypeOK
<1>3. charged' = charged \/ \E j \in Runs : ChargeAccepted(j)
  BY BillingCases DEF CreateSubscription, billingVars, StartRun,
     ChargeDeclined, LoadToRenew, LoadToDeactivate, EndRun, CheckCancel,
     LoadToCancel, Load, Compare, Save, FailWriter
<1> QED
  BY <1>1, <1>2, <1>3

\* The ends of a subscription are natural numbers.
LEMMA EndsType ==
  ASSUME StoreTypeOK, BillingTypeOK, StepInv, NEW s \in Subs, NEW e \in Ends(s)
  PROVE  e \in Nat
<1>1. CASE e = subs[s].endDate
  BY <1>1 DEF StoreTypeOK, SubscriptionRow
<1>2. ASSUME NEW w \in Writers, HasEntity(w), e = entity[w].endDate
      PROVE  e \in Nat
  <2>1. entity[w] \in SubscriptionRow
    BY <1>2 DEF BillingTypeOK, StepInv
  <2> QED
    BY <1>2, <2>1 DEF SubscriptionRow
<1>3. ASSUME NEW j \in Runs, NEW i \in DOMAIN due[j], e = due[j][i].endDate
      PROVE  e \in Nat
  <2>1. due[j][i] \in DueRow
    BY DEF BillingTypeOK
  <2> QED
    BY <1>3, <2>1 DEF DueRow, Periods
<1> QED
  BY <1>1, <1>2, <1>3 DEF Ends

\* An end of a stored subscription after a step is one it had before, or one
\* cycle after one it had before and has been charged for.
LEMMA EndsStep ==
  ASSUME StoreTypeOK, BillingInv, BillingNext, NEW s \in Subs,
         subs[s].status # "absent", NEW e \in Ends(s)'
  PROVE  \/ e \in Ends(s)
         \/ \E x \in Ends(s) \cap Periods :
              e = x + CycleLength /\ charged[<<s, x>>] > 0
<1> USE DEF BillingInv
<1>1. ASSUME NEW j \in Runs, NEW i \in DOMAIN due[j], due[j][i].id = s
      PROVE  due[j][i].endDate \in Ends(s)
  BY <1>1 DEF Ends
<1>2. ASSUME NEW w \in Writers, HasEntity(w), Target(w) = s
      PROVE  entity[w].endDate \in Ends(s)
  BY <1>2 DEF Ends
<1>3. subs[s].endDate \in Ends(s)
  BY DEF Ends
<1>4. CASE e = subs'[s].endDate
  <2>1. CASE subs'[s] = subs[s]
    BY <1>3, <1>4, <2>1
  <2>2. ASSUME NEW w \in Writers, Save(w), subs'[s] # subs[s]
        PROVE  e \in Ends(s)
    <3>1. Target(w) \in Subs /\ entity[w] \in SubscriptionRow /\ HasEntity(w)
      BY <2>2, TargetType DEF Save, StepInv, HasEntity, BillingTypeOK
    <3>2. subs' = [subs EXCEPT ![Target(w)] = Updated(w)]
      BY <2>2 DEF Save
    <3>3. Target(w) = s /\ subs'[s] = Updated(w)
      BY <2>2, <3>1, <3>2 DEF StoreTypeOK
    <3>4. e \in {subs[s].endDate, entity[w].endDate}
      BY <1>4, <3>1, <3>3, UpdatedRow DEF StoreTypeOK
    <3> QED
      BY <1>2, <1>3, <3>1, <3>3, <3>4
  <2>3. ASSUME NEW t \in Subs, CreateSubscription(t)
        PROVE  subs'[s] = subs[s]
    BY <2>3 DEF CreateSubscription, StoreTypeOK
  <2>4. \/ subs' = subs
        \/ \E t \in Subs : CreateSubscription(t)
        \/ \E w \in Writers : Save(w)
    BY BillingCases
    DEF CheckCancel, LoadToCancel, Load, StartRun, ChargeAccepted,
        ChargeDeclined, LoadToRenew, LoadToDeactivate, EndRun, Compare,
        FailWriter, storeVars, tables
  <2> QED
    BY <2>1, <2>2, <2>3, <2>4
<1>5. ASSUME NEW w \in Writers, HasEntity(w)', Target(w)' = s,
             e = entity'[w].endDate
      PROVE  \/ e \in Ends(s)
             \/ \E x \in Ends(s) \cap Periods :
                  e = x + CycleLength /\ charged[<<s, x>>] > 0
  <2>1. Target(w) = s
    BY <1>5, EntityCases
  <2>2. CASE HasEntity(w) /\ entity'[w] = entity[w]
    BY <1>2, <1>5, <2>1, <2>2
  <2>3. CASE entity'[w].endDate = subs[Target(w)].endDate
    BY <1>3, <1>5, <2>1, <2>3
  <2>4. CASE /\ w \in Runs
             /\ step[w] = "charged"
             /\ entity'[w].endDate = Head(due[w]).endDate + CycleLength
    <3>1. due[w] \in Seq(DueRow) /\ due[w] # <<>>
      BY <2>4 DEF BillingTypeOK, StepInv
    <3>2. 1 \in DOMAIN due[w] /\ Head(due[w]) = due[w][1]
          /\ Head(due[w]) \in DueRow
      BY <3>1, HeadAndTail
    <3>3. Head(due[w]).id = s
      BY <2>1, <2>4 DEF Target
    <3>4. Head(due[w]).endDate \in Ends(s) \cap Periods
      BY <1>1, <2>4, <3>2, <3>3 DEF DueRow
    <3>5. charged[<<s, Head(due[w]).endDate>>] > 0
      BY <2>1, <2>4 DEF PeriodInv
    <3> QED
      BY <1>5, <2>4, <3>4, <3>5
  <2> QED
    BY <1>5, <2>2, <2>3, <2>4, EntityCases
<1>6. ASSUME NEW j \in Runs, NEW i \in DOMAIN due'[j], due'[j][i].id = s,
             e = due'[j][i].endDate
      PROVE  e \in Ends(s)
  BY <1>1, <1>3, <1>6, DueEntries
<1> QED
  <2>1. \/ e = subs'[s].endDate
        \/ \E w \in Writers : /\ HasEntity(w)' /\ Target(w)' = s
                              /\ e = entity'[w].endDate
        \/ \E j \in Runs : \E i \in DOMAIN due'[j] :
             due'[j][i].id = s /\ e = due'[j][i].endDate
    BY DEF Ends
  <2> QED
    BY <1>4, <1>5, <1>6, <2>1

\* A subscription that a step creates has one end.
LEMMA NewEnds ==
  ASSUME StoreTypeOK, BillingInv, BillingNext, NEW s \in Subs,
         subs[s].status = "absent", NEW e \in Ends(s)'
  PROVE  e = subs'[s].endDate
<1>1. ASSUME NEW w \in Writers, HasEntity(w)', Target(w)' = s
      PROVE  FALSE
  BY <1>1, EntityCases
<1>2. ASSUME NEW j \in Runs, NEW i \in DOMAIN due'[j], due'[j][i].id = s
      PROVE  FALSE
  BY <1>2, DueEntries
<1> QED
  BY <1>1, <1>2 DEF Ends

\* Every billing step keeps later ends paid for.
LEMMA PeriodStep ==
  ASSUME StoreTypeOK, BillingInv, BillingNext
  PROVE  PeriodInv'
<1> USE DEF BillingInv
<1>1. ASSUME NEW s \in Subs, NEW b, Paid(s, b)
      PROVE  Paid(s, b)'
  <2>1. <<s, b - CycleLength>> \in Subs \X Periods
    BY <1>1 DEF Paid
  <2> QED
    BY <1>1, <2>1, ChargesKept DEF Paid
<1>2. ASSUME NEW s \in Subs, NEW a \in Ends(s)', NEW b \in Ends(s)', a < b
      PROVE  Paid(s, b)'
  <2>1. CASE subs[s].status = "absent"
    <3>1. a = b
      BY <2>1, NewEnds
    <3>2. subs'[s].endDate \in Nat
      BY BillingTypeStep DEF StoreTypeOK, SubscriptionRow
    <3> QED
      BY <1>2, <2>1, <3>1, <3>2, NewEnds
  <2>2. CASE subs[s].status # "absent"
    <3>1. ASSUME NEW x \in Ends(s) \cap Periods, b = x + CycleLength,
                 charged[<<s, x>>] > 0
          PROVE  Paid(s, b)'
      <4>1. b - CycleLength = x
        BY <3>1, CycleAssumption DEF Periods
      <4> QED
        BY <1>1, <3>1, <4>1 DEF Paid
    <3>2. ASSUME b \in Ends(s)
          PROVE  Paid(s, b)'
      <4>1. CASE a \in Ends(s)
        BY <1>1, <1>2, <2>2, <3>2, <4>1 DEF PeriodInv
      <4>2. ASSUME NEW x \in Ends(s) \cap Periods, a = x + CycleLength
            PROVE  Paid(s, b)'
        <5>1. b \in Nat
          BY <3>2, EndsType
        <5>2. x < b
          BY <1>2, <4>2, <5>1, CycleAssumption DEF Periods
        <5> QED
          BY <1>1, <2>2, <3>2, <5>2 DEF PeriodInv
      <4> QED
        BY <2>2, <4>1, <4>2, EndsStep
    <3> QED
      BY <2>2, <3>1, <3>2, EndsStep
  <2> QED
    BY <2>1, <2>2
<1>3. ASSUME NEW j \in Runs, step'[j] = "charged"
      PROVE  charged'[<<Target(j), Head(due[j]).endDate>>'] > 0
  <2>1. j \in Writers /\ j \notin Cancels
    BY WritersAssumption DEF Writers
  <2>2. CASE ChargeAccepted(j)
    <3>1. Head(due[j]) \in DueRow
      BY <2>2, HeadAndTail DEF ChargeAccepted, BillingTypeOK
    <3> DEFINE p == <<Head(due[j]).id, Head(due[j]).endDate>>
    <3>2. p \in Subs \X Periods
      BY <3>1 DEF DueRow
    <3>3. charged[p] \in Nat
      BY <3>2 DEF BillingTypeOK
    <3>4. charged' = [charged EXCEPT ![p] = @ + 1] /\ due' = due
      BY <2>2 DEF ChargeAccepted
    <3>5. charged'[p] > 0
      BY <3>2, <3>3, <3>4 DEF BillingTypeOK
    <3> QED
      BY <3>4, <3>5 DEF Target
  <2>3. CASE step'[j] = step[j] /\ due'[j] = due[j]
    <3>1. Target(j) \in Subs /\ Head(due[j]) \in DueRow
      BY <1>3, <2>1, <2>3, TargetType
    <3>2. <<Target(j), Head(due[j]).endDate>> \in Subs \X Periods
      BY <3>1 DEF DueRow
    <3>3. charged[<<Target(j), Head(due[j]).endDate>>] > 0
      BY <1>3, <2>3 DEF PeriodInv
    <3>4. Target(j)' = Target(j) /\ Head(due[j])' = Head(due[j])
      BY <2>3 DEF Target
    <3> QED
      BY <3>2, <3>3, <3>4, ChargesKept
  <2>4. CASE \/ StartRun(j) \/ ChargeDeclined(j) \/ LoadToRenew(j)
             \/ LoadToDeactivate(j) \/ EndRun(j)
             \/ Compare(j) \/ Save(j) \/ FailWriter(j)
    BY <1>3, <2>1, <2>4 DEF StartRun, ChargeDeclined, LoadToRenew,
       LoadToDeactivate, Load, EndRun, Compare, Save, Saved, FailWriter,
       BillingTypeOK
  <2> QED
    BY <2>1, <2>2, <2>3, <2>4, WriterCases
<1> QED
  BY <1>2, <1>3 DEF PeriodInv

-----------------------------------------------------------------------------
(* The inductive invariant                                                 *)

\* The writers begin in the invariant.
LEMMA BillingInitInv ==
  ASSUME StoreInit, BillingInit
  PROVE  BillingInv
<1>1. StoreTypeOK
  BY RowsAssumption, ClockAssumption DEF StoreInit, StoreTypeOK
<1>2. BillingTypeOK
  BY CycleAssumption DEF BillingInit, BillingTypeOK, Steps, Writers
<1>3. StepInv
  BY DEF BillingInit, StepInv, HasEntity, Writers
<1>4. RowsKept
  BY DEF BillingInit, RowsKept, HasEntity, Writers
<1>5. ASSUME NEW s \in Subs
      PROVE  WithinAllotment(subs[s])
  <2>1. subs[s] \in SubscriptionRow /\ subs[s].remaining = subs[s].limit
    BY RowsAssumption DEF StoreInit
  <2>2. subs[s].limit \in Quantity
    BY <2>1 DEF SubscriptionRow
  <2> QED
    BY <2>1, <2>2 DEF WithinAllotment, Quantity, Unlimited
<1>6. AllotmentInv
  BY <1>5 DEF BillingInit, AllotmentInv, HasEntity, Writers
<1>7. ASSUME NEW s \in Subs, NEW e \in Ends(s)
      PROVE  e = subs[s].endDate
  BY <1>7 DEF BillingInit, Ends, HasEntity, Writers
<1>8. \A s \in Subs : subs[s].endDate \in Nat
  BY <1>1 DEF StoreTypeOK, SubscriptionRow
<1>9. PeriodInv
  BY <1>7, <1>8 DEF BillingInit, PeriodInv, Writers
<1> QED
  BY <1>2, <1>3, <1>4, <1>6, <1>9 DEF BillingInv

\* Every billing step keeps the invariant of the writers.
LEMMA BillingStep ==
  ASSUME StoreTypeOK, BillingInv, BillingNext
  PROVE  BillingInv' /\ StoreTypeOK'
BY BillingTypeStep, StepStep, RowsStep, AllotmentStep, PeriodStep DEF BillingInv

=============================================================================
