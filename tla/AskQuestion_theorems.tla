------------------------ MODULE AskQuestion_theorems ------------------------
(***************************************************************************)
(* What follows from the inductive invariant: the properties TLC checks on *)
(* small instances, and the implementation of QuotaLedger.                 *)
(***************************************************************************)
EXTENDS Reports, AskQuestion_proofs

-----------------------------------------------------------------------------
(* What a step does to the committed tables                                *)

\* A request whose transaction commits has no row in the ledger yet.
LEMMA FreshCharge ==
  ASSUME NEW r \in Requests, IInv, pc[r] \notin {"respond", "answered", "failed"}
  PROVE  /\ r \notin messages
         /\ \A row \in ledger : row.chatMessage # r
<1>1. r \notin messages
  BY DEF IInv, StoredInv, StoredOK
<1> QED
  BY <1>1 DEF IInv, StoredInv, RowOf

\* Only Commit writes the tables.
LEMMA TablesChangeAtCommit ==
  ASSUME IInv, [Next]_vars, \A r \in Requests : ~ Commit(r)
  PROVE  UNCHANGED tables
<1>1. CASE \E r \in Requests : Begin(r) \/ MissFreeUsage(r) \/ DeductFree(r)
             \/ FallBackToSubscription(r) \/ RankSubscriptions(r)
             \/ DeductSubscription(r) \/ AskAi(r) \/ CreateMessage(r)
             \/ CreateLedgerRow(r) \/ Respond(r) \/ LoseAnswer(r)
  BY <1>1 DEF storeVars, Begin, MissFreeUsage, DeductFree,
     FallBackToSubscription, RankSubscriptions, DeductSubscription, AskAi,
     CreateMessage, CreateLedgerRow, Respond, LoseAnswer
<1>2. CASE \E r \in Requests : LockFreeUsage(r) \/ InsertFreeUsage(r)
             \/ LockSubscription(r)
             \/ \E o \in {"refused", "failed"} : Rollback(r, o)
  BY <1>2 DEF LockFreeUsage, InsertFreeUsage, LockSubscription, Rollback
<1>3. CASE Tick /\ UNCHANGED <<tables, locks, askVars>>
  BY <1>3
<1>4. CASE UNCHANGED vars
  BY <1>4 DEF vars, storeVars
<1> QED
  BY <1>1, <1>2, <1>3, <1>4, StepCases

\* What Commit writes, given the invariant: one whole charge.
LEMMA CommitEffect ==
  ASSUME NEW r \in Requests, IInv, Commit(r)
  PROVE  /\ r \notin messages
         /\ messages' = messages \cup {r}
         /\ RowOf(r) \notin ledger
         /\ ledger' = ledger \cup {RowOf(r)}
         /\ UNCHANGED locals
         /\ Key(r) \in UsageKeys
         /\ \/ /\ source[r] = "free" /\ sub[r] = Null
               /\ freeUsed[Key(r)] < FreeLimit
               /\ freeUsed' = [freeUsed EXCEPT ![Key(r)] = @ + 1]
               /\ subs' = subs
            \/ /\ source[r] = "subscription" /\ sub[r] \in Subs
               /\ freeUsed[Key(r)] = FreeLimit
               /\ freeUsed' = freeUsed
               /\ subs[sub[r]].user = user[r]
               /\ subs' = [subs EXCEPT ![sub[r]].remaining = left[r]]
               /\ IF subs[sub[r]].limit = Unlimited
                    THEN left[r] = subs[sub[r]].remaining
                    ELSE /\ left[r] = subs[sub[r]].remaining - 1
                         /\ left[r] >= 0
<1>1. r \notin messages /\ \A row \in ledger : row.chatMessage # r
  BY FreshCharge DEF Commit
<1>2. RowOf(r) \notin ledger
  BY <1>1 DEF RowOf
<1>3. messages' = messages \cup {r} /\ ledger' = ledger \cup {RowOf(r)}
  <2>1. inserted[r] = {"message", "ledgerRow"}
    BY DEF IInv, StoredInv, StoredOK, Commit
  <2> QED
    BY <2>1 DEF Commit, Publish
<1>4. Key(r) \in UsageKeys
  BY DEF IInv, TypeOK, UsageKeys, Key
<1>5. CASE source[r] = "free"
  <2>1. /\ used[r] = freeUsed[Key(r)] + 1 /\ used[r] <= FreeLimit
        /\ sub[r] = Null
    BY <1>5 DEF IInv, EntityInv, EntityOK, ChoiceInv, ChoiceOK, Deducted,
       Commit
  <2>2. freeUsed[Key(r)] \in Nat
    BY <1>4 DEF IInv, TypeOK, StoreTypeOK
  <2>3. freeUsed' = [freeUsed EXCEPT ![Key(r)] = used[r]] /\ subs' = subs
    BY <1>5 DEF Commit, Publish
  <2> QED
    <3>1. freeUsed[Key(r)] < FreeLimit /\ used[r] = freeUsed[Key(r)] + 1
      BY <2>1, <2>2, LimitAssumption
    <3> QED
      BY <1>1, <1>2, <1>3, <1>4, <1>5, <2>1, <2>3, <3>1 DEF Commit
<1>6. CASE source[r] = "subscription"
  <2>1. /\ freeUsed[Key(r)] = FreeLimit
        /\ sub[r] \in Subs
        /\ subs[sub[r]].user = user[r]
        /\ IF subs[sub[r]].limit = Unlimited
             THEN left[r] = Unlimited
             ELSE left[r] = subs[sub[r]].remaining - 1 /\ left[r] >= 0
    BY <1>6, NullAssumption
    DEF IInv, EntityInv, EntityOK, ChoiceInv, ChoiceOK, HoldsSubscription,
        Deducted, Commit
  <2>2. subs[sub[r]].limit = Unlimited => subs[sub[r]].remaining = Unlimited
    BY <2>1 DEF IInv, RowInv
  <2>3. /\ subs' = [subs EXCEPT ![sub[r]].remaining = left[r]]
        /\ freeUsed' = freeUsed
    BY <1>6 DEF Commit, Publish
  <2> QED
    BY <1>1, <1>2, <1>3, <1>4, <1>6, <2>1, <2>2, <2>3 DEF Commit
<1> QED
  BY <1>5, <1>6 DEF IInv, TypeOK, ChoiceInv, ChoiceOK, Deducted, Commit

-----------------------------------------------------------------------------
(* Accounting                                                              *)

\* What the counters say and what the ledger says, counted row by row.
FreeAccounted ==
  /\ IsFiniteSet(ledger)
  /\ \A key \in UsageKeys : freeUsed[key] = Cardinality(FreeCharges(key))

Accounted ==
  /\ FreeAccounted
  /\ \A s \in Subs : subs[s].limit # Unlimited =>
       subs[s].limit - subs[s].remaining = Cardinality(LedgerOf(s))

\* No charge and no row at first.
LEMMA AccountedInit == Init => Accounted
<1> SUFFICES ASSUME Init PROVE Accounted
  OBVIOUS
<1>1. ledger = {} /\ freeUsed = [key \in UsageKeys |-> 0]
  BY DEF Init, StoreInit
<1>2. \A key \in UsageKeys : FreeCharges(key) = {}
  BY <1>1 DEF FreeCharges
<1>3. \A s \in Subs : LedgerOf(s) = {}
  BY <1>1 DEF LedgerOf
<1>4. \A s \in Subs : subs[s].limit # Unlimited =>
         subs[s].limit - subs[s].remaining = 0
  BY RowsAssumption DEF Init, StoreInit, SubscriptionRow, Quantity
<1> QED
  BY <1>1, <1>2, <1>3, <1>4, FS_EmptySet DEF Accounted, FreeAccounted

\* A commit adds one row to the ledger, and to the month's count if it is free.
LEMMA FreeAccountedCommit ==
  ASSUME NEW r \in Requests, IInv, FreeAccounted, Commit(r)
  PROVE  FreeAccounted'
<1>1. /\ RowOf(r) \notin ledger
      /\ ledger' = ledger \cup {RowOf(r)}
      /\ month' = month
      /\ Key(r) \in UsageKeys
  BY CommitEffect DEF locals
<1>2. IsFiniteSet(ledger')
  BY <1>1, FS_AddElement DEF FreeAccounted
<1>3. ASSUME NEW S \in SUBSET ledger
      PROVE  /\ IsFiniteSet(S) /\ Cardinality(S) \in Nat
             /\ Cardinality(S \cup {RowOf(r)}) = Cardinality(S) + 1
  <2>1. IsFiniteSet(S) /\ RowOf(r) \notin S
    BY <1>1, FS_Subset DEF FreeAccounted
  <2> QED
    BY <2>1, FS_CardinalityType, FS_AddElement
<1>4. ASSUME NEW key \in UsageKeys
      PROVE  freeUsed'[key] = Cardinality(FreeCharges(key)')
  <2>1. FreeCharges(key) \in SUBSET ledger
    BY DEF FreeCharges
  <2>2. CASE source[r] = "free" /\ key = Key(r)
    <3>1. FreeCharges(key)' = FreeCharges(key) \cup {RowOf(r)}
      BY <1>1, <2>2 DEF FreeCharges, RowOf, Key
    <3>2. freeUsed'[key] = freeUsed[key] + 1
      BY <1>1, <2>2, CommitEffect DEF IInv, TypeOK, StoreTypeOK
    <3> QED
      BY <1>3, <2>1, <3>1, <3>2 DEF FreeAccounted
  <2>3. CASE ~ (source[r] = "free" /\ key = Key(r))
    <3>1. FreeCharges(key)' = FreeCharges(key)
      <4>1. ~ (/\ RowOf(r).source = "free"
               /\ RowOf(r).user = key[1]
               /\ month[RowOf(r).chatMessage] = key[2])
        BY <2>3 DEF RowOf, Key, UsageKeys
      <4> QED
        BY <1>1, <4>1 DEF FreeCharges
    <3>2. freeUsed'[key] = freeUsed[key]
      BY <2>3, CommitEffect DEF IInv, TypeOK, StoreTypeOK
    <3> QED
      BY <3>1, <3>2 DEF FreeAccounted
  <2> QED
    BY <2>2, <2>3
<1> QED
  BY <1>2, <1>4 DEF FreeAccounted

\* It counts a subscription down by the same row.
LEMMA AccountedCommit ==
  ASSUME NEW r \in Requests, IInv, Accounted, Commit(r)
  PROVE  Accounted'
<1>1. /\ RowOf(r) \notin ledger
      /\ ledger' = ledger \cup {RowOf(r)}
  BY CommitEffect
<1>2. FreeAccounted'
  BY FreeAccountedCommit DEF Accounted
<1>3. ASSUME NEW S \in SUBSET ledger
      PROVE  /\ IsFiniteSet(S) /\ Cardinality(S) \in Nat
             /\ Cardinality(S \cup {RowOf(r)}) = Cardinality(S) + 1
  <2>1. IsFiniteSet(S) /\ RowOf(r) \notin S
    BY <1>1, FS_Subset DEF Accounted, FreeAccounted
  <2> QED
    BY <2>1, FS_CardinalityType, FS_AddElement
<1>4. ASSUME NEW s \in Subs, subs'[s].limit # Unlimited
      PROVE  subs'[s].limit - subs'[s].remaining = Cardinality(LedgerOf(s)')
  <2>1. LedgerOf(s) \in SUBSET ledger
    BY DEF LedgerOf
  <2>2. subs \in [Subs -> SubscriptionRow]
    BY DEF IInv, TypeOK, StoreTypeOK
  <2>3. CASE sub[r] = s
    <3>1. /\ source[r] = "subscription"
          /\ subs' = [subs EXCEPT ![s].remaining = left[r]]
          /\ subs[s].limit # Unlimited =>
               left[r] = subs[s].remaining - 1 /\ left[r] >= 0
      BY <2>3, CommitEffect, NullAssumption
    <3>2. /\ subs'[s].limit = subs[s].limit
          /\ subs'[s].remaining = left[r]
      BY <2>2, <3>1 DEF SubscriptionRow
    <3>3. LedgerOf(s)' = LedgerOf(s) \cup {RowOf(r)}
      BY <1>1, <2>3 DEF LedgerOf, RowOf
    <3>4. subs[s].limit - subs[s].remaining = Cardinality(LedgerOf(s))
      BY <1>4, <3>2 DEF Accounted
    <3>5. subs[s].limit \in Int /\ subs[s].remaining \in Int
      BY <2>2 DEF SubscriptionRow, Quantity, Unlimited
    <3> QED
      BY <1>3, <1>4, <2>1, <3>1, <3>2, <3>3, <3>4, <3>5
  <2>4. CASE sub[r] # s
    <3>1. subs'[s] = subs[s]
      BY <2>2, <2>4, CommitEffect
    <3>2. LedgerOf(s)' = LedgerOf(s)
      BY <1>1, <2>4 DEF LedgerOf, RowOf
    <3> QED
      BY <1>4, <3>1, <3>2 DEF Accounted
  <2> QED
    BY <2>3, <2>4
<1> QED
  BY <1>2, <1>4 DEF Accounted

\* Begin changes a month, but of a request that has no row in the ledger.
LEMMA FreeAccountedStep ==
  IInv /\ FreeAccounted /\ [Next]_vars => FreeAccounted'
<1> SUFFICES ASSUME IInv, FreeAccounted, [Next]_vars PROVE FreeAccounted'
  OBVIOUS
<1>1. CASE \E r \in Requests : Commit(r)
  BY <1>1, FreeAccountedCommit
<1>2. CASE \A r \in Requests : ~ Commit(r)
  <2>1. UNCHANGED tables
    BY <1>2, TablesChangeAtCommit
  <2>2. \A row \in ledger : month'[row.chatMessage] = month[row.chatMessage]
    <3>1. ASSUME NEW r \in Requests, Begin(r), NEW row \in ledger
          PROVE  month'[row.chatMessage] = month[row.chatMessage]
      <4>1. row.chatMessage # r
        BY <3>1, FreshCharge DEF Begin
      <4>2. row.chatMessage \in Requests
        BY DEF IInv, TypeOK, StoreTypeOK, LedgerRow
      <4> QED
        BY <3>1, <4>1, <4>2 DEF Begin, IInv, TypeOK
    <3>2. CASE ~ \E r \in Requests : Begin(r)
      <4>1. month' = month
        BY <1>2, <3>2, StepCases
        DEF locals, askVars, vars, LockFreeUsage, MissFreeUsage,
            InsertFreeUsage, Rollback, DeductFree, FallBackToSubscription,
            RankSubscriptions, LockSubscription, DeductSubscription, AskAi,
            CreateMessage, CreateLedgerRow, Respond, LoseAnswer
      <4> QED
        BY <4>1
    <3> QED
      BY <3>1, <3>2
  <2>3. \A key \in UsageKeys : FreeCharges(key)' = FreeCharges(key)
    BY <2>1, <2>2 DEF FreeCharges, tables
  <2> QED
    BY <2>1, <2>3 DEF FreeAccounted, tables
<1> QED
  BY <1>1, <1>2

\* Only Commit touches the ledger and the counters of subscriptions.
LEMMA AccountedStep == IInv /\ Accounted /\ [Next]_vars => Accounted'
<1> SUFFICES ASSUME IInv, Accounted, [Next]_vars PROVE Accounted'
  OBVIOUS
<1>1. CASE \E r \in Requests : Commit(r)
  BY <1>1, AccountedCommit
<1>2. CASE \A r \in Requests : ~ Commit(r)
  <2>1. UNCHANGED tables
    BY <1>2, TablesChangeAtCommit
  <2>2. \A s \in Subs : LedgerOf(s)' = LedgerOf(s)
    BY <2>1 DEF LedgerOf, tables
  <2>3. FreeAccounted'
    BY FreeAccountedStep DEF Accounted
  <2> QED
    BY <2>1, <2>2, <2>3 DEF Accounted, tables
<1> QED
  BY <1>1, <1>2

\* Both hold in every state.
LEMMA AlwaysAccounted == Spec => [](IInv /\ Accounted)
<1>1. IInv /\ Accounted /\ [Next]_vars => Accounted'
  BY AccountedStep
<1> QED
  BY Inductive, AccountedInit, <1>1, PTL DEF Spec

-----------------------------------------------------------------------------
(* The safety properties                                                   *)

\* The limit bounds the counter, and the counter counts the ledger.
LEMMA FreeCounted ==
  ASSUME IInv, FreeAccounted
  PROVE  FreeQuotaNeverOverspent
BY DEF IInv, RowInv, FreeAccounted, FreeQuotaNeverOverspent

\* No interleaving spends more free messages in a month than the limit, and
\* used_messages is the number of free rows the ledger has for it.
THEOREM FreeQuotaSafe == Spec => []FreeQuotaNeverOverspent
<1>1. IInv /\ Accounted => FreeQuotaNeverOverspent
  BY FreeCounted DEF Accounted
<1> QED
  BY AlwaysAccounted, <1>1, PTL

\* No interleaving spends a credit of a bundle twice or below zero, and
\* remaining_messages is the allotment less the rows of the ledger.
THEOREM SubscriptionSafe == Spec => []SubscriptionNeverOverspent
<1>1. ASSUME IInv, Accounted PROVE SubscriptionNeverOverspent
  <2>1. ASSUME NEW s \in Subs, subs[s].limit # Unlimited
        PROVE  subs[s].remaining >= 0
    <3>1. subs[s].remaining # Unlimited
      BY <1>1, <2>1 DEF IInv, RowInv
    <3>2. subs[s].remaining \in Quantity
      BY <1>1 DEF IInv, TypeOK, StoreTypeOK, SubscriptionRow
    <3> QED
      BY <3>1, <3>2 DEF Quantity
  <2> QED
    BY <1>1, <2>1 DEF Accounted, SubscriptionNeverOverspent
<1> QED
  BY AlwaysAccounted, <1>1, PTL

\* The invariant says which messages are stored and what the ledger has.
LEMMA StoredWhenCharged ==
  ASSUME IInv
  PROVE  ChargedIffStored
<1>1. ASSUME NEW r \in messages
      PROVE  Cardinality({row \in ledger : row.chatMessage = r}) = 1
  <2>1. {row \in ledger : row.chatMessage = r} = {RowOf(r)}
    BY DEF IInv, StoredInv, RowOf
  <2> QED
    BY <2>1, FS_Singleton
<1>2. \A row \in ledger : row.chatMessage \in messages
  BY DEF IInv, StoredInv, RowOf
<1>3. ASSUME NEW r \in Requests
      PROVE  /\ pc[r] \in {"respond", "answered"} => r \in messages
             /\ pc[r] = "refused" => r \notin messages
  BY DEF IInv, StoredInv, StoredOK
<1> QED
  BY <1>1, <1>2, <1>3 DEF ChargedIffStored

\* A message is stored exactly when one ledger row charges it, every answer is
\* of a stored message, and no refusal is.
THEOREM NoChargeWithoutAnswer == Spec => []ChargedIffStored
BY Inductive, StoredWhenCharged, PTL

\* A ledger row is the row of its request, which chose a row of its user.
LEMMA AskerWhenCharged ==
  ASSUME IInv
  PROVE  ChargedToTheAsker
<1>1. ASSUME NEW row \in ledger
      PROVE  /\ row.user = user[row.chatMessage]
             /\ row.source = "subscription" =>
                  /\ row.subscription \in Subs
                  /\ subs[row.subscription].user = row.user
             /\ row.source = "free" => row.subscription = Null
  <2>1. PICK r \in messages : row = RowOf(r)
    BY DEF IInv, StoredInv
  <2>2. r \in Requests /\ ChoiceOK(r)
    BY DEF IInv, TypeOK, StoreTypeOK, ChoiceInv
  <2> QED
    BY <2>1, <2>2, NullAssumption DEF RowOf, ChoiceOK
<1> QED
  BY <1>1 DEF ChargedToTheAsker

\* Every charge names the user who asked, and a subscription of that user.
THEOREM ChargesTheAsker == Spec => []ChargedToTheAsker
BY Inductive, AskerWhenCharged, PTL

\* Whoever holds a row has not ended.
LEMMA HoldersAreOpen ==
  ASSUME IInv
  PROVE  NoOrphanLock
BY DEF IInv, LockInv, NoOrphanLock, HoldsFreeRow, InTransaction

\* A row lock belongs to an open transaction, whatever ended the others.
THEOREM LocksReleased == Spec => []NoOrphanLock
BY Inductive, HoldersAreOpen, PTL

-----------------------------------------------------------------------------
(* The abstract specification                                              *)

\* The transactions implement QuotaLedger: each step of the committed tables
\* is one whole charge, and a subscription is charged only when the month's
\* free messages are used up.
THEOREM Implementation == Spec => ImplementsQuotaLedger
<1>1. Init => Ledger!Init
  <2> SUFFICES ASSUME Init PROVE Ledger!Init
    OBVIOUS
  <2>1. subs \in [Subs -> SubscriptionRow]
    BY TypeInit DEF TypeOK, StoreTypeOK
  <2> QED
    BY <2>1 DEF Ledger!Init, Init, StoreInit, UsageKeys, SubscriptionRow,
       Quantity
<1>2. IInv /\ [Next]_vars => [Ledger!Next]_(Ledger!vars)
  <2> SUFFICES ASSUME IInv, [Next]_vars
               PROVE  Ledger!Next \/ UNCHANGED Ledger!vars
    OBVIOUS
  <2>1. ASSUME NEW r \in Requests, Commit(r) PROVE Ledger!Next
    <3>1. /\ user[r] \in Users /\ month[r] \in Months
          /\ subs \in [Subs -> SubscriptionRow]
      BY DEF IInv, TypeOK, StoreTypeOK
    <3>2. CASE source[r] = "free"
      <4>1. Ledger!Answer(r, user[r], "free", Null)
        BY <2>1, <3>2, CommitEffect DEF Ledger!Answer, RowOf
      <4>2. Ledger!ChargeFree(r, user[r], month[r])
        BY <2>1, <3>2, <4>1, CommitEffect DEF Ledger!ChargeFree, Key
      <4> QED
        BY <3>1, <4>2 DEF Ledger!Next
    <3>3. CASE source[r] = "subscription"
      <4>1. Ledger!Answer(r, user[r], "subscription", sub[r])
        BY <2>1, <3>3, CommitEffect DEF Ledger!Answer, RowOf
      <4> DEFINE credit == [s \in Subs |-> subs[s].remaining]
                 owner == [s \in Subs |-> subs[s].user]
      <4>2. /\ sub[r] \in Subs
            /\ subs' = [subs EXCEPT ![sub[r]].remaining = left[r]]
            /\ IF subs[sub[r]].limit = Unlimited
                 THEN left[r] = subs[sub[r]].remaining
                 ELSE left[r] = subs[sub[r]].remaining - 1 /\ left[r] >= 0
        BY <2>1, <3>3, CommitEffect
      <4>3. owner' = owner
        BY <3>1, <4>2 DEF SubscriptionRow
      <4>4. credit' = [credit EXCEPT ![sub[r]] = left[r]]
        BY <3>1, <4>2 DEF SubscriptionRow
      <4>5. \/ credit[sub[r]] = Unlimited /\ credit' = credit
            \/ /\ credit[sub[r]] > 0
               /\ credit' = [credit EXCEPT ![sub[r]] = @ - 1]
        <5>1. CASE subs[sub[r]].limit = Unlimited
          <6>1. credit[sub[r]] = Unlimited /\ left[r] = Unlimited
            BY <4>2, <5>1 DEF IInv, RowInv
          <6> QED
            BY <4>2, <4>4, <6>1
        <5>2. CASE subs[sub[r]].limit # Unlimited
          <6>1. subs[sub[r]].remaining \in Int
            BY <3>1, <4>2 DEF SubscriptionRow, Quantity, Unlimited
          <6>2. credit[sub[r]] > 0 /\ left[r] = credit[sub[r]] - 1
            BY <4>2, <5>2, <6>1
          <6> QED
            BY <4>4, <6>2
        <5> QED
          BY <5>1, <5>2
      <4>6. Ledger!ChargeSubscription(r, user[r], month[r], sub[r])
        BY <2>1, <3>3, <4>1, <4>2, <4>3, <4>5, CommitEffect
        DEF Ledger!ChargeSubscription, Key
      <4>7. \E s \in Subs :
              Ledger!ChargeSubscription(r, user[r], month[r], s)
        BY <4>2, <4>6 DEF Ledger!ChargeSubscription, Ledger!Answer
      <4> QED
        BY <3>1, <4>7 DEF Ledger!Next
    <3> QED
      BY <2>1, <3>2, <3>3, CommitEffect
  <2>2. CASE \A r \in Requests : ~ Commit(r)
    BY <2>2, TablesChangeAtCommit DEF tables, Ledger!vars
  <2> QED
    BY <2>1, <2>2
<1> QED
  BY Inductive, <1>1, <1>2, PTL DEF Spec, ImplementsQuotaLedger, Ledger!Spec

-----------------------------------------------------------------------------
(* What holds besides while nobody but chat writes the subscriptions.      *)

\* Statuses and owners stay: what was ranked is still a candidate, and each
\* candidate is ranked once.
CandidateOK(r) ==
  /\ pc[r] = "lockSubscription" =>
       /\ ranking[r] \in [1 .. Cardinality(Candidates(user[r]))
                            -> Candidates(user[r])]
       /\ \A i, j \in DOMAIN ranking[r] :
            i < j => ranking[r][i] # ranking[r][j]
  /\ HoldsSubscription(r) => sub[r] \in Candidates(user[r])

\* So no row is skipped, and who holds one charges it.
CandidateInv ==
  /\ \A r \in Requests : CandidateOK(r)
  /\ \A s \in Subs : subLock[s] # Null =>
       HoldsSubscription(subLock[s]) /\ sub[subLock[s]] = s

\* Within one month the requests of a user exclude one another from the free
\* row on, and their ranking stays true to the rows.
BestOK(r) ==
  /\ pc[r] = "lockSubscription" =>
       \A i, j \in DOMAIN ranking[r] :
         i < j => RanksAtLeast(ranking[r][i], ranking[r][j])
  /\ pc[r] = "deductSubscription" =>
       \A s \in Candidates(user[r]) : RanksAtLeast(sub[r], s)

BestInv == \A r \in Requests : BestOK(r)

OneMonth == Horizon < MonthLength

\* The bundles outlive the behaviour.
Lasting == \A row \in SubscriptionRows :
             row.status = "active" => row.endDate > Horizon

LastingInv == \A s \in Subs : subs[s].status = "active" => subs[s].endDate > Horizon

\* No user has two bundles at once.
OneBundle ==
  \A s, t \in Subs :
    /\ subs[s].status = "active" /\ subs[t].status = "active"
    /\ subs[s].user = subs[t].user
    => s = t

\* A chat transaction writes no column of a subscription but the count.
LEMMA ChatRows ==
  ASSUME IInv, [Next]_vars
  PROVE  /\ user' = user
         /\ \A s \in Subs : /\ subs'[s].user = subs[s].user
                            /\ subs'[s].status = subs[s].status
                            /\ subs'[s].endDate = subs[s].endDate
                            /\ subs'[s].limit = subs[s].limit
         /\ \A u : Candidates(u)' = Candidates(u)
<1>1. user' = user
  BY StepCases
  DEF locals, askVars, vars, Begin, LockFreeUsage, MissFreeUsage,
      InsertFreeUsage, Rollback, DeductFree, FallBackToSubscription,
      RankSubscriptions, LockSubscription, DeductSubscription, AskAi,
      CreateMessage, CreateLedgerRow, Commit, Respond, LoseAnswer
<1>2. ASSUME NEW s \in Subs
      PROVE  /\ subs'[s].user = subs[s].user
             /\ subs'[s].status = subs[s].status
             /\ subs'[s].endDate = subs[s].endDate
             /\ subs'[s].limit = subs[s].limit
  <2>1. ASSUME NEW r \in Requests, Commit(r)
        PROVE  subs' = subs \/ subs' = [subs EXCEPT ![sub[r]].remaining = left[r]]
    BY <2>1, CommitEffect
  <2>2. ASSUME NEW r, subs' = [subs EXCEPT ![sub[r]].remaining = left[r]]
        PROVE  /\ subs'[s].user = subs[s].user
               /\ subs'[s].status = subs[s].status
               /\ subs'[s].endDate = subs[s].endDate
               /\ subs'[s].limit = subs[s].limit
    <3>1. subs \in [Subs -> SubscriptionRow]
      BY DEF IInv, TypeOK, StoreTypeOK
    <3> QED
      BY <2>2, <3>1 DEF SubscriptionRow
  <2>3. CASE \A r \in Requests : ~ Commit(r)
    BY <2>3, TablesChangeAtCommit DEF tables
  <2> QED
    BY <2>1, <2>2, <2>3
<1> QED
  BY <1>1, <1>2 DEF Candidates

\* A request that ranks the candidates finds every one of them.
LEMMA RankingOnto ==
  ASSUME NEW S, IsFiniteSet(S), NEW q \in [1 .. Cardinality(S) -> S],
         \A i, j \in DOMAIN q : i < j => q[i] # q[j]
  PROVE  /\ \A s \in S : \E i \in DOMAIN q : q[i] = s
         /\ q = <<>> => S = {}
         /\ q # <<>> => 1 \in DOMAIN q /\ Head(q) = q[1] /\ Head(q) \in S
<1>1. Cardinality(S) \in Nat
  BY FS_CardinalityType
<1>2. /\ IsFiniteSet(1 .. Cardinality(S))
      /\ Cardinality(1 .. Cardinality(S)) = Cardinality(S)
  BY <1>1, FS_Interval
<1>3. q \in Injection(1 .. Cardinality(S), S)
  <2>1. \A i, j \in 1 .. Cardinality(S) : q[i] = q[j] => i = j
    <3> SUFFICES ASSUME NEW i \in 1 .. Cardinality(S),
                        NEW j \in 1 .. Cardinality(S), q[i] = q[j], i # j
                 PROVE  FALSE
      OBVIOUS
    <3>1. i < j \/ j < i
      BY <1>1
    <3> QED
      BY <3>1
  <2> QED
    BY <2>1 DEF Injection, IsInjective
<1>4. q \in Surjection(1 .. Cardinality(S), S)
  BY <1>2, <1>3, FS_Injection
<1>5. \A s \in S : \E i \in DOMAIN q : q[i] = s
  BY <1>4 DEF Surjection
<1>6. q \in Seq(S) /\ Len(q) = Cardinality(S)
  BY <1>1
<1>7. q = <<>> => S = {}
  BY <1>5, <1>6
<1>8. q # <<>> => 1 \in DOMAIN q /\ Head(q) = q[1] /\ Head(q) \in S
  BY <1>6
<1> QED
  BY <1>5, <1>7, <1>8

\* Steps that neither rank nor lock bundles, and end no transaction.
Elsewhere(r) ==
  \/ Begin(r) \/ LockFreeUsage(r) \/ MissFreeUsage(r) \/ InsertFreeUsage(r)
  \/ DeductFree(r) \/ FallBackToSubscription(r) \/ AskAi(r)
  \/ CreateMessage(r) \/ CreateLedgerRow(r) \/ Respond(r) \/ LoseAnswer(r)

\* They leave the choice of a bundle as it was.
LEMMA ElsewhereFrame ==
  ASSUME NEW r \in Requests, TypeOK, Elsewhere(r), NEW q \in Requests
  PROVE  /\ UNCHANGED <<ranking, sub, subLock>>
         /\ q # r => pc'[q] = pc[q] /\ source'[q] = source[q]
         /\ pc'[r] \notin {"lockSubscription", "deductSubscription"}
         /\ pc[r] \notin {"lockSubscription", "deductSubscription"}
         /\ HoldsSubscription(r)' <=> HoldsSubscription(r)
<1> USE DEF TypeOK, HoldsSubscription, Deducted
<1>1. CASE Begin(r) \/ MissFreeUsage(r) \/ FallBackToSubscription(r)
  BY <1>1 DEF Begin, MissFreeUsage, FallBackToSubscription, storeVars, locks,
     locals
<1>2. CASE LockFreeUsage(r) \/ InsertFreeUsage(r) \/ DeductFree(r)
  BY <1>2 DEF LockFreeUsage, InsertFreeUsage, DeductFree, storeVars, locks
<1>3. CASE AskAi(r) \/ CreateMessage(r) \/ CreateLedgerRow(r)
  BY <1>3 DEF AskAi, CreateMessage, CreateLedgerRow, storeVars, locks, locals
<1>4. CASE Respond(r) \/ LoseAnswer(r)
  BY <1>4 DEF Respond, LoseAnswer, storeVars, locks, locals
<1> QED
  BY <1>1, <1>2, <1>3, <1>4 DEF Elsewhere

\* The rows ranked first and charged stay candidates, and no other is locked.
LEMMA CandidateStep == IInv /\ CandidateInv /\ [Next]_vars => CandidateInv'
<1> SUFFICES ASSUME IInv, CandidateInv, [Next]_vars PROVE CandidateInv'
  OBVIOUS
<1> USE DEF CandidateInv
<1>1. /\ user' = user
      /\ \A u : Candidates(u)' = Candidates(u)
  BY ChatRows
<1>2. TypeOK /\ subLock \in [Subs -> Requests \cup {Null}]
  BY DEF IInv, TypeOK, StoreTypeOK
<1>3. ASSUME NEW q \in Requests, ranking'[q] = ranking[q], sub'[q] = sub[q],
             pc'[q] = "lockSubscription" => pc[q] = "lockSubscription",
             HoldsSubscription(q)' => HoldsSubscription(q)
      PROVE  CandidateOK(q)'
  BY <1>1, <1>3 DEF CandidateOK
<1>4. ASSUME NEW r \in Requests, Elsewhere(r) PROVE CandidateInv'
  <2>1. ASSUME NEW q \in Requests
        PROVE  /\ ranking'[q] = ranking[q] /\ sub'[q] = sub[q]
               /\ pc'[q] = "lockSubscription" => pc[q] = "lockSubscription"
               /\ HoldsSubscription(q)' <=> HoldsSubscription(q)
    BY <1>2, <1>4, ElsewhereFrame DEF HoldsSubscription, Deducted
  <2>2. subLock' = subLock
    BY <1>2, <1>4, ElsewhereFrame
  <2> QED
    BY <1>2, <1>3, <2>1, <2>2
<1>5. ASSUME NEW r \in Requests, RankSubscriptions(r) PROVE CandidateInv'
  <2>1. PICK q \in Rankings(user[r]) : ranking' = [ranking EXCEPT ![r] = q]
    BY <1>5 DEF RankSubscriptions
  <2>2. /\ pc[r] = "rankSubscriptions"
        /\ pc' = [pc EXCEPT ![r] = "lockSubscription"]
        /\ sub' = sub /\ source' = source /\ subLock' = subLock
    BY <1>5 DEF RankSubscriptions, storeVars, locks
  <2>3. \A p \in Requests : HoldsSubscription(p)' <=> HoldsSubscription(p)
    BY <1>2, <2>2 DEF TypeOK, HoldsSubscription, Deducted
  <2>4. CandidateOK(r)'
    <3>1. ranking'[r] = q /\ ~ HoldsSubscription(r)'
      BY <1>2, <2>1, <2>2 DEF TypeOK, HoldsSubscription, Deducted
    <3> QED
      BY <1>1, <3>1 DEF CandidateOK, Rankings
  <2>5. ASSUME NEW p \in Requests \ {r} PROVE CandidateOK(p)'
    <3>1. ranking'[p] = ranking[p] /\ pc'[p] = pc[p]
      BY <1>2, <2>1, <2>2 DEF TypeOK
    <3> QED
      BY <1>3, <2>2, <2>3, <3>1
  <2> QED
    BY <1>2, <2>2, <2>3, <2>4, <2>5
<1>6. ASSUME NEW r \in Requests, LockSubscription(r) PROVE CandidateInv'
  <2> DEFINE s == Head(ranking[r])
  <2>1. s \in Candidates(user[r]) /\ s \in Subs /\ subs[s].status = "active"
    <3>1. /\ ranking[r] # <<>>
          /\ ranking[r] \in [1 .. Cardinality(Candidates(user[r]))
                               -> Candidates(user[r])]
          /\ \A i, j \in DOMAIN ranking[r] :
               i < j => ranking[r][i] # ranking[r][j]
      BY <1>6 DEF LockSubscription, CandidateOK
    <3>2. Candidates(user[r]) \subseteq Subs /\ IsFiniteSet(Candidates(user[r]))
      <4>1. Candidates(user[r]) \subseteq Subs
        BY DEF Candidates
      <4> QED
        BY <4>1, FiniteAssumption, FS_Subset
    <3> QED
      BY <3>1, <3>2, RankingOnto DEF Candidates
  <2>2. /\ pc[r] = "lockSubscription"
        /\ pc' = [pc EXCEPT ![r] = "deductSubscription"]
        /\ subLock' = [subLock EXCEPT ![s] = r]
        /\ sub' = [sub EXCEPT ![r] = s]
        /\ ranking' = [ranking EXCEPT ![r] = <<>>]
        /\ source' = source
    BY <1>6, <2>1 DEF LockSubscription
  <2> HIDE DEF s
  <2>3. ASSUME NEW p \in Requests \ {r}
        PROVE  /\ ranking'[p] = ranking[p] /\ sub'[p] = sub[p]
               /\ pc'[p] = pc[p]
               /\ HoldsSubscription(p)' <=> HoldsSubscription(p)
    BY <1>2, <2>2 DEF TypeOK, HoldsSubscription, Deducted
  <2>4. /\ pc'[r] = "deductSubscription" /\ HoldsSubscription(r)'
        /\ sub'[r] = s /\ ~ HoldsSubscription(r)
    BY <1>2, <2>2 DEF TypeOK, HoldsSubscription, Deducted
  <2>5. \A p \in Requests : CandidateOK(p)'
    BY <1>1, <1>3, <2>1, <2>3, <2>4 DEF CandidateOK
  <2>6. ASSUME NEW t \in Subs, subLock'[t] # Null
        PROVE  (HoldsSubscription(subLock[t]) /\ sub[subLock[t]] = t)'
    <3>1. CASE t = s
      <4>1. subLock'[t] = r
        BY <1>2, <2>1, <2>2, <3>1
      <4> QED
        BY <2>4, <3>1, <4>1 DEF HoldsSubscription, Deducted
    <3>2. CASE t # s
      <4>1. subLock'[t] = subLock[t]
        BY <1>2, <2>2, <3>2
      <4>2. /\ HoldsSubscription(subLock[t]) /\ sub[subLock[t]] = t
            /\ subLock[t] \in Requests \ {r}
        BY <1>2, <2>4, <2>6, <4>1
      <4> QED
        BY <2>3, <4>1, <4>2 DEF HoldsSubscription, Deducted
    <3> QED
      BY <3>1, <3>2
  <2> QED
    BY <2>5, <2>6
<1>7. ASSUME NEW r \in Requests, DeductSubscription(r) PROVE CandidateInv'
  <2>1. /\ pc[r] = "deductSubscription"
        /\ pc' = [pc EXCEPT ![r] = "askAi"]
        /\ source' = [source EXCEPT ![r] = "subscription"]
        /\ UNCHANGED <<ranking, sub, subLock>>
    BY <1>7 DEF DeductSubscription, storeVars, locks
  <2>2. ASSUME NEW q \in Requests
        PROVE  /\ pc'[q] = "lockSubscription" => pc[q] = "lockSubscription"
               /\ HoldsSubscription(q)' <=> HoldsSubscription(q)
    BY <1>2, <2>1 DEF TypeOK, HoldsSubscription, Deducted
  <2> QED
    BY <1>2, <1>3, <2>1, <2>2
<1>8. ASSUME NEW r \in Requests, ReleaseLocks(r), UNCHANGED locals,
             NEW o \in States \ Statements, pc' = [pc EXCEPT ![r] = o]
      PROVE  CandidateInv'
  <2>1. ranking' = ranking /\ sub' = sub /\ source' = source
    BY <1>8 DEF locals
  <2>2. ASSUME NEW q \in Requests
        PROVE  /\ pc'[q] = "lockSubscription" => pc[q] = "lockSubscription"
               /\ HoldsSubscription(q)' => HoldsSubscription(q)
               /\ q # r => (HoldsSubscription(q)' <=> HoldsSubscription(q))
    BY <1>2, <1>8, <2>1
    DEF TypeOK, HoldsSubscription, Deducted, States, Statements
  <2>3. ASSUME NEW s \in Subs, subLock'[s] # Null
        PROVE  subLock'[s] = subLock[s] /\ subLock[s] \in Requests \ {r}
    BY <1>2, <1>8, <2>3 DEF ReleaseLocks
  <2> QED
    BY <1>3, <2>1, <2>2, <2>3
<1>9. ASSUME UNCHANGED <<locks, askVars>> PROVE CandidateInv'
  BY <1>2, <1>3, <1>9
  DEF locks, askVars, locals, HoldsSubscription, Deducted
<1>10. ASSUME NEW r \in Requests, Commit(r) PROVE CandidateInv'
  BY <1>8, <1>10 DEF Commit, States, Statements, Outcomes
<1>11. ASSUME NEW r \in Requests, NEW o \in {"refused", "failed"},
              Rollback(r, o)
       PROVE  CandidateInv'
  BY <1>8, <1>11 DEF Rollback, States, Statements, Outcomes
<1>12. ASSUME UNCHANGED vars PROVE CandidateInv'
  BY <1>9, <1>12 DEF vars, storeVars
<1> QED
  BY <1>4, <1>5, <1>6, <1>7, <1>9, <1>10, <1>11, <1>12, StepCases
  DEF Elsewhere

\* No bundle is ranked or locked at first.
LEMMA CandidateInit == Init => CandidateInv
BY DEF Init, StoreInit, AskInit, CandidateInv, CandidateOK, HoldsSubscription,
       Deducted

\* What a request chooses from stays what it chose from.
LEMMA AlwaysCandidate == Spec => [](IInv /\ CandidateInv)
<1>1. IInv /\ CandidateInv /\ [Next]_vars => CandidateInv'
  BY CandidateStep
<1> QED
  BY Inductive, CandidateInit, <1>1, PTL DEF Spec

-----------------------------------------------------------------------------
(* Deadlock                                                                *)

\* Connections are taken before free rows and free rows before bundles.
LEMMA WaitCases ==
  ASSUME IInv, CandidateInv, NEW r \in Requests, NEW q \in WaitsFor(r)
  PROVE  \/ pc[r] = "queued" /\ InTransaction(q)
         \/ pc[r] \in {"findFreeUsage", "insertFreeUsage"} /\ HoldsFreeRow(q)
         \/ pc[r] = "lockSubscription" /\ HoldsSubscription(q)
<1>1. CASE pc[r] = "queued"
  BY <1>1 DEF WaitsFor
<1>2. CASE pc[r] \in {"findFreeUsage", "insertFreeUsage"}
  <2>1. freeLock[Key(r)] = q /\ q \in Requests
    BY <1>2 DEF WaitsFor
  <2>2. Key(r) \in UsageKeys
    BY DEF IInv, TypeOK, UsageKeys, Key
  <2> QED
    BY <1>2, <2>1, <2>2, NullAssumption DEF IInv, LockInv
<1>3. CASE pc[r] = "lockSubscription"
  <2>1. ranking[r] # <<>> /\ subLock[Head(ranking[r])] = q /\ q \in Requests
    BY <1>3 DEF WaitsFor
  <2>2. Head(ranking[r]) \in Subs
    BY <2>1 DEF IInv, TypeOK
  <2> QED
    BY <1>3, <2>1, <2>2, NullAssumption DEF CandidateInv
<1> QED
  BY <1>1, <1>2, <1>3 DEF WaitsFor

\* So of the requests in a set the one that has come furthest waits for none
\* of them.
LEMMA FurthestWaitsForNone ==
  ASSUME IInv, CandidateInv
  PROVE  NoDeadlock
<1> SUFFICES ASSUME NEW S \in SUBSET Waiting, S # {}
             PROVE  \E r \in S : WaitsFor(r) \cap S = {}
  BY DEF NoDeadlock
<1>1. \A r \in S : r \in Requests /\ WaitsFor(r) # {}
  BY DEF Waiting
<1>2. \A r \in S : pc[r] \in {"queued", "findFreeUsage", "insertFreeUsage",
                              "lockSubscription"}
  BY <1>1 DEF WaitsFor
<1>3. ASSUME NEW r \in S, pc[r] = "lockSubscription"
      PROVE  WaitsFor(r) \cap S = {}
  BY <1>1, <1>2, <1>3, WaitCases DEF HoldsSubscription, Deducted
<1>4. ASSUME NEW r \in S, pc[r] \in {"findFreeUsage", "insertFreeUsage"},
             \A q \in S : pc[q] # "lockSubscription"
      PROVE  WaitsFor(r) \cap S = {}
  BY <1>1, <1>2, <1>4, WaitCases DEF HoldsFreeRow, Statements
<1>5. ASSUME NEW r \in S, \A q \in S : pc[q] = "queued"
      PROVE  WaitsFor(r) \cap S = {}
  BY <1>1, <1>5, WaitCases DEF InTransaction, Statements
<1> QED
  BY <1>2, <1>3, <1>4, <1>5

\* No set of chat requests waits for itself, for any number of users, months,
\* bundles and connections.
THEOREM DeadlockFree == Spec => []NoDeadlock
BY AlwaysCandidate, FurthestWaitsForNone, PTL

-----------------------------------------------------------------------------
(* Progress                                                                *)

\* The statements left before the ranking, at it, and after it.
LEMMA LeftAtValue ==
  ASSUME NEW p \in States, NEW n
  PROVE  /\ Cardinality(Subs) \in Nat
         /\ Ahead[p] \in 0 .. 12
         /\ p = "lockSubscription" => Ahead[p] = 7 /\ LeftAt(p, n) = 7 + n
         /\ p # "lockSubscription" =>
              /\ Ahead[p] # 7
              /\ Ahead[p] > 7 => LeftAt(p, n) = Ahead[p] + Cardinality(Subs)
              /\ Ahead[p] < 7 => LeftAt(p, n) = Ahead[p]
<1>1. Cardinality(Subs) \in Nat
  BY FiniteAssumption, FS_CardinalityType
<1>2. /\ Ahead[p] \in 0 .. 12
      /\ Ahead["lockSubscription"] = 7
      /\ p # "lockSubscription" => Ahead[p] # 7
  BY DEF Ahead, States, Statements, Outcomes
<1>3. CASE p = "lockSubscription"
  BY <1>1, <1>2, <1>3 DEF LeftAt
<1>4. CASE p # "lockSubscription" /\ Ahead[p] > 7
  BY <1>1, <1>2, <1>4 DEF LeftAt
<1>5. CASE p # "lockSubscription" /\ Ahead[p] < 7
  BY <1>1, <1>2, <1>5 DEF LeftAt
<1> QED
  BY <1>1, <1>2, <1>3, <1>4, <1>5

\* From any statement to one that comes later, but for the ranking.
LEMMA FurtherOn ==
  ASSUME NEW p \in States, NEW q \in States, NEW n \in Nat, NEW m,
         q # "lockSubscription", Ahead[q] < Ahead[p]
  PROVE  LeftAt(q, m) < LeftAt(p, n)
<1>1. /\ Cardinality(Subs) \in Nat
      /\ Ahead[p] \in 0 .. 12 /\ Ahead[q] \in 0 .. 12
  BY LeftAtValue
<1>2. LeftAt(q, m) = Ahead[q] + (IF Ahead[q] > 7 THEN Cardinality(Subs) ELSE 0)
  BY <1>1, LeftAtValue
<1>3. LeftAt(p, n) = Ahead[p] + (IF Ahead[p] > 7 THEN Cardinality(Subs)
                                 ELSE IF Ahead[p] = 7 THEN n ELSE 0)
  BY <1>1, LeftAtValue
<1> QED
  BY <1>1, <1>2, <1>3

\* A request moves on to a later statement, or ranks at most all bundles, or
\* goes on to the next one of its ranking; the others stay where they are.
LEMMA StepIsNearer ==
  ASSUME IInv, [Next]_vars, NEW r \in Requests
  PROVE  \/ StatementsLeft(r)' < StatementsLeft(r)
         \/ UNCHANGED <<pc[r], ranking[r]>>
<1>1. TypeOK /\ TypeOK'
  BY TypeStep DEF IInv
<1>2. /\ pc[r] \in States /\ pc'[r] \in States
      /\ ranking[r] \in Seq(Subs) /\ ranking'[r] \in Seq(Subs)
      /\ Len(ranking[r]) \in Nat /\ Len(ranking'[r]) \in Nat
  BY <1>1 DEF TypeOK
<1>3. StatementsLeft(r) = LeftAt(pc[r], Len(ranking[r]))
  BY DEF StatementsLeft
<1>4. StatementsLeft(r)' = LeftAt(pc'[r], Len(ranking'[r]))
  BY DEF StatementsLeft
<1>5. ASSUME pc'[r] # "lockSubscription", Ahead[pc'[r]] < Ahead[pc[r]]
      PROVE  StatementsLeft(r)' < StatementsLeft(r)
  BY <1>2, <1>3, <1>4, <1>5, FurtherOn
<1>6. ASSUME NEW q \in Requests, Elsewhere(q)
      PROVE  \/ UNCHANGED <<pc[r], ranking[r]>>
             \/ pc'[r] # "lockSubscription" /\ Ahead[pc'[r]] < Ahead[pc[r]]
  <2>1. CASE r # q
    BY <1>1, <1>6, <2>1, ElsewhereFrame
  <2>2. CASE r = q
    <3>1. pc'[r] # "lockSubscription"
      BY <1>1, <1>6, <2>2, ElsewhereFrame
    <3>2. pc \in [Requests -> States]
      BY <1>1 DEF TypeOK
    <3>3. \/ pc[r] = "queued" /\ pc'[r] = "findFreeUsage"
          \/ pc[r] = "findFreeUsage" /\ pc'[r] \in {"deductFree", "insertFreeUsage"}
          \/ pc[r] = "insertFreeUsage" /\ pc'[r] = "deductFree"
          \/ pc[r] = "deductFree" /\ pc'[r] \in {"askAi", "rankSubscriptions"}
          \/ pc[r] = "askAi" /\ pc'[r] = "createMessage"
          \/ pc[r] = "createMessage" /\ pc'[r] = "createLedgerRow"
          \/ pc[r] = "createLedgerRow" /\ pc'[r] = "commit"
          \/ pc[r] = "respond" /\ pc'[r] \in {"answered", "failed"}
      <4>1. CASE Begin(r)
        BY <3>2, <4>1 DEF Begin
      <4>2. CASE LockFreeUsage(r) \/ MissFreeUsage(r) \/ InsertFreeUsage(r)
        BY <3>2, <4>2 DEF LockFreeUsage, MissFreeUsage, InsertFreeUsage
      <4>3. CASE DeductFree(r) \/ FallBackToSubscription(r)
        BY <3>2, <4>3 DEF DeductFree, FallBackToSubscription
      <4>4. CASE AskAi(r) \/ CreateMessage(r) \/ CreateLedgerRow(r)
        BY <3>2, <4>4 DEF AskAi, CreateMessage, CreateLedgerRow
      <4>5. CASE Respond(r) \/ LoseAnswer(r)
        BY <3>2, <4>5 DEF Respond, LoseAnswer
      <4> QED
        BY <1>6, <2>2, <4>1, <4>2, <4>3, <4>4, <4>5 DEF Elsewhere
    <3>4. Ahead[pc'[r]] < Ahead[pc[r]]
      BY <3>3 DEF Ahead
    <3> QED
      BY <3>1, <3>4
  <2> QED
    BY <2>1, <2>2
<1>7. ASSUME NEW q \in Requests, RankSubscriptions(q)
      PROVE  \/ StatementsLeft(r)' < StatementsLeft(r)
             \/ UNCHANGED <<pc[r], ranking[r]>>
  <2>1. CASE r # q
    BY <1>1, <1>7, <2>1 DEF RankSubscriptions, TypeOK
  <2>2. CASE r = q
    <3>1. PICK order \in Rankings(user[r]) :
            ranking' = [ranking EXCEPT ![r] = order]
      BY <1>7, <2>2 DEF RankSubscriptions
    <3>2. /\ IsFiniteSet(Candidates(user[r]))
          /\ Cardinality(Candidates(user[r])) \in Nat
          /\ Cardinality(Candidates(user[r])) <= Cardinality(Subs)
      <4>1. Candidates(user[r]) \in SUBSET Subs
        BY DEF Candidates
      <4> QED
        BY <4>1, FiniteAssumption, FS_Subset, FS_CardinalityType
    <3>3. ranking'[r] \in [1 .. Cardinality(Candidates(user[r]))
                             -> Candidates(user[r])]
      BY <1>1, <3>1 DEF TypeOK, Rankings
    <3>4. Len(ranking'[r]) = Cardinality(Candidates(user[r]))
      BY <1>2, <3>2, <3>3
    <3>5. pc[r] = "rankSubscriptions" /\ pc'[r] = "lockSubscription"
      BY <1>1, <1>7, <2>2 DEF RankSubscriptions, TypeOK
    <3>6. StatementsLeft(r)' = 7 + Len(ranking'[r])
      BY <1>2, <1>4, <3>5, LeftAtValue
    <3>7. StatementsLeft(r) = 8 + Cardinality(Subs)
      <4>1. Ahead[pc[r]] = 8
        BY <3>5 DEF Ahead
      <4> QED
        BY <1>2, <1>3, <3>5, <4>1, LeftAtValue
    <3>8. Cardinality(Subs) \in Nat
      BY FiniteAssumption, FS_CardinalityType
    <3> QED
      BY <3>2, <3>4, <3>6, <3>7, <3>8
  <2> QED
    BY <2>1, <2>2
<1>8. ASSUME NEW q \in Requests, LockSubscription(q)
      PROVE  \/ StatementsLeft(r)' < StatementsLeft(r)
             \/ UNCHANGED <<pc[r], ranking[r]>>
  <2>1. CASE r # q
    BY <1>1, <1>8, <2>1 DEF LockSubscription, TypeOK
  <2>2. CASE r = q
    <3>1. /\ pc[r] = "lockSubscription" /\ ranking[r] # <<>>
          /\ \/ pc'[r] = "deductSubscription"
             \/ pc'[r] = "lockSubscription" /\ ranking'[r] = Tail(ranking[r])
      BY <1>1, <1>8, <2>2 DEF LockSubscription, TypeOK
    <3>2. CASE pc'[r] = "deductSubscription"
      BY <1>5, <3>1, <3>2 DEF Ahead
    <3>3. CASE pc'[r] = "lockSubscription" /\ ranking'[r] = Tail(ranking[r])
      <4>1. Len(ranking'[r]) = Len(ranking[r]) - 1
        BY <1>2, <3>1, <3>3
      <4>2. /\ StatementsLeft(r)' = 7 + Len(ranking'[r])
            /\ StatementsLeft(r) = 7 + Len(ranking[r])
        BY <1>2, <1>3, <1>4, <3>1, <3>3, LeftAtValue
      <4> QED
        BY <1>2, <4>1, <4>2
    <3> QED
      BY <3>1, <3>2, <3>3
  <2> QED
    BY <2>1, <2>2
<1>9. ASSUME NEW q \in Requests,
             \/ DeductSubscription(q) \/ Commit(q)
             \/ \E o \in {"refused", "failed"} :
                  /\ pc[q] = "queued" \/ InTransaction(q)
                  /\ Rollback(q, o)
      PROVE  \/ UNCHANGED <<pc[r], ranking[r]>>
             \/ pc'[r] # "lockSubscription" /\ Ahead[pc'[r]] < Ahead[pc[r]]
  <2>1. ranking' = ranking
    BY <1>9 DEF DeductSubscription, Commit, Rollback, locals
  <2>2. CASE r # q
    BY <1>1, <1>9, <2>1, <2>2 DEF DeductSubscription, Commit, Rollback, TypeOK
  <2>3. CASE r = q
    BY <1>1, <1>9, <2>3
    DEF DeductSubscription, Commit, Rollback, TypeOK, InTransaction, Statements,
        Ahead
  <2> QED
    BY <2>2, <2>3
<1>10. CASE UNCHANGED askVars
  BY <1>10 DEF askVars, locals
<1> QED
  BY <1>5, <1>6, <1>7, <1>8, <1>9, <1>10, StepCases DEF vars, Elsewhere

\* Each request is done after at most twelve statements and one for each
\* bundle, whatever the others do: there are no retries to starve.
THEOREM Progress == Spec => NearerTheEnd
<1>1. IInv /\ [Next]_vars =>
        [\A r \in Requests :
           \/ StatementsLeft(r)' < StatementsLeft(r)
           \/ UNCHANGED <<pc[r], ranking[r]>>]_vars
  BY StepIsNearer
<1> QED
  BY Inductive, <1>1, PTL DEF Spec, NearerTheEnd

-----------------------------------------------------------------------------
(* Refusals                                                                *)

\* 402 is the answer of two steps only.
LEMMA RefusalCases ==
  ASSUME TypeOK, [Next]_vars, NEW r \in Requests,
         pc[r] # "refused", pc'[r] = "refused"
  PROVE  NoActiveSubscription(r) \/ RejectSubscription(r)
<1>1. ASSUME NEW q \in Requests, NEW o, pc' = [pc EXCEPT ![q] = o]
      PROVE  o = "refused" /\ q = r
  BY <1>1 DEF TypeOK
<1>2. ASSUME NEW q \in Requests,
             \/ Begin(q) \/ AskAi(q) \/ CreateMessage(q)
             \/ CreateLedgerRow(q) \/ Commit(q) \/ Respond(q) \/ LoseAnswer(q)
      PROVE  FALSE
  BY <1>1, <1>2 DEF Begin, AskAi, CreateMessage, CreateLedgerRow, Commit,
     Respond, LoseAnswer
<1>3. ASSUME NEW q \in Requests, DeductFreeQuota(q) \/ Fail(q)
      PROVE  FALSE
  BY <1>1, <1>3 DEF DeductFreeQuota, LockFreeUsage, MissFreeUsage,
     InsertFreeUsage, ViolateUniqueMonth, DeductFree, FallBackToSubscription,
     Fail, Rollback
<1>4. ASSUME NEW q \in Requests,
             RankSubscriptions(q) \/ LockSubscription(q) \/ DeductSubscription(q)
      PROVE  FALSE
  <2>1. pc' = pc \/ \E o : o # "refused" /\ pc' = [pc EXCEPT ![q] = o]
    BY <1>4 DEF RankSubscriptions, LockSubscription, DeductSubscription
  <2> QED
    BY <1>1, <2>1
<1>5. ASSUME NEW q \in Requests, NoActiveSubscription(q) \/ RejectSubscription(q)
      PROVE  q = r
  BY <1>1, <1>5 DEF NoActiveSubscription, RejectSubscription, Refuse, Rollback
<1>6. pc' # pc
  OBVIOUS
<1> QED
  BY <1>2, <1>3, <1>4, <1>5, <1>6
  DEF Next, AskNext, Execute, DeductSubscriptionQuota, Quiescent, vars, askVars

\* In one month all the requests of a user want the same free row.
LEMMA OneKey ==
  ASSUME IInv, OneMonth, NEW r \in Requests, NEW q \in Requests,
         HoldsFreeRow(r), HoldsFreeRow(q), user[r] = user[q]
  PROVE  r = q
<1>1. \A t \in 0 .. Horizon : MonthOf(t) = 0
  BY ClockAssumption DEF OneMonth, MonthOf
<1>2. month[r] = month[q]
  BY <1>1 DEF IInv, TypeOK, Months
<1> QED
  BY <1>2 DEF IInv, LockInv, Key

\* So nobody charges the bundles one of them ranks before it ends.
LEMMA RankedRowsKept ==
  ASSUME IInv, CandidateInv, OneMonth, [Next]_vars,
         NEW r \in Requests, HoldsFreeRow(r), ~ Commit(r)
  PROVE  \A s \in Candidates(user[r]) : subs'[s] = subs[s]
<1>1. CASE \A q \in Requests : ~ Commit(q)
  BY <1>1, TablesChangeAtCommit DEF tables
<1>2. ASSUME NEW q \in Requests \ {r}, Commit(q)
      PROVE  \A s \in Candidates(user[r]) : subs'[s] = subs[s]
  <2>1. user[q] # user[r]
    BY <1>2, OneKey DEF Commit, HoldsFreeRow, Statements
  <2>2. \/ subs' = subs
        \/ /\ subs[sub[q]].user = user[q]
           /\ subs' = [subs EXCEPT ![sub[q]].remaining = left[q]]
    BY <1>2, CommitEffect
  <2>3. subs \in [Subs -> SubscriptionRow]
    BY DEF IInv, TypeOK, StoreTypeOK
  <2> QED
    BY <2>1, <2>2, <2>3 DEF Candidates
<1> QED
  BY <1>1, <1>2

\* Who has ranked, and who has chosen, has the best.
LEMMA BestStep ==
  ASSUME IInv, CandidateInv, BestInv, OneMonth, [Next]_vars
  PROVE  BestInv'
<1>1. /\ user' = user
      /\ \A u : Candidates(u)' = Candidates(u)
  BY ChatRows
<1>2. TypeOK
  BY DEF IInv
<1>3. ASSUME NEW q \in Requests,
             pc'[q] = "lockSubscription" =>
               pc[q] = "lockSubscription" /\ ranking'[q] = ranking[q],
             pc'[q] = "deductSubscription" =>
               pc[q] = "deductSubscription" /\ sub'[q] = sub[q]
      PROVE  BestOK(q)'
  <2>1. CASE pc'[q] = "lockSubscription"
    <3>1. /\ pc[q] = "lockSubscription" /\ ranking'[q] = ranking[q]
          /\ HoldsFreeRow(q) /\ ~ Commit(q)
      BY <1>3, <2>1 DEF HoldsFreeRow, Statements, Commit
    <3>2. \A s \in Candidates(user[q]) : subs'[s] = subs[s]
      BY <3>1, RankedRowsKept
    <3>3. \A i \in DOMAIN ranking[q] : ranking[q][i] \in Candidates(user[q])
      BY <3>1 DEF CandidateInv, CandidateOK
    <3> QED
      BY <2>1, <3>1, <3>2, <3>3 DEF BestInv, BestOK, RanksAtLeast
  <2>2. CASE pc'[q] = "deductSubscription"
    <3>1. /\ pc[q] = "deductSubscription" /\ sub'[q] = sub[q]
          /\ HoldsFreeRow(q) /\ ~ Commit(q)
      BY <1>3, <2>2 DEF HoldsFreeRow, Statements, Commit
    <3>2. \A s \in Candidates(user[q]) : subs'[s] = subs[s]
      BY <3>1, RankedRowsKept
    <3>3. sub[q] \in Candidates(user[q])
      BY <3>1 DEF CandidateInv, CandidateOK, HoldsSubscription
    <3> QED
      BY <1>1, <2>2, <3>1, <3>2, <3>3 DEF BestInv, BestOK, RanksAtLeast
  <2> QED
    BY <2>1, <2>2 DEF BestOK
<1>4. ASSUME NEW r \in Requests, Elsewhere(r) PROVE BestInv'
  BY <1>2, <1>3, <1>4, ElsewhereFrame DEF BestInv
<1>5. ASSUME NEW r \in Requests, RankSubscriptions(r) PROVE BestInv'
  <2>1. PICK q \in Rankings(user[r]) : ranking' = [ranking EXCEPT ![r] = q]
    BY <1>5 DEF RankSubscriptions
  <2>2. /\ pc' = [pc EXCEPT ![r] = "lockSubscription"]
        /\ sub' = sub /\ subs' = subs
    BY <1>5 DEF RankSubscriptions, storeVars, tables
  <2>3. ranking'[r] = q /\ pc'[r] = "lockSubscription"
    BY <1>2, <2>1, <2>2 DEF TypeOK
  <2>4. BestOK(r)'
    BY <2>2, <2>3 DEF BestOK, Rankings, RanksAtLeast
  <2>5. \A p \in Requests \ {r} : pc'[p] = pc[p] /\ ranking'[p] = ranking[p]
    BY <1>2, <2>1, <2>2 DEF TypeOK
  <2> QED
    BY <1>3, <2>2, <2>4, <2>5 DEF BestInv
<1>6. ASSUME NEW r \in Requests, LockSubscription(r) PROVE BestInv'
  <2> DEFINE s == Head(ranking[r])
             C == Candidates(user[r])
  <2>1. /\ pc[r] = "lockSubscription" /\ ranking[r] # <<>>
        /\ ranking[r] \in [1 .. Cardinality(C) -> C]
        /\ \A i, j \in DOMAIN ranking[r] :
             i < j => /\ ranking[r][i] # ranking[r][j]
                      /\ RanksAtLeast(ranking[r][i], ranking[r][j])
    BY <1>6 DEF LockSubscription, CandidateInv, CandidateOK, BestInv, BestOK
  <2>2. C \subseteq Subs /\ IsFiniteSet(C)
    <3>1. C \subseteq Subs
      BY DEF Candidates
    <3> QED
      BY <3>1, FiniteAssumption, FS_Subset
  <2>3. /\ \A t \in C : \E i \in DOMAIN ranking[r] : ranking[r][i] = t
        /\ 1 \in DOMAIN ranking[r] /\ s = ranking[r][1] /\ s \in C
    <3> HIDE DEF C
    <3> QED
      BY <2>1, <2>2, RankingOnto
  <2>4. \A t \in C : RanksAtLeast(s, t)
    <3> SUFFICES ASSUME NEW t \in C PROVE RanksAtLeast(s, t)
      OBVIOUS
    <3>1. PICK i \in DOMAIN ranking[r] : ranking[r][i] = t
      BY <2>3
    <3>2. CASE i = 1
      <4>1. subs[t].endDate \in Nat
        BY <2>2 DEF IInv, TypeOK, StoreTypeOK, SubscriptionRow
      <4> QED
        BY <2>3, <3>1, <3>2, <4>1 DEF RanksAtLeast
    <3>3. CASE i # 1
      <4>1. i \in 1 .. Cardinality(C) /\ 1 < i
        BY <2>1, <3>3, <2>2, FS_CardinalityType
      <4> QED
        BY <2>1, <2>3, <3>1, <4>1
    <3> QED
      BY <3>2, <3>3
  <2>5. /\ pc' = [pc EXCEPT ![r] = "deductSubscription"]
        /\ sub' = [sub EXCEPT ![r] = s]
        /\ ranking' = [ranking EXCEPT ![r] = <<>>]
        /\ subs' = subs
    <3>1. subs[s].status = "active"
      BY <2>3 DEF Candidates
    <3> QED
      BY <1>6, <3>1 DEF LockSubscription, tables
  <2> HIDE DEF s
  <2>6. BestOK(r)'
    <3>1. pc'[r] = "deductSubscription" /\ sub'[r] = s
      BY <1>2, <2>5 DEF TypeOK
    <3> QED
      BY <1>1, <2>4, <2>5, <3>1 DEF BestOK, RanksAtLeast
  <2>7. \A p \in Requests \ {r} :
          pc'[p] = pc[p] /\ ranking'[p] = ranking[p] /\ sub'[p] = sub[p]
    BY <1>2, <2>5 DEF TypeOK
  <2> QED
    BY <1>3, <2>6, <2>7 DEF BestInv
<1>7. ASSUME NEW r \in Requests,
             NEW o \in States \ {"lockSubscription", "deductSubscription"},
             pc' = [pc EXCEPT ![r] = o], ranking' = ranking, sub' = sub
      PROVE  BestInv'
  BY <1>2, <1>3, <1>7 DEF BestInv, TypeOK
<1>8. ASSUME UNCHANGED askVars PROVE BestInv'
  BY <1>3, <1>8 DEF BestInv, askVars, locals
<1>9. ASSUME NEW r \in Requests,
             \/ DeductSubscription(r)
             \/ Commit(r)
             \/ \E o \in {"refused", "failed"} : Rollback(r, o)
      PROVE  BestInv'
  BY <1>7, <1>9 DEF DeductSubscription, Commit, Rollback, locals, States,
     Statements, Outcomes
<1>10. ASSUME UNCHANGED vars PROVE BestInv'
  BY <1>8, <1>10 DEF vars
<1> QED
  BY <1>4, <1>5, <1>6, <1>8, <1>9, <1>10, StepCases DEF Elsewhere

\* Who is refused for what its bundle says has no other bundle with quota.
LEMMA NothingLeft ==
  ASSUME IInv, CandidateInv, NEW r \in Requests, [Next]_vars,
         pc[r] # "refused", pc'[r] = "refused",
         pc[r] = "deductSubscription" =>
           \A s \in Candidates(user[r]) :
             /\ IsActive(s) => ~ Expired(r)
             /\ RanksAtLeast(sub[r], s)
  PROVE  ~ \E s \in Subs : /\ subs[s].user = user[r]
                           /\ IsActive(s)
                           /\ HasRemainingQuota(s)
<1> SUFFICES ASSUME NEW s \in Candidates(user[r]), IsActive(s),
                    HasRemainingQuota(s)
             PROVE  FALSE
  BY DEF Candidates, IsActive
<1>1. NoActiveSubscription(r) \/ RejectSubscription(r)
  BY RefusalCases DEF IInv
<1>2. CASE NoActiveSubscription(r)
  <2>1. /\ ranking[r] = <<>>
        /\ ranking[r] \in [1 .. Cardinality(Candidates(user[r]))
                             -> Candidates(user[r])]
        /\ \A i, j \in DOMAIN ranking[r] :
             i < j => ranking[r][i] # ranking[r][j]
    BY <1>2 DEF NoActiveSubscription, CandidateInv, CandidateOK
  <2>2. Candidates(user[r]) \subseteq Subs /\ IsFiniteSet(Candidates(user[r]))
    <3>1. Candidates(user[r]) \subseteq Subs
      BY DEF Candidates
    <3> QED
      BY <3>1, FiniteAssumption, FS_Subset
  <2> QED
    BY <2>1, <2>2, RankingOnto
<1>3. CASE RejectSubscription(r)
  <2> DEFINE a == subs[sub[r]]
             b == subs[s]
  <2>1. /\ pc[r] = "deductSubscription"
        /\ ~ Expired(r) /\ RanksAtLeast(sub[r], s)
        /\ a.limit # Unlimited /\ left[r] <= 0
    BY <1>3 DEF RejectSubscription
  <2>2. sub[r] \in Subs /\ s \in Subs /\ left[r] = a.remaining
    BY <2>1 DEF CandidateInv, CandidateOK, HoldsSubscription, Candidates, IInv,
       EntityInv, EntityOK
  <2>3. /\ a.remaining # Unlimited
        /\ b.limit = Unlimited => b.remaining = Unlimited
        /\ a.remaining \in Quantity /\ b.remaining \in Quantity
    BY <2>1, <2>2 DEF IInv, RowInv, TypeOK, StoreTypeOK, SubscriptionRow
  <2>4. /\ \/ a.remaining = b.remaining
           \/ b.remaining # Unlimited /\ a.remaining > b.remaining
        /\ b.limit = Unlimited \/ b.remaining > 0
    BY <2>1, <2>3 DEF RanksAtLeast, HasRemainingQuota
  <2> HIDE DEF a, b
  <2> QED
    BY <2>1, <2>2, <2>3, <2>4 DEF Quantity, Unlimited
<1> QED
  BY <1>1, <1>2, <1>3

\* While a month and the bundles last, whoever is refused has nothing left:
\* the request has the best bundle of its user, and nobody else can have taken
\* from the others since it was ranked.
THEOREM RefusedInOneMonth ==
  ASSUME OneMonth, Lasting
  PROVE  Spec => RefusedOnlyWhenExhausted
<1>1. Init => BestInv /\ LastingInv
  BY DEF Lasting, LastingInv, BestInv, BestOK, Init, StoreInit, AskInit
<1>2. /\ IInv /\ CandidateInv /\ BestInv /\ LastingInv
      /\ [Next]_vars
      => BestInv' /\ LastingInv'
  <2> SUFFICES ASSUME IInv, CandidateInv, BestInv, LastingInv, [Next]_vars
               PROVE  BestInv' /\ LastingInv'
    OBVIOUS
  <2>1. BestInv'
    BY BestStep
  <2>2. LastingInv'
    BY ChatRows DEF LastingInv
  <2> QED
    BY <2>1, <2>2
<1>3. /\ IInv /\ CandidateInv /\ BestInv /\ LastingInv
      /\ [Next]_vars
      => [\A r \in Requests :
            pc[r] # "refused" /\ pc'[r] = "refused" =>
              ~ \E s \in Subs : /\ subs[s].user = user[r]
                                /\ IsActive(s)
                                /\ HasRemainingQuota(s)]_vars
  <2> SUFFICES ASSUME IInv, CandidateInv, BestInv, LastingInv, [Next]_vars,
                      NEW r \in Requests,
                      pc[r] # "refused", pc'[r] = "refused"
               PROVE  ~ \E s \in Subs : /\ subs[s].user = user[r]
                                        /\ IsActive(s)
                                        /\ HasRemainingQuota(s)
    OBVIOUS
  <2>1. ASSUME pc[r] = "deductSubscription", NEW s \in Candidates(user[r])
        PROVE  ~ Expired(r) /\ RanksAtLeast(sub[r], s)
    <3>1. sub[r] \in Subs /\ subs[sub[r]].status = "active"
      BY <2>1 DEF CandidateInv, CandidateOK, HoldsSubscription, Candidates
    <3>2. subs[sub[r]].endDate \in Nat /\ now \in 0 .. Horizon
      BY <3>1 DEF IInv, TypeOK, StoreTypeOK, SubscriptionRow
    <3>3. ~ Expired(r)
      BY <3>1, <3>2, ClockAssumption DEF LastingInv, Expired
    <3> QED
      BY <2>1, <3>3 DEF BestInv, BestOK
  <2> QED
    BY <2>1, NothingLeft
<1> QED
  BY AlwaysCandidate, <1>1, <1>2, <1>3, PTL DEF Spec, RefusedOnlyWhenExhausted

\* Nor is anybody wronged who has one bundle at most, whenever it ends and
\* whatever months the requests are of.
THEOREM RefusedWithOneBundle ==
  Spec /\ OneBundle => RefusedOnlyWhenExhausted
<1>1. IInv /\ OneBundle /\ [Next]_vars => OneBundle'
  BY ChatRows DEF OneBundle
<1>2. /\ IInv /\ CandidateInv /\ OneBundle /\ [Next]_vars
      => [\A r \in Requests :
            pc[r] # "refused" /\ pc'[r] = "refused" =>
              ~ \E s \in Subs : /\ subs[s].user = user[r]
                                /\ IsActive(s)
                                /\ HasRemainingQuota(s)]_vars
  <2> SUFFICES ASSUME IInv, CandidateInv, OneBundle, [Next]_vars,
                      NEW r \in Requests,
                      pc[r] # "refused", pc'[r] = "refused"
               PROVE  ~ \E s \in Subs : /\ subs[s].user = user[r]
                                        /\ IsActive(s)
                                        /\ HasRemainingQuota(s)
    OBVIOUS
  <2>1. ASSUME pc[r] = "deductSubscription", NEW s \in Candidates(user[r])
        PROVE  (IsActive(s) => ~ Expired(r)) /\ RanksAtLeast(sub[r], s)
    <3>1. sub[r] \in Candidates(user[r])
      BY <2>1 DEF CandidateInv, CandidateOK, HoldsSubscription
    <3>2. sub[r] = s /\ s \in Subs
      BY <3>1 DEF OneBundle, Candidates
    <3>3. subs[s].endDate \in Nat /\ now \in Nat
      BY <3>2 DEF IInv, TypeOK, StoreTypeOK, SubscriptionRow
    <3> QED
      BY <3>2, <3>3 DEF IsActive, Expired, RanksAtLeast
  <2> QED
    BY <2>1, NothingLeft
<1> QED
  BY AlwaysCandidate, <1>1, <1>2, PTL DEF Spec, RefusedOnlyWhenExhausted

-----------------------------------------------------------------------------
(* The usage summary                                                       *)

\* The rows of a ledger split into those of the two parts.
LEMMA LedgerSplit ==
  ASSUME NEW L \in SUBSET LedgerRow, IsFiniteSet(L)
  PROVE  LET F == {row \in L : row.source = "free"}
             S == {row \in L : row.source = "subscription"}
         IN /\ Cardinality(F) \in Nat /\ Cardinality(S) \in Nat
            /\ Cardinality(L) \in Nat
            /\ Cardinality(L) = Cardinality(F) + Cardinality(S)
<1> DEFINE F == {row \in L : row.source = "free"}
           S == {row \in L : row.source = "subscription"}
<1>1. IsFiniteSet(F) /\ IsFiniteSet(S)
  BY FS_Subset
<1>2. F \cap S = {} /\ F \cup S = L
  BY DEF LedgerRow
<1>3. /\ Cardinality(F) \in Nat /\ Cardinality(S) \in Nat
      /\ Cardinality(L) \in Nat
  BY <1>1, FS_CardinalityType
<1>4. Cardinality(L) = Cardinality(F) + Cardinality(S)
  <2>1. Cardinality(F \cup S) =
          Cardinality(F) + Cardinality(S) - Cardinality(F \cap S)
    BY <1>1, FS_Union
  <2>2. Cardinality(F \cap S) = 0
    BY <1>2, FS_EmptySet
  <2> HIDE DEF F, S
  <2> QED
    BY <1>2, <1>3, <2>1, <2>2
<1> QED
  BY <1>3, <1>4

\* So do the rows that the counts see.
LEMMA RowsSplit ==
  ASSUME IsFiniteSet(ledger), StoreTypeOK
  PROVE  /\ \A c \in Counts : Cardinality(RowsOf(c)) \in Nat
         /\ Cardinality(ledger) = Cardinality(RowsOf("totalUsage"))
         /\ Cardinality(ledger) = Cardinality(RowsOf("freeUsage"))
                                    + Cardinality(RowsOf("subscriptionUsage"))
<1>1. ledger \in SUBSET LedgerRow
  BY DEF StoreTypeOK
<1>2. /\ RowsOf("totalUsage") = ledger
      /\ RowsOf("freeUsage") = {row \in ledger : row.source = "free"}
      /\ RowsOf("subscriptionUsage") =
           {row \in ledger : row.source = "subscription"}
  BY DEF RowsOf
<1> QED
  BY <1>1, <1>2, LedgerSplit DEF Counts

\* Rows are only added to the ledger, so every count can only grow.
LEMMA LedgerGrows ==
  ASSUME IInv, FreeAccounted, [Next]_vars
  PROVE  \A c \in Counts : Cardinality(RowsOf(c)) <= Cardinality(RowsOf(c)')
<1>1. ledger \subseteq ledger'
  <2>1. CASE \E r \in Requests : Commit(r)
    BY <2>1, CommitEffect
  <2>2. CASE \A r \in Requests : ~ Commit(r)
    BY <2>2, TablesChangeAtCommit DEF tables
  <2> QED
    BY <2>1, <2>2
<1>2. IsFiniteSet(ledger')
  BY FreeAccountedStep DEF FreeAccounted
<1> SUFFICES ASSUME NEW c \in Counts
             PROVE  Cardinality(RowsOf(c)) <= Cardinality(RowsOf(c)')
  OBVIOUS
<1>3. RowsOf(c)' \in SUBSET ledger' /\ RowsOf(c) \in SUBSET (RowsOf(c)')
  BY <1>1 DEF RowsOf, Counts
<1>4. IsFiniteSet(RowsOf(c)')
  BY <1>2, <1>3, FS_Subset
<1> QED
  BY <1>3, <1>4, FS_Subset

\* A charge adds a row after the counts that have been made, and each count
\* is made of the rows there are.
LEMMA ReportStep ==
  ASSUME IInv, FreeAccounted, ReportInv, [ReportNext]_allVars
  PROVE  ReportInv'
<1> DEFINE Rows(c) == Cardinality(RowsOf(c))
<1>1. /\ counted \in 0 .. 3 /\ summary \in [Counts -> Nat]
      /\ \A i \in 1 .. counted : CountedOK(i)
      /\ counted = 2 => summary["totalUsage"] <=
                          summary["freeUsage"] + Rows("subscriptionUsage")
      /\ counted = 3 => /\ summary["totalUsage"] <= Parts
                        /\ Parts <= Cardinality(ledger)
  BY DEF ReportInv, ReportTypeOK, Order, SummaryCoversTotal
<1>2. /\ \A c \in Counts : Rows(c) \in Nat
      /\ Rows("totalUsage") = Rows("freeUsage") + Rows("subscriptionUsage")
      /\ Cardinality(ledger) = Rows("totalUsage")
  BY RowsSplit DEF FreeAccounted, IInv, TypeOK
<1>3. /\ Order[1] = "totalUsage" /\ Order[2] = "freeUsage"
      /\ Order[3] = "subscriptionUsage" /\ Len(Order) = 3
      /\ Counts = {"totalUsage", "freeUsage", "subscriptionUsage"}
  BY DEF Order, Counts
<1>4. CASE [Next]_vars /\ UNCHANGED reportVars
  <2>1. counted' = counted /\ summary' = summary
    BY <1>4 DEF reportVars
  <2>2. \A c \in Counts : Rows(c) <= Rows(c)'
    BY <1>4, LedgerGrows
  <2>3. /\ \A c \in Counts : Rows(c)' \in Nat
        /\ Cardinality(ledger)' = Rows("totalUsage")'
    <3>1. ledger' \in SUBSET LedgerRow /\ IsFiniteSet(ledger')
      BY <1>4, TypeStep, FreeAccountedStep
      DEF IInv, TypeOK, StoreTypeOK, FreeAccounted
    <3>2. /\ RowsOf("totalUsage")' = ledger'
          /\ RowsOf("freeUsage")' = {row \in ledger' : row.source = "free"}
          /\ RowsOf("subscriptionUsage")' =
               {row \in ledger' : row.source = "subscription"}
      BY DEF RowsOf
    <3> QED
      BY <1>3, <3>1, <3>2, LedgerSplit
  <2>4. \A i \in 1 .. counted : CountedOK(i)'
    <3> SUFFICES ASSUME NEW i \in 1 .. counted PROVE CountedOK(i)'
      OBVIOUS
    <3>1. Order[i] \in Counts /\ summary[Order[i]] <= Rows(Order[i])
      BY <1>1, <1>3 DEF CountedOK
    <3>2. summary[Order[i]] <= Rows(Order[i])'
      <4>1. /\ Rows(Order[i]) \in Nat /\ Rows(Order[i])' \in Nat
            /\ Rows(Order[i]) <= Rows(Order[i])'
            /\ summary[Order[i]] \in Nat
        BY <1>1, <1>2, <2>2, <2>3, <3>1
      <4> QED
        BY <3>1, <4>1
    <3> QED
      BY <2>1, <3>2 DEF CountedOK
  <2>5. counted = 2 => summary["totalUsage"] <=
                         summary["freeUsage"] + Rows("subscriptionUsage")'
    BY <1>1, <1>2, <1>3, <2>2, <2>3
  <2>6. counted = 3 => /\ summary["totalUsage"] <= Parts
                       /\ Parts <= Cardinality(ledger)'
    BY <1>1, <1>2, <1>3, <2>2, <2>3 DEF Parts
  <2> QED
    BY <1>1, <1>3, <2>1, <2>4, <2>5, <2>6
    DEF ReportInv, ReportTypeOK, SummaryCoversTotal, Parts
<1>5. CASE Count /\ UNCHANGED vars
  <2>1. /\ counted \in 0 .. 2 /\ counted' = counted + 1
        /\ summary' = [summary EXCEPT
             ![Order[counted + 1]] = Rows(Order[counted + 1])]
    BY <1>1, <1>3, <1>5 DEF Count
  <2>2. \A c \in Counts : Rows(c)' = Rows(c)
    BY <1>5 DEF RowsOf, Counts, vars, storeVars, tables
  <2>3. ledger' = ledger
    BY <1>5 DEF vars, storeVars, tables
  <2>4. /\ counted' \in 1 .. 3 /\ summary' \in [Counts -> Nat]
        /\ \A c \in Counts :
             summary'[c] = IF c = Order[counted + 1] THEN Rows(c) ELSE summary[c]
    BY <1>1, <1>2, <1>3, <2>1
  <2>5. \A i \in 1 .. counted' : CountedOK(i)'
    <3> SUFFICES ASSUME NEW i \in 1 .. counted' PROVE CountedOK(i)'
      OBVIOUS
    <3>1. Order[i] \in Counts /\ (i = counted + 1 \/ i \in 1 .. counted)
      BY <1>3, <2>1
    <3>2. summary'[Order[i]] <= Rows(Order[i])
      BY <1>1, <1>2, <2>4, <3>1 DEF CountedOK
    <3> QED
      BY <2>2, <3>1, <3>2 DEF CountedOK
  <2>6. counted' = 2 => summary'["totalUsage"] <=
                          summary'["freeUsage"] + Rows("subscriptionUsage")
    <3>1. counted = 1 => summary["totalUsage"] <= Rows("totalUsage")
      BY <1>1, <1>3 DEF CountedOK
    <3> QED
      BY <1>2, <1>3, <2>1, <2>4, <3>1
  <2>7. counted' = 3 => /\ summary'["totalUsage"] <= Parts'
                        /\ Parts' <= Cardinality(ledger)
    <3>1. counted = 2 => summary["freeUsage"] <= Rows("freeUsage")
      BY <1>1, <1>3 DEF CountedOK
    <3> QED
      BY <1>1, <1>2, <1>3, <2>1, <2>4, <3>1 DEF Parts
  <2> QED
    BY <1>3, <2>2, <2>3, <2>4, <2>5, <2>6, <2>7
    DEF ReportInv, ReportTypeOK, SummaryCoversTotal
<1>6. CASE UNCHANGED allVars
  BY <1>4, <1>6 DEF allVars, reportVars
<1> QED
  BY <1>4, <1>5, <1>6 DEF ReportNext

\* Whatever is charged while the endpoint counts, no charge of the total is
\* missing from the parts of the summary and none is in both.
THEOREM SummaryCovers == ReportSpec => []SummaryCoversTotal
<1>1. ReportInit => IInv /\ FreeAccounted /\ ReportInv
  <2> SUFFICES ASSUME ReportInit PROVE IInv /\ FreeAccounted /\ ReportInv
    OBVIOUS
  <2>1. IInv /\ FreeAccounted
    BY InductiveInit, AccountedInit DEF ReportInit, Accounted
  <2>2. ReportInv
    BY DEF ReportInit, ReportInv, ReportTypeOK, SummaryCoversTotal, Order
  <2> QED
    BY <2>1, <2>2
<1>2. /\ IInv /\ FreeAccounted /\ ReportInv
      /\ [ReportNext]_allVars
      => IInv' /\ FreeAccounted' /\ ReportInv'
  <2> SUFFICES ASSUME IInv, FreeAccounted, ReportInv, [ReportNext]_allVars
               PROVE  IInv' /\ FreeAccounted' /\ ReportInv'
    OBVIOUS
  <2>1. [Next]_vars
    BY DEF ReportNext, allVars
  <2>2. IInv'
    BY <2>1, TypeStep, LockStep, EntityStep, ChoiceStep, StoredStep, RowStep
    DEF IInv
  <2> QED
    BY <2>1, <2>2, FreeAccountedStep, ReportStep
<1>3. ReportInv => SummaryCoversTotal
  BY DEF ReportInv
<1> QED
  BY <1>1, <1>2, <1>3, PTL DEF ReportSpec

=============================================================================
