---------------------------- MODULE AskQuestion ----------------------------
(***************************************************************************)
(* AskQuestionUseCase.execute and the QuotaService it calls: each request  *)
(* runs ONE transaction that deducts quota (the month's free messages      *)
(* first, then a subscription), waits for the AI provider, inserts the     *)
(* chat message and inserts the usage-ledger row.                          *)
(*                                                                         *)
(* A step is one statement of the transaction.  What it writes stays in    *)
(* the request's own variables until Commit publishes it, and disappears   *)
(* with Rollback.  A transaction keeps its pooled connection and its row   *)
(* locks to its end, the AI call included.                                 *)
(***************************************************************************)
EXTENDS Store

CONSTANT PoolSize   \* connections of the pg pool behind AppDataSource

ASSUME PoolAssumption == PoolSize \in Nat \ {0}

VARIABLES
  pc,        \* the next statement of each request, or how it ended
  user,      \* params.userId
  month,     \* usageMonth, computed once when the deduction starts
  used,      \* usage.usedMessages of the free-usage entity
  source,    \* quotaResult.source
  ranking,   \* subscriptions the running SELECT has still to try, best first
  sub,       \* the subscription entity's id, Null before one is found
  left,      \* subscription.remainingMessages of the entity
  inserted   \* rows the open transaction has inserted

locals == <<user, month, used, source, ranking, sub, left>>
askVars == <<pc, locals, inserted>>
vars == <<storeVars, askVars>>

-----------------------------------------------------------------------------

Statements ==
  {"findFreeUsage", "insertFreeUsage", "deductFree", "rankSubscriptions",
   "lockSubscription", "deductSubscription", "askAi", "createMessage",
   "createLedgerRow", "commit"}

\* 200, 402 and 500 of the chat endpoint.
Outcomes == {"answered", "refused", "failed"}

States == {"queued", "respond"} \cup Statements \cup Outcomes

InTransaction(r) == pc[r] \in Statements

Ended(r) == pc[r] \in Outcomes

Key(r) == <<user[r], month[r]>>

TypeOK ==
  /\ StoreTypeOK
  /\ pc \in [Requests -> States]
  /\ user \in [Requests -> Users]
  /\ month \in [Requests -> Months]
  /\ used \in [Requests -> Nat]
  /\ source \in [Requests -> {"none", "free", "subscription"}]
  /\ ranking \in [Requests -> Seq(Subs)]
  /\ sub \in [Requests -> Subs \cup {Null}]
  /\ left \in [Requests -> Quantity]
  /\ inserted \in [Requests -> SUBSET {"message", "ledgerRow"}]

AskInit ==
  /\ pc = [r \in Requests |-> "queued"]
  /\ user \in [Requests -> Users]
  /\ month = [r \in Requests |-> MonthOf(0)]
  /\ used = [r \in Requests |-> 0]
  /\ source = [r \in Requests |-> "none"]
  /\ ranking = [r \in Requests |-> <<>>]
  /\ sub = [r \in Requests |-> Null]
  /\ left = [r \in Requests |-> 0]
  /\ inserted = [r \in Requests |-> {}]

Init == StoreInit /\ AskInit

-----------------------------------------------------------------------------
(* Ends of a transaction.                                                  *)

\* Both COMMIT and ROLLBACK free every row lock of the transaction.
ReleaseLocks(r) ==
  /\ freeLock' = [key \in UsageKeys |->
                    IF freeLock[key] = r THEN Null ELSE freeLock[key]]
  /\ subLock' = [s \in Subs |->
                   IF subLock[s] = r THEN Null ELSE subLock[s]]

\* Mutant of Rollback: the transaction is abandoned, not rolled back.
RollbackForgotten(r, outcome) ==
  /\ pc' = [pc EXCEPT ![r] = outcome]
  /\ inserted' = [inserted EXCEPT ![r] = {}]
  /\ UNCHANGED <<storeVars, locals>>

\* AppDataSource.transaction rolls back when its callback rejects.
Rollback(r, outcome) ==
  /\ pc' = [pc EXCEPT ![r] = outcome]
  /\ inserted' = [inserted EXCEPT ![r] = {}]
  /\ ReleaseLocks(r)
  /\ UNCHANGED <<now, tables, locals>>

\* QUOTA_EXCEEDED leaves deductQuota: 402.
Refuse(r) == Rollback(r, "refused")

\* The row usageLedgerRepository.create inserts for a request.
RowOf(r) == [user |-> user[r], source |-> source[r], subscription |-> sub[r],
             chatMessage |-> r]

\* The writes of a committing transaction become visible together.
Publish(r) ==
  /\ IF source[r] = "free"
       THEN /\ freeRows' = freeRows \cup {Key(r)}
            /\ freeUsed' = [freeUsed EXCEPT ![Key(r)] = used[r]]
            /\ UNCHANGED subs
       ELSE /\ subs' = [subs EXCEPT ![sub[r]].remaining = left[r]]
            /\ UNCHANGED <<freeRows, freeUsed>>
  /\ messages' = IF "message" \in inserted[r]
                   THEN messages \cup {r} ELSE messages
  /\ ledger' = IF "ledgerRow" \in inserted[r]
                 THEN ledger \cup {RowOf(r)} ELSE ledger

Commit(r) ==
  /\ pc[r] = "commit"
  /\ pc' = [pc EXCEPT ![r] = "respond"]
  /\ inserted' = [inserted EXCEPT ![r] = {}]
  /\ Publish(r)
  /\ ReleaseLocks(r)
  /\ UNCHANGED <<now, locals>>

\* The response reaches the client after COMMIT.
Respond(r) ==
  /\ pc[r] = "respond"
  /\ pc' = [pc EXCEPT ![r] = "answered"]
  /\ UNCHANGED <<storeVars, locals, inserted>>

\* A statement, the connection or the process fails before COMMIT.
Fail(r) ==
  /\ pc[r] = "queued" \/ InTransaction(r)
  /\ Rollback(r, "failed")

\* It fails after COMMIT: the client misses an answer that is charged.
LoseAnswer(r) ==
  /\ pc[r] = "respond"
  /\ pc' = [pc EXCEPT ![r] = "failed"]
  /\ UNCHANGED <<storeVars, locals, inserted>>

-----------------------------------------------------------------------------
(* deductFreeQuota                                                         *)

\* The transaction takes a pooled connection and the month is computed.
Begin(r) ==
  /\ pc[r] = "queued"
  /\ Cardinality({q \in Requests : InTransaction(q)}) < PoolSize
  /\ pc' = [pc EXCEPT ![r] = "findFreeUsage"]
  /\ month' = [month EXCEPT ![r] = MonthOf(now)]
  /\ UNCHANGED <<storeVars, user, used, source, ranking, sub, left, inserted>>

\* SELECT ... FOR UPDATE on the month's row: waits while it is locked.
LockFreeUsage(r) ==
  /\ pc[r] = "findFreeUsage"
  /\ Key(r) \in freeRows
  /\ freeLock[Key(r)] = Null
  /\ freeLock' = [freeLock EXCEPT ![Key(r)] = r]
  /\ used' = [used EXCEPT ![r] = freeUsed[Key(r)]]
  /\ pc' = [pc EXCEPT ![r] = "deductFree"]
  /\ UNCHANGED <<now, tables, subLock, user, month, source, ranking, sub,
                 left, inserted>>

\* No committed row: an insert of another open transaction is not visible.
MissFreeUsage(r) ==
  /\ pc[r] = "findFreeUsage"
  /\ Key(r) \notin freeRows
  /\ pc' = [pc EXCEPT ![r] = "insertFreeUsage"]
  /\ UNCHANGED <<storeVars, locals, inserted>>

\* Mutant of InsertFreeUsage: no unique key on (user, month) to wait for.
InsertFreeUsageNotUnique(r) ==
  /\ pc[r] = "insertFreeUsage"
  /\ freeLock' = [freeLock EXCEPT ![Key(r)] = r]
  /\ used' = [used EXCEPT ![r] = 0]
  /\ pc' = [pc EXCEPT ![r] = "deductFree"]
  /\ UNCHANGED <<now, tables, subLock, user, month, source, ranking, sub,
                 left, inserted>>

\* INSERT of the month's first row: waits for a transaction that has inserted
\* the same (user, month) and not ended.
InsertFreeUsage(r) ==
  /\ pc[r] = "insertFreeUsage"
  /\ Key(r) \notin freeRows
  /\ freeLock[Key(r)] = Null
  /\ freeLock' = [freeLock EXCEPT ![Key(r)] = r]
  /\ used' = [used EXCEPT ![r] = 0]
  /\ pc' = [pc EXCEPT ![r] = "deductFree"]
  /\ UNCHANGED <<now, tables, subLock, user, month, source, ranking, sub,
                 left, inserted>>

\* Mutant of ViolateUniqueMonth: the deduction starts over.
RetryOnUniqueMonth(r) ==
  /\ pc[r] = "insertFreeUsage"
  /\ Key(r) \in freeRows
  /\ pc' = [pc EXCEPT ![r] = "findFreeUsage"]
  /\ UNCHANGED <<storeVars, locals, inserted>>

\* UQ_monthly_free_usage_user_month: the other insert has committed.
ViolateUniqueMonth(r) ==
  /\ pc[r] = "insertFreeUsage"
  /\ Key(r) \in freeRows
  /\ Rollback(r, "failed")

DeductFree(r) ==
  /\ pc[r] = "deductFree"
  /\ used[r] < FreeLimit
  /\ used' = [used EXCEPT ![r] = @ + 1]
  /\ source' = [source EXCEPT ![r] = "free"]
  /\ pc' = [pc EXCEPT ![r] = "askAi"]
  /\ UNCHANGED <<storeVars, user, month, ranking, sub, left, inserted>>

\* Mutant of FallBackToSubscription: any error of the free path falls back.
FallBackOnAnyError(r) ==
  /\ pc[r] = "deductFree"
  /\ pc' = [pc EXCEPT ![r] = "rankSubscriptions"]
  /\ UNCHANGED <<storeVars, locals, inserted>>

\* Mutant of FallBackToSubscription: the free row is released on the way.
FallBackAndRelease(r) ==
  /\ pc[r] = "deductFree"
  /\ used[r] >= FreeLimit
  /\ pc' = [pc EXCEPT ![r] = "rankSubscriptions"]
  /\ ReleaseLocks(r)
  /\ UNCHANGED <<now, tables, locals, inserted>>

\* QUOTA_EXCEEDED of deductFreeQuota: the free row stays locked.
FallBackToSubscription(r) ==
  /\ pc[r] = "deductFree"
  /\ used[r] >= FreeLimit
  /\ pc' = [pc EXCEPT ![r] = "rankSubscriptions"]
  /\ UNCHANGED <<storeVars, locals, inserted>>

-----------------------------------------------------------------------------
(* deductSubscriptionQuota                                                 *)

\* Mutant of RanksAtLeast: ORDER BY remaining_messages ASC.
RanksAtMost(s, t) == subs[s].remaining <= subs[t].remaining

\* ORDER BY remaining_messages DESC, end_date DESC: NULL sorts first.
RanksAtLeast(s, t) ==
  LET a == subs[s]  b == subs[t]
  IN \/ a.remaining = b.remaining /\ a.endDate >= b.endDate
     \/ a.remaining # b.remaining
        /\ (a.remaining = Unlimited
            \/ (b.remaining # Unlimited /\ a.remaining > b.remaining))

\* Mutant of Candidates: the WHERE clause loses its user.
CandidatesOfAnyone(u) == {s \in Subs : subs[s].status = "active"}

Candidates(u) == {s \in Subs : subs[s].user = u /\ subs[s].status = "active"}

\* The orders the sort of the SELECT may return: ties fall either way.
Rankings(u) ==
  {q \in [1 .. Cardinality(Candidates(u)) -> Candidates(u)] :
     \A i, j \in DOMAIN q : i < j => q[i] # q[j] /\ RanksAtLeast(q[i], q[j])}

\* SELECT ... ORDER BY ... LIMIT 1 FOR UPDATE ranks the rows of its snapshot.
RankSubscriptions(r) ==
  /\ pc[r] = "rankSubscriptions"
  /\ \E q \in Rankings(user[r]) : ranking' = [ranking EXCEPT ![r] = q]
  /\ pc' = [pc EXCEPT ![r] = "lockSubscription"]
  /\ UNCHANGED <<storeVars, user, month, used, source, sub, left, inserted>>

\* Mutant of LockSubscription: the row is read without pessimistic_write.
LockSubscriptionUnlocked(r) ==
  /\ pc[r] = "lockSubscription"
  /\ ranking[r] # <<>>
  /\ sub' = [sub EXCEPT ![r] = Head(ranking[r])]
  /\ left' = [left EXCEPT ![r] = subs[Head(ranking[r])].remaining]
  /\ ranking' = [ranking EXCEPT ![r] = <<>>]
  /\ pc' = [pc EXCEPT ![r] = "deductSubscription"]
  /\ UNCHANGED <<storeVars, user, month, used, source, inserted>>

\* Mutant of LockSubscription: no LIMIT 1, every row of the ranking is locked.
LockSubscriptionEach(r) ==
  /\ pc[r] = "lockSubscription"
  /\ ranking[r] # <<>>
  /\ LET s == Head(ranking[r])
     IN /\ subLock[s] = Null
        /\ subLock' = [subLock EXCEPT ![s] = r]
        /\ sub' = [sub EXCEPT ![r] = IF @ = Null THEN s ELSE @]
        /\ left' = [left EXCEPT ![r] = subs[sub'[r]].remaining]
  /\ ranking' = [ranking EXCEPT ![r] = Tail(@)]
  /\ pc' = [pc EXCEPT ![r] = IF ranking'[r] = <<>> THEN "deductSubscription"
                                                  ELSE @]
  /\ UNCHANGED <<now, tables, freeLock, user, month, used, source, inserted>>

\* It waits for the lock of the best row and rechecks the row it then finds:
\* one no longer active is skipped, and stays locked.
LockSubscription(r) ==
  /\ pc[r] = "lockSubscription"
  /\ ranking[r] # <<>>
  /\ LET s == Head(ranking[r])
     IN /\ subLock[s] = Null
        /\ subLock' = [subLock EXCEPT ![s] = r]
        /\ IF subs[s].status = "active"
             THEN /\ sub' = [sub EXCEPT ![r] = s]
                  /\ left' = [left EXCEPT ![r] = subs[s].remaining]
                  /\ ranking' = [ranking EXCEPT ![r] = <<>>]
                  /\ pc' = [pc EXCEPT ![r] = "deductSubscription"]
             ELSE /\ ranking' = [ranking EXCEPT ![r] = Tail(@)]
                  /\ UNCHANGED <<sub, left, pc>>
  /\ UNCHANGED <<now, tables, freeLock, user, month, used, source, inserted>>

NoActiveSubscription(r) ==
  /\ pc[r] = "lockSubscription"
  /\ ranking[r] = <<>>
  /\ Refuse(r)

Expired(r) == subs[sub[r]].endDate <= now

\* Mutant of DeductSubscription: the entity is saved outside the transaction.
DeductSubscriptionAutocommit(r) ==
  /\ pc[r] = "deductSubscription"
  /\ ~ Expired(r)
  /\ subs[sub[r]].limit = Unlimited \/ left[r] > 0
  /\ left' = [left EXCEPT ![r] = IF @ = Unlimited THEN @ ELSE @ - 1]
  /\ subs' = [subs EXCEPT ![sub[r]].remaining = left'[r]]
  /\ source' = [source EXCEPT ![r] = "subscription"]
  /\ pc' = [pc EXCEPT ![r] = "askAi"]
  /\ UNCHANGED <<now, freeRows, freeUsed, messages, ledger, locks, user, month,
                 used, ranking, sub, inserted>>

\* A credit is taken from the entity; enterprise is charged without a count.
DeductSubscription(r) ==
  /\ pc[r] = "deductSubscription"
  /\ ~ Expired(r)
  /\ \/ subs[sub[r]].limit = Unlimited /\ UNCHANGED left
     \/ /\ subs[sub[r]].limit # Unlimited
        /\ left[r] > 0
        /\ left' = [left EXCEPT ![r] = @ - 1]
  /\ source' = [source EXCEPT ![r] = "subscription"]
  /\ pc' = [pc EXCEPT ![r] = "askAi"]
  /\ UNCHANGED <<storeVars, user, month, used, ranking, sub, inserted>>

RejectSubscription(r) ==
  /\ pc[r] = "deductSubscription"
  /\ Expired(r) \/ (subs[sub[r]].limit # Unlimited /\ left[r] <= 0)
  /\ Refuse(r)

-----------------------------------------------------------------------------
(* The rest of execute                                                     *)

\* aiProvider.ask: the connection and the locks are held while it runs.
AskAi(r) ==
  /\ pc[r] = "askAi"
  /\ pc' = [pc EXCEPT ![r] = "createMessage"]
  /\ UNCHANGED <<storeVars, locals, inserted>>

\* Mutant of CreateMessage: the insert asks the pool for another connection.
CreateMessageOffTransaction(r) ==
  /\ pc[r] = "createMessage"
  /\ Cardinality({q \in Requests : InTransaction(q)}) < PoolSize
  /\ inserted' = [inserted EXCEPT ![r] = @ \cup {"message"}]
  /\ pc' = [pc EXCEPT ![r] = "createLedgerRow"]
  /\ UNCHANGED <<storeVars, locals>>

\* Both inserts run on the transaction's own connection (manager).
CreateMessage(r) ==
  /\ pc[r] = "createMessage"
  /\ inserted' = [inserted EXCEPT ![r] = @ \cup {"message"}]
  /\ pc' = [pc EXCEPT ![r] = "createLedgerRow"]
  /\ UNCHANGED <<storeVars, locals>>

\* Mutant of CreateLedgerRow: the insert commits on its own.
CreateLedgerRowAutocommit(r) ==
  /\ pc[r] = "createLedgerRow"
  /\ ledger' = ledger \cup {RowOf(r)}
  /\ inserted' = [inserted EXCEPT ![r] = @ \cup {"ledgerRow"}]
  /\ pc' = [pc EXCEPT ![r] = "commit"]
  /\ UNCHANGED <<now, freeRows, freeUsed, subs, messages, locks, locals>>

CreateLedgerRow(r) ==
  /\ pc[r] = "createLedgerRow"
  /\ inserted' = [inserted EXCEPT ![r] = @ \cup {"ledgerRow"}]
  /\ pc' = [pc EXCEPT ![r] = "commit"]
  /\ UNCHANGED <<storeVars, locals>>

-----------------------------------------------------------------------------

DeductFreeQuota(r) ==
  \/ LockFreeUsage(r)
  \/ MissFreeUsage(r)
  \/ InsertFreeUsage(r)
  \/ ViolateUniqueMonth(r)
  \/ DeductFree(r)
  \/ FallBackToSubscription(r)

DeductSubscriptionQuota(r) ==
  \/ RankSubscriptions(r)
  \/ LockSubscription(r)
  \/ NoActiveSubscription(r)
  \/ DeductSubscription(r)
  \/ RejectSubscription(r)

\* What the backend does for a request of its own accord.
Execute(r) ==
  \/ Begin(r)
  \/ DeductFreeQuota(r)
  \/ DeductSubscriptionQuota(r)
  \/ AskAi(r)
  \/ CreateMessage(r)
  \/ CreateLedgerRow(r)
  \/ Commit(r)
  \/ Respond(r)

AskNext == \E r \in Requests : Execute(r) \/ Fail(r) \/ LoseAnswer(r)

\* Every request has ended and the clock is at its bound.
Quiescent ==
  /\ \A r \in Requests : Ended(r)
  /\ now = Horizon
  /\ UNCHANGED vars

Next ==
  \/ AskNext
  \/ Tick /\ UNCHANGED <<tables, locks, askVars>>
  \/ Quiescent

\* The event loop and PostgreSQL run what can run; the pool serves its waiters
\* in order and the AI provider always answers.  Nothing is assumed of Fail and
\* LoseAnswer.
Fairness == \A r \in Requests : WF_vars(Execute(r))

Spec == Init /\ [][Next]_vars

FairSpec == Spec /\ Fairness

-----------------------------------------------------------------------------
(* Properties                                                              *)

\* The free messages charged to a user in a month, by the ledger.
FreeCharges(key) ==
  {row \in ledger : /\ row.source = "free"
                    /\ row.user = key[1]
                    /\ month[row.chatMessage] = key[2]}

\* No double spend of the free quota: however the requests of a user
\* interleave, the ledger never shows more free messages in a month than the
\* limit, and used_messages counts exactly those.
FreeQuotaNeverOverspent ==
  \A key \in UsageKeys :
    /\ freeUsed[key] = Cardinality(FreeCharges(key))
    /\ freeUsed[key] <= FreeLimit

\* No double spend of a bundle: what is missing from remaining_messages is
\* exactly what the ledger charged to it, and it never goes below zero.
SubscriptionNeverOverspent ==
  \A s \in Subs :
    subs[s].limit # Unlimited =>
      /\ subs[s].limit - subs[s].remaining = Cardinality(LedgerOf(s))
      /\ subs[s].remaining >= 0

\* A message is stored if and only if one charge for it is in the ledger, an
\* answer is sent only for a stored message and a refusal only without one.
ChargedIffStored ==
  /\ \A r \in messages :
       Cardinality({row \in ledger : row.chatMessage = r}) = 1
  /\ \A row \in ledger : row.chatMessage \in messages
  /\ \A r \in Requests :
       /\ pc[r] \in {"respond", "answered"} => r \in messages
       /\ pc[r] = "refused" => r \notin messages

\* A charge in the ledger names the user who asked, and a subscription
\* charge a subscription of that user.
ChargedToTheAsker ==
  \A row \in ledger :
    /\ row.user = user[row.chatMessage]
    /\ row.source = "subscription" =>
         row.subscription \in Subs /\ subs[row.subscription].user = row.user
    /\ row.source = "free" => row.subscription = Null

\* Row locks belong to open transactions: none outlives a commit, a refusal
\* or a failure, so no row stays blocked for the requests that follow.
NoOrphanLock ==
  /\ \A key \in UsageKeys :
       freeLock[key] # Null => InTransaction(freeLock[key])
  /\ \A s \in Subs : subLock[s] # Null => InTransaction(subLock[s])

\* The requests whose transactions the next statement of a request waits for:
\* any one that has a connection, the holder of the free row or of its unique
\* key, the holder of the best bundle.
WaitsFor(r) ==
  {q \in Requests :
     \/ /\ pc[r] = "queued"
        /\ InTransaction(q)
        /\ Cardinality({o \in Requests : InTransaction(o)}) >= PoolSize
     \/ /\ \/ pc[r] = "findFreeUsage" /\ Key(r) \in freeRows
           \/ pc[r] = "insertFreeUsage" /\ Key(r) \notin freeRows
        /\ freeLock[Key(r)] = q
     \/ /\ pc[r] = "lockSubscription"
        /\ ranking[r] # <<>>
        /\ subLock[Head(ranking[r])] = q}

Waiting == {r \in Requests : WaitsFor(r) # {}}

\* No deadlock among the chat transactions: among requests that wait there is
\* always one that waits for none of them, whatever months their free rows and
\* whatever order their bundles are in.
NoDeadlock ==
  \A S \in SUBSET Waiting : S # {} => \E r \in S : WaitsFor(r) \cap S = {}

\* A request that cannot go on waits for a transaction of another one, which
\* NoDeadlock speaks of, and never for itself or for nothing.
BlockedByAnother ==
  \A r \in Requests :
    ~ Ended(r) /\ ~ ENABLED Execute(r) => WaitsFor(r) \ {r} # {}

\* The waits of transactions for one another's row locks and connections
\* never close a cycle: every request is answered, refused or failed.
EveryRequestEnds == \A r \in Requests : <>Ended(r)

Ahead ==
  [queued |-> 12, findFreeUsage |-> 11, insertFreeUsage |-> 10,
   deductFree |-> 9, rankSubscriptions |-> 8, lockSubscription |-> 7,
   deductSubscription |-> 6, askAi |-> 5, createMessage |-> 4,
   createLedgerRow |-> 3, commit |-> 2, respond |-> 1,
   answered |-> 0, refused |-> 0, failed |-> 0]

\* How many statements are left at one of them, at most: those of the code
\* and one for each bundle that may be found no longer active.
LeftAt(statement, ranked) ==
  Ahead[statement] +
    CASE statement = "lockSubscription" -> ranked
      [] Ahead[statement] > Ahead["lockSubscription"] -> Cardinality(Subs)
      [] OTHER -> 0

StatementsLeft(r) == LeftAt(pc[r], Len(ranking[r]))

\* No request goes round in circles: whatever the others commit, lock or roll
\* back under it, nothing is tried twice, and each of its statements takes it
\* nearer its end.
NearerTheEnd ==
  [][\A r \in Requests :
       \/ StatementsLeft(r)' < StatementsLeft(r)
       \/ UNCHANGED <<pc[r], ranking[r]>>]_vars

\* A request is refused only when no subscription of the user is active,
\* unexpired and with quota left (SYSTEM_DESIGN 6.2).
RefusedOnlyWhenExhausted ==
  [][\A r \in Requests :
       pc[r] # "refused" /\ pc'[r] = "refused" =>
         ~ \E s \in Subs : /\ subs[s].user = user[r]
                           /\ IsActive(s)
                           /\ HasRemainingQuota(s)]_vars

-----------------------------------------------------------------------------
(* The abstract specification the transactions implement.                  *)

Ledger ==
  INSTANCE QuotaLedger
    WITH credit <- [s \in Subs |-> subs[s].remaining],
         owner <- [s \in Subs |-> subs[s].user]

\* Every step of the interleaved transactions is either invisible in the
\* committed tables or one whole charge: counter, message and ledger row
\* together, free messages first.
ImplementsQuotaLedger == Ledger!Spec

-----------------------------------------------------------------------------
(* The inductive invariant behind the safety properties.                   *)

HoldsFreeRow(r) ==
  pc[r] \in Statements \ {"findFreeUsage", "insertFreeUsage"}

\* Quota is deducted in the transaction and not yet committed.
Deducted(r) ==
  pc[r] \in {"askAi", "createMessage", "createLedgerRow", "commit"}

HoldsSubscription(r) ==
  pc[r] = "deductSubscription" \/ (Deducted(r) /\ source[r] = "subscription")

\* A row lock and the statement its holder has reached say the same.
LockInv ==
  /\ \A r \in Requests : HoldsFreeRow(r) => freeLock[Key(r)] = r
  /\ \A key \in UsageKeys : freeLock[key] # Null =>
       HoldsFreeRow(freeLock[key]) /\ Key(freeLock[key]) = key
  /\ \A r \in Requests : HoldsSubscription(r) =>
       sub[r] \in Subs /\ subLock[sub[r]] = r
  /\ \A s \in Subs : subLock[s] # Null => HoldsFreeRow(subLock[s])

\* The entities a transaction holds agree with the rows it has locked.
EntityOK(r) ==
  /\ pc[r] = "deductFree" => used[r] = freeUsed[Key(r)]
  /\ pc[r] \in {"rankSubscriptions", "lockSubscription"} \/ HoldsSubscription(r)
       => freeUsed[Key(r)] = FreeLimit
  /\ Deducted(r) /\ source[r] = "free" =>
       used[r] = freeUsed[Key(r)] + 1 /\ used[r] <= FreeLimit
  /\ pc[r] = "deductSubscription" => left[r] = subs[sub[r]].remaining
  /\ Deducted(r) /\ source[r] = "subscription" =>
       IF subs[sub[r]].limit = Unlimited
         THEN left[r] = Unlimited
         ELSE left[r] = subs[sub[r]].remaining - 1 /\ left[r] >= 0

EntityInv == \A r \in Requests : EntityOK(r)

\* What a request has chosen so far, at each statement and after its end.
ChoiceOK(r) ==
  /\ Deducted(r) \/ r \in messages => source[r] # "none"
  /\ source[r] # "none" => Deducted(r) \/ Ended(r) \/ pc[r] = "respond"
  /\ source[r] = "free" => sub[r] = Null
  /\ source[r] = "subscription" \/ pc[r] = "deductSubscription" =>
       sub[r] \in Subs
  /\ sub[r] # Null => /\ subs[sub[r]].user = user[r]
                     /\ \/ pc[r] \in {"deductSubscription", "respond"}
                        \/ Deducted(r)
                        \/ Ended(r)
  /\ \A i \in DOMAIN ranking[r] : subs[ranking[r][i]].user = user[r]

ChoiceInv == \A r \in Requests : ChoiceOK(r)

\* Stored messages, ledger rows and uncommitted inserts, request by request.
StoredOK(r) ==
  /\ pc[r] \in {"respond", "answered"} => r \in messages
  /\ r \in messages => pc[r] \in {"respond", "answered", "failed"}
  /\ pc[r] \notin {"createLedgerRow", "commit"} => inserted[r] = {}
  /\ pc[r] = "createLedgerRow" => inserted[r] = {"message"}
  /\ pc[r] = "commit" => inserted[r] = {"message", "ledgerRow"}

StoredInv ==
  /\ ledger = {RowOf(r) : r \in messages}
  /\ \A r \in Requests : StoredOK(r)

\* used_messages stays within the limit; NULL quantities are enterprise's.
RowInv ==
  /\ \A key \in UsageKeys :
       /\ key \notin freeRows => freeUsed[key] = 0
       /\ freeUsed[key] <= FreeLimit
  /\ \A s \in Subs :
       subs[s].limit = Unlimited <=> subs[s].remaining = Unlimited

IInv ==
  /\ TypeOK
  /\ LockInv
  /\ EntityInv
  /\ ChoiceInv
  /\ StoredInv
  /\ RowInv

=============================================================================
