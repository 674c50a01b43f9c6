------------------------------ MODULE Billing ------------------------------
(***************************************************************************)
(* What changes the subscriptions table besides the chat transactions:     *)
(* CreateSubscriptionUseCase, CancelSubscriptionUseCase, and the renewal   *)
(* job with RenewSubscriptionUseCase and the payment gateway.              *)
(*                                                                         *)
(* None of them opens a transaction around its read and its write.  They   *)
(* find a row, assign to the entity in memory and save it; save reads the  *)
(* row AGAIN, and its UPDATE, in a transaction of its own, sets the        *)
(* columns whose value in memory differs from that second read.            *)
(***************************************************************************)
EXTENDS Store

CONSTANTS
  Runs,          \* callers of runRenewalJob: the scheduler's timer, the admin
                 \* endpoint, the command line; each calls it again and again
  Cancels,       \* POST /subscriptions/:id/cancel requests
  CycleLength,   \* instants in a billing cycle
  NewRows,       \* POST /subscriptions bodies: [user, limit, autoRenew]
  MaxFailures    \* bound on the failures of runs and cancel requests

Writers == Runs \cup Cancels

ASSUME WritersAssumption ==
  /\ Runs \cap Cancels = {}
  /\ Null \notin SubscriptionRow

ASSUME CycleAssumption == CycleLength \in Nat \ {0} /\ MaxFailures \in Nat

ASSUME NewRowsAssumption ==
  NewRows \subseteq [user : Users, limit : Quantity, autoRenew : BOOLEAN]

VARIABLES
  step,       \* what each run and each cancel request does next
  due,        \* runs: what findDueForRenewal returned, less what is done
  order,      \* cancel requests: the user and the id they name
  entity,     \* the entity findOne returned, with the handler's assignments
  changed,    \* the columns save found to differ
  charged,    \* the gateway's successful charges per subscription and period
  failures    \* failures so far

billingVars == <<step, due, order, entity, changed, charged, failures>>

-----------------------------------------------------------------------------

\* end_date and renewal_date are always assigned together and equal: one
\* column stands for both, and its value names the period that ends there.
Columns == {"status", "remaining", "endDate", "autoRenew"}

\* A period that can be due for renewal has ended by now.
Periods == 0 .. Horizon

\* What a run keeps of a due subscription; its price and tier never change.
DueRow == [id : Subs, endDate : Periods]

Steps == {"idle", "next", "charged", "declined", "checked", "loaded",
          "saving", "done", "rejected", "failed"}

BillingTypeOK ==
  /\ step \in [Writers -> Steps]
  /\ due \in [Runs -> Seq(DueRow)]
  /\ order \in [Cancels -> [user : Users, id : Subs]]
  /\ entity \in [Writers -> SubscriptionRow \cup {Null}]
  /\ changed \in [Writers -> SUBSET Columns]
  /\ charged \in [Subs \X Periods -> Nat]
  /\ failures \in 0 .. MaxFailures

BillingInit ==
  /\ step = [w \in Writers |-> "idle"]
  /\ due = [j \in Runs |-> <<>>]
  /\ order \in [Cancels -> [user : Users, id : Subs]]
  /\ entity = [w \in Writers |-> Null]
  /\ changed = [w \in Writers |-> {}]
  /\ charged = [p \in Subs \X Periods |-> 0]
  /\ failures = 0

\* No writer touches the chat tables or holds a row lock between two steps.
chatTables == <<now, freeRows, freeUsed, messages, ledger, locks>>

-----------------------------------------------------------------------------
(* findOne, assign, save                                                   *)

\* The row a writer is working on.
Target(w) == IF w \in Runs THEN Head(due[w]).id ELSE order[w].id

\* findOne, without a lock, and the assignments to the entity in memory.
Load(w, row) ==
  /\ entity' = [entity EXCEPT ![w] = row]
  /\ step' = [step EXCEPT ![w] = "loaded"]
  /\ UNCHANGED <<storeVars, due, order, changed, charged, failures>>

\* save reads the row again and compares column by column.
Compare(w) ==
  /\ step[w] = "loaded"
  /\ changed' = [changed EXCEPT ![w] =
                   {c \in Columns : entity[w][c] # subs[Target(w)][c]}]
  /\ step' = [step EXCEPT ![w] = "saving"]
  /\ UNCHANGED <<storeVars, due, order, entity, charged, failures>>

\* Mutant of Saved: the run stays with the row it has just saved.
SavedAgain(w) ==
  /\ entity' = [entity EXCEPT ![w] = Null]
  /\ changed' = [changed EXCEPT ![w] = {}]
  /\ step' = [step EXCEPT ![w] = IF w \in Runs THEN "next" ELSE "done"]
  /\ UNCHANGED due

\* The writer is done with its row: a run goes on to the next due row.
Saved(w) ==
  /\ entity' = [entity EXCEPT ![w] = Null]
  /\ changed' = [changed EXCEPT ![w] = {}]
  /\ step' = [step EXCEPT ![w] = IF w \in Runs THEN "next" ELSE "done"]
  /\ due' = [j \in Runs |-> IF j = w THEN Tail(due[j]) ELSE due[j]]

\* The row with the columns that differ set to the values in memory.
Updated(w) ==
  LET e == entity[w]
  IN [subs[Target(w)] EXCEPT
        !.status = IF "status" \in changed[w] THEN e.status ELSE @,
        !.remaining = IF "remaining" \in changed[w] THEN e.remaining ELSE @,
        !.endDate = IF "endDate" \in changed[w] THEN e.endDate ELSE @,
        !.autoRenew = IF "autoRenew" \in changed[w] THEN e.autoRenew ELSE @]

\* UPDATE: waits for a chat transaction that holds the row.  With nothing to
\* write save sends none.
Save(w) ==
  /\ step[w] = "saving"
  /\ \/ changed[w] = {} /\ UNCHANGED subs
     \/ /\ changed[w] # {}
        /\ subLock[Target(w)] = Null
        /\ subs' = [subs EXCEPT ![Target(w)] = Updated(w)]
  /\ Saved(w)
  /\ UNCHANGED <<chatTables, order, charged, failures>>

-----------------------------------------------------------------------------
(* CreateSubscriptionUseCase and CancelSubscriptionUseCase                 *)

\* An active row with the tier's whole allotment, one cycle long.
CreateSubscription(s) ==
  /\ subs[s].status = "absent"
  /\ \E body \in NewRows :
       subs' = [subs EXCEPT ![s] =
                  [user |-> body.user, status |-> "active",
                   limit |-> body.limit, remaining |-> body.limit,
                   endDate |-> now + CycleLength,
                   autoRenew |-> body.autoRenew]]
  /\ UNCHANGED <<chatTables, billingVars>>

\* findById and the ownership check: 404 or 403 end the request.
CheckCancel(c) ==
  /\ step[c] = "idle"
  /\ LET row == subs[order[c].id]
     IN step' = [step EXCEPT ![c] =
                   IF row.status # "absent" /\ row.user = order[c].user
                     THEN "checked" ELSE "rejected"]
  /\ UNCHANGED <<storeVars, due, order, entity, changed, charged, failures>>

LoadToCancel(c) ==
  /\ step[c] = "checked"
  /\ Load(c, [subs[order[c].id] EXCEPT !.autoRenew = FALSE,
                                       !.status = "cancelled"])

-----------------------------------------------------------------------------
(* runRenewalJob and RenewSubscriptionUseCase                              *)

IsDue(s) ==
  subs[s].status = "active" /\ subs[s].autoRenew /\ subs[s].endDate <= now

DueNow == {s \in Subs : IsDue(s)}

\* ORDER BY renewal_date ASC: ties fall either way.
DueLists ==
  {q \in [1 .. Cardinality(DueNow) -> DueNow] :
     \A i, j \in DOMAIN q :
       i < j => q[i] # q[j] /\ subs[q[i]].endDate <= subs[q[j]].endDate}

\* findDueForRenewal, read once for the whole run.
StartRun(j) ==
  /\ step[j] = "idle"
  /\ \E q \in DueLists :
       due' = [due EXCEPT ![j] = [i \in DOMAIN q |->
                 [id |-> q[i], endDate |-> subs[q[i]].endDate]]]
  /\ step' = [step EXCEPT ![j] = "next"]
  /\ UNCHANGED <<storeVars, order, entity, changed, charged, failures>>

\* The answer of paymentGateway.charge: accepted or declined at random.
ChargeAccepted(j) ==
  /\ step[j] = "next"
  /\ due[j] # <<>>
  /\ LET row == Head(due[j])
     IN charged' = [charged EXCEPT ![<<row.id, row.endDate>>] = @ + 1]
  /\ step' = [step EXCEPT ![j] = "charged"]
  /\ UNCHANGED <<storeVars, due, order, entity, changed, failures>>

\* Mutant of ChargeDeclined: charge.success is not looked at.
ChargeDeclinedUnnoticed(j) ==
  /\ step[j] = "next"
  /\ due[j] # <<>>
  /\ step' = [step EXCEPT ![j] = "charged"]
  /\ UNCHANGED <<storeVars, due, order, entity, changed, charged, failures>>

\* Mutant of ChargeDeclined: the run skips what it cannot charge.
ChargeDeclinedSkipped(j) ==
  /\ step[j] = "next"
  /\ due[j] # <<>>
  /\ due' = [due EXCEPT ![j] = Tail(@)]
  /\ UNCHANGED <<storeVars, step, order, entity, changed, charged, failures>>

ChargeDeclined(j) ==
  /\ step[j] = "next"
  /\ due[j] # <<>>
  /\ step' = [step EXCEPT ![j] = "declined"]
  /\ UNCHANGED <<storeVars, due, order, entity, changed, charged, failures>>

\* Mutant of LoadToRenew: the allotment is added to what is left.
LoadToRenewAdding(j) ==
  /\ step[j] = "charged"
  /\ LET row == subs[Target(j)]
     IN Load(j, [row EXCEPT !.endDate = Head(due[j]).endDate + CycleLength,
                            !.remaining = IF row.limit = Unlimited
                                            THEN @ ELSE @ + row.limit,
                            !.status = "active"])

\* Mutant of LoadToRenew: the new period begins when the run gets to it.
LoadToRenewFromToday(j) ==
  /\ step[j] = "charged"
  /\ LET row == subs[Target(j)]
     IN Load(j, [row EXCEPT !.endDate = now + CycleLength,
                            !.remaining = row.limit,
                            !.status = "active"])

\* renew: the new end is computed from the end the run read when it started.
LoadToRenew(j) ==
  /\ step[j] = "charged"
  /\ LET row == subs[Target(j)]
     IN Load(j, [row EXCEPT !.endDate = Head(due[j]).endDate + CycleLength,
                            !.remaining = row.limit,
                            !.status = "active"])

LoadToDeactivate(j) ==
  /\ step[j] = "declined"
  /\ Load(j, [subs[Target(j)] EXCEPT !.status = "inactive",
                                     !.autoRenew = FALSE])

\* The run returns its summary; its caller may call again.
EndRun(j) ==
  /\ step[j] = "next"
  /\ due[j] = <<>>
  /\ step' = [step EXCEPT ![j] = "idle"]
  /\ UNCHANGED <<storeVars, due, order, entity, changed, charged, failures>>

\* Mutant of FailWriter: the run goes on with the subscription it charged.
FailWriterAndRetry(w) ==
  /\ step[w] \notin {"idle", "done", "rejected", "failed"}
  /\ failures < MaxFailures
  /\ failures' = failures + 1
  /\ step' = [step EXCEPT ![w] = IF w \in Runs THEN "next" ELSE "failed"]
  /\ UNCHANGED <<storeVars, due, order, entity, changed, charged>>

\* An error or a crash: a run has no try/catch around one subscription, so
\* the rest of its list is dropped with it.
FailWriter(w) ==
  /\ step[w] \notin {"idle", "done", "rejected", "failed"}
  /\ failures < MaxFailures
  /\ failures' = failures + 1
  /\ step' = [step EXCEPT ![w] = IF w \in Runs THEN "idle" ELSE "failed"]
  /\ due' = [j \in Runs |-> IF j = w THEN <<>> ELSE due[j]]
  /\ entity' = [entity EXCEPT ![w] = Null]
  /\ changed' = [changed EXCEPT ![w] = {}]
  /\ UNCHANGED <<storeVars, order, charged>>

-----------------------------------------------------------------------------

SaveEntity(w) == Compare(w) \/ Save(w)

Renewal(j) ==
  \/ StartRun(j)
  \/ ChargeAccepted(j)
  \/ ChargeDeclined(j)
  \/ LoadToRenew(j)
  \/ LoadToDeactivate(j)
  \/ SaveEntity(j)
  \/ EndRun(j)

Cancellation(c) == CheckCancel(c) \/ LoadToCancel(c) \/ SaveEntity(c)

BillingNext ==
  \/ \E s \in Subs : CreateSubscription(s)
  \/ \E j \in Runs : Renewal(j)
  \/ \E c \in Cancels : Cancellation(c)
  \/ \E w \in Writers : FailWriter(w)

-----------------------------------------------------------------------------
(* The inductive invariant of the writers                                  *)

\* A quantity within the tier's allotment; NULL for enterprise only.
WithinAllotment(row) ==
  IF row.limit = Unlimited
    THEN row.remaining = Unlimited
    ELSE row.remaining \in 0 .. row.limit

HasEntity(w) == step[w] \in {"loaded", "saving"}

\* Where a writer is and what it keeps in memory say the same.
StepInv ==
  /\ \A w \in Writers :
       /\ HasEntity(w) <=> entity[w] # Null
       /\ step[w] # "saving" => changed[w] = {}
  /\ \A j \in Runs :
       /\ step[j] \notin {"checked", "done", "rejected", "failed"}
       /\ step[j] = "idle" => due[j] = <<>>
       /\ step[j] \notin {"idle", "next"} => due[j] # <<>>
  /\ \A c \in Cancels : step[c] \notin {"next", "charged", "declined"}

\* Rows are never deleted, and owner and tier never change: what a writer
\* keeps belongs to a row that is still there.
RowsKept ==
  /\ \A j \in Runs : \A i \in DOMAIN due[j] :
       subs[due[j][i].id].status # "absent"
  /\ \A c \in Cancels :
       step[c] \in {"checked", "loaded", "saving"} =>
         subs[order[c].id].status # "absent"
  /\ \A w \in Writers : HasEntity(w) =>
       /\ entity[w].status # "absent"
       /\ entity[w].user = subs[Target(w)].user
       /\ entity[w].limit = subs[Target(w)].limit

AllotmentInv ==
  /\ \A s \in Subs : WithinAllotment(subs[s])
  /\ \A w \in Writers : HasEntity(w) => WithinAllotment(entity[w])

\* The ends of a subscription that are stored, or that some writer may yet
\* store or extend.
Ends(s) ==
  {subs[s].endDate}
  \cup {entity[w].endDate : w \in {v \in Writers : /\ HasEntity(v)
                                                   /\ Target(v) = s}}
  \cup UNION {{due[j][i].endDate : i \in {k \in DOMAIN due[j] :
                                            due[j][k].id = s}} : j \in Runs}

Paid(s, end) == end - CycleLength \in Periods
                /\ charged[<<s, end - CycleLength>>] > 0

\* Of two ends of a subscription the later one has been paid for.
PeriodInv ==
  /\ \A s \in Subs : subs[s].status # "absent" =>
       \A a, b \in Ends(s) : a < b => Paid(s, b)
  /\ \A j \in Runs : step[j] = "charged" =>
       charged[<<Target(j), Head(due[j]).endDate>>] > 0

BillingInv ==
  /\ BillingTypeOK
  /\ StepInv
  /\ RowsKept
  /\ AllotmentInv
  /\ PeriodInv

=============================================================================
