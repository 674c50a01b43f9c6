# Verification of the AI chat and subscription backend

The program is an Express backend over PostgreSQL (TypeORM).  A user asks a
question and pays for the answer with one unit of quota, from a free monthly
counter or from a subscription; a billing job renews the subscriptions.  The
code is one Node process, but its handlers interleave at every `await`, and
what they share lives in the database, so the hard part is concurrency.

Paths below are relative to `src/src/`.

## The system

| component | state | operations | talks to |
| --- | --- | --- | --- |
| chat: `AskQuestionUseCase`, `QuotaService` (`modules/chat`) | `monthly_free_usage`, `chat_messages`, `usage_ledger`, one open transaction per request | `execute`, `deductQuota`, `deductFreeQuota`, `deductSubscriptionQuota` | locks and decrements rows of `subscriptions`; waits for the AI provider inside its transaction |
| subscriptions (`modules/subscriptions`) | `subscriptions` | create, cancel, list | none; `cancel` finds and saves outside a transaction |
| billing (`jobs`, `RenewSubscriptionUseCase`) | a list of due rows in memory | `runRenewalJob`, started by the scheduler, an admin endpoint or the command line | payment gateway; `renew` or `deactivate` on `subscriptions` |
| users (`shared/auth/ensure-user`) | `users` | find or create on first sight | runs before every authenticated handler |
| rate limiters (`shared/security/rate-limit`) | a Map of windows per limiter | one middleware call | per address before everything else, per user before the handler |
| request timeout | one timer per request | 503 when nothing has answered | races the response of middlewares and handler |
| composition (`main.ts`, `protected-route.ts`) | none | the order of the middlewares | all of the above |
| authentication and roles (`shared/auth`, `request-signature.middleware`) | the role in `users`; tokens and timestamps held by clients | issue and verify a token, check a signed timestamp, `requireRole` | creates the user row at first sight; reads the server's clock |
| usage summary (`GET /admin/usage-summary`) | none | three counts of `usage_ledger` | reads what chat commits in between |
| validation, sanitisation, logging, migration command | none | pure functions and one-shot calls | |

What makes each component correct:

- **chat**: no interleaving spends more than the free limit; the counter of a
  bundle shows exactly what the ledger charged to it; a message is stored if
  and only if it is charged, to the one who asked; a request is refused only
  when nothing usable is left; locks never outlive a transaction; every request
  ends.
- **subscriptions and billing**: counters stay within the allotment; an end
  date moves only by a period that was paid; a period is paid once; a
  cancellation stands; a due subscription does not stay due; chat charges only
  active rows; a charge has its period; however late or early the runs, the
  time paid for is the time granted, and drift at the end of a month does not
  add up.
- **usage summary**: the parts never fall short of the total.
- **authentication**: rounding and clocks that differ neither refuse a fresh
  request nor keep an old one alive; one stored role decides for an identity.
- **limiters**: a budget is charged once per request of its own that gets to
  the limiter and is not refused there; a key is refused only for what was
  counted against it; how many can pass around a boundary.
- **users and timeout**: one row per identity however first requests race; a
  unique-key failure has a cause; every request that arrives is answered.

The behaviours that are hard to test are listed at their lines under `hazards`
in PROJECT.json: transactions that contend for a counter or a bundle; inserts
of a month's first row; a row chosen by a snapshot that is stale when its lock
is granted; quota held across the AI call with a bounded pool; failures between
deduction and commit; entities saved that were read long before; overlapping
renewal runs; a crash between charge and renewal; racing first requests; an
answer after the timeout; window boundaries; the ends of months; runs of the
job that are late; counts of different moments; clocks that disagree.

## The modules

    Store --- AskQuestion ---+--- Backend          RateLimiter --- RequestPipeline
       \        |   |        |       |                  \            (per user: EXTENDS)
        \-------|---|-- Billing      |                   \--- Ip (per address: INSTANCE)
                |   |                |
          Reports   QuotaLedger      RefilledLedger        BillingCycle
        (EXTENDS)   (implemented     (implemented beside   Authentication
                     by chat)         the writers)         (each on its own)
                                     SubscriptionLife
                                     (implemented by a
                                      run on its own)

`BillingCycle` and `Billing` describe the same job at two grains: in `Billing` a
run has all its steps and a cycle is a number, in `BillingCycle` a run is one
step and a cycle is that of the calendar.  In the same way `Authentication` is
what makes a request `authentic` in `RequestPipeline`.

| module | models | state and actions against the code |
| --- | --- | --- |
| `Store` | the tables of `InitialSchema`, their unique keys, row locks, the clock | a table is a function from its key; `locks` names the request that holds a row; `Tick` is wall time, `MonthOf` is `getCurrentUsageMonth` |
| `AskQuestion` | `POST /chat` | `pc[r]` is the statement request r executes next, its locals (`source`, `sub`, `ranking`, ...) are the variables of the functions; one action per statement sent to the database (`LockFreeUsage`, `InsertFreeUsage`, `DeductFree`, `FallBackToSubscription`, `LockSubscription`, ..., `Commit`), and `Fail`, `LoseAnswer` for what can break in between |
| `QuotaLedger` | what chat promises | one indivisible `ChargeFree` or `ChargeSubscription` per answer |
| `RefilledLedger` | what is left of it beside the billing writers | a `Charge` of `QuotaLedger`, of an active subscription only; `Subscribe` and `Refill` are what others may do to a subscription in between |
| `Billing` | create, cancel, `runRenewalJob`, `RenewSubscriptionUseCase` | `step[w]` is where a writer is; a save is what TypeORM does: find (`LoadTo...`), second read and comparison (`Compare`), `UPDATE` of the columns that differ (`Save`), which waits for the row's lock |
| `Backend` | both over the same tables | the next-state relation interleaves them; its properties are about the row they share |
| `SubscriptionLife` | what the job promises to a subscription nobody cancels | one indivisible `Extend` or `Lapse` of a due subscription; `Subscribe` |
| `Reports` | `GET /admin/usage-summary` next to chat | `counted` is the next of the three `count()` statements, `summary` what they have returned |
| `BillingCycle` | `billing.policy`, creation, renewal, cancellation | a date is a month since the year 0 and a day; `Normalise` is what `Date` does with a day its month lacks; `RenewAccepted`, `RenewDeclined` and `RunInVain` are the outcomes of a run for one subscription |
| `Authentication` | `MockOidcProvider`, `requestSignatureMiddleware`, `jwtAuthMiddleware`, `ensureUserMiddleware`, `requireRole` | `time` is real, the server's clock is `lag` behind it, `NowSeconds` is rounded as in the code; `stage[r]` is the middleware reached, `envelope[r]` what the client signed and sent |
| `RateLimiter` | `createRateLimiter` | `store` is its Map, `counted` is history; the middleware has no `await`, so `OpenWindow`, `CountRequest` or `Reject` is one step |
| `RequestPipeline` | `main.ts` and `protectedRoute` | `stage[r]` is the middleware the request has reached, `response[r]` what its client was sent; one action per stretch between two awaits, and the timer |
| `MC...` | constants for TLC | initial rows, bodies and workloads |
| `AskQuestion_proofs`, `AskQuestion_theorems`, `Billing_proofs`, `Backend_theorems`, `RateLimiter_proofs`, `RequestPipeline_theorems`, `BillingCycle_proofs`, `Authentication_proofs` | proofs | see below |

Definitions whose comment begins with "Mutant of" are not part of any
specification: they are plausible bugs, and for each property one makes TLC
find its property violated when it replaces the definition after it.

### What is simplified

- Data: questions, answers, prices, names and timestamps are left out; users,
  subscriptions and requests are model values.  `end_date` and `renewal_date`
  are always assigned together and are one field.
- The AI call is one step of any duration inside the transaction.
- The month is computed when the transaction begins.  In the code it is a few
  microseconds later, with no `await` in between.
- An `INSERT` that meets an uncommitted row with its key waits for that row's
  lock; it fails at once when the row is committed.  This failure is a plain
  `Error`, hence a 500, as in the code.
- `Fail` is an error of the infrastructure (connection, statement, AI
  provider), possible at each statement; a crash of the process is the special
  case in which all fail together.  `LoseAnswer` is a commit whose answer the
  client never sees.
- Connections: chat transactions hold one of `PoolSize` for their whole life.
  The statements of billing and of the pipeline borrow one for an instant and
  are not counted.
- In `Billing`, `CycleLength` instants stand for the calendar of
  `billing.policy`; the calendar itself is in `BillingCycle`.
- `BillingCycle` counts in days, so an instant is the time of day at which the
  subscription was created.  The server keeps UTC, as in a container; with a
  time zone, `setMonth` keeps the local time of day over a change to summer
  time, which moves an end by an hour.
- `Authentication` counts in half seconds, the coarsest grain at which rounding
  to seconds is visible.  HMACs are not computed: a request has good signatures
  or it has a fault.  The server's clock may be set back, by `MaxLag` in all,
  a client's is off by at most `MaxSkew`, and both together are within the
  tolerance and the window of the configuration (`ClockAssumption`); without
  that no check of times could be right.  Emails are in `RequestPipeline`.
- What is written after the timer's 503 throws `ERR_HTTP_HEADERS_SENT`, in the
  error handler too, and ends in Express's own final handler: `Respond` keeps the
  first answer.  For the per-user limiter this means that it counts a request that
  has been answered (`rate-limiter.ts:56`, `:88`), throws at `setHeader` and never
  calls `next()`: stage `dropped`.  So a user can get 429 although fewer than `max`
  of the requests counted have reached their handler.
- The pipeline has one group of routes, so one per-user limiter.  The groups
  have separate Maps and share nothing.  Clocks do not run backwards.  A client
  that disconnects, which clears the timer, is not modelled.
- A request after its handler has started is abstract in `RequestPipeline`: it
  takes time and answers.  What it does is in `Backend`.

## What TLC checks

Runs that pass:

| run | instance | shows |
| --- | --- | --- |
| `ask_question` | 4 requests, 2 users, 2 connections, two months, free limit 1, a bundle of one message, an unlimited one that expires | requests of different months hold different free rows and so reach the same bundle at the same time, and others use up the pool: `FreeQuotaNeverOverspent`, `SubscriptionNeverOverspent`, `ChargedIffStored`, `ChargedToTheAsker`, `NoOrphanLock`, `NoDeadlock`, `NearerTheEnd`, and the refinement `ImplementsQuotaLedger` |
| `usage_summary` | 3 requests, 2 connections, one month, bundles of several sizes that last, one summary | `IInv`; `SummaryCoversTotal`; `EveryRequestEnds`: no deadlock between rows and pool; `BlockedByAnother`: the waits `NoDeadlock` is about are all there are; `RefusedOnlyWhenExhausted`, which does hold within a month and while bundles last |
| `backend` | 2 requests, 2 renewal runs, 1 cancel, 1 failure, one subscription, possibly created on the way | `BackendInv`, `RemainingWithinAllotment`, `NeverOvercharged`, `ChargesOnlyActive`, `ExtendsOnlyPaidPeriods`, and the refinement `ImplementsRefilledLedger` |
| `backend_progress` | 2 bundles due while 2 requests hold their rows, one run at a time, which may die | `ChargesMatchPeriods` and the refinement `ImplementsSubscriptionLife`, which need that no other run and no cancellation interferes; `DueIsSettled`, `EveryRequestEnds` |
| `billing_cycle` | creation on one of ten late days of months, in leap and other years; either cycle; 26 months day by day; runs at any time | `TimeBought`, `KeepsBillingDay`, `PaidAheadAtMostOneCycle`, `OverdueIsSettled` |
| `authentication` | 2 requests of one identity, logins with both roles, lifetime and tolerance 1 s, window 1 s, both clocks half a second off | `OneRolePerIdentity`, `HonestRequestsPass`, `StaleRequestsFail` |
| `pipeline` | 3 requests, 2 addresses, 2 identities with one email, a budget of 2 per user and of 1 per address, two windows | `PipelineInv`, `RefusedOnlyWhenSpent`, `CountsOncePerRequest`, `HandledAsOneUser`, `ConflictHasAWinner`, `EveryArrivalAnswered` |

Runs that show where the code departs from what the repository says (each is a
finding in PROJECT.json, with the text it contradicts):

| run | what happens |
| --- | --- |
| `expired_bundle` | the bundle with the most messages has expired but is still `active`; it is tried, and the request is refused although another bundle is usable |
| `contended_bundle` | two requests of two months rank the same bundle first; the second gets its row when it is empty and is refused although another is full |
| `refund_on_cancel` | cancel reads the row, a message is charged, cancel writes back the old counter |
| `cancel_undone` | a run renews a bundle that its user has cancelled since the run listed it |
| `overlapping_runs` | two runs charge the same period |

One disagreement has no run, because the text disagrees with itself.
`rate-limit.config.ts:15-16` says "`windowMs` is the rolling window length; `max`
is the number of requests allowed per key within that window", and
`rate-limiter.ts:6` calls the limiter "fixed-window", which it is: with a budget
of two and windows of 60 s, one request at 0 s, one at 59 s and two at 61 s all
pass, three of them within 60 s.  What the fixed windows do guarantee,
`LessThanTwiceInRolling`, is weaker than what the configuration says and is
claimed only as itself: it is proved of any limiter (`LimiterNeverTwice`) and
checked in no run, since an instance in which two budgets could meet is larger
than that of `pipeline`.

Why the bounds are enough.  The conflicts of the code are between two parties
at one row: two transactions at a counter, a transaction and a save, two runs,
two first requests.  The instances have those two, a third that can get in
between, and a limit that is reached, at a small `FreeLimit`, bundle size,
`PoolSize` and budget.  A chain of waiting requests needs the holder of a
bundle, the holder of a free row waiting for it, and a request waiting for the
connection, which is three.  `Horizon` is one month end or one cycle end, as
states further on only repeat it; the pipeline's is two windows.  `Span` covers
two yearly cycles and every month as a renewal's start; the leap day and a
year's end are among the creation dates.  In `authentication` a token is
issued, grows old and passes out of its lifetime and tolerance within
`Horizon`.  Requests and
runs are interchangeable, so the safety runs use symmetry; runs with liveness
do not.  What the small instances cannot show, the theorems show for all sizes.

`Horizon`, `MaxFailures` and the finite sets of requests, runs and cancels bound
the instances.  Deadlock is checked in every run: when all is done, a stuttering
`Quiescent` action stands for an idle server, so a deadlock is one that matters.

### Fairness

- `FairSpec`: each started chat request goes on.  This rests on Node's event
  loop and PostgreSQL executing what is sent, on the AI provider answering (the
  mock always does), on a pool that serves in order, and on locks granted when
  free.  Failures have no fairness: they may never happen.
- `FairBackendSpec`: also, a run and a cancel request that have started go on,
  and a run is called again and again (`setInterval` in `billing-scheduler`).
  It needs the scheduler to be enabled.
- `FairPipelineSpec`: only the timer is fair.  Bodies, database and handlers
  may hang for ever, and `EveryArrivalAnswered` holds all the same.
- `FairReportSpec`: as `FairSpec`; nothing is assumed of the summary.
- `FairCycleSpec`: the job is called again and again, as in `FairBackendSpec`,
  but not within any time: days may pass between two runs.
- Time itself has no fairness.

## What is proved

With TLAPS, for all values of the constants that satisfy the named assumptions
(positive limits and budgets, finite sets where something is counted, initial
rows and workloads of their types).

**Chat** (`AskQuestion_proofs`, `AskQuestion_theorems`).  None of the safety
properties is inductive by itself, because each compares the database with
itself while transactions keep copies of it in memory.  `IInv` says what makes
them true: `LockInv`, who holds which row at which statement; `EntityInv`, a
copy in memory equals its row as long as the lock is held; `ChoiceInv`, what was
chosen belongs to the asker; `StoredInv` and `RowInv`, what commit published.
`Inductive` is the theorem.  From it: `FreeQuotaSafe` (the counter is the number
of free ledger rows and at most the limit), `SubscriptionSafe` (what a bundle
lacks is what the ledger charged to it), `NoChargeWithoutAnswer`,
`ChargesTheAsker`, `LocksReleased`, and `Implementation`: every step of the
interleaved transactions is one indivisible charge of `QuotaLedger`, or none.
The commit is the step that counts.  `SummaryCovers` is about the endpoint next
to it: the ledger only grows, so a count stays covered by the rows it counted,
and as every row has one source, the free rows that were there at the second
count and the subscription rows there are make up for the total.

`DeadlockFree` says that the waits of transactions for one another never close a
cycle.  The argument is an order: a request waits for a connection before it has
anything, for its free row when it has a connection, and for a bundle when it has
both, so among requests that wait the furthest waits for none of the others.
What makes the last stage final is `CandidateInv`: while nobody but chat writes
subscriptions, the bundles a request has ranked stay its user's and active, so
it takes the lock of the first and never keeps one lock while it waits for
another.

`Progress` is the other half of why a request ends.  `StatementsLeft` is at most
twelve and the number of bundles; every step of a request lowers it, and no step
of another raises it (`StepIsNearer`).  The one loop of the code, over the
bundles that may have become inactive, counts down what was ranked, and
everything else goes forward: an error ends the request, nothing is retried.
What a proof of `EveryRequestEnds` would add to `DeadlockFree` and `Progress` is
that a request that waits for nobody is enabled, and the fairness.

`RefusedOnlyWhenExhausted` is refuted by `expired_bundle` and
`contended_bundle`.  The first needs an active bundle that has expired, the
second two bundles of a user and requests of two months.  `RefusedInOneMonth`
(`OneMonth` and `Lasting`: the month does not end, active bundles do not expire)
and `RefusedWithOneBundle` prove that a refusal is right whenever these are
missing: within one month, requests of a user queue for one free row, so the row
a request locks is still the best; with one bundle there is no other to miss.

**Chat and billing** (`Billing_proofs`, `Backend_theorems`).  `BackendInv` adds
`BillingInv` (rows are never deleted and never change owner; stale copies are
within the allotment; of two end dates of a subscription in the table or in some
writer's memory, the later one was paid for) and `HeldRowsInv` (a row stays
active while a transaction holds it).  The argument for the composition: chat
changes nothing of a subscription but `remaining_messages`, downwards and under
the lock, and writers change no row that is locked.  From it:
`RemainingSafe`, `ActiveWhenCharged`, `OnlyPaidPeriods`, and the free quota,
message, asker, lock and progress theorems again, next to billing.

`SubscriptionSafe` is not among them: `refund_on_cancel` refutes it there, and
with it `ImplementsQuotaLedger`.  What is left of the equation is one direction,
`NeverOverchargedInBackend`: a bundle never lacks more than the ledger has
charged to it.  Inductive is `ExplainedInv`, which says so not only of each row
but of each entity that a writer may yet save: the copy was read from a row of
which it was true, the ledger only grows (`ChargesGrow`), and a counter that is
saved is the copy's, the allotment or the row's own (`SavedCounter`).  What is
left of the refinement is `RefilledImplemented`: a commit is still one whole
charge of `RefilledLedger`, of an active subscription, and each step of billing
is a `Subscribe`, a `Refill` or a stutter.

`DeadlockFree` is a theorem about chat alone too.  Next to the writers a bundle
that has been cancelled since it was ranked is skipped and stays locked, and two
requests that have ranked two such bundles in different orders wait for each
other, which PostgreSQL ends by failing one (`Fail` has that step).
`DeadlockNeedsSkipped` proves that this is the only way: in every set of requests
that wait for one another there are two of one user and of different months that
hold bundles no longer active.  `LockedInv` is what it rests on: a locked row is
its holder's choice, or its holder has found it inactive and has it no longer
in its ranking; and no bundle is ranked twice.  Then somebody
in the set waits for a bundle (`SomeWaitForBundles`), and who holds it has
skipped it and holds another free row of the same user (`WaitsForSkipped`), so
another month's.  `DeadlockFreeInOneMonth` is the case without a second month:
`NoDeadlock` next to any writers, which is where `backend_progress` checks
`EveryRequestEnds`.  TLC's runs next to the writers are too small for the
deadlock itself: it takes four requests, a month's end between them, and two
bundles.

**A run on its own.**  `overlapping_runs` and `cancel_undone` refute that a
charge buys a period and that the table shows one indivisible renewal.  Both
hold under `LoneRun` (one run at a time and no cancellation), which
`ChargesBuyPeriods` and `LifeImplemented` assume, whatever chat does meanwhile
and wherever a run dies.  `LoneInv` is what they rest on: the list of a run is
still due, row for row and each row once; its entity is the row it will save
over, extended or lapsed; the columns that `save` found different are those that
still differ, since chat writes none of them.  So a save is an `Extend` or a
`Lapse`, every other step stutters, and a charge that is not in the row is in
the entity or was lost in a counted failure.  The two conditions are what the
code would have to enforce.

The other findings about billing have their counterparts too.
`PaidOnceByALoneRun`: one run at a time never charges a period twice
(`PeriodPaidOnce`, which `overlapping_runs` refutes), whatever chat does and
whatever fails, as long as no step is a `LosesCharge`, a failure of the run
itself between an accepted charge and its save.  `Balanced` is the argument: the
charges of a period are matched by the period in the row, by what the run has in
hand, or by losses; `ChargeBalance` shows that only a `LosesCharge` needs one more
loss, and `LoneCharges`, behind `ChargesBuyPeriods`, is the same count with the
losses bounded by `failures`.  `CancellationStandsOffLists`: a cancellation
stands, with any number of runs, if no run has the subscription on its list when
it commits.  What `cancel_undone` shows is the only way to undo one, a
cancellation between a run's list and its save; the argument is that a
subscription gets on a list only while its row is active (`ListsGrow`).

**Limiters and pipeline** (`RateLimiter_proofs`, `RequestPipeline_theorems`).
`LimiterInv` says that the windows of a key are more than a window length apart,
that each counted request has a number of its own in its window, and that a count
is the number of the latest one.  `LimiterNeverTwice` maps what is counted in any
stretch of one window length one to one into `1 .. 2 * Max - 1`: it reaches into
two windows at most, and misses the request that opened the first.  So the
fixed window lets more than the budget pass in a rolling one, but never as much
as twice.  `NeverTwiceInPipeline` is that for both limiters where they stand,
with the proofs of `RateLimiter_proofs` instantiated for addresses.
`PipelineInv` adds the unique keys and where each request is: `BudgetIsExact`
(`CountsOncePerRequest`: a unit of the budget for each handler entered and for
each request the 503 overtook, nothing for what ended before), `RefusalsAreOwn`,
`OneUserPerIdentity`, `ConflictsAreLost`.

**The calendar** (`BillingCycle_proofs`).  The lemmas are about the Gregorian
calendar for all years: a month begins as many days after the one before as that
has (`MonthLength`), twelve months are 365 or 366 days (`TwelveMonths`), month
starts are in order, and a day past the end of its month is carried into the
next (`NormaliseOK`).  From these, what `setMonth` and `setFullYear` make of a
date is 28 to 31, or 365 to 366, days later (`CycleLengthOK`), and its day stays
or, from the 29th on, moves to the first days of the month after (`CycleDayOK`);
a day of 1 to 3 never moves again.  `CycleInv` is then inductive:
`NoTimeLost`, `BillingDayKept` and `NotPaidAhead`, for any creation date, any
`Span` and any lateness of the runs.  `RunsCatchUp` is the safety half of
`OverdueIsSettled`: a run that finds a subscription overdue leaves it at least a
cycle less behind, or no longer overdue.

**Authentication** (`Authentication_proofs`).  The difficulty is that no clock
of the code is the real one.  `AuthInv` ties a token's seconds to the time it
was issued at: `nbf` is at most half a second and what the server's clock has
been set back since from it.  `HonestPass` and `StaleFail` then are arithmetic
on what was set back until now, the client's skew and the rounding.  `OneRole`
is about the users table: a role once stored never changes, and a request's
`currentUser` is read from it or is what the request has inserted.

### Only model-checked

- Liveness (`EveryRequestEnds`, `DueIsSettled`, `EveryArrivalAnswered`,
  `OverdueIsSettled`): TLAPS has no support for `ENABLED`.  The measures that
  make requests end and late runs catch up are proved.
- `BlockedByAnother`, which is about `ENABLED`: with `NoDeadlock`, that some
  request can always go on.
- The counterexamples of the five violation runs.

A note on `refund_on_cancel`.  A stale save can also give messages back to a row
that stays active (a renewal undone by another save), with two cancels, a run
and several messages.  `RemainingSafe` bounds what this can do: never above the
allotment.  `NeverOverchargedInBackend` says that it is always in the user's
favour.

## What is not modelled

- Validation and sanitisation: pure functions from a string or a body to a
  string or an error.  Their correctness is one of regular expressions and
  schemas on characters, which an abstraction of data to what the properties
  tell apart would leave empty.  That a request may be refused before its
  handler is in `RequestPipeline`.
- Logging and request ids: nothing reads them back.
- The migration command: one call of TypeORM and an exit.  The schema it
  creates is in `Store`.
- Routes that read with one statement (`GET /chat`, `GET /subscriptions`, the
  ledger list), and public routes.
- Restart of the process.  For chat and billing it is `Fail` and `FailWriter` of
  all at once; it also empties the limiters' Maps, which only ever lets more
  requests through.
- Prices, and the environment variables that set limits, windows and lifetimes;
  they are constants here.
- A client that gets no answer and asks again.  Nothing in the code recognises
  the second request, and nothing in the repository says it would: each that
  reaches the limiter spends a unit of the budget, and each that commits is
  charged for its own message (`CountsOncePerRequest`, `ChargedIffStored`).
- A failure that lasts: a row whose renewal fails in every run ends each of them
  at that row, so those listed after it are never reached.  Failures are bounded
  by `MaxFailures`, so `DueIsSettled` is about failures that pass.
- Whether a charge that a crash has lost is ever found again.  The gateway is a
  mock without idempotency keys, and nothing in the repository says what happens:
  `ChargesMatchPeriods` counts these charges as lost.

## Plan

Written in this order: `Store`, `AskQuestion`, `QuotaLedger`; `Billing`,
`Backend`; `RateLimiter`, `RequestPipeline`; `BillingCycle`, `SubscriptionLife`,
`Reports`, `Authentication`; `RefilledLedger`; each with its run before its proofs.  What would
come next:

1. `RequestPipeline` in front of the chat transactions, for a timeout whose
   request commits later, once the code has an idempotency key whose promise
   could be stated.
2. A run in which the deadlock over skipped bundles arises, with a finding, once
   the repository says what it expects of two requests of different months.
3. `ImplementsSubscriptionLife` without `LoneRun`, once runs exclude one another
   and `renew` looks at the status it replaces: the theorem says which steps
   would then have to be proved anew, those of `ListOK` and `DecisionOK`.
4. Summer time in `BillingCycle`, if the server is ever run in a time zone.
