------------------------------- MODULE Store -------------------------------
(***************************************************************************)
(* The PostgreSQL tables the backend shares between its request handlers   *)
(* and its renewal job, with the row locks of the open transactions and    *)
(* the clock the handlers read.  The entities are those of                 *)
(*   modules/chat/infrastructure/*.orm-entity.ts and                       *)
(*   modules/subscriptions/infrastructure/*.orm-entity.ts,                 *)
(* the constraints those of the InitialSchema migration.                   *)
(*                                                                         *)
(* Every variable holds COMMITTED data: the isolation level is the default *)
(* READ COMMITTED, so what a transaction has written but not committed is  *)
(* kept in the variables of the module that runs the transaction.          *)
(***************************************************************************)
EXTENDS Integers, FiniteSets, Sequences

CONSTANTS
  Users,             \* users.id
  Subs,              \* ids the subscriptions table can hold
  Requests,          \* chat requests: each names its transaction and its message
  Null,              \* SQL NULL in a reference column, and "no lock holder"
  FreeLimit,         \* monthly_free_usage.free_limit (3 in the code)
  MonthLength,       \* instants in a calendar month
  Horizon,           \* bound on the clock: the last instant of a behaviour
  SubscriptionRows   \* the rows the subscriptions table may start with

Unlimited == 0 - 1   \* max_messages and remaining_messages NULL: enterprise

Statuses == {"absent", "active", "cancelled", "inactive"}

Quantity == Nat \cup {Unlimited}

SubscriptionRow ==
  [user: Users, status: Statuses, limit: Quantity, remaining: Quantity,
   endDate: Nat, autoRenew: BOOLEAN]

ASSUME NullAssumption == Null \notin Requests \cup Subs \cup Users

ASSUME FiniteAssumption == IsFiniteSet(Requests) /\ IsFiniteSet(Subs)

ASSUME LimitAssumption == FreeLimit \in Nat \ {0}

ASSUME ClockAssumption == Horizon \in Nat /\ MonthLength \in Nat \ {0}

\* CreateSubscriptionUseCase grants the whole allotment of the tier.
ASSUME RowsAssumption ==
  /\ SubscriptionRows \subseteq SubscriptionRow
  /\ \A row \in SubscriptionRows : row.remaining = row.limit

VARIABLES
  now,        \* the clock, read by new Date()
  freeRows,   \* <<user, month>> keys of the rows of monthly_free_usage
  freeUsed,   \* used_messages of those rows, 0 where there is no row
  subs,       \* the subscriptions table; status "absent" is an id not inserted
  messages,   \* chat_messages: the requests whose message is stored
  ledger,     \* usage_ledger rows
  freeLock,   \* request whose transaction holds the row (or its unique key)
  subLock     \* request whose transaction holds the subscription row

tables == <<freeRows, freeUsed, subs, messages, ledger>>
locks == <<freeLock, subLock>>
storeVars == <<now, tables, locks>>

-----------------------------------------------------------------------------

\* getCurrentUsageMonth: the calendar month of an instant.
MonthOf(t) == t \div MonthLength

Months == {MonthOf(t) : t \in 0 .. Horizon}

UsageKeys == Users \X Months

\* One row per charge: amount is always 1, so charges are counted by rows.
LedgerRow ==
  [user: Users, source: {"free", "subscription"},
   subscription: Subs \cup {Null}, chatMessage: Requests]

StoreTypeOK ==
  /\ now \in 0 .. Horizon
  /\ freeRows \subseteq UsageKeys
  /\ freeUsed \in [UsageKeys -> Nat]
  /\ subs \in [Subs -> SubscriptionRow]
  /\ messages \subseteq Requests
  /\ ledger \subseteq LedgerRow
  /\ freeLock \in [UsageKeys -> Requests \cup {Null}]
  /\ subLock \in [Subs -> Requests \cup {Null}]

StoreInit ==
  /\ now = 0
  /\ freeRows = {}
  /\ freeUsed = [key \in UsageKeys |-> 0]
  /\ subs \in [Subs -> SubscriptionRows]
  /\ messages = {}
  /\ ledger = {}
  /\ freeLock = [key \in UsageKeys |-> Null]
  /\ subLock = [s \in Subs |-> Null]

\* Time passes; Horizon bounds it.
Tick ==
  /\ now < Horizon
  /\ now' = now + 1

-----------------------------------------------------------------------------

\* A message may be charged to a subscription that isActive and
\* hasRemainingQuota (domain/subscription.entity.ts).
IsActive(s) == subs[s].status = "active" /\ subs[s].endDate > now

HasRemainingQuota(s) ==
  subs[s].limit = Unlimited \/ subs[s].remaining > 0

LedgerOf(s) == {row \in ledger : row.subscription = s}

=============================================================================
