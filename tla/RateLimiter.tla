----------------------------- MODULE RateLimiter -----------------------------
(***************************************************************************)
(* createRateLimiter: one fixed-window limiter with a Map of its own.      *)
(* The middleware has no await between reading the record of its key and   *)
(* writing it, so a decision is one step.                                  *)
(***************************************************************************)
EXTENDS Integers, FiniteSets

CONSTANTS
  Keys,      \* what keyResolver returns: client addresses, or identities
  Max,       \* requests per window
  Window,    \* windowMs
  Horizon    \* bound on the clock

\* With a budget of 0 the code would still let the first request of a window
\* through; every configured budget is positive.
ASSUME LimiterAssumption ==
  Max \in Nat \ {0} /\ Window \in Nat /\ Horizon \in Nat

VARIABLES
  now,       \* Date.now()
  store,     \* the Map; count 0 stands for a key without a record
  counted    \* history: what was counted, in which window, as which one

limiterVars == <<now, store, counted>>

-----------------------------------------------------------------------------

LimiterTypeOK ==
  /\ now \in 0 .. Horizon
  /\ store \in [Keys -> [count : 0 .. Max, windowStart : 0 .. Horizon]]
  /\ counted \subseteq [key : Keys, at : 0 .. Horizon, start : 0 .. Horizon,
                        nth : 1 .. Max]

LimiterInit ==
  /\ now = 0
  /\ store = [k \in Keys |-> [count |-> 0, windowStart |-> 0]]
  /\ counted = {}

\* The key has a record whose window is not over: its last instant counts.
Active(k) == store[k].count > 0 /\ now - store[k].windowStart <= Window

\* A fresh window, with this request as its first.
OpenWindow(k) ==
  /\ ~ Active(k)
  /\ store' = [store EXCEPT ![k] = [count |-> 1, windowStart |-> now]]
  /\ counted' = counted \cup
       {[key |-> k, at |-> now, start |-> now, nth |-> 1]}

\* Mutant of CountRequest: one request too many.
CountRequestLate(k) ==
  /\ Active(k)
  /\ store[k].count <= Max
  /\ store' = [store EXCEPT ![k].count = @ + 1]
  /\ counted' = counted \cup
       {[key |-> k, at |-> now, start |-> store[k].windowStart,
         nth |-> store[k].count + 1]}

\* Mutant of CountRequest: the keys share their counts.
CountRequestShared(k) ==
  /\ Active(k)
  /\ store[k].count < Max
  /\ store' = [l \in Keys |-> [store[k] EXCEPT !.count = @ + 1]]
  /\ counted' = counted \cup
       {[key |-> k, at |-> now, start |-> store[k].windowStart,
         nth |-> store[k].count + 1]}

\* One more request of the window.
CountRequest(k) ==
  /\ Active(k)
  /\ store[k].count < Max
  /\ store' = [store EXCEPT ![k].count = @ + 1]
  /\ counted' = counted \cup
       {[key |-> k, at |-> now, start |-> store[k].windowStart,
         nth |-> store[k].count + 1]}

\* Past the limiter, unless the client has been answered: then setHeader
\* throws after the counting and the request goes no further.
Count(k) == OpenWindow(k) \/ CountRequest(k)

\* 429: the record stays as it is.
Exhausted(k) == Active(k) /\ store[k].count >= Max

Reject(k) == Exhausted(k) /\ UNCHANGED <<store, counted>>

LimiterTick == now < Horizon /\ now' = now + 1 /\ UNCHANGED <<store, counted>>

LimiterNext ==
  \/ \E k \in Keys : (Count(k) \/ Reject(k)) /\ UNCHANGED now
  \/ LimiterTick

LimiterSpec == LimiterInit /\ [][LimiterNext]_limiterVars

-----------------------------------------------------------------------------
(* Properties                                                              *)

Between(k, from, to) ==
  {a \in counted : a.key = k /\ from <= a.at /\ a.at <= to}

\* The configuration calls windowMs the rolling window length and max the
\* requests allowed within it (rate-limit.config.ts), which the fixed windows do
\* not give: requests crowd around a boundary.  What they do give: a stretch of
\* one window length, wherever it begins, never sees two whole budgets, as it
\* misses the request that opened the first window when it reaches into a second.
LessThanTwiceInRolling ==
  \A k \in Keys : \A t \in 0 .. Horizon :
    Cardinality(Between(k, t, t + Window)) <= 2 * Max - 1

\* A key is refused only when as many requests of its own as its budget has
\* were counted within the last window length: no other key's count against
\* it.  Not each of them need have reached its route: see Count.
RefusedOnlyWhenSpent ==
  \A k \in Keys :
    Exhausted(k) => Cardinality(Between(k, now - Window, now)) >= Max

-----------------------------------------------------------------------------
(* The inductive invariant                                                 *)

\* A counted request lies in its window, which the first one opens, and is no
\* later than the current one.
EntryOK(a) ==
  /\ a.start <= a.at /\ a.at <= a.start + Window /\ a.at <= now
  /\ a.nth = 1 => a.at = a.start
  /\ store[a.key].count > 0
  /\ \/ a.start = store[a.key].windowStart /\ a.nth <= store[a.key].count
     \/ a.start + Window < store[a.key].windowStart

\* Two counted requests of a key are of the same window, as different ones of
\* it, or of windows further apart than a window length.
PairOK(a, b) ==
  a.key = b.key =>
    \/ a.start + Window < b.start
    \/ b.start + Window < a.start
    \/ a.start = b.start /\ (a.nth = b.nth => a = b)

\* The count of the current window is that of the requests counted in it.
CountOK(k) ==
  /\ store[k].windowStart <= now
  /\ \A n \in 1 .. store[k].count :
       \E a \in counted : /\ a.key = k
                          /\ a.start = store[k].windowStart
                          /\ a.nth = n

LimiterInv ==
  /\ LimiterTypeOK
  /\ \A a \in counted : EntryOK(a)
  /\ \A a, b \in counted : PairOK(a, b)
  /\ \A k \in Keys : CountOK(k)

=============================================================================
