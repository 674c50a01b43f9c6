------------------------- MODULE RateLimiter_proofs -------------------------
(***************************************************************************)
(* One limiter, for any keys, budget and window: its invariant, and what a *)
(* key has counted and is refused for.                                     *)
(***************************************************************************)
EXTENDS RateLimiter, FiniteSetTheorems, TLAPS

Entry == [key : Keys, at : 0 .. Horizon, start : 0 .. Horizon, nth : 1 .. Max]

\* What a step counts: one request, as number n of the
\* window that opened at s.
LEMMA CountsOne ==
  ASSUME LimiterInv, NEW k \in Keys, Count(k), now' = now
  PROVE  \E s \in 0 .. now, n \in 1 .. Max :
           /\ counted' = counted \cup
                {[key |-> k, at |-> now, start |-> s, nth |-> n]}
           /\ store' = [store EXCEPT ![k] = [count |-> n, windowStart |-> s]]
           /\ now <= s + Window
           /\ \/ n = 1 /\ s = now
                 /\ (store[k].count > 0 => store[k].windowStart + Window < now)
              \/ /\ n = store[k].count + 1 /\ n > 1
                 /\ s = store[k].windowStart
<1>1. CASE OpenWindow(k)
  <2>1. now \in 0 .. now /\ 1 \in 1 .. Max
    BY LimiterAssumption DEF LimiterInv, LimiterTypeOK
  <2>2. now <= now + Window
    BY LimiterAssumption DEF LimiterInv, LimiterTypeOK
  <2>3. store[k].count > 0 => store[k].windowStart + Window < now
    BY <1>1, LimiterAssumption DEF OpenWindow, Active, LimiterInv, LimiterTypeOK
  <2> QED
    BY <1>1, <2>1, <2>2, <2>3 DEF OpenWindow
<1>2. CASE CountRequest(k)
  <2> DEFINE s == store[k].windowStart
             n == store[k].count + 1
  <2>1. s \in 0 .. now /\ n \in 1 .. Max /\ n > 1 /\ now <= s + Window
    BY <1>2, LimiterAssumption
    DEF CountRequest, Active, LimiterInv, LimiterTypeOK, CountOK
  <2>2. store' = [store EXCEPT ![k] = [count |-> n, windowStart |-> s]]
    <3>1. store[k] \in [count : 0 .. Max, windowStart : 0 .. Horizon]
      BY DEF LimiterInv, LimiterTypeOK
    <3>2. [store[k] EXCEPT !.count = n] = [count |-> n, windowStart |-> s]
      BY <3>1
    <3> QED
      BY <1>2, <3>2 DEF CountRequest
  <2> HIDE DEF s, n
  <2>3. counted' = counted \cup
          {[key |-> k, at |-> now, start |-> s, nth |-> n]}
    BY <1>2 DEF CountRequest, s, n
  <2>4. n = store[k].count + 1 /\ s = store[k].windowStart
    BY DEF s, n
  <2> QED
    BY <2>1, <2>2, <2>3, <2>4
<1> QED
  BY <1>1, <1>2 DEF Count

\* The request it counts was not there before.
LEMMA CountsNew ==
  ASSUME LimiterInv, NEW k \in Keys, NEW s \in 0 .. now, NEW n \in 1 .. Max,
         \/ n = 1 /\ s = now
            /\ (store[k].count > 0 => store[k].windowStart + Window < now)
         \/ n = store[k].count + 1 /\ n > 1 /\ s = store[k].windowStart
  PROVE  \A a \in counted : a.key = k => a.start + Window < s \/ (a.start = s /\ a.nth < n)
<1> SUFFICES ASSUME NEW a \in counted, a.key = k
             PROVE  a.start + Window < s \/ (a.start = s /\ a.nth < n)
  OBVIOUS
<1>1. /\ EntryOK(a)
      /\ a.start \in 0 .. Horizon /\ a.nth \in 1 .. Max
      /\ store[k].count \in 0 .. Max /\ store[k].windowStart \in 0 .. Horizon
      /\ now \in 0 .. Horizon
  BY DEF LimiterInv, LimiterTypeOK
<1>2. /\ store[k].count > 0
      /\ \/ a.start = store[k].windowStart /\ a.nth <= store[k].count
         \/ a.start + Window < store[k].windowStart
  BY <1>1 DEF EntryOK
<1>3. CASE n = 1 /\ s = now
             /\ (store[k].count > 0 => store[k].windowStart + Window < now)
  BY <1>1, <1>2, <1>3, LimiterAssumption
<1>4. CASE n = store[k].count + 1 /\ n > 1 /\ s = store[k].windowStart
  BY <1>1, <1>2, <1>4, LimiterAssumption
<1> QED
  BY <1>3, <1>4

\* Counting a request keeps the invariant.
LEMMA CountStep ==
  ASSUME LimiterInv, NEW k \in Keys, Count(k), now' = now
  PROVE  LimiterInv'
<1>1. PICK s \in 0 .. now, n \in 1 .. Max :
        /\ counted' = counted \cup
             {[key |-> k, at |-> now, start |-> s, nth |-> n]}
        /\ store' = [store EXCEPT ![k] = [count |-> n, windowStart |-> s]]
        /\ now <= s + Window
        /\ \/ n = 1 /\ s = now
              /\ (store[k].count > 0 => store[k].windowStart + Window < now)
           \/ n = store[k].count + 1 /\ n > 1 /\ s = store[k].windowStart
  BY CountsOne
<1> DEFINE new == [key |-> k, at |-> now, start |-> s, nth |-> n]
<1>2. \A a \in counted : a.key = k => a.start + Window < s \/ (a.start = s /\ a.nth < n)
  BY <1>1, CountsNew
<1>3. /\ LimiterTypeOK
      /\ now \in 0 .. Horizon /\ s \in 0 .. Horizon
  BY LimiterAssumption DEF LimiterInv, LimiterTypeOK
<1>4. new \in Entry
  BY <1>3 DEF Entry
<1>5. LimiterTypeOK'
  <2>1. store' \in [Keys -> [count : 0 .. Max, windowStart : 0 .. Horizon]]
    BY <1>1, <1>3 DEF LimiterTypeOK
  <2>2. counted' \subseteq Entry
    BY <1>1, <1>3, <1>4 DEF LimiterTypeOK, Entry
  <2> QED
    BY <1>3, <2>1, <2>2 DEF LimiterTypeOK, Entry
<1>6. /\ store'[k].count = n /\ store'[k].windowStart = s
      /\ \A l \in Keys : l # k => store'[l] = store[l]
  BY <1>1, <1>3 DEF LimiterTypeOK
<1>7. EntryOK(new)'
  BY <1>1, <1>3, <1>6, LimiterAssumption DEF EntryOK
<1>8. ASSUME NEW a \in counted PROVE EntryOK(a)'
  <2>1. EntryOK(a) /\ a \in Entry
    BY <1>3 DEF LimiterInv, LimiterTypeOK, Entry
  <2>2. CASE a.key = k
    BY <2>1, <2>2, <1>2, <1>3, <1>6, LimiterAssumption DEF EntryOK, Entry
  <2>3. CASE a.key # k
    BY <2>1, <2>3, <1>3, <1>6 DEF EntryOK, Entry
  <2> QED
    BY <2>2, <2>3
<1>9. \A a \in counted' : EntryOK(a)'
  BY <1>1, <1>7, <1>8
<1>10. \A a, b \in counted' : PairOK(a, b)
  <2>1. ASSUME NEW a \in counted PROVE PairOK(a, new) /\ PairOK(new, a)
    <3>1. a.start \in 0 .. Horizon /\ a.nth \in 1 .. Max
      BY <1>3 DEF LimiterTypeOK
    <3> QED
      BY <3>1, <1>2, <1>3 DEF PairOK
  <2>2. PairOK(new, new)
    BY DEF PairOK
  <2>3. \A a, b \in counted : PairOK(a, b)
    BY DEF LimiterInv
  <2> QED
    BY <1>1, <2>1, <2>2, <2>3
<1>11. CountOK(k)'
  <2>1. ASSUME NEW m \in 1 .. n
        PROVE  \E a \in counted' : a.key = k /\ a.start = s /\ a.nth = m
    <3>1. CASE m = n
      <4>1. new \in counted'
        BY <1>1
      <4>2. new.key = k /\ new.start = s /\ new.nth = m
        BY <3>1
      <4> QED
        BY <4>1, <4>2
    <3>2. CASE m # n
      <4>1. m \in 1 .. store[k].count /\ s = store[k].windowStart
        BY <3>2, <1>1, <1>3 DEF LimiterTypeOK
      <4> QED
        BY <4>1, <1>1 DEF LimiterInv, CountOK
    <3> QED
      BY <3>1, <3>2
  <2>2. s <= now'
    BY <1>3
  <2> QED
    BY <2>1, <2>2, <1>6 DEF CountOK
<1>12. ASSUME NEW l \in Keys, l # k PROVE CountOK(l)'
  BY <1>1, <1>6, <1>12 DEF LimiterInv, CountOK
<1> QED
  BY <1>5, <1>9, <1>10, <1>11, <1>12 DEF LimiterInv, PairOK

\* Time alone keeps the invariant.
LEMMA TickStep ==
  ASSUME LimiterInv, LimiterTick
  PROVE  LimiterInv'
<1>1. LimiterTypeOK'
  BY LimiterAssumption DEF LimiterInv, LimiterTypeOK, LimiterTick
<1>2. \A a \in counted' : EntryOK(a)'
  BY DEF LimiterInv, LimiterTypeOK, LimiterTick, EntryOK
<1>3. \A a, b \in counted' : PairOK(a, b)'
  BY DEF LimiterInv, LimiterTick, PairOK
<1>4. \A k \in Keys : CountOK(k)'
  BY DEF LimiterInv, LimiterTypeOK, LimiterTick, CountOK
<1> QED
  BY <1>1, <1>2, <1>3, <1>4 DEF LimiterInv

LEMMA LimiterInitInv == LimiterInit => LimiterInv
BY LimiterAssumption
DEF LimiterInit, LimiterInv, LimiterTypeOK, EntryOK, PairOK, CountOK

LEMMA LimiterStep ==
  ASSUME LimiterInv, [LimiterNext]_limiterVars
  PROVE  LimiterInv'
<1>1. CASE LimiterTick
  BY <1>1, TickStep
<1>2. CASE \E k \in Keys : Count(k) /\ UNCHANGED now
  BY <1>2, CountStep
<1>3. CASE \E k \in Keys : Reject(k) /\ UNCHANGED now
  BY <1>3 DEF Reject, LimiterInv, LimiterTypeOK, EntryOK, PairOK, CountOK
<1>4. CASE UNCHANGED limiterVars
  BY <1>4 DEF limiterVars, LimiterInv, LimiterTypeOK, EntryOK, PairOK, CountOK
<1> QED
  BY <1>1, <1>2, <1>3, <1>4 DEF LimiterNext

\* Each limiter keeps its invariant: windows do not overlap, every counted
\* request has a number of its own in its window, and counts are theirs.
THEOREM LimiterInductive == LimiterSpec => []LimiterInv
<1>1. LimiterInit => LimiterInv
  BY LimiterInitInv
<1>2. LimiterInv /\ [LimiterNext]_limiterVars => LimiterInv'
  BY LimiterStep
<1> QED
  BY <1>1, <1>2, PTL DEF LimiterSpec

-----------------------------------------------------------------------------
(* What the invariant means for a key                                      *)

\* The history of a key is finite: its entries differ in window or number.
LEMMA BetweenFinite ==
  ASSUME LimiterInv, NEW k \in Keys, NEW from \in Int, NEW to \in Int
  PROVE  IsFiniteSet(Between(k, from, to))
<1> DEFINE B == Between(k, from, to)
           T == (0 .. Horizon) \X (1 .. Max)
           f == [a \in B |-> <<a.start, a.nth>>]
<1>1. IsFiniteSet(0 .. Horizon) /\ IsFiniteSet(1 .. Max)
  BY FS_Interval, LimiterAssumption
<1>2. IsFiniteSet(T)
  BY <1>1, FS_Product
<1>3. \A a \in B : /\ a \in counted /\ a.key = k
                   /\ a.start \in 0 .. Horizon /\ a.nth \in 1 .. Max
  BY DEF Between, LimiterInv, LimiterTypeOK
<1>4. f \in [B -> T]
  BY <1>3
<1>5. \A a, b \in B : f[a] = f[b] => a = b
  <2> SUFFICES ASSUME NEW a \in B, NEW b \in B, f[a] = f[b] PROVE a = b
    OBVIOUS
  <2>1. a.start = b.start /\ a.nth = b.nth
    OBVIOUS
  <2>2. PairOK(a, b)
    BY <1>3 DEF LimiterInv
  <2> QED
    BY <1>3, <2>1, <2>2, LimiterAssumption DEF PairOK
<1>6. f \in Injection(B, T)
  BY <1>4, <1>5 DEF Injection, IsInjective
<1> HIDE DEF f, T, B
<1> QED
  BY <1>2, <1>6, FS_Injection DEF B

\* A key is refused only for what it has itself used up.
LEMMA SpentWhenExhausted ==
  ASSUME LimiterInv
  PROVE  RefusedOnlyWhenSpent
<1> SUFFICES ASSUME NEW k \in Keys, Exhausted(k)
             PROVE  Cardinality(Between(k, now - Window, now)) >= Max
  BY DEF RefusedOnlyWhenSpent
<1> DEFINE B == Between(k, now - Window, now)
           s == store[k].windowStart
           Nth(n) == CHOOSE a \in counted : a.key = k /\ a.start = s /\ a.nth = n
           f == [n \in 1 .. Max |-> Nth(n)]
<1>1. /\ now \in 0 .. Horizon /\ s \in 0 .. Horizon /\ now - s <= Window
      /\ store[k].count = Max
  BY LimiterAssumption DEF Exhausted, Active, LimiterInv, LimiterTypeOK
<1>2. ASSUME NEW n \in 1 .. Max
      PROVE  /\ f[n] \in counted
             /\ f[n].key = k /\ f[n].start = s /\ f[n].nth = n
  <2>1. \E a \in counted : a.key = k /\ a.start = s /\ a.nth = n
    BY <1>1 DEF LimiterInv, CountOK
  <2> QED
    BY <2>1
<1> HIDE DEF f
<1>3. ASSUME NEW n \in 1 .. Max PROVE f[n] \in B
  <2>1. EntryOK(f[n]) /\ f[n].at \in 0 .. Horizon
    BY <1>2 DEF LimiterInv, LimiterTypeOK
  <2> QED
    BY <1>1, <1>2, <2>1, LimiterAssumption DEF EntryOK, Between
<1>4. f \in [1 .. Max -> B]
  BY <1>3 DEF f
<1>5. \A m, n \in 1 .. Max : f[m] = f[n] => m = n
  BY <1>2
<1>6. f \in Injection(1 .. Max, B)
  BY <1>4, <1>5 DEF Injection, IsInjective
<1>7. IsFiniteSet(B)
  BY <1>1, BetweenFinite, LimiterAssumption
<1> HIDE DEF B
<1>8. Cardinality(1 .. Max) <= Cardinality(B)
  BY <1>6, <1>7, FS_Injection
<1>9. Cardinality(1 .. Max) = Max
  BY FS_Interval, LimiterAssumption
<1>10. Cardinality(B) \in Nat
  BY <1>7, FS_CardinalityType
<1> QED
  BY <1>8, <1>9, <1>10, LimiterAssumption DEF B

\* Of the windows a stretch of one window length reaches into, there are at
\* most two, and it misses the request that opened the first.
LEMMA TwoWindows ==
  ASSUME LimiterInv, NEW k \in Keys, NEW t \in 0 .. Horizon,
         NEW a \in Between(k, t, t + Window), NEW b \in Between(k, t, t + Window),
         a.start < b.start
  PROVE  /\ a.nth > 1
         /\ \A c \in Between(k, t, t + Window) :
              c.start = a.start \/ c.start = b.start
<1>1. ASSUME NEW c \in Between(k, t, t + Window)
      PROVE  /\ c \in counted /\ c.key = k /\ EntryOK(c)
             /\ c.start \in 0 .. Horizon /\ c.at \in 0 .. Horizon
             /\ c.nth \in 1 .. Max
             /\ t <= c.at /\ c.at <= t + Window
             /\ c.start <= c.at /\ c.at <= c.start + Window
             /\ c.nth = 1 => c.at = c.start
  BY DEF Between, LimiterInv, LimiterTypeOK, EntryOK
<1>2. ASSUME NEW c \in Between(k, t, t + Window),
             NEW d \in Between(k, t, t + Window), c.start < d.start
      PROVE  c.start + Window < d.start
  <2>1. PairOK(c, d)
    BY <1>1 DEF LimiterInv
  <2> QED
    BY <1>1, <1>2, <2>1, LimiterAssumption DEF PairOK
<1>3. a.start + Window < b.start
  BY <1>2
<1>4. a.start < t
  BY <1>1, <1>3, LimiterAssumption
<1>5. a.nth > 1
  BY <1>1, <1>4
<1>6. ASSUME NEW c \in Between(k, t, t + Window),
             c.start # a.start, c.start # b.start
      PROVE  FALSE
  <2>1. CASE c.start < a.start
    <3>1. c.start + Window < a.start
      BY <2>1, <1>2
    <3> QED
      BY <3>1, <1>1, <1>4, LimiterAssumption
  <2>2. CASE a.start < c.start /\ c.start < b.start
    <3>1. c.start + Window < b.start /\ a.start + Window < c.start
      BY <2>2, <1>2
    <3> QED
      BY <3>1, <1>1, LimiterAssumption
  <2>3. CASE b.start < c.start
    <3>1. b.start + Window < c.start
      BY <2>3, <1>2
    <3> QED
      BY <3>1, <1>1, <1>3, LimiterAssumption
  <2> QED
    BY <1>1, <1>6, <2>1, <2>2, <2>3
<1> QED
  BY <1>5, <1>6

\* No stretch of one window length sees two whole budgets.
LEMMA LessThanTwice ==
  ASSUME LimiterInv
  PROVE  LessThanTwiceInRolling
<1> SUFFICES ASSUME NEW k \in Keys, NEW t \in 0 .. Horizon
             PROVE  Cardinality(Between(k, t, t + Window)) <= 2 * Max - 1
  BY DEF LessThanTwiceInRolling
<1> DEFINE B == Between(k, t, t + Window)
           T == 1 .. 2 * Max - 1
           \* The entries of the second window, if there is one.
           Second(b) == \E a \in B : a.start < b.start
           f == [b \in B |-> IF Second(b) THEN Max - 1 + b.nth
                             ELSE IF \E c \in B : b.start < c.start THEN b.nth - 1
                             ELSE b.nth]
<1>1. ASSUME NEW b \in B
      PROVE  /\ b \in counted /\ b.key = k
             /\ b.start \in 0 .. Horizon /\ b.nth \in 1 .. Max
  BY DEF Between, LimiterInv, LimiterTypeOK
<1>2. ASSUME NEW a \in B, NEW b \in B, a.start < b.start
      PROVE  /\ a.nth > 1
             /\ \A c \in B : c.start = a.start \/ c.start = b.start
  BY <1>2, TwoWindows
<1> HIDE DEF B
<1>3. f \in [B -> T]
  <2>1. ASSUME NEW b \in B PROVE f[b] \in T
    <3>1. CASE Second(b)
      BY <3>1, <1>1, LimiterAssumption
    <3>2. CASE ~ Second(b) /\ \E c \in B : b.start < c.start
      <4>1. b.nth > 1
        BY <3>2, <1>2
      <4> QED
        BY <4>1, <3>2, <1>1, LimiterAssumption
    <3>3. CASE ~ Second(b) /\ ~ \E c \in B : b.start < c.start
      BY <3>3, <1>1, LimiterAssumption
    <3> QED
      BY <3>1, <3>2, <3>3
  <2> QED
    BY <2>1
<1>4. ASSUME NEW a \in B, NEW b \in B, f[a] = f[b] PROVE a = b
  <2>1. PairOK(a, b)
    BY <1>1 DEF LimiterInv
  <2>2. CASE a.start < b.start
    <3>1. Second(b) /\ ~ Second(a)
      BY <2>2, <1>1, <1>2
    <3>2. f[b] = Max - 1 + b.nth /\ f[a] = a.nth - 1
      BY <2>2, <3>1
    <3> QED
      BY <1>1, <1>4, <3>2, LimiterAssumption
  <2>3. CASE b.start < a.start
    <3>1. Second(a) /\ ~ Second(b)
      BY <2>3, <1>1, <1>2
    <3>2. f[a] = Max - 1 + a.nth /\ f[b] = b.nth - 1
      BY <2>3, <3>1
    <3> QED
      BY <1>1, <1>4, <3>2, LimiterAssumption
  <2>4. CASE a.start = b.start
    <3>1. a.nth = b.nth
      BY <2>4, <1>1, <1>4, LimiterAssumption
    <3> QED
      BY <2>1, <2>4, <3>1, <1>1, LimiterAssumption DEF PairOK
  <2> QED
    BY <2>2, <2>3, <2>4, <1>1
<1>5. f \in Injection(B, T)
  BY <1>3, <1>4 DEF Injection, IsInjective
<1>6. IsFiniteSet(T) /\ Cardinality(T) = 2 * Max - 1
  BY FS_Interval, LimiterAssumption
<1> HIDE DEF f, T
<1>7. Cardinality(B) <= Cardinality(T)
  BY <1>5, <1>6, FS_Injection
<1> QED
  BY <1>6, <1>7 DEF B

\* The requests counted for a client around the end of a window never reach
\* twice the budget.
THEOREM LimiterNeverTwice == LimiterSpec => []LessThanTwiceInRolling
<1>1. LimiterInv => LessThanTwiceInRolling
  BY LessThanTwice
<1> QED
  BY <1>1, LimiterInductive, PTL

=============================================================================
