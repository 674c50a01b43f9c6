---------------------- MODULE RequestPipeline_theorems ----------------------
(***************************************************************************)
(* The way of a request to its handler, for any requests, users, addresses *)
(* and budgets.                                                            *)
(***************************************************************************)
EXTENDS RequestPipeline, RateLimiter_proofs

Early == {"new", "reading", "finding", "creating"}
Past == {"known", "handling", "done"}

\* What a step of r does to its stage and to the users.
Moves(r, s) ==
  /\ stage' = [stage EXCEPT ![r] = s]
  /\ request' = request
  /\ \/ users' = users
     \/ /\ users' = users \cup {RowFor(Identity(r), r)}
        /\ stage[r] = "creating" /\ s = "known" /\ ~ Taken(Identity(r))
  /\ stage[r] \notin Early => s \notin Early
  /\ s = "creating" /\ stage[r] # "creating" =>
       users' = users /\ \A row \in users : row.identity # Identity(r)
  /\ s \in Past =>
       \/ stage[r] \in Past
       \/ \E row \in users' : row.identity = Identity(r)
  /\ s = "conflict" /\ stage[r] # "conflict" =>
       users' = users /\ stage[r] = "creating" /\ Taken(Identity(r))

LEMMA StepMoves ==
  ASSUME PipelineTypeOK, NEW r \in Requests, PipelineStep(r)
  PROVE  \E s \in Stages : Moves(r, s)
<1> USE DEF PipelineTypeOK, Stages, Moves, Early, Past, Go
<1>1. CASE Arrive(r)
  BY <1>1 DEF Arrive
<1>2. CASE Authenticate(r)
  BY <1>2 DEF Authenticate
<1>3. CASE FindUser(r)
  BY <1>3 DEF FindUser
<1>4. CASE CreateUser(r)
  <2>1. CASE Taken(Identity(r))
    BY <1>4, <2>1 DEF CreateUser
  <2>2. CASE ~ Taken(Identity(r))
    <3>1. RowFor(Identity(r), r).identity = Identity(r)
      BY DEF RowFor
    <3>2. Moves(r, "known")
      BY <1>4, <2>2, <3>1 DEF CreateUser
    <3> QED
      BY <3>2
  <2> QED
    BY <2>1, <2>2
<1>5. CASE FailUser(r)
  BY <1>5 DEF FailUser
<1>6. CASE EnterRoute(r)
  BY <1>6 DEF EnterRoute
<1>7. CASE Handle(r)
  BY <1>7 DEF Handle
<1>8. CASE TimeOut(r)
  <2>1. Moves(r, stage[r])
    BY <1>8 DEF TimeOut
  <2> QED
    BY <2>1
<1> QED
  BY <1>1, <1>2, <1>3, <1>4, <1>5, <1>6, <1>7, <1>8 DEF PipelineStep

\* The users and the stages agree after a step.
LEMMA RowsStep ==
  ASSUME PipelineInv, NEW r \in Requests, NEW s \in Stages, Moves(r, s)
  PROVE  /\ users' \subseteq UserRow
         /\ stage' \in [Requests -> Stages]
         /\ RowsOK'
         /\ \A q \in Requests : CreatingOK(q)' /\ KnownOK(q)'
         /\ ConflictHasAWinner'
<1> DEFINE new == RowFor(Identity(r), r)
<1>1. PipelineTypeOK
  BY DEF PipelineInv
<1>2. /\ Identity(r) \in Identities
      /\ new \in UserRow
      /\ new.id = r /\ new.identity = Identity(r) /\ new.email = EmailOf[Identity(r)]
  BY <1>1, PipelineAssumption
  DEF PipelineTypeOK, Identity, Kind, RowFor, UserRow, Identities
<1>3. users \subseteq users' /\ users' \subseteq users \cup {new}
  BY DEF Moves
<1>4. new \in users' \ users => stage[r] = "creating" /\ s = "known" /\ ~ Taken(Identity(r))
  BY DEF Moves
<1>5. /\ stage'[r] = s
      /\ \A q \in Requests \ {r} : stage'[q] = stage[q]
      /\ stage' \in [Requests -> Stages]
  BY <1>1 DEF Moves, PipelineTypeOK
<1>6. \A q \in Requests : Identity(q)' = Identity(q)
  BY DEF Moves, Identity
<1> HIDE DEF new
<1>7. users' \subseteq UserRow
  BY <1>1, <1>2, <1>3 DEF PipelineTypeOK
<1>8. RowsOK'
  <2>1. ASSUME NEW row \in users', NEW other \in users',
               row.identity = other.identity \/ row.email = other.email
        PROVE  row = other
    <3>1. CASE row \in users /\ other \in users
      BY <2>1, <3>1 DEF PipelineInv, RowsOK
    <3>2. CASE row \notin users /\ other \notin users
      BY <3>2, <1>3
    <3>3. CASE row \notin users /\ other \in users
      <4>1. row = new
        BY <3>3, <1>3
      <4>2. ~ Taken(Identity(r))
        BY <3>3, <4>1, <1>4
      <4> QED
        BY <2>1, <3>3, <4>1, <4>2, <1>2 DEF Taken
    <3>4. CASE row \in users /\ other \notin users
      <4>1. other = new
        BY <3>4, <1>3
      <4>2. ~ Taken(Identity(r))
        BY <3>4, <4>1, <1>4
      <4> QED
        BY <2>1, <3>4, <4>1, <4>2, <1>2 DEF Taken
    <3> QED
      BY <3>1, <3>2, <3>3, <3>4
  <2>2. ASSUME NEW row \in users', row.id \in Requests
        PROVE  stage'[row.id] \notin Early
    <3>1. CASE row \in users
      <4>1. stage[row.id] \notin Early
        BY <2>2, <3>1 DEF PipelineInv, RowsOK, Early
      <4>2. stage[r] \notin Early => s \notin Early
        BY DEF Moves
      <4> QED
        BY <4>1, <4>2, <2>2, <1>5
    <3>2. CASE row \notin users
      BY <3>2, <1>2, <1>3, <1>4, <1>5 DEF Early
    <3> QED
      BY <3>1, <3>2
  <2> QED
    BY <2>1, <2>2 DEF RowsOK, Early
<1>9. ASSUME NEW q \in Requests PROVE CreatingOK(q)'
  <2> SUFFICES ASSUME stage'[q] = "creating", NEW row \in users',
                      row.identity = Identity(q)
               PROVE  row.id \in Requests \ {q}
    BY <1>6 DEF CreatingOK
  <2>1. CASE stage[q] = "creating" /\ row \in users
    BY <2>1 DEF PipelineInv, CreatingOK
  <2>2. CASE row \notin users
    BY <2>2, <1>2, <1>3, <1>4, <1>5
  <2>3. CASE stage[q] # "creating" /\ row \in users
    BY <2>3, <1>5, <1>3 DEF Moves
  <2> QED
    BY <2>1, <2>2, <2>3
<1>10. ASSUME NEW q \in Requests PROVE KnownOK(q)'
  <2> SUFFICES ASSUME stage'[q] \in Past
               PROVE  \E row \in users' : row.identity = Identity(q)
    BY <1>6 DEF KnownOK, Past
  <2>1. CASE stage[q] \in Past
    BY <2>1, <1>3 DEF PipelineInv, KnownOK, Past
  <2>2. CASE stage[q] \notin Past
    BY <2>2, <1>5 DEF Moves
  <2> QED
    BY <2>1, <2>2
<1>11. ConflictHasAWinner'
  <2> SUFFICES ASSUME NEW q \in Requests, stage'[q] = "conflict"
               PROVE  \E row \in users :
                        \/ row.identity = Identity(q) /\ row.id \in Requests \ {q}
                        \/ row.identity # Identity(q) /\ row.email = EmailOf[Identity(q)]
    BY <1>3, <1>6 DEF ConflictHasAWinner
  <2>1. CASE stage[q] = "conflict"
    BY <2>1 DEF PipelineInv, ConflictHasAWinner
  <2>2. CASE stage[q] # "conflict"
    <3>1. q = r /\ stage[r] = "creating" /\ Taken(Identity(r))
      BY <2>2, <1>5 DEF Moves
    <3>2. CreatingOK(r)
      BY DEF PipelineInv
    <3> QED
      BY <3>1, <3>2 DEF CreatingOK, Taken
  <2> QED
    BY <2>1, <2>2
<1> QED
  BY <1>5, <1>7, <1>8, <1>9, <1>10, <1>11

CountedOf(i) == {a \in counted : a.key = i}

Reached(i) ==
  {r \in Requests :
     Identity(r) = i /\ stage[r] \in {"handling", "done", "dropped"}}

LEMMA CountedFinite ==
  ASSUME LimiterInv, NEW i \in Identities
  PROVE  IsFiniteSet(CountedOf(i))
<1>1. \A a \in counted : 0 <= a.at /\ a.at <= Horizon
  BY LimiterAssumption DEF LimiterInv, LimiterTypeOK
<1>2. CountedOf(i) = Between(i, 0, Horizon)
  BY <1>1 DEF CountedOf, Between
<1>3. IsFiniteSet(Between(i, 0, Horizon))
  BY BetweenFinite, LimiterAssumption DEF Identities
<1> QED
  BY <1>2, <1>3

\* A step counts a request exactly when it takes it into the handler or drops
\* it for having been answered.
LEMMA CountsStep ==
  ASSUME PipelineInv, NEW r \in Requests, PipelineStep(r)
  PROVE  CountsOncePerRequest'
<1>1. PipelineTypeOK /\ LimiterInv
  BY DEF PipelineInv
<1>2. /\ Identity(r) \in Identities
      /\ \A q \in Requests : Identity(q)' = Identity(q)
  <2>1. request' = request
    BY StepMoves, <1>1 DEF Moves
  <2> QED
    BY <1>1, <2>1, PipelineAssumption DEF PipelineTypeOK, Identity, Kind, Identities
<1>3. \A i \in Identities : Cardinality(CountedOf(i)) = Cardinality(Reached(i))
  BY DEF PipelineInv, CountsOncePerRequest, CountedOf, Reached
<1>4. SUFFICES ASSUME NEW i \in Identities
               PROVE  Cardinality(CountedOf(i)') = Cardinality(Reached(i)')
  BY DEF CountsOncePerRequest, CountedOf, Reached
<1>5. CASE EnterRoute(r) /\ Count(Identity(r))
  <2>1. now' = now /\ stage[r] = "known"
    BY <1>5 DEF EnterRoute
  <2>2. PICK t \in 0 .. now, n \in 1 .. Max :
          /\ counted' = counted \cup
               {[key |-> Identity(r), at |-> now, start |-> t, nth |-> n]}
          /\ \/ n = 1 /\ t = now
                /\ (store[Identity(r)].count > 0 =>
                     store[Identity(r)].windowStart + Window < now)
             \/ /\ n = store[Identity(r)].count + 1 /\ n > 1
                /\ t = store[Identity(r)].windowStart
    BY <1>1, <1>2, <1>5, <2>1, CountsOne DEF Identities
  <2> DEFINE new == [key |-> Identity(r), at |-> now, start |-> t, nth |-> n]
  <2>3. \A a \in counted :
          a.key = Identity(r) =>
            a.start + Window < t \/ (a.start = t /\ a.nth < n)
    BY <1>1, <1>2, <2>2, CountsNew DEF Identities
  <2>4. new \notin counted
    <3>1. now \in 0 .. Horizon /\ t \in Nat /\ n \in Nat
      BY <1>1, LimiterAssumption DEF LimiterInv, LimiterTypeOK
    <3> QED
      BY <2>3, <3>1, LimiterAssumption
  <2>5. new.key = Identity(r) /\ counted' = counted \cup {new}
    BY <2>2
  <2> HIDE DEF new
  <2>6. \/ stage' = [stage EXCEPT ![r] = "handling"]
        \/ stage' = [stage EXCEPT ![r] = "dropped"]
    <3>1. ~ Reject(Identity(r))
      BY <2>4, <2>5 DEF Reject
    <3> QED
      BY <1>5, <3>1 DEF EnterRoute, Go
  <2>7. /\ stage'[r] \in {"handling", "dropped"}
        /\ \A q \in Requests \ {r} : stage'[q] = stage[q]
    BY <1>1, <2>6 DEF PipelineTypeOK
  <2>8. CASE i = Identity(r)
    <3>1. CountedOf(i)' = CountedOf(i) \cup {new} /\ new \notin CountedOf(i)
      BY <2>4, <2>5, <2>8 DEF CountedOf
    <3>2. Reached(i)' = Reached(i) \cup {r} /\ r \notin Reached(i)
      BY <1>2, <2>1, <2>7, <2>8 DEF Reached
    <3>3. IsFiniteSet(CountedOf(i)) /\ IsFiniteSet(Reached(i))
      BY <1>1, CountedFinite, FS_Subset, PipelineAssumption DEF Reached
    <3>4. Cardinality(CountedOf(i) \cup {new}) = Cardinality(CountedOf(i)) + 1
      BY <3>1, <3>3, FS_AddElement
    <3>5. Cardinality(Reached(i) \cup {r}) = Cardinality(Reached(i)) + 1
      BY <3>2, <3>3, FS_AddElement
    <3> QED
      BY <1>3, <3>1, <3>2, <3>4, <3>5
  <2>9. CASE i # Identity(r)
    <3>1. CountedOf(i)' = CountedOf(i)
      BY <2>5, <2>9 DEF CountedOf
    <3>2. Reached(i)' = Reached(i)
      BY <1>2, <2>7, <2>9 DEF Reached
    <3> QED
      BY <1>3, <3>1, <3>2
  <2> QED
    BY <2>8, <2>9
<1>6. CASE ~ (EnterRoute(r) /\ Count(Identity(r)))
  <2>1. counted' = counted
    BY <1>6 DEF PipelineStep, limiterVars, Arrive, Authenticate, FindUser,
      CreateUser, FailUser, EnterRoute, Reject, Handle, TimeOut
  <2>2. \A q \in Requests :
          stage'[q] \in {"handling", "done", "dropped"} <=>
          stage[q] \in {"handling", "done", "dropped"}
    BY <1>1, <1>6 DEF PipelineTypeOK, PipelineStep, Go, Arrive, Authenticate,
      FindUser, CreateUser, FailUser, EnterRoute, Handle, TimeOut
  <2>3. CountedOf(i)' = CountedOf(i) /\ Reached(i)' = Reached(i)
    BY <1>2, <2>1, <2>2 DEF CountedOf, Reached
  <2> QED
    BY <1>3, <2>3
<1> QED
  BY <1>5, <1>6

\* A step of a request is one step of the per-user limiter, or none.
LEMMA UserLimiterStep ==
  ASSUME PipelineTypeOK, [PipelineNext]_allVars
  PROVE  [LimiterNext]_limiterVars
<1>1. ASSUME NEW r \in Requests, PipelineStep(r)
      PROVE  [LimiterNext]_limiterVars
  <2>1. CASE EnterRoute(r)
    <3>1. Identity(r) \in Keys
      BY PipelineAssumption DEF PipelineTypeOK, Identity, Kind, Identities
    <3> QED
      BY <2>1, <3>1 DEF EnterRoute, LimiterNext
  <2>2. CASE ~ EnterRoute(r)
    BY <1>1, <2>2 DEF PipelineStep, limiterVars, Arrive, Authenticate, FindUser,
      CreateUser, FailUser, Handle, TimeOut
  <2> QED
    BY <2>1, <2>2
<1> QED
  BY <1>1 DEF PipelineNext, PipelineQuiescent, LimiterNext, allVars

LEMMA LimiterInPipeline ==
  ASSUME PipelineInv, [PipelineNext]_allVars
  PROVE  LimiterInv'
BY UserLimiterStep, LimiterStep DEF PipelineInv

\* It is one step of the per-IP limiter, or none.
LEMMA IpLimiterStep ==
  ASSUME PipelineTypeOK, [PipelineNext]_allVars
  PROVE  [Ip!LimiterNext]_(Ip!limiterVars)
<1>1. ASSUME NEW r \in Requests, PipelineStep(r)
      PROVE  [Ip!LimiterNext]_(Ip!limiterVars)
  <2>1. CASE Arrive(r)
    <3>1. request[r].ip \in Ips
      BY PipelineAssumption DEF PipelineTypeOK, Kind
    <3>2. now' = now
      BY <2>1 DEF Arrive, limiterVars
    <3> QED
      BY <2>1, <3>1, <3>2 DEF Arrive, Ip!LimiterNext
  <2>2. CASE ~ Arrive(r)
    BY <1>1, <2>2 DEF PipelineStep, limiterVars, Ip!limiterVars, Authenticate,
      FindUser, CreateUser, FailUser, EnterRoute, Handle, TimeOut
  <2> QED
    BY <2>1, <2>2
<1>2. CASE LimiterTick /\ UNCHANGED pipelineVars
  BY <1>2 DEF LimiterTick, pipelineVars, Ip!LimiterNext, Ip!LimiterTick
<1> QED
  BY <1>1, <1>2
  DEF PipelineNext, PipelineQuiescent, allVars, limiterVars, pipelineVars,
      Ip!limiterVars

\* The limiter of the addresses keeps its type.
LEMMA IpTypeStep ==
  ASSUME PipelineInv, [PipelineNext]_allVars
  PROVE  Ip!LimiterTypeOK'
<1>1. /\ Ip!LimiterTypeOK
      /\ now \in 0 .. Horizon /\ now' \in 0 .. Horizon
  BY LimiterInPipeline DEF PipelineInv, PipelineTypeOK, LimiterInv, LimiterTypeOK
<1>2. ASSUME NEW r \in Requests, Arrive(r), Ip!Count(request[r].ip)
      PROVE  Ip!LimiterTypeOK'
  <2> DEFINE k == request[r].ip
  <2>1. k \in Ips
    BY PipelineAssumption DEF PipelineInv, PipelineTypeOK, Kind
  <2> HIDE DEF k
  <2>2. CASE Ip!OpenWindow(k)
    BY <1>1, <2>1, <2>2, PipelineAssumption DEF Ip!LimiterTypeOK, Ip!OpenWindow
  <2>3. CASE Ip!CountRequest(k)
    <3>1. /\ ipStore[k].count + 1 \in 1 .. IpMax
          /\ ipStore[k] \in [count : 0 .. IpMax, windowStart : 0 .. Horizon]
      BY <1>1, <2>1, <2>3, PipelineAssumption
      DEF Ip!LimiterTypeOK, Ip!CountRequest, Ip!Active
    <3>2. [ipStore[k] EXCEPT !.count = @ + 1]
            \in [count : 0 .. IpMax, windowStart : 0 .. Horizon]
      BY <3>1, PipelineAssumption
    <3>3. [key |-> k, at |-> now, start |-> ipStore[k].windowStart,
           nth |-> ipStore[k].count + 1]
            \in [key : Ips, at : 0 .. Horizon, start : 0 .. Horizon, nth : 1 .. IpMax]
      BY <1>1, <2>1, <3>1
    <3> QED
      BY <1>1, <2>3, <3>2, <3>3 DEF Ip!LimiterTypeOK, Ip!CountRequest
  <2> QED
    BY <1>2, <2>2, <2>3 DEF Ip!Count, k
<1>3. CASE \E r \in Requests : Arrive(r) /\ Ip!Count(request[r].ip)
  BY <1>2, <1>3
<1>4. CASE ~ \E r \in Requests : Arrive(r) /\ Ip!Count(request[r].ip)
  <2>1. UNCHANGED <<ipStore, ipCounted>>
    BY <1>4 DEF PipelineNext, PipelineStep, PipelineQuiescent, allVars,
      pipelineVars, Arrive, Ip!Reject, Authenticate, FindUser, CreateUser,
      FailUser, EnterRoute, Handle, TimeOut
  <2> QED
    BY <1>1, <2>1 DEF Ip!LimiterTypeOK
<1> QED
  BY <1>3, <1>4

LEMMA ResponseStep ==
  ASSUME PipelineTypeOK, NEW r \in Requests, PipelineStep(r)
  PROVE  response' \in [Requests -> Responses]
<1>1. \/ response' = response
      \/ \E code \in Responses : Respond(r, code)
  BY DEF PipelineStep, Responses, Arrive, Authenticate, FindUser, CreateUser,
    FailUser, EnterRoute, Handle, TimeOut
<1> QED
  BY <1>1 DEF PipelineTypeOK, Respond

LEMMA PipelineInitInv == PipelineInit => PipelineInv
<1> SUFFICES ASSUME PipelineInit PROVE PipelineInv
  OBVIOUS
<1>1. LimiterInv
  BY LimiterInitInv DEF PipelineInit
<1>2. Ip!LimiterTypeOK
  BY LimiterAssumption, PipelineAssumption
  DEF PipelineInit, Ip!LimiterInit, Ip!LimiterTypeOK, LimiterInit
<1>3. PICK known \in SUBSET Identities : users = {RowFor(i, i) : i \in known}
  BY DEF PipelineInit
<1>4. users \subseteq UserRow
  BY <1>3, PipelineAssumption DEF UserRow, RowFor
<1>5. \A r \in Requests : stage[r] = "new" /\ response[r] = "none"
  BY DEF PipelineInit
<1>6. PipelineTypeOK
  BY <1>1, <1>2, <1>4
  DEF PipelineTypeOK, PipelineInit, LimiterInv, Stages, Responses
<1>7. RowsOK
  <2>1. \A row, other \in users :
          row.identity = other.identity \/ row.email = other.email => row = other
    BY <1>3 DEF RowFor, PipelineInit
  <2>2. \A row \in users : row.id \notin Requests
    BY <1>3, PipelineAssumption DEF RowFor
  <2> QED
    BY <2>1, <2>2 DEF RowsOK
<1>8. CountsOncePerRequest
  <2>1. counted = {}
    BY DEF PipelineInit, LimiterInit
  <2>2. ASSUME NEW i \in Identities
        PROVE  /\ {a \in counted : a.key = i} = {}
               /\ {r \in Requests : Identity(r) = i
                 /\ stage[r] \in {"handling", "done", "dropped"}} = {}
    BY <1>5, <2>1
  <2> QED
    BY <2>2 DEF CountsOncePerRequest
<1> QED
  BY <1>1, <1>5, <1>6, <1>7, <1>8
  DEF PipelineInv, CreatingOK, KnownOK, ConflictHasAWinner

LEMMA PipelineInvStep ==
  ASSUME PipelineInv, [PipelineNext]_allVars
  PROVE  PipelineInv'
<1>1. LimiterInv' /\ Ip!LimiterTypeOK'
  BY LimiterInPipeline, IpTypeStep
<1>2. PipelineTypeOK
  BY DEF PipelineInv
<1>3. ASSUME NEW r \in Requests, PipelineStep(r) PROVE PipelineInv'
  <2>1. PICK s \in Stages : Moves(r, s)
    BY <1>2, <1>3, StepMoves
  <2>2. /\ users' \subseteq UserRow
        /\ stage' \in [Requests -> Stages]
        /\ RowsOK'
        /\ \A q \in Requests : CreatingOK(q)' /\ KnownOK(q)'
        /\ ConflictHasAWinner'
    BY <2>1, RowsStep
  <2>3. response' \in [Requests -> Responses]
    BY <1>2, <1>3, ResponseStep
  <2>4. PipelineTypeOK'
    BY <1>1, <1>2, <2>1, <2>2, <2>3 DEF PipelineTypeOK, LimiterInv, Moves
  <2>5. CountsOncePerRequest'
    BY <1>3, CountsStep
  <2> QED
    BY <1>1, <2>2, <2>4, <2>5 DEF PipelineInv
<1>4. CASE UNCHANGED <<pipelineVars, counted>>
  <2>1. PipelineTypeOK'
    BY <1>1, <1>2, <1>4 DEF PipelineTypeOK, LimiterInv, pipelineVars
  <2> QED
    BY <1>1, <1>4, <2>1 DEF PipelineInv, pipelineVars, RowsOK, CreatingOK, KnownOK,
      Identity, CountsOncePerRequest, ConflictHasAWinner
<1>5. CASE LimiterTick /\ UNCHANGED pipelineVars
  BY <1>4, <1>5 DEF LimiterTick
<1>6. CASE UNCHANGED allVars
  BY <1>4, <1>6 DEF allVars, limiterVars
<1> QED
  BY <1>3, <1>5, <1>6 DEF PipelineNext, PipelineQuiescent

\* The inductive invariant of the pipeline, for any workload.
THEOREM PipelineInductive == PipelineSpec => []PipelineInv
<1>1. PipelineInv /\ [PipelineNext]_allVars => PipelineInv'
  BY PipelineInvStep
<1> QED
  BY <1>1, PipelineInitInv, PTL DEF PipelineSpec

\* A user's budget is charged once for each handler entered and for each
\* request the 503 overtook, and for nothing else, in every workload.
THEOREM BudgetIsExact == PipelineSpec => []CountsOncePerRequest
<1>1. PipelineInv => CountsOncePerRequest
  BY DEF PipelineInv
<1> QED
  BY <1>1, PipelineInductive, PTL

\* A 429 of the per-user limiter is for requests of the same user, a budget of
\* them counted within the last window length.
THEOREM RefusalsAreOwn == PipelineSpec => []RefusedOnlyWhenSpent
<1>1. PipelineInv => RefusedOnlyWhenSpent
  BY SpentWhenExhausted DEF PipelineInv
<1> QED
  BY <1>1, PipelineInductive, PTL

\* However first requests race, a request that gets past the lookup acts for
\* the one row of its identity, and emails stay unique.
THEOREM OneUserPerIdentity == PipelineSpec => []HandledAsOneUser
<1>1. ASSUME PipelineInv PROVE HandledAsOneUser
  <2>1. ASSUME NEW r \in Requests, stage[r] \in Past
        PROVE  Cardinality({row \in users : row.identity = Identity(r)}) = 1
    <3>1. PICK row \in users : row.identity = Identity(r)
      BY <1>1, <2>1 DEF PipelineInv, KnownOK, Past
    <3>2. {other \in users : other.identity = Identity(r)} = {row}
      BY <1>1, <3>1 DEF PipelineInv, RowsOK
    <3> QED
      BY <3>2, FS_Singleton
  <2> QED
    BY <1>1, <2>1 DEF HandledAsOneUser, PipelineInv, RowsOK, Past
<1> QED
  BY <1>1, PipelineInductive, PTL

\* A first request fails on a unique key only when another request won the
\* race for the row, or the email belongs to another identity.
THEOREM ConflictsAreLost == PipelineSpec => []ConflictHasAWinner
<1>1. PipelineInv => ConflictHasAWinner
  BY DEF PipelineInv
<1> QED
  BY <1>1, PipelineInductive, PTL

-----------------------------------------------------------------------------
(* Both limiters                                                           *)

\* What holds of every limiter holds of the one of the addresses.
IpProofs == INSTANCE RateLimiter_proofs
              WITH Keys <- Ips, Max <- IpMax, Window <- IpWindow,
                   store <- ipStore, counted <- ipCounted

\* What the limiters guarantee, max within a fixed window, means of the rolling
\* window that the configuration speaks of: neither a user nor an address has
\* twice the budget counted within one window length, wherever it begins; and
\* an address is refused only for its own requests.
THEOREM NeverTwiceInPipeline ==
  PipelineSpec =>
    /\ [](LessThanTwiceInRolling /\ Ip!LessThanTwiceInRolling)
    /\ []Ip!RefusedOnlyWhenSpent
<1>1. PipelineInv => LessThanTwiceInRolling
  BY LessThanTwice DEF PipelineInv
<1>2. PipelineInit => IpProofs!LimiterInv
  <2>1. PipelineInit => IpProofs!LimiterInit
    BY DEF PipelineInit, Ip!LimiterInit, IpProofs!LimiterInit
  <2> QED
    BY <2>1, IpProofs!LimiterInitInv, PipelineAssumption, LimiterAssumption
<1>3. ASSUME IpProofs!LimiterInv, [Ip!LimiterNext]_(Ip!limiterVars)
      PROVE  IpProofs!LimiterInv'
  <2>1. [IpProofs!LimiterNext]_(IpProofs!limiterVars)
    BY <1>3
    DEF Ip!LimiterNext, IpProofs!LimiterNext, Ip!limiterVars,
        IpProofs!limiterVars, Ip!Count, IpProofs!Count, Ip!OpenWindow,
        IpProofs!OpenWindow, Ip!CountRequest, IpProofs!CountRequest,
        Ip!Reject, IpProofs!Reject, Ip!Exhausted, IpProofs!Exhausted,
        Ip!Active, IpProofs!Active, Ip!LimiterTick, IpProofs!LimiterTick
  <2> QED
    BY <1>3, <2>1, IpProofs!LimiterStep, PipelineAssumption, LimiterAssumption
<1>4. ASSUME IpProofs!LimiterInv
      PROVE  Ip!LessThanTwiceInRolling /\ Ip!RefusedOnlyWhenSpent
  <2>1. IpProofs!LessThanTwiceInRolling /\ IpProofs!RefusedOnlyWhenSpent
    BY <1>4, IpProofs!LessThanTwice, IpProofs!SpentWhenExhausted,
       PipelineAssumption, LimiterAssumption
  <2>2. \A k, from, to : Ip!Between(k, from, to) = IpProofs!Between(k, from, to)
    BY DEF Ip!Between, IpProofs!Between
  <2>3. \A k : Ip!Exhausted(k) <=> IpProofs!Exhausted(k)
    BY DEF Ip!Exhausted, IpProofs!Exhausted, Ip!Active, IpProofs!Active
  <2>4. \A S : Ip!Cardinality(S) = IpProofs!Cardinality(S)
    BY DEF Ip!Cardinality, IpProofs!Cardinality
  <2> QED
    BY <2>1, <2>2, <2>3, <2>4
    DEF Ip!LessThanTwiceInRolling, IpProofs!LessThanTwiceInRolling,
        Ip!RefusedOnlyWhenSpent, IpProofs!RefusedOnlyWhenSpent
<1>5. PipelineInv /\ [PipelineNext]_allVars =>
        [Ip!LimiterNext]_(Ip!limiterVars)
  BY IpLimiterStep DEF PipelineInv
<1> QED
  BY PipelineInductive, <1>1, <1>2, <1>3, <1>4, <1>5, PTL DEF PipelineSpec

=============================================================================
