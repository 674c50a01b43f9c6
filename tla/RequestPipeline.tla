--------------------------- MODULE RequestPipeline ---------------------------
(***************************************************************************)
(* What an authenticated request passes on its way to the handler of its   *)
(* route (main.ts and protected-route.ts): the per-IP limiter, the request *)
(* timer, the body parser, signature and token, the lookup or creation of  *)
(* the user, the per-user limiter.  RateLimiter's own variables are the    *)
(* per-user limiter of one group of routes; Ip is the per-IP limiter.      *)
(*                                                                         *)
(* A step is what the event loop runs between two awaits.  What a handler  *)
(* does is in the other modules: here it takes time and answers.           *)
(***************************************************************************)
EXTENDS RateLimiter

CONSTANTS
  Requests,
  Ips,
  IpMax,
  IpWindow,
  Emails,
  EmailOf,   \* the email claim in the tokens of an identity
  Workloads  \* the requests that may come together, as functions

Identities == Keys

\* What the pipeline looks at in a request: where it comes from, whose token
\* it carries, whether signature and token are good.
Kind == [ip : Ips, identity : Identities, authentic : BOOLEAN]

ASSUME PipelineAssumption ==
  /\ IpMax \in Nat \ {0} /\ IpWindow \in Nat
  /\ EmailOf \in [Identities -> Emails]
  /\ Workloads \subseteq [Requests -> Kind]
  /\ IsFiniteSet(Requests) /\ Requests \cap Identities = {}

VARIABLES
  ipStore,      \* the Map of ipRateLimiter
  ipCounted,    \* its history
  users,        \* the users table
  request,      \* what each request is
  stage,        \* where it is
  response      \* what its client has been sent

pipelineVars == <<ipStore, ipCounted, users, request, stage, response>>
allVars == <<limiterVars, pipelineVars>>

Ip == INSTANCE RateLimiter
        WITH Keys <- Ips, Max <- IpMax, Window <- IpWindow,
             store <- ipStore, counted <- ipCounted

-----------------------------------------------------------------------------

\* A row is named by the request that inserted it, or by its identity when
\* it is older than the process.
UserRow == [id : Requests \cup Identities, identity : Identities, email : Emails]

RowFor(i, id) == [id |-> id, identity |-> i, email |-> EmailOf[i]]

\* "conflict", "over" and "dropped" have ended before the handler, "done"
\* after it; "dropped" after the per-user limiter has counted them.
Stages == {"new", "reading", "finding", "creating", "known", "handling",
           "done", "over", "conflict", "dropped"}

Responses == {"none", "handled", "401", "429", "500", "503"}

PipelineTypeOK ==
  /\ LimiterTypeOK
  /\ Ip!LimiterTypeOK
  /\ users \subseteq UserRow
  /\ request \in Workloads
  /\ stage \in [Requests -> Stages]
  /\ response \in [Requests -> Responses]

\* Some users are already there, from before the process started.
PipelineInit ==
  /\ LimiterInit
  /\ Ip!LimiterInit
  /\ users \in {{RowFor(i, i) : i \in known} : known \in SUBSET Identities}
  /\ \A row, other \in users : row.email = other.email => row = other
  /\ request \in Workloads
  /\ stage = [r \in Requests |-> "new"]
  /\ response = [r \in Requests |-> "none"]

Identity(r) == request[r].identity

Go(r, s) == stage' = [stage EXCEPT ![r] = s]

\* The client gets the first response.  A later one throws, the headers being
\* sent, and so does the error handler: Express's own then ends the request.
Respond(r, code) ==
  response' = [response EXCEPT ![r] = IF @ = "none" THEN code ELSE @]

-----------------------------------------------------------------------------
(* The stages of a request                                                 *)

\* The per-IP limiter, before anything that can wait.
Arrive(r) ==
  /\ stage[r] = "new"
  /\ \/ Ip!Count(request[r].ip) /\ Go(r, "reading") /\ UNCHANGED response
     \/ Ip!Reject(request[r].ip) /\ Go(r, "over") /\ Respond(r, "429")
  /\ UNCHANGED <<limiterVars, users, request>>

\* The body has arrived: signature and token are checked.  What the parser
\* refuses (415, 400, 413) ends in the same way.
Authenticate(r) ==
  /\ stage[r] = "reading"
  /\ IF request[r].authentic
       THEN Go(r, "finding") /\ UNCHANGED response
       ELSE Go(r, "over") /\ Respond(r, "401")
  /\ UNCHANGED <<limiterVars, ipStore, ipCounted, users, request>>

\* Mutant of FindUser: the row is not found by what the token names.
FindNobody(r) ==
  /\ stage[r] = "finding"
  /\ Go(r, "creating")
  /\ UNCHANGED <<limiterVars, ipStore, ipCounted, users, request, response>>

\* findByExternalAuthId.
FindUser(r) ==
  /\ stage[r] = "finding"
  /\ Go(r, IF \E row \in users : row.identity = Identity(r)
             THEN "known" ELSE "creating")
  /\ UNCHANGED <<limiterVars, ipStore, ipCounted, users, request, response>>

\* UQ_users_external_auth_id and UQ_users_email.
Taken(i) ==
  \E row \in users : row.identity = i \/ row.email = EmailOf[i]

\* Mutant of CreateUser: external_auth_id and email are not unique.
CreateDuplicate(r) ==
  /\ stage[r] = "creating"
  /\ users' = users \cup {RowFor(Identity(r), r)}
  /\ Go(r, "known")
  /\ UNCHANGED <<limiterVars, ipStore, ipCounted, request, response>>

\* create: the insert goes through or violates a unique key, a plain Error
\* for the error handler.
CreateUser(r) ==
  /\ stage[r] = "creating"
  /\ IF Taken(Identity(r))
       THEN Go(r, "conflict") /\ Respond(r, "500") /\ UNCHANGED users
       ELSE /\ users' = users \cup {RowFor(Identity(r), r)}
            /\ Go(r, "known")
            /\ UNCHANGED response
  /\ UNCHANGED <<limiterVars, ipStore, ipCounted, request>>

\* The database fails the lookup or the insert.
FailUser(r) ==
  /\ stage[r] \in {"finding", "creating"}
  /\ Go(r, "over") /\ Respond(r, "500")
  /\ UNCHANGED <<limiterVars, ipStore, ipCounted, users, request>>

\* Mutant of EnterRoute: a request that is answered is dropped uncounted.
EnterRouteUncounted(r) ==
  /\ stage[r] = "known"
  /\ \/ response[r] # "none" /\ Go(r, "dropped")
        /\ UNCHANGED <<store, counted, response>>
     \/ response[r] = "none" /\ Count(Identity(r)) /\ Go(r, "handling")
        /\ UNCHANGED response
     \/ response[r] = "none" /\ Reject(Identity(r)) /\ Go(r, "over")
        /\ Respond(r, "429")
  /\ UNCHANGED <<now, ipStore, ipCounted, users, request>>

\* The per-user limiter of the route.  A request the timer has answered is
\* counted and stops there: the headers it is to be given throw.
EnterRoute(r) ==
  /\ stage[r] = "known"
  /\ \/ /\ Count(Identity(r))
        /\ Go(r, IF response[r] = "none" THEN "handling" ELSE "dropped")
        /\ UNCHANGED response
     \/ Reject(Identity(r)) /\ Go(r, "over") /\ Respond(r, "429")
  /\ UNCHANGED <<now, ipStore, ipCounted, users, request>>

\* The handler ends, with any status: roles and validation are part of it.
Handle(r) ==
  /\ stage[r] = "handling"
  /\ Go(r, "done") /\ Respond(r, "handled")
  /\ UNCHANGED <<limiterVars, ipStore, ipCounted, users, request>>

\* Mutant of TimeOut: the timer is mounted on the routes.
TimeOutHandler(r) ==
  /\ stage[r] = "handling"
  /\ response[r] = "none"
  /\ Respond(r, "503")
  /\ UNCHANGED <<limiterVars, ipStore, ipCounted, users, request, stage>>

\* The timer answers for a request that has not; its work goes on.
TimeOut(r) ==
  /\ stage[r] # "new"
  /\ response[r] = "none"
  /\ Respond(r, "503")
  /\ UNCHANGED <<limiterVars, ipStore, ipCounted, users, request, stage>>

-----------------------------------------------------------------------------

PipelineStep(r) ==
  \/ Arrive(r)
  \/ Authenticate(r)
  \/ FindUser(r)
  \/ CreateUser(r)
  \/ FailUser(r)
  \/ EnterRoute(r)
  \/ Handle(r)
  \/ TimeOut(r)

PipelineQuiescent ==
  /\ \A r \in Requests : stage[r] \in {"done", "over", "conflict", "dropped"}
  /\ now = Horizon
  /\ UNCHANGED allVars

PipelineNext ==
  \/ \E r \in Requests : PipelineStep(r)
  \/ LimiterTick /\ UNCHANGED pipelineVars
  \/ PipelineQuiescent

PipelineSpec == PipelineInit /\ [][PipelineNext]_allVars

\* Only the timer is relied on: clients, database and handlers may hang.
FairPipelineSpec ==
  PipelineSpec /\ \A r \in Requests : WF_allVars(TimeOut(r))

-----------------------------------------------------------------------------
(* Properties                                                              *)

\* A user's budget is charged once for each handler entered, whatever becomes
\* of it, and for each request that the timer's 503 overtook on its way there,
\* and for nothing else: not for what ended earlier, nor for other users.
CountsOncePerRequest ==
  \A i \in Identities :
    Cardinality({a \in counted : a.key = i}) =
    Cardinality({r \in Requests :
                   Identity(r) = i /\ stage[r] \in {"handling", "done", "dropped"}})

\* A request past the lookup acts for one row, its identity's own, and no
\* two rows share an email, however first requests race.
HandledAsOneUser ==
  /\ \A r \in Requests : stage[r] \in {"known", "handling", "done"} =>
       Cardinality({row \in users : row.identity = Identity(r)}) = 1
  /\ \A row, other \in users : row.email = other.email => row = other

\* A first request fails on a unique key only when another request has
\* inserted the row of its identity since its own lookup found none, or when
\* another identity owns the email.
ConflictHasAWinner ==
  \A r \in Requests : stage[r] = "conflict" =>
    \E row \in users :
      \/ row.identity = Identity(r) /\ row.id \in Requests \ {r}
      \/ row.identity # Identity(r) /\ row.email = EmailOf[Identity(r)]

\* Every request that arrives is answered, even if its body never arrives,
\* the database does not answer or the handler hangs.
EveryArrivalAnswered ==
  \A r \in Requests : stage[r] # "new" ~> response[r] # "none"

-----------------------------------------------------------------------------
(* The inductive invariant                                                 *)

\* The unique keys hold, and a row names the request that has inserted it.
RowsOK ==
  /\ \A row, other \in users :
       row.identity = other.identity \/ row.email = other.email => row = other
  /\ \A row \in users : row.id \in Requests =>
       stage[row.id] \notin {"new", "reading", "finding", "creating"}

\* Rows that came between the lookup and the insert are of other requests.
CreatingOK(r) ==
  stage[r] = "creating" =>
    \A row \in users : row.identity = Identity(r) => row.id \in Requests \ {r}

KnownOK(r) ==
  stage[r] \in {"known", "handling", "done"} =>
    \E row \in users : row.identity = Identity(r)

PipelineInv ==
  /\ PipelineTypeOK
  /\ LimiterInv
  /\ RowsOK
  /\ \A r \in Requests : CreatingOK(r) /\ KnownOK(r)
  /\ CountsOncePerRequest
  /\ ConflictHasAWinner

=============================================================================
