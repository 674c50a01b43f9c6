--------------------------- MODULE Authentication ---------------------------
(***************************************************************************)
(* From the login to the role check: tokens and their clocks, the signed   *)
(* timestamp of a request, and the local user that stands for the identity *)
(* of a token.  RequestPipeline only knows whether a request is authentic; *)
(* here is what makes it so.                                               *)
(*                                                                         *)
(* Tokens count in seconds, Date.now() and timestamps are finer: a tick is *)
(* half a second.  Three clocks differ: the time that really passes, the   *)
(* server's, which may be set back, and the client's, which is off by some *)
(* ticks.  Signatures are not computed: a request has a good one or not.   *)
(***************************************************************************)
EXTENDS Integers

CONSTANTS
  Identities,      \* external auth ids (sub)
  Requests,
  Sender,          \* whose token a request carries
  TokenTtl,        \* tokenTtlSeconds
  ClockTolerance,  \* clockToleranceSeconds
  SignatureWindow, \* fiveMinutesMs, in ticks
  MaxSkew,         \* bound: ticks a client's clock is off
  MaxLag,          \* bound: ticks the server's clock is set back in all
  Horizon          \* bound on the time

\* Clock differences within what the tolerance and the window are for.
ASSUME ClockAssumption ==
  /\ TokenTtl \in Nat /\ ClockTolerance \in Nat /\ SignatureWindow \in Nat
  /\ MaxSkew \in Nat /\ MaxLag \in Nat /\ Horizon \in Nat
  /\ MaxLag <= 2 * ClockTolerance
  /\ MaxLag + MaxSkew <= SignatureWindow

ASSUME SenderAssumption == Sender \in [Requests -> Identities]

VARIABLES
  time,        \* the time that has passed
  lag,         \* how far the server's clock is behind it
  tokens,      \* the last token of each identity
  users,       \* role column of the users table, "none" without a row
  stage,       \* where each request is
  envelope,    \* what a request carries
  authUser,    \* req.authUser.role
  currentUser  \* req.currentUser.role

clocks == <<time, lag>>
requestVars == <<stage, envelope, authUser, currentUser>>
vars == <<clocks, tokens, users, requestVars>>

-----------------------------------------------------------------------------

Roles == {"user", "admin"}

\* Date.now() of the server, and what the code makes of it for tokens.
Now == time - lag
NowSeconds == Now \div 2

\* issuedAt is the real time: the server does not know it.
Token == [role : Roles \cup {"none"}, nbf : Nat, exp : Nat, issuedAt : Nat]

NoToken == [role |-> "none", nbf |-> 0, exp |-> 0, issuedAt |-> 0]

\* What is wrong with a request, besides its times: nothing, the headers or
\* the signature over it, or the token's signature, issuer or audience.
Faults == {"none", "signature", "token"}

\* stamp is the client's clock at sentAt.
Envelope == [token : Token, stamp : Int, sentAt : Nat, fault : Faults]

EmptyEnvelope ==
  [token |-> NoToken, stamp |-> 0, sentAt |-> 0, fault |-> "none"]

Stages == {"new", "sent", "finding", "creating", "known", "handling",
           "handlingAdmin", "unauthorized", "forbidden", "failed"}

\* The server's clock starts late enough never to be set back below zero.
Start == MaxLag

AuthTypeOK ==
  /\ time \in Start .. Start + Horizon
  /\ lag \in 0 .. MaxLag
  /\ tokens \in [Identities -> Token]
  /\ users \in [Identities -> Roles \cup {"none"}]
  /\ stage \in [Requests -> Stages]
  /\ envelope \in [Requests -> Envelope]
  /\ authUser \in [Requests -> Roles \cup {"none"}]
  /\ currentUser \in [Requests -> Roles \cup {"none"}]

AuthInit ==
  /\ time = Start
  /\ lag = 0
  /\ tokens = [i \in Identities |-> NoToken]
  /\ users = [i \in Identities |-> "none"]
  /\ stage = [r \in Requests |-> "new"]
  /\ envelope = [r \in Requests |-> EmptyEnvelope]
  /\ authUser = [r \in Requests |-> "none"]
  /\ currentUser = [r \in Requests |-> "none"]

-----------------------------------------------------------------------------
(* The clocks                                                              *)

Pass ==
  /\ time < Start + Horizon
  /\ time' = time + 1
  /\ UNCHANGED <<lag, tokens, users, requestVars>>

\* The server's clock is corrected, by a tick at a time.
SetBack ==
  /\ lag < MaxLag
  /\ lag' = lag + 1
  /\ UNCHANGED <<time, tokens, users, requestVars>>

-----------------------------------------------------------------------------
(* The identity provider                                                   *)

HasToken(i) == tokens[i].role \in Roles

\* Mutant of IssuedToken: Date.now() is not divided.
IssuedTokenUndivided(role) ==
  [role |-> role, nbf |-> NowSeconds, exp |-> Now + TokenTtl, issuedAt |-> time]

\* nbf and exp are counted from the second that has begun.
IssuedToken(role) ==
  [role |-> role, nbf |-> NowSeconds, exp |-> NowSeconds + TokenTtl,
   issuedAt |-> time]

\* The identity logs in, with the role the provider gives it at that time.
IssueToken(i, role) ==
  /\ tokens' = [tokens EXCEPT ![i] = IssuedToken(role)]
  /\ UNCHANGED <<clocks, users, requestVars>>

-----------------------------------------------------------------------------
(* The client                                                              *)

\* A request leaves with the last token, its timestamp and its signature; it
\* arrives, with its body, after any time.
Send(r) ==
  /\ stage[r] = "new"
  /\ HasToken(Sender[r])
  /\ stage' = [stage EXCEPT ![r] = "sent"]
  /\ \E skew \in (0 - MaxSkew) .. MaxSkew, fault \in Faults :
       envelope' = [envelope EXCEPT ![r] =
         [token |-> tokens[Sender[r]], stamp |-> time + skew, sentAt |-> time,
          fault |-> fault]]
  /\ UNCHANGED <<clocks, tokens, users, authUser, currentUser>>

-----------------------------------------------------------------------------
(* The server                                                              *)

Distance(a, b) == IF a < b THEN b - a ELSE a - b

\* requestSignatureMiddleware: the timestamp is recent by either clock, and
\* method, url and timestamp are signed with the shared secret.
SignatureOK(e) ==
  Distance(Now, e.stamp) <= SignatureWindow /\ e.fault # "signature"

\* Mutant of TimeValid: no tolerance for a token from the near future.
TimeValidStrict(token) ==
  token.exp + ClockTolerance >= NowSeconds /\ token.nbf <= NowSeconds

\* exp and nbf, each with the tolerance.
TimeValid(token) ==
  /\ token.exp + ClockTolerance >= NowSeconds
  /\ token.nbf - ClockTolerance <= NowSeconds

\* verifyToken: signature, issuer and audience, time, and the custom claims.
VerifyToken(e) == e.fault # "token" /\ TimeValid(e.token)

\* Both checks run when the request is complete, with nothing in between;
\* only the identity of the token is kept.
Authenticate(r) ==
  /\ stage[r] = "sent"
  /\ IF SignatureOK(envelope[r]) /\ VerifyToken(envelope[r])
       THEN /\ stage' = [stage EXCEPT ![r] = "finding"]
            /\ authUser' = [authUser EXCEPT ![r] = envelope[r].token.role]
       ELSE /\ stage' = [stage EXCEPT ![r] = "unauthorized"]
            /\ UNCHANGED authUser
  /\ envelope' = [envelope EXCEPT ![r] = EmptyEnvelope]
  /\ UNCHANGED <<clocks, tokens, users, currentUser>>

\* findByExternalAuthId: the user as it was stored at first sight.
FindUser(r) ==
  /\ stage[r] = "finding"
  /\ IF users[Sender[r]] # "none"
       THEN /\ currentUser' = [currentUser EXCEPT ![r] = users[Sender[r]]]
            /\ stage' = [stage EXCEPT ![r] = "known"]
       ELSE /\ stage' = [stage EXCEPT ![r] = "creating"]
            /\ UNCHANGED currentUser
  /\ UNCHANGED <<clocks, tokens, users, envelope, authUser>>

\* Mutant of CreateUser: the row is written whether it is there or not.
CreateOrReplaceUser(r) ==
  /\ stage[r] = "creating"
  /\ users' = [users EXCEPT ![Sender[r]] = authUser[r]]
  /\ currentUser' = [currentUser EXCEPT ![r] = authUser[r]]
  /\ stage' = [stage EXCEPT ![r] = "known"]
  /\ UNCHANGED <<clocks, tokens, envelope, authUser>>

\* create, with the role of the token.  Another first request may have
\* inserted the row since it was looked for: the unique key, and 500.
CreateUser(r) ==
  /\ stage[r] = "creating"
  /\ IF users[Sender[r]] = "none"
       THEN /\ users' = [users EXCEPT ![Sender[r]] = authUser[r]]
            /\ currentUser' = [currentUser EXCEPT ![r] = authUser[r]]
            /\ stage' = [stage EXCEPT ![r] = "known"]
       ELSE /\ stage' = [stage EXCEPT ![r] = "failed"]
            /\ UNCHANGED <<users, currentUser>>
  /\ UNCHANGED <<clocks, tokens, envelope, authUser>>

\* The route of anybody, or one behind requireRole(["admin"]): it is the role
\* of the row that counts, not that of the token.
EnterRoute(r) ==
  /\ stage[r] = "known"
  /\ \/ stage' = [stage EXCEPT ![r] = "handling"]
     \/ stage' = [stage EXCEPT ![r] =
                    IF currentUser[r] = "admin"
                      THEN "handlingAdmin" ELSE "forbidden"]
  /\ UNCHANGED <<clocks, tokens, users, envelope, authUser, currentUser>>

-----------------------------------------------------------------------------

Serve(r) == Authenticate(r) \/ FindUser(r) \/ CreateUser(r) \/ EnterRoute(r)

AuthNext ==
  \/ Pass
  \/ SetBack
  \/ \E i \in Identities, role \in Roles : IssueToken(i, role)
  \/ \E r \in Requests : Send(r) \/ Serve(r)

AuthSpec == AuthInit /\ [][AuthNext]_vars

-----------------------------------------------------------------------------
(* Properties                                                              *)

Age(r) == time - envelope[r].token.issuedAt
Delay(r) == time - envelope[r].sentAt

Passes(r) == stage[r] = "sent" /\ stage'[r] = "finding"
IsRefused(r) == stage[r] = "sent" /\ stage'[r] = "unauthorized"

\* Rounding to seconds and clocks that differ never turn an honest client
\* away: with a good signature and a genuine token that has not lived its
\* lifetime and the tolerance, a request that was not long on its way passes.
HonestRequestsPass ==
  [][\A r \in Requests :
       IsRefused(r) =>
         \/ envelope[r].fault # "none"
         \/ Delay(r) > SignatureWindow - MaxSkew
         \/ Age(r) > 2 * (TokenTtl + ClockTolerance)]_vars

\* Nor do they keep a token alive: whatever the clocks show, what passes is
\* less than a second, and what the clock was set back, past the lifetime and
\* the tolerance, and was not on its way longer than the window allows.
StaleRequestsFail ==
  [][\A r \in Requests :
       Passes(r) =>
         /\ Delay(r) <= SignatureWindow + MaxSkew + MaxLag
         /\ Age(r) < 2 * (TokenTtl + ClockTolerance + 1) + MaxLag]_vars

\* Requests of one identity are judged by one role, the one of the stored
\* user, also when they are the first, race to create it, and carry tokens of
\* different roles: an admin route never lets one in and keeps another out.
OneRolePerIdentity ==
  \A r \in Requests :
    /\ currentUser[r] # "none" => currentUser[r] = users[Sender[r]]
    /\ stage[r] = "handlingAdmin" => users[Sender[r]] = "admin"
    /\ stage[r] = "forbidden" => users[Sender[r]] = "user"

-----------------------------------------------------------------------------
(* The inductive invariant                                                 *)

\* The seconds of a token and the time it was issued at, as far as the
\* server's clock has been set back since.
TokenOK(token) ==
  token.role \in Roles =>
    /\ token.exp = token.nbf + TokenTtl
    /\ 2 * token.nbf <= token.issuedAt
    /\ token.issuedAt <= 2 * token.nbf + 1 + lag
    /\ token.issuedAt <= time

EnvelopeOK(r) ==
  stage[r] = "sent" =>
    LET e == envelope[r]
    IN /\ e.token.role \in Roles
       /\ TokenOK(e.token)
       /\ e.sentAt <= time
       /\ e.stamp - e.sentAt \in (0 - MaxSkew) .. MaxSkew

\* Which roles are known of a request, by where it is.
RoleOK(r) ==
  /\ stage[r] \in {"finding", "creating"} => authUser[r] \in Roles
  /\ stage[r] \in {"known", "handling", "handlingAdmin", "forbidden"}
       <=> currentUser[r] # "none"

AuthInv ==
  /\ AuthTypeOK
  /\ \A i \in Identities : TokenOK(tokens[i])
  /\ \A r \in Requests : EnvelopeOK(r) /\ RoleOK(r)
  /\ OneRolePerIdentity

=============================================================================
