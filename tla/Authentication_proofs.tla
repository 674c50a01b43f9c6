----------------------- MODULE Authentication_proofs -----------------------
(***************************************************************************)
(* AuthInv is an inductive invariant of Authentication, and what it says   *)
(* of tokens and timestamps bounds the requests that pass and those that   *)
(* are refused: for all lifetimes, tolerances and clocks.                  *)
(***************************************************************************)
EXTENDS Authentication, TLAPS

\* A second is two ticks.
LEMMA Halves ==
  ASSUME NEW t \in Nat
  PROVE  t \div 2 \in Nat /\ 2 * (t \div 2) <= t /\ t <= 2 * (t \div 2) + 1
OBVIOUS

LEMMA ClockOK ==
  ASSUME AuthTypeOK
  PROVE  /\ time \in Nat /\ lag \in Nat /\ Now \in Nat /\ NowSeconds \in Nat
         /\ Now = time - lag
         /\ 2 * NowSeconds <= Now /\ Now <= 2 * NowSeconds + 1
<1>1. time \in Nat /\ lag \in Nat /\ time - lag \in Nat
  BY ClockAssumption DEF AuthTypeOK, Start
<1>2. QED
  BY <1>1, Halves DEF Now, NowSeconds

\* A fresh token is counted from the second that has begun.
LEMMA IssuedTokenOK ==
  ASSUME AuthTypeOK, NEW role \in Roles
  PROVE  /\ IssuedToken(role) \in Token
         /\ TokenOK(IssuedToken(role))
<1>1. /\ time \in Nat /\ lag \in Nat /\ Now \in Nat /\ NowSeconds \in Nat
      /\ Now = time - lag
      /\ 2 * NowSeconds <= Now /\ Now <= 2 * NowSeconds + 1
  BY ClockOK
<1>2. TokenTtl \in Nat /\ NowSeconds + TokenTtl \in Nat
  BY <1>1, ClockAssumption
<1>3. QED
  BY <1>1, <1>2 DEF IssuedToken, Token, TokenOK

\* Time and lag only grow: a token stays well-formed.
LEMMA TokenKept ==
  ASSUME AuthTypeOK, NEW token \in Token, TokenOK(token),
         time' \in Nat, lag' \in Nat, time <= time', lag <= lag'
  PROVE  TokenOK(token)'
<1>1. time \in Nat /\ lag \in Nat /\ token.nbf \in Nat /\ token.issuedAt \in Nat
  BY ClockOK DEF Token
<1>2. QED
  BY <1>1 DEF TokenOK

-----------------------------------------------------------------------------

LEMMA AuthInitOK == AuthInit => AuthInv
<1> SUFFICES ASSUME AuthInit PROVE AuthInv
  OBVIOUS
<1>1. NoToken \in Token /\ EmptyEnvelope \in Envelope
  BY DEF NoToken, Token, EmptyEnvelope, Envelope, Faults
<1>2. AuthTypeOK
  BY <1>1, ClockAssumption DEF AuthInit, AuthTypeOK, Start, Stages
<1>3. \A i \in Identities : TokenOK(tokens[i])
  BY DEF AuthInit, TokenOK, NoToken, Roles
<1>4. \A r \in Requests : EnvelopeOK(r) /\ RoleOK(r)
  BY DEF AuthInit, EnvelopeOK, RoleOK
<1>5. OneRolePerIdentity
  BY DEF AuthInit, OneRolePerIdentity
<1>6. QED
  BY <1>2, <1>3, <1>4, <1>5 DEF AuthInv

\* The clocks move and nothing else.
LEMMA ClocksMove ==
  ASSUME AuthInv, UNCHANGED <<tokens, users, requestVars>>,
         time' \in Start .. Start + Horizon, lag' \in 0 .. MaxLag,
         time <= time', lag <= lag'
  PROVE  AuthInv'
<1>1. AuthTypeOK'
  BY DEF AuthInv, AuthTypeOK, requestVars
<1>2. time' \in Nat /\ lag' \in Nat /\ time \in Nat
  BY ClockAssumption, ClockOK DEF Start, AuthInv
<1>3. (\A i \in Identities : TokenOK(tokens[i]))'
  <2> SUFFICES ASSUME NEW i \in Identities PROVE TokenOK(tokens[i])'
    OBVIOUS
  <2>1. tokens[i] \in Token /\ TokenOK(tokens[i])
    BY DEF AuthInv, AuthTypeOK
  <2>2. tokens' = tokens
    OBVIOUS
  <2>3. TokenOK(tokens[i])' <=> (tokens[i].role \in Roles =>
           /\ tokens[i].exp = tokens[i].nbf + TokenTtl
           /\ 2 * tokens[i].nbf <= tokens[i].issuedAt
           /\ tokens[i].issuedAt <= 2 * tokens[i].nbf + 1 + lag'
           /\ tokens[i].issuedAt <= time')
    BY <2>2 DEF TokenOK
  <2>4. tokens[i].nbf \in Nat /\ tokens[i].issuedAt \in Nat
        /\ lag \in Nat /\ time \in Nat
    BY <2>1, ClockOK DEF Token, AuthInv
  <2>5. QED
    BY <1>2, <2>1, <2>3, <2>4 DEF TokenOK
<1>4. (\A r \in Requests : EnvelopeOK(r))'
  <2> SUFFICES ASSUME NEW r \in Requests, stage[r] = "sent"
               PROVE  EnvelopeOK(r)'
    BY DEF EnvelopeOK, requestVars
  <2>1. EnvelopeOK(r) /\ envelope[r] \in Envelope
    BY DEF AuthInv, AuthTypeOK
  <2> DEFINE e == envelope[r]
             t == e.token
  <2>2. t.nbf \in Nat /\ t.issuedAt \in Nat /\ e.sentAt \in Nat /\ lag \in Nat
    BY <2>1, ClockOK DEF Envelope, Token, AuthInv
  <2>3. t.role \in Roles /\ TokenOK(t) /\ e.sentAt <= time
        /\ e.stamp - e.sentAt \in (0 - MaxSkew) .. MaxSkew
    BY <2>1 DEF EnvelopeOK
  <2>4. e.sentAt <= time'
    BY <1>2, <2>2, <2>3
  <2>5. /\ t.exp = t.nbf + TokenTtl /\ 2 * t.nbf <= t.issuedAt
        /\ t.issuedAt <= 2 * t.nbf + 1 + lag' /\ t.issuedAt <= time'
    BY <1>2, <2>2, <2>3 DEF TokenOK
  <2>6. envelope' = envelope
    BY DEF requestVars
  <2>7. QED
    BY <2>3, <2>4, <2>5, <2>6 DEF EnvelopeOK, TokenOK
<1>5. (\A r \in Requests : RoleOK(r))'
  BY DEF AuthInv, RoleOK, requestVars
<1>6. OneRolePerIdentity'
  BY DEF AuthInv, OneRolePerIdentity, requestVars
<1>7. QED
  BY <1>1, <1>3, <1>4, <1>5, <1>6 DEF AuthInv

\* A step of one request while the clocks and the tokens stand still: the
\* other requests keep what they have.
LEMMA RequestStep ==
  ASSUME AuthInv, AuthTypeOK', NEW r \in Requests,
         UNCHANGED <<clocks, tokens>>,
         EnvelopeOK(r)', RoleOK(r)', OneRolePerIdentity',
         \A q \in Requests \ {r} :
           /\ stage'[q] = stage[q] /\ envelope'[q] = envelope[q]
           /\ authUser'[q] = authUser[q] /\ currentUser'[q] = currentUser[q]
  PROVE  AuthInv'
<1>1. (\A i \in Identities : TokenOK(tokens[i]))'
  BY DEF AuthInv, TokenOK, clocks
<1>2. ASSUME NEW q \in Requests \ {r} PROVE EnvelopeOK(q)' /\ RoleOK(q)'
  <2>1. EnvelopeOK(q) /\ RoleOK(q)
    BY DEF AuthInv
  <2>2. EnvelopeOK(q)'
    BY <2>1 DEF EnvelopeOK, TokenOK, clocks
  <2>3. RoleOK(q)'
    BY <2>1 DEF RoleOK
  <2>4. QED
    BY <2>2, <2>3
<1>3. QED
  BY <1>1, <1>2 DEF AuthInv

LEMMA IssueTokenOK ==
  ASSUME AuthInv, NEW i \in Identities, NEW role \in Roles, IssueToken(i, role)
  PROVE  AuthInv'
<1>1. IssuedToken(role) \in Token /\ TokenOK(IssuedToken(role))
  BY IssuedTokenOK DEF AuthInv
<1>2. AuthTypeOK'
  BY <1>1 DEF AuthInv, AuthTypeOK, IssueToken, clocks, requestVars
<1>3. \A t : TokenOK(t)' <=> TokenOK(t)
  BY DEF IssueToken, TokenOK, clocks
<1>4. (\A j \in Identities : TokenOK(tokens[j]))'
  <2> SUFFICES ASSUME NEW j \in Identities PROVE TokenOK(tokens'[j])
    BY DEF IssueToken, TokenOK, clocks
  <2>1. CASE j = i
    BY <1>1, <2>1 DEF IssueToken, AuthInv, AuthTypeOK
  <2>2. CASE j # i
    BY <2>2 DEF IssueToken, AuthInv, AuthTypeOK
  <2>3. QED
    BY <2>1, <2>2
<1>5. (\A r \in Requests : EnvelopeOK(r) /\ RoleOK(r))'
  BY DEF IssueToken, AuthInv, EnvelopeOK, RoleOK, TokenOK, clocks, requestVars
<1>6. OneRolePerIdentity'
  BY DEF IssueToken, AuthInv, OneRolePerIdentity, requestVars
<1>7. QED
  BY <1>2, <1>4, <1>5, <1>6 DEF AuthInv

LEMMA SendOK ==
  ASSUME AuthInv, NEW r \in Requests, Send(r)
  PROVE  AuthInv'
<1> DEFINE i == Sender[r]
<1>1. i \in Identities /\ tokens[i] \in Token /\ TokenOK(tokens[i])
  BY SenderAssumption DEF AuthInv, AuthTypeOK
<1>2. PICK skew \in (0 - MaxSkew) .. MaxSkew, fault \in Faults :
        envelope' = [envelope EXCEPT ![r] =
          [token |-> tokens[i], stamp |-> time + skew, sentAt |-> time,
           fault |-> fault]]
  BY DEF Send
<1>3. time \in Nat /\ skew \in Int /\ time + skew \in Int
  BY <1>2, ClockOK, ClockAssumption DEF AuthInv
<1>4. AuthTypeOK'
  BY <1>1, <1>2, <1>3
     DEF Send, AuthInv, AuthTypeOK, Envelope, Stages, clocks
<1>5. envelope'[r] = [token |-> tokens[i], stamp |-> time + skew,
                      sentAt |-> time, fault |-> fault]
  BY <1>2 DEF AuthInv, AuthTypeOK
<1>6. time + skew - time = skew
  BY <1>3
<1>7. EnvelopeOK(r)'
  <2>1. tokens[i].role \in Roles
    BY DEF Send, HasToken
  <2>2. time' = time /\ lag' = lag
    BY DEF Send, clocks
  <2>3. QED
    BY <1>1, <1>2, <1>3, <1>5, <1>6, <2>1, <2>2 DEF EnvelopeOK, TokenOK
<1>8. RoleOK(r)'
  BY DEF Send, RoleOK, AuthInv, AuthTypeOK
<1>9. OneRolePerIdentity'
  BY DEF Send, OneRolePerIdentity, AuthInv, AuthTypeOK
<1>10. QED
  BY <1>2, <1>4, <1>7, <1>8, <1>9, RequestStep DEF Send, AuthInv, AuthTypeOK

LEMMA AuthenticateOK ==
  ASSUME AuthInv, NEW r \in Requests, Authenticate(r)
  PROVE  AuthInv'
<1>1. envelope[r].token.role \in Roles
  BY DEF Authenticate, AuthInv, EnvelopeOK
<1>2. EmptyEnvelope \in Envelope
  BY DEF NoToken, Token, EmptyEnvelope, Envelope, Faults
<1>3. AuthTypeOK'
  BY <1>1, <1>2 DEF Authenticate, AuthInv, AuthTypeOK, Stages, clocks
<1>4. EnvelopeOK(r)' /\ RoleOK(r)'
  BY <1>1 DEF Authenticate, EnvelopeOK, RoleOK, AuthInv, AuthTypeOK
<1>5. OneRolePerIdentity'
  BY DEF Authenticate, OneRolePerIdentity, AuthInv, AuthTypeOK
<1>6. QED
  BY <1>3, <1>4, <1>5, RequestStep DEF Authenticate, AuthInv, AuthTypeOK

LEMMA FindUserOK ==
  ASSUME AuthInv, NEW r \in Requests, FindUser(r)
  PROVE  AuthInv'
<1>1. users[Sender[r]] \in Roles \cup {"none"}
  BY SenderAssumption DEF AuthInv, AuthTypeOK
<1>2. AuthTypeOK'
  BY <1>1 DEF FindUser, AuthInv, AuthTypeOK, Stages, clocks
<1>3. EnvelopeOK(r)' /\ RoleOK(r)'
  BY <1>1 DEF FindUser, EnvelopeOK, RoleOK, AuthInv, AuthTypeOK
<1>4. OneRolePerIdentity'
  BY DEF FindUser, OneRolePerIdentity, AuthInv, AuthTypeOK
<1>5. QED
  BY <1>2, <1>3, <1>4, RequestStep DEF FindUser, AuthInv, AuthTypeOK

LEMMA CreateUserOK ==
  ASSUME AuthInv, NEW r \in Requests, CreateUser(r)
  PROVE  AuthInv'
<1>1. authUser[r] \in Roles /\ Sender[r] \in Identities
  BY SenderAssumption DEF CreateUser, AuthInv, RoleOK
<1>2. AuthTypeOK'
  BY <1>1 DEF CreateUser, AuthInv, AuthTypeOK, Stages, clocks
<1>3. EnvelopeOK(r)' /\ RoleOK(r)'
  BY <1>1 DEF CreateUser, EnvelopeOK, RoleOK, AuthInv, AuthTypeOK, Roles
<1>4. OneRolePerIdentity'
  <2> SUFFICES ASSUME NEW q \in Requests
               PROVE  /\ currentUser'[q] # "none" =>
                           currentUser'[q] = users'[Sender[q]]
                      /\ stage'[q] = "handlingAdmin" => users'[Sender[q]] = "admin"
                      /\ stage'[q] = "forbidden" => users'[Sender[q]] = "user"
    BY DEF OneRolePerIdentity
  <2>1. /\ currentUser[q] # "none" => currentUser[q] = users[Sender[q]]
        /\ stage[q] = "handlingAdmin" => users[Sender[q]] = "admin"
        /\ stage[q] = "forbidden" => users[Sender[q]] = "user"
    BY DEF AuthInv, OneRolePerIdentity
  <2>2. Sender[q] \in Identities
    BY SenderAssumption
  <2>3. users[Sender[q]] # "none" => users'[Sender[q]] = users[Sender[q]]
    BY <1>1, <2>2 DEF CreateUser, AuthInv, AuthTypeOK
  <2>4. CASE q = r
    BY <1>1, <2>1, <2>3, <2>4 DEF CreateUser, AuthInv, AuthTypeOK
  <2>5. CASE q # r
    BY <2>1, <2>3, <2>5 DEF CreateUser, AuthInv, AuthTypeOK
  <2>6. QED
    BY <2>4, <2>5
<1>5. QED
  BY <1>2, <1>3, <1>4, RequestStep DEF CreateUser, AuthInv, AuthTypeOK

LEMMA EnterRouteOK ==
  ASSUME AuthInv, NEW r \in Requests, EnterRoute(r)
  PROVE  AuthInv'
<1>1. AuthTypeOK'
  BY DEF EnterRoute, AuthInv, AuthTypeOK, Stages, clocks
<1>2. EnvelopeOK(r)' /\ RoleOK(r)'
  BY DEF EnterRoute, EnvelopeOK, RoleOK, AuthInv, AuthTypeOK
<1>3. currentUser[r] \in Roles /\ currentUser[r] = users[Sender[r]]
  BY DEF EnterRoute, AuthInv, AuthTypeOK, RoleOK, OneRolePerIdentity, Roles
<1>4. OneRolePerIdentity'
  BY <1>3 DEF EnterRoute, OneRolePerIdentity, AuthInv, AuthTypeOK, Roles
<1>5. QED
  BY <1>1, <1>2, <1>4, RequestStep DEF EnterRoute, AuthInv, AuthTypeOK

LEMMA AuthStepOK == AuthInv /\ [AuthNext]_vars => AuthInv'
<1> SUFFICES ASSUME AuthInv, [AuthNext]_vars PROVE AuthInv'
  OBVIOUS
<1>0. /\ time \in Start .. Start + Horizon /\ lag \in 0 .. MaxLag
      /\ Start \in Nat /\ Horizon \in Nat /\ MaxLag \in Nat
  BY ClockAssumption DEF AuthInv, AuthTypeOK, Start
<1>1. CASE Pass
  <2>1. time' \in Start .. Start + Horizon /\ time <= time' /\ lag' = lag
    BY <1>0, <1>1 DEF Pass
  <2>2. QED
    BY <1>0, <1>1, <2>1, ClocksMove DEF Pass
<1>2. CASE SetBack
  <2>1. lag' \in 0 .. MaxLag /\ lag <= lag' /\ time' = time
    BY <1>0, <1>2 DEF SetBack
  <2>2. QED
    BY <1>0, <1>2, <2>1, ClocksMove DEF SetBack
<1>3. ASSUME NEW i \in Identities, NEW role \in Roles, IssueToken(i, role)
      PROVE  AuthInv'
  BY <1>3, IssueTokenOK
<1>4. ASSUME NEW r \in Requests, Send(r) \/ Serve(r) PROVE AuthInv'
  BY <1>4, SendOK, AuthenticateOK, FindUserOK, CreateUserOK, EnterRouteOK
     DEF Serve
<1>5. CASE UNCHANGED vars
  BY <1>0, <1>5, ClocksMove DEF vars, clocks
<1>6. QED
  BY <1>1, <1>2, <1>3, <1>4, <1>5 DEF AuthNext

\* Tokens, timestamps and roles stay what the middlewares take them for.
THEOREM AuthInductive == AuthSpec => []AuthInv
BY AuthInitOK, AuthStepOK, PTL DEF AuthSpec

\* However first requests race, an identity is judged by one role.
THEOREM OneRole == AuthSpec => []OneRolePerIdentity
<1>1. AuthInv => OneRolePerIdentity
  BY DEF AuthInv
<1>2. QED
  BY AuthInductive, <1>1, PTL

-----------------------------------------------------------------------------
(* Clocks                                                                  *)

\* What the invariant says of the numbers in a request that has arrived.
LEMMA Arrived ==
  ASSUME AuthInv, NEW r \in Requests, stage[r] = "sent"
  PROVE  LET e == envelope[r]
         IN /\ e.token.nbf \in Nat /\ e.token.issuedAt \in Nat
            /\ e.token.exp = e.token.nbf + TokenTtl
            /\ 2 * e.token.nbf <= e.token.issuedAt
            /\ e.token.issuedAt <= 2 * e.token.nbf + 1 + lag
            /\ e.token.issuedAt <= time
            /\ e.sentAt \in Nat /\ e.sentAt <= time
            /\ e.stamp \in Int
            /\ e.stamp <= e.sentAt + MaxSkew
            /\ e.sentAt <= e.stamp + MaxSkew
<1>1. envelope[r] \in Envelope /\ EnvelopeOK(r)
  BY DEF AuthInv, AuthTypeOK
<1>2. MaxSkew \in Nat
  BY ClockAssumption
<1>3. QED
  BY <1>1, <1>2 DEF EnvelopeOK, TokenOK, Envelope, Token

\* No honest and prompt request is refused.
THEOREM HonestPass == AuthSpec => HonestRequestsPass
<1> DEFINE Step == \A r \in Requests :
             IsRefused(r) =>
               \/ envelope[r].fault # "none"
               \/ Delay(r) > SignatureWindow - MaxSkew
               \/ Age(r) > 2 * (TokenTtl + ClockTolerance)
<1>1. AuthInv /\ [AuthNext]_vars => Step
  <2> SUFFICES ASSUME AuthInv, [AuthNext]_vars, NEW r \in Requests,
                      IsRefused(r), envelope[r].fault = "none",
                      ~ (Delay(r) > SignatureWindow - MaxSkew)
               PROVE  Age(r) > 2 * (TokenTtl + ClockTolerance)
    OBVIOUS
  <2> DEFINE e == envelope[r]
  <2>1. stage[r] = "sent" /\ stage'[r] = "unauthorized"
    BY DEF IsRefused
  <2>2. Authenticate(r)
    BY <2>1 DEF AuthNext, Serve, Pass, SetBack, IssueToken, Send, Authenticate,
                FindUser, CreateUser, EnterRoute, vars, requestVars, AuthInv,
                AuthTypeOK
  <2>3. ~ (SignatureOK(e) /\ VerifyToken(e))
    BY <2>1, <2>2 DEF Authenticate, AuthInv, AuthTypeOK
  <2>4. /\ e.token.nbf \in Nat /\ e.token.issuedAt \in Nat
        /\ e.token.exp = e.token.nbf + TokenTtl
        /\ 2 * e.token.nbf <= e.token.issuedAt
        /\ e.token.issuedAt <= 2 * e.token.nbf + 1 + lag
        /\ e.token.issuedAt <= time
        /\ e.sentAt \in Nat /\ e.sentAt <= time
        /\ e.stamp \in Int
        /\ e.stamp <= e.sentAt + MaxSkew
        /\ e.sentAt <= e.stamp + MaxSkew
    BY <2>1, Arrived
  <2>5. /\ time \in Nat /\ lag \in Nat /\ Now \in Nat /\ NowSeconds \in Nat
        /\ Now = time - lag
        /\ 2 * NowSeconds <= Now /\ Now <= 2 * NowSeconds + 1
        /\ lag <= MaxLag
    BY ClockOK, ClockAssumption DEF AuthInv, AuthTypeOK
  <2>6. time - e.sentAt <= SignatureWindow - MaxSkew
    BY <2>4, <2>5, ClockAssumption DEF Delay
  <2>7. Distance(Now, e.stamp) <= SignatureWindow
    BY <2>4, <2>5, <2>6, ClockAssumption DEF Distance
  <2>8. ~ TimeValid(e.token)
    BY <2>3, <2>7 DEF SignatureOK, VerifyToken
  <2>9. e.token.nbf - ClockTolerance <= NowSeconds
    BY <2>4, <2>5, ClockAssumption
  <2>10. e.token.exp + ClockTolerance < NowSeconds
    BY <2>4, <2>5, <2>8, <2>9, ClockAssumption DEF TimeValid
  <2>11. QED
    BY <2>4, <2>5, <2>10, ClockAssumption DEF Age
<1>2. QED
  BY AuthInductive, <1>1, PTL DEF AuthSpec, HonestRequestsPass

\* No stale one passes.
THEOREM StaleFail == AuthSpec => StaleRequestsFail
<1> DEFINE Step == \A r \in Requests :
             Passes(r) =>
               /\ Delay(r) <= SignatureWindow + MaxSkew + MaxLag
               /\ Age(r) < 2 * (TokenTtl + ClockTolerance + 1) + MaxLag
<1>1. AuthInv /\ [AuthNext]_vars => Step
  <2> SUFFICES ASSUME AuthInv, [AuthNext]_vars, NEW r \in Requests, Passes(r)
               PROVE  /\ Delay(r) <= SignatureWindow + MaxSkew + MaxLag
                      /\ Age(r) < 2 * (TokenTtl + ClockTolerance + 1) + MaxLag
    OBVIOUS
  <2> DEFINE e == envelope[r]
  <2>1. stage[r] = "sent" /\ stage'[r] = "finding"
    BY DEF Passes
  <2>2. Authenticate(r)
    BY <2>1 DEF AuthNext, Serve, Pass, SetBack, IssueToken, Send, Authenticate,
                FindUser, CreateUser, EnterRoute, vars, requestVars, AuthInv,
                AuthTypeOK
  <2>3. SignatureOK(e) /\ VerifyToken(e)
    BY <2>1, <2>2 DEF Authenticate, AuthInv, AuthTypeOK
  <2>4. /\ e.token.nbf \in Nat /\ e.token.issuedAt \in Nat
        /\ e.token.exp = e.token.nbf + TokenTtl
        /\ 2 * e.token.nbf <= e.token.issuedAt
        /\ e.sentAt \in Nat /\ e.sentAt <= time
        /\ e.stamp \in Int
        /\ e.stamp <= e.sentAt + MaxSkew
    BY <2>1, Arrived
  <2>5. /\ time \in Nat /\ lag \in Nat /\ Now \in Nat /\ NowSeconds \in Nat
        /\ Now = time - lag /\ Now <= 2 * NowSeconds + 1 /\ lag <= MaxLag
    BY ClockOK, ClockAssumption DEF AuthInv, AuthTypeOK
  <2>6. Now - e.stamp <= SignatureWindow
    BY <2>3, <2>4, <2>5, ClockAssumption DEF SignatureOK, Distance
  <2>7. e.token.exp + ClockTolerance >= NowSeconds
    BY <2>3 DEF VerifyToken, TimeValid
  <2>8. QED
    BY <2>4, <2>5, <2>6, <2>7, ClockAssumption DEF Delay, Age
<1>2. QED
  BY AuthInductive, <1>1, PTL DEF AuthSpec, StaleRequestsFail

=============================================================================
