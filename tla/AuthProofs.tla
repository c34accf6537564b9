------------------------------ MODULE AuthProofs ------------------------------
(***************************************************************************)
(* What the gateway's token cache promises, for any clients, users,        *)
(* passwords and lifetime of a token, and however far the expiry thread    *)
(* lags behind.                                                            *)
(***************************************************************************)
EXTENDS Auth, TLAPS

Cached == Tokens \cup Refusals

LEMMA Bounds ==
  /\ TimeoutSec \in Nat /\ MaxLate \in Nat /\ MaxTime \in Nat
  /\ Root \in Users /\ FirstPassword \in Passwords
  /\ Attempts \subseteq Clients \X Users \X Passwords
  /\ Edits \subseteq Clients \X {"add", "change"} \X Users \X Passwords
  /\ NoToken \notin Cached /\ NoUser \notin Users /\ NoUser \notin Clients
BY ConstantsAssumption DEF ConstantsAssumption, Cached

\* What the pieces of TypeOK say of messages, tokens and the clients.
LEMMA RequestIsRequest ==
  ASSUME TypeOK, NEW c \in Clients, NEW n \in Nat, NEW k \in {"login", "add", "change"},
         NEW u \in Users, NEW p \in Passwords
  PROVE  Request(c, n, k, u, p) \in Requests
BY DEF TypeOK, Request, Requests, Secrets

LEMMA TokenIsToken ==
  ASSUME TypeOK, NEW m \in Requests
  PROVE  Token(m) \in Tokens
BY Bounds DEF TypeOK, Token, Tokens, Requests

\* Refusals are no tokens; only the refusal after a right password has a user.
LEMMA Kinds ==
  /\ \A u \in Users \cup {NoUser} : Refusal(u) \in Refusals /\ Refusal(u).user = u
  /\ \A t \in Refusals : t \notin Tokens /\ t.expired_time = 0 /\ t.user \in Users \cup {NoUser}
  /\ \A t \in Tokens : t.user \in Users /\ t.from \in Clients /\ t.expired_time \in Nat
<1>1. NoUser \notin Clients
  BY Bounds
<1>2. \A u \in Users \cup {NoUser} :
        /\ Refusal(u) \in Refusals /\ Refusal(u).user = u
        /\ Refusal(u).from = NoUser /\ Refusal(u).expired_time = 0
  BY DEF Refusals, Refusal
<1>3. \A t \in Tokens : t.user \in Users /\ t.from \in Clients /\ t.expired_time \in Nat
  BY DEF Tokens
<1>4. \A t \in Refusals : \E u \in Users \cup {NoUser} : t = Refusal(u)
  BY DEF Refusals
<1> QED
  BY <1>1, <1>2, <1>3, <1>4

LEMMA AnswerIsAnswer ==
  ASSUME NEW m \in Requests, NEW t \in Cached
  PROVE  Answer(m, t) \in Answers
BY DEF Answer, Answers, Requests, Cached

\* What the service answers to a login.
LEMMA LoginAnswers ==
  ASSUME TypeOK, NEW m \in requests, Login(m)
  PROVE  \E t \in Cached :
           /\ \/ t = Token(m) /\ Token(m) \in granted'
              \/ t = Refusal(NoUser) \/ t = Refusal(m.user)
           /\ granted' = granted \/ granted' = granted \cup {Token(m)}
           /\ xms_token' \subseteq xms_token \cup {Token(m)}
           /\ replies' = [replies EXCEPT !.sent = @ \cup {Answer(m, t)}]
           /\ replies'.sent = replies.sent \cup {Answer(m, t)} /\ replies'.cached = replies.cached
<1>1. m \in Requests /\ m.user \in Users
  BY DEF TypeOK, Requests
<1>2. Token(m) \in Cached /\ Refusal(NoUser) \in Cached /\ Refusal(m.user) \in Cached
  BY <1>1, TokenIsToken, Kinds DEF Cached
<1>3. \A t : Answered(m, t) =>
        /\ replies' = [replies EXCEPT !.sent = @ \cup {Answer(m, t)}]
        /\ replies'.sent = replies.sent \cup {Answer(m, t)} /\ replies'.cached = replies.cached
  BY DEF Answered, TypeOK
<1>4. CASE LoginRefused(m)
  BY <1>2, <1>3, <1>4 DEF LoginRefused
<1>5. CASE LoginNotInserted(m)
  BY <1>2, <1>3, <1>5 DEF LoginNotInserted
<1>6. CASE LoginNotRead(m)
  BY <1>2, <1>3, <1>6 DEF LoginNotRead
<1>7. CASE LoginGranted(m)
  BY <1>2, <1>3, <1>7 DEF LoginGranted
<1> QED
  BY <1>4, <1>5, <1>6, <1>7 DEF Login

LEMMA Queued ==
  ASSUME NEW q \in [Clients -> Seq(Requests)], NEW c \in Clients, NEW m \in Requests
  PROVE  [q EXCEPT ![c] = Append(@, m)] \in [Clients -> Seq(Requests)]
OBVIOUS

LEMMA Unqueued ==
  ASSUME NEW q \in [Clients -> Seq(Requests)], NEW c \in Clients, q[c] # <<>>
  PROVE  /\ Head(q[c]) \in Requests
         /\ [q EXCEPT ![c] = Tail(@)] \in [Clients -> Seq(Requests)]
OBVIOUS

\* Every variable keeps the type TypeOK gives it: in particular the gateway
\* caches only what the service answers, and the expiry thread never lags
\* more than MaxLate seconds.
THEOREM TypeCorrect == Spec => []TypeOK
<1>1. Init => TypeOK
  <2> SUFFICES ASSUME Init PROVE TypeOK
    OBVIOUS
  <2>1. xms_auth \in [Users -> Secrets \cup {NoPassword}]
    BY Bounds DEF Init, Secrets
  <2>2. replies \in [sent : SUBSET Answers, cached : SUBSET Answers]
    BY DEF Init
  <2>3. now \in Nat \ {0} /\ late \in 0..MaxLate
    BY Bounds DEF Init
  <2>4. outbox \in [Clients -> Seq(Requests)]
    BY DEF Init
  <2> QED
    BY <2>1, <2>2, <2>3, <2>4 DEF Init, TypeOK
<1>2. TypeOK /\ [Next]_vars => TypeOK'
  <2> SUFFICES ASSUME TypeOK, [Next]_vars PROVE TypeOK'
    OBVIOUS
  <2> USE DEF clock, service, gateway, links, clients
  <2>1. CASE Tick
    <3>1. now' \in Nat \ {0} /\ late' \in 0..MaxLate
      BY <2>1, Bounds DEF Tick, TypeOK
    <3> QED
      BY <2>1, <3>1 DEF Tick, TypeOK
  <2>2. CASE Expire
    <3>1. late' \in 0..MaxLate
      BY <2>2, Bounds DEF Expire
    <3>2. token_cache' \subseteq token_cache /\ fresh' = {}
      BY <2>2 DEF Expire
    <3> QED
      BY <2>2, <3>1, <3>2 DEF Expire, TypeOK
  <2>3. ASSUME NEW c \in Clients, NEW u \in Users, NEW p \in Passwords, LoginReq(c, u, p)
        PROVE  TypeOK'
    <3>1. try[c] + 1 \in Nat
      BY DEF TypeOK
    <3>2. outbox' \in [Clients -> Seq(Requests)]
      BY <2>3, <3>1, RequestIsRequest, Queued DEF LoginReq, TypeOK
    <3>3. login_map' \in [Clients -> [Users -> Tokens \cup Refusals \cup {NoToken}]]
      BY <2>3 DEF LoginReq, TypeOK
    <3>4. try' \in [Clients -> Nat] /\ cur_user' \in [Clients -> Users \cup {NoUser}]
      BY <2>3, <3>1 DEF LoginReq, TypeOK
    <3>5. wait' \in [Clients -> BOOLEAN]
      BY <2>3 DEF LoginReq, TypeOK
    <3> QED
      BY <2>3, <3>2, <3>3, <3>4, <3>5 DEF LoginReq, TypeOK
  <2>4. ASSUME NEW c \in Clients, NEW k \in {"add", "change"}, NEW u \in Users,
               NEW p \in Passwords, Ask(c, k, u, p)
        PROVE  TypeOK'
    <3>1. outbox' \in [Clients -> Seq(Requests)]
      BY <2>4, RequestIsRequest, Queued DEF Ask, TypeOK
    <3> QED
      BY <2>4, <3>1 DEF Ask, TypeOK
  <2>5. ASSUME NEW c \in Clients, LoginReturns(c)
        PROVE  TypeOK'
    <3>1. wait' \in [Clients -> BOOLEAN]
      BY <2>5 DEF LoginReturns, TypeOK
    <3> QED
      BY <2>5, <3>1 DEF LoginReturns, TypeOK
  <2>6. ASSUME NEW c \in Clients, LoginTimesOut(c)
        PROVE  TypeOK'
    <3>1. wait' \in [Clients -> BOOLEAN] /\ timedOut' \in [Clients -> BOOLEAN]
      BY <2>6 DEF LoginTimesOut, TypeOK
    <3> QED
      BY <2>6, <3>1 DEF LoginTimesOut, TypeOK
  <2>7. ASSUME NEW c \in Clients, Break(c)
        PROVE  TypeOK'
    <3>1. conn' \in [Clients -> Nat]
      BY <2>7 DEF Break, TypeOK
    <3>2. outbox' \in [Clients -> Seq(Requests)]
      BY <2>7 DEF Break, TypeOK
    <3>3. timedOut' \in [Clients -> BOOLEAN]
      <4>1. wait[c] \in BOOLEAN /\ timedOut[c] \in BOOLEAN
        BY DEF TypeOK
      <4>2. (timedOut[c] /\ wait[c]) \in BOOLEAN
        BY <4>1
      <4> QED
        BY <2>7, <4>2 DEF Break, TypeOK
    <3>4. replies' \in [sent : SUBSET Answers, cached : SUBSET Answers]
      BY <2>7 DEF Break, TypeOK
    <3> QED
      BY <2>7, <3>1, <3>2, <3>3, <3>4 DEF Break, TypeOK
  <2>8. ASSUME NEW c \in Clients, ReadCB(c)
        PROVE  TypeOK'
    <3>1. /\ Head(outbox[c]) \in Requests
          /\ outbox' \in [Clients -> Seq(Requests)]
      BY <2>8, Unqueued DEF ReadCB, TypeOK
    <3>2. requests' \subseteq Requests
      BY <2>8, <3>1 DEF ReadCB, TypeOK
    <3> QED
      BY <2>8, <3>1, <3>2 DEF ReadCB, TypeOK
  <2>9. ASSUME NEW m \in requests, Login(m)
        PROVE  TypeOK'
    <3>1. m \in Requests /\ requests' \subseteq Requests
      BY <2>9 DEF Login, TypeOK
    <3>2. Token(m) \in Tokens
      BY <3>1, TokenIsToken
    <3>3. \A t \in Cached : Answer(m, t) \in Answers
      BY <3>1, AnswerIsAnswer
    <3>4. PICK t \in Cached :
            /\ granted' = granted \/ granted' = granted \cup {Token(m)}
            /\ xms_token' \subseteq xms_token \cup {Token(m)}
            /\ replies' = [replies EXCEPT !.sent = @ \cup {Answer(m, t)}]
      BY <2>9, LoginAnswers
    <3>5. replies' \in [sent : SUBSET Answers, cached : SUBSET Answers]
      BY <3>3, <3>4 DEF TypeOK
    <3>6. granted' \subseteq Tokens /\ xms_token' \subseteq Tokens
      BY <3>2, <3>4 DEF TypeOK
    <3> QED
      BY <2>9, <3>1, <3>5, <3>6 DEF Login, TypeOK
  <2>10. ASSUME NEW m \in requests, AddUser(m)
         PROVE  TypeOK'
    <3>1. m.user \in Users /\ m.password \in Secrets
      BY DEF TypeOK, Requests
    <3>2. xms_auth' \in [Users -> Secrets \cup {NoPassword}]
      BY <2>10, <3>1 DEF AddUser, TypeOK
    <3> QED
      BY <2>10, <3>2 DEF AddUser, TypeOK
  <2>11. ASSUME NEW m \in requests, ChangePassword(m)
         PROVE  TypeOK'
    <3>1. m.user \in Users /\ m.password \in Secrets
      BY DEF TypeOK, Requests
    <3>2. xms_auth' \in [Users -> Secrets \cup {NoPassword}]
      BY <2>11, <3>1 DEF ChangePassword, TypeOK
    <3> QED
      BY <2>11, <3>2 DEF ChangePassword, TypeOK
  <2>12. ASSUME NEW r \in replies.sent, Cache(r)
         PROVE  TypeOK'
    <3>1. r \in Answers /\ r.token \in Cached
      BY DEF TypeOK, Answers, Cached
    <3>2. token_cache' \subseteq Cached /\ fresh' \subseteq Cached
      BY <2>12, <3>1 DEF Cache, TypeOK, Cached
    <3>3. replies' \in [sent : SUBSET Answers, cached : SUBSET Answers]
      BY <2>12, <3>1 DEF Cache, TypeOK
    <3> QED
      BY <2>12, <3>2, <3>3 DEF Cache, TypeOK, Cached
  <2>13. ASSUME NEW r \in replies.cached, LoginRes(r)
         PROVE  TypeOK'
    <3>1. r.to \in Clients /\ r.token \in Cached
      BY DEF TypeOK, Answers, Cached
    <3>2. replies' \in [sent : SUBSET Answers, cached : SUBSET Answers]
      BY <2>13 DEF LoginRes, TypeOK
    <3>3. /\ login_map' \in [Clients -> [Users -> Tokens \cup Refusals \cup {NoToken}]]
          /\ login' \in [Clients -> Tokens \cup Refusals \cup {NoToken}]
      <4>1. CASE r.conn = conn[r.to] /\ r.token.user # NoUser
        <5>1. r.token.user \in Users
          BY <3>1, <4>1, Kinds DEF Cached
        <5>2. /\ login_map' = [login_map EXCEPT ![r.to][r.token.user] = r.token]
              /\ login' = [login EXCEPT ![r.to] = r.token]
          BY <2>13, <4>1 DEF LoginRes
        <5> QED
          BY <3>1, <5>1, <5>2 DEF TypeOK, Cached
      <4>2. CASE ~(r.conn = conn[r.to] /\ r.token.user # NoUser)
        BY <2>13, <4>2 DEF LoginRes, TypeOK
      <4> QED
        BY <4>1, <4>2
    <3> QED
      BY <2>13, <3>2, <3>3 DEF LoginRes, TypeOK
  <2>14. CASE UNCHANGED vars
    BY <2>14 DEF vars, TypeOK
  <2> QED
    BY <2>1, <2>2, <2>3, <2>4, <2>5, <2>6, <2>7, <2>8, <2>9, <2>10, <2>11, <2>12,
       <2>13, <2>14, Bounds DEF Next
<1> QED
  BY <1>1, <1>2, PTL DEF Spec
-----------------------------------------------------------------------------
\* What is cached, or on its way to the cache or from it, was given out by the
\* service, or is a refusal; and the cache holds nothing that expired longer ago
\* than the last round of the expiry thread, and no refusal, except what came
\* since.
Kept(t) ==
  \/ t \in granted /\ (t \in fresh \/ now <= t.expired_time + late)
  \/ t \in Refusals /\ t \in fresh

CacheInv ==
  /\ \A r \in replies.sent \cup replies.cached : r.token \in granted \cup Refusals
  /\ \A t \in token_cache : Kept(t)

\* Numbers that CacheInv and the next invariant calculate with.
LEMMA Numbers ==
  ASSUME TypeOK
  PROVE  /\ now \in Nat /\ now > 0 /\ late \in Nat /\ late <= MaxLate
         /\ \A t \in Cached : t.expired_time \in Nat
         /\ token_cache \subseteq Cached /\ granted \subseteq Tokens
<1>1. now \in Nat /\ now > 0 /\ late \in Nat /\ late <= MaxLate
  BY Bounds DEF TypeOK
<1>2. \A t \in Cached : t.expired_time \in Nat
  BY Kinds DEF Cached
<1> QED
  BY <1>1, <1>2 DEF TypeOK, Cached

LEMMA CacheStep == TypeOK /\ CacheInv /\ [Next]_vars => CacheInv'
<1> SUFFICES ASSUME TypeOK, CacheInv, [Next]_vars PROVE CacheInv'
  OBVIOUS
<1> USE DEF clock, service, gateway, links, clients
<1>1. CASE Tick
  <2>1. \A t \in token_cache :
          now <= t.expired_time + late => now + 1 <= t.expired_time + (late + 1)
    BY Numbers
  <2>2. now' = now + 1 /\ late' = late + 1 /\ UNCHANGED <<granted, fresh, token_cache, replies>>
    BY <1>1 DEF Tick
  <2> QED
    BY <2>1, <2>2 DEF CacheInv, Kept
<1>2. CASE Expire
  <2>1. \A t \in token_cache : t.expired_time >= now => now <= t.expired_time + 0 /\ t \notin Refusals
    BY Numbers, Kinds
  <2>2. /\ now' = now /\ late' = 0 /\ UNCHANGED <<granted, replies>>
        /\ token_cache' = {t \in token_cache : t.expired_time >= now}
    BY <1>2 DEF Expire
  <2> QED
    BY <2>1, <2>2 DEF CacheInv, Kept
<1>3. ASSUME NEW m \in requests, Login(m)
      PROVE  CacheInv'
  <2>1. PICK t \in Cached :
          /\ t \in granted' \/ t = Refusal(NoUser) \/ t = Refusal(m.user)
          /\ granted \subseteq granted'
          /\ replies'.sent = replies.sent \cup {Answer(m, t)} /\ replies'.cached = replies.cached
    BY <1>3, LoginAnswers
  <2>2. m.user \in Users
    BY DEF TypeOK, Requests
  <2>3. Answer(m, t).token \in granted' \cup Refusals
    BY <2>1, <2>2, Kinds DEF Answer
  <2>4. UNCHANGED <<now, late, fresh, token_cache>>
    BY <1>3 DEF Login
  <2> QED
    BY <2>1, <2>3, <2>4 DEF CacheInv, Kept
<1>4. ASSUME NEW r \in replies.sent, Cache(r)
      PROVE  CacheInv'
  <2>1. /\ replies'.sent = replies.sent \ {r} /\ replies'.cached = replies.cached \cup {r}
        /\ token_cache' \subseteq token_cache \cup {r.token} /\ fresh' = fresh \cup {r.token}
        /\ UNCHANGED <<now, late, granted>>
    BY <1>4 DEF Cache
  <2> QED
    BY <2>1 DEF CacheInv, Kept
<1>5. ASSUME NEW r \in replies.cached, LoginRes(r)
      PROVE  CacheInv'
  <2>1. replies'.sent = replies.sent /\ replies'.cached \subseteq replies.cached
    BY <1>5 DEF LoginRes, TypeOK
  <2> QED
    BY <1>5, <2>1 DEF LoginRes, CacheInv, Kept
<1>6. ASSUME NEW c \in Clients, Break(c)
      PROVE  CacheInv'
  <2>1. replies'.sent = replies.sent /\ replies'.cached \subseteq replies.cached
    BY <1>6 DEF Break, TypeOK
  <2> QED
    BY <1>6, <2>1 DEF Break, CacheInv, Kept
<1>7. ASSUME UNCHANGED <<clock, granted, replies, token_cache, fresh>>
      PROVE  CacheInv'
  BY <1>7 DEF CacheInv, Kept
<1>8. ASSUME NEW c \in Clients, NEW k, NEW u, NEW p,
             LoginReq(c, u, p) \/ Ask(c, k, u, p) \/ LoginReturns(c) \/ LoginTimesOut(c)
             \/ ReadCB(c)
      PROVE  CacheInv'
  BY <1>7, <1>8 DEF LoginReq, Ask, LoginReturns, LoginTimesOut, ReadCB
<1>9. ASSUME NEW m \in requests, AddUser(m) \/ ChangePassword(m)
      PROVE  CacheInv'
  BY <1>7, <1>9 DEF AddUser, ChangePassword
<1>10. CASE UNCHANGED vars
  BY <1>7, <1>10 DEF vars
<1> QED
  BY <1>1, <1>2, <1>3, <1>4, <1>5, <1>6, <1>8, <1>9, <1>10, Bounds DEF Next

LEMMA CacheInvHolds == Spec => []CacheInv
<1>1. Init => CacheInv
  BY DEF Init, CacheInv
<1> QED
  BY <1>1, CacheStep, TypeCorrect, PTL DEF Spec

\* The router lets through only tokens that the service gave out and that
\* expired at most MaxLate seconds ago, or, until the next round of the expiry
\* thread, one that came late to the gateway or the text of a refusal, for any
\* number of logins, clients, seconds and failures of the database.
THEOREM PassedWasGrantedHolds == Spec => PassedWasGranted
<1> DEFINE Passes ==
      \A m \in requests' \ requests :
        m.kind # "login" =>
          \/ /\ m.token \in granted
             /\ now <= m.token.expired_time + MaxLate \/ m.token \in fresh
          \/ m.token \in Refusals \cap fresh
<1>1. TypeOK /\ CacheInv /\ [Next]_vars => [Passes]_vars
  <2> SUFFICES ASSUME TypeOK, CacheInv, Next, NEW m \in requests' \ requests, m.kind # "login"
               PROVE  \/ /\ m.token \in granted
                         /\ now <= m.token.expired_time + MaxLate \/ m.token \in fresh
                      \/ m.token \in Refusals \cap fresh
    OBVIOUS
  <2>1. PICK c \in Clients : ReadCB(c)
    <3>1. requests' \subseteq requests \/ \E c \in Clients : ReadCB(c)
      BY DEF Next, Tick, Expire, LoginReq, Ask, LoginReturns, LoginTimesOut, Break, Login,
             AddUser, ChangePassword, Cache, LoginRes, gateway
    <3> QED
      BY <3>1
  <2>2. m.token \in token_cache
    BY <2>1 DEF ReadCB, CheckToken
  <2>3. Kept(m.token)
    BY <2>2 DEF CacheInv
  <2>4. now <= m.token.expired_time + late => now <= m.token.expired_time + MaxLate
    BY <2>2, Numbers, Bounds
  <2> QED
    BY <2>3, <2>4 DEF Kept
<1> QED
  BY <1>1, TypeCorrect, CacheInvHolds, PTL DEF Spec, PassedWasGranted
-----------------------------------------------------------------------------
\* A token that still holds is in the cache.
Live(t) == t \in Tokens /\ now <= t.expired_time => t \in token_cache

\* GrantedIsAccepted speaks of the client; before the client the answer to its
\* login was with the gateway.
AcceptInv ==
  /\ \A r \in replies.cached : Live(r.token)
  /\ \A c \in Clients : Live(login[c])

LEMMA AcceptStep == TypeOK /\ AcceptInv /\ [Next]_vars => AcceptInv'
<1> SUFFICES ASSUME TypeOK, AcceptInv, [Next]_vars PROVE AcceptInv'
  OBVIOUS
<1> USE DEF clock, service, gateway, links, clients
<1>1. CASE Tick
  <2>1. \A t \in Tokens : now + 1 <= t.expired_time => now <= t.expired_time
    BY Numbers, Kinds
  <2>2. now' = now + 1 /\ UNCHANGED <<replies, login, token_cache>>
    BY <1>1 DEF Tick
  <2> QED
    BY <2>1, <2>2 DEF AcceptInv, Live
<1>2. CASE Expire
  <2>1. \A t \in Tokens : now <= t.expired_time => t.expired_time >= now
    BY Numbers, Kinds
  <2>2. /\ now' = now /\ UNCHANGED <<replies, login>>
        /\ token_cache' = {t \in token_cache : t.expired_time >= now}
    BY <1>2 DEF Expire
  <2> QED
    BY <2>1, <2>2 DEF AcceptInv, Live
<1>3. ASSUME NEW m \in requests, Login(m)
      PROVE  AcceptInv'
  <2>1. replies'.cached = replies.cached
    BY <1>3, LoginAnswers
  <2> QED
    BY <1>3, <2>1 DEF Login, AcceptInv, Live
<1>4. ASSUME NEW r \in replies.sent, Cache(r)
      PROVE  AcceptInv'
  <2>1. /\ replies'.cached = replies.cached \cup {r} /\ UNCHANGED <<now, login>>
        /\ token_cache' =
             {t \in token_cache : ~(t \in Refusals /\ r.token \in Refusals)} \cup {r.token}
    BY <1>4 DEF Cache
  <2>2. \A t \in Tokens : t \in token_cache => t \in token_cache'
    BY <2>1, Kinds
  <2> QED
    BY <2>1, <2>2 DEF AcceptInv, Live
<1>5. ASSUME NEW r \in replies.cached, LoginRes(r)
      PROVE  AcceptInv'
  <2>1. replies'.cached \subseteq replies.cached
    BY <1>5 DEF LoginRes, TypeOK
  <2>2. \A c \in Clients : login'[c] = login[c] \/ login'[c] = r.token
    BY <1>5 DEF LoginRes, TypeOK
  <2> QED
    BY <1>5, <2>1, <2>2 DEF LoginRes, AcceptInv, Live
<1>6. ASSUME NEW c \in Clients, Break(c)
      PROVE  AcceptInv'
  <2>1. replies'.cached \subseteq replies.cached
    BY <1>6 DEF Break, TypeOK
  <2> QED
    BY <1>6, <2>1 DEF Break, AcceptInv, Live
<1>7. ASSUME UNCHANGED <<now, replies, token_cache, login>>
      PROVE  AcceptInv'
  BY <1>7 DEF AcceptInv, Live
<1>8. ASSUME NEW c \in Clients, NEW k, NEW u, NEW p,
             LoginReq(c, u, p) \/ Ask(c, k, u, p) \/ LoginReturns(c) \/ LoginTimesOut(c)
             \/ ReadCB(c)
      PROVE  AcceptInv'
  BY <1>7, <1>8 DEF LoginReq, Ask, LoginReturns, LoginTimesOut, ReadCB
<1>9. ASSUME NEW m \in requests, AddUser(m) \/ ChangePassword(m)
      PROVE  AcceptInv'
  BY <1>7, <1>9 DEF AddUser, ChangePassword
<1>10. CASE UNCHANGED vars
  BY <1>7, <1>10 DEF vars
<1> QED
  BY <1>1, <1>2, <1>3, <1>4, <1>5, <1>6, <1>8, <1>9, <1>10, Bounds DEF Next

\* A client that holds a token is not refused before it expires, for any number
\* of clients, logins and rounds of the expiry thread.
THEOREM GrantedIsAcceptedHolds == Spec => []GrantedIsAccepted
<1>1. Init => AcceptInv
  BY Bounds DEF Init, AcceptInv, Live, Cached
<1>2. TypeOK /\ AcceptInv => GrantedIsAccepted
  BY DEF TypeOK, AcceptInv, Live, GrantedIsAccepted
<1> QED
  BY <1>1, <1>2, AcceptStep, TypeCorrect, PTL DEF Spec
-----------------------------------------------------------------------------
\* Messages carry the number of the connection they were sent on, which is not
\* a later one than the client has; the outbox holds one request of the client
\* on its connection at most.
LinkInv ==
  /\ \A m \in requests : m.conn <= conn[m.from]
  /\ \A r \in replies.sent \cup replies.cached : r.conn <= conn[r.to]
  /\ \A c \in Clients : outbox[c] # <<>> =>
       /\ Tail(outbox[c]) = <<>>
       /\ Head(outbox[c]).from = c /\ Head(outbox[c]).conn = conn[c]

\* A login of client c on its present connection is on its way to the router,
\* with the service, answered, or has its answer in the cache.
Posted(c) == outbox[c] # <<>> /\ Head(outbox[c]).kind = "login"
Asked(c) == {m \in requests : m.from = c /\ m.conn = conn[c] /\ m.kind = "login"}
Good(c) == {r \in Answers : r.to = c /\ r.conn = conn[c] /\ r.token.user # NoUser}
Given(c) == replies.sent \cap Good(c)
Shown(c) == replies.cached \cap Good(c)

Stored(c) == login_map[c][cur_user[c]]

\* A token that answers the last attempt; a refusal has no number.
Own(c, t) == t \in Tokens => t.from = c /\ t.try = try[c]

\* It is in one of these places at most, and only as long as the client waits
\* for it; what is there or is stored belongs to the last attempt.
AttemptInv(c) ==
  /\ Posted(c) \/ Asked(c) # {} \/ Given(c) # {} \/ Shown(c) # {} =>
       wait[c] /\ Stored(c) = NoToken
  /\ Posted(c) => Asked(c) = {} /\ Given(c) = {} /\ Shown(c) = {}
  /\ Asked(c) # {} => Given(c) = {} /\ Shown(c) = {}
  /\ Given(c) # {} => Shown(c) = {}
  /\ \A m, n \in Asked(c) : m = n
  /\ \A r, q \in Given(c) : r = q
  /\ \A r, q \in Shown(c) : r = q
  /\ Posted(c) => Head(outbox[c]).user = cur_user[c] /\ Head(outbox[c]).try = try[c]
  /\ \A m \in Asked(c) : m.user = cur_user[c] /\ m.try = try[c]
  /\ \A r \in Given(c) \cup Shown(c) :
       r.token.user = cur_user[c] /\ Own(c, r.token)
  /\ wait[c] /\ Stored(c) # NoToken => login[c] = Stored(c) /\ Own(c, Stored(c))

Attempted == \A c \in Clients : ~timedOut[c] => AttemptInv(c)

\* What the records of messages hold.
LEMMA Fields ==
  ASSUME TypeOK
  PROVE  /\ \A m \in requests : m \in Requests /\ m.from \in Clients /\ m.conn \in Nat
         /\ \A r \in replies.sent \cup replies.cached :
              r \in Answers /\ r.to \in Clients /\ r.conn \in Nat
         /\ \A c \in Clients : conn[c] \in Nat /\ outbox[c] \in Seq(Requests)
BY DEF TypeOK, Requests, Answers

LEMMA RequestFields ==
  ASSUME NEW c \in Clients, NEW n, NEW k, NEW u, NEW p
  PROVE  LET m == Request(c, n, k, u, p)
         IN  m.from = c /\ m.conn = conn[c] /\ m.try = n /\ m.kind = k /\ m.user = u
BY DEF Request

\* A request put into an empty outbox is its only one.
LEMMA PutOne ==
  ASSUME TypeOK, NEW c \in Clients, NEW m \in Requests, outbox[c] = <<>>,
         outbox' = [outbox EXCEPT ![c] = Append(@, m)]
  PROVE  /\ outbox'[c] # <<>> /\ Head(outbox'[c]) = m /\ Tail(outbox'[c]) = <<>>
         /\ \A d \in Clients : d # c => outbox'[d] = outbox[d]
<1>1. outbox'[c] = <<m>>
  BY DEF TypeOK
<1>2. \A d \in Clients : d # c => outbox'[d] = outbox[d]
  BY DEF TypeOK
<1> QED
  BY <1>1, <1>2

LEMMA LinkStep == TypeOK /\ LinkInv /\ [Next]_vars => LinkInv'
<1> SUFFICES ASSUME TypeOK, LinkInv, [Next]_vars PROVE LinkInv'
  OBVIOUS
<1> USE DEF clock, service, gateway, links, clients
<1>1. ASSUME NEW c \in Clients, NEW m \in Requests, outbox[c] = <<>>,
             m.from = c, m.conn = conn[c], outbox' = [outbox EXCEPT ![c] = Append(@, m)],
             UNCHANGED <<requests, replies, conn>>
      PROVE  LinkInv'
  BY <1>1, PutOne DEF LinkInv
<1>2. ASSUME NEW c \in Clients, NEW u \in Users, NEW p \in Passwords, LoginReq(c, u, p)
      PROVE  LinkInv'
  <2> DEFINE m == Request(c, try[c] + 1, "login", u, p)
  <2>1. try[c] + 1 \in Nat
    BY DEF TypeOK
  <2>2. m \in Requests /\ m.from = c /\ m.conn = conn[c]
    BY <2>1, RequestIsRequest, RequestFields
  <2>3. /\ outbox[c] = <<>> /\ outbox' = [outbox EXCEPT ![c] = Append(@, m)]
        /\ UNCHANGED <<requests, replies, conn>>
    BY <1>2 DEF LoginReq
  <2> HIDE DEF m
  <2> QED
    BY <1>1, <2>2, <2>3
<1>3. ASSUME NEW c \in Clients, NEW k \in {"add", "change"}, NEW u \in Users,
             NEW p \in Passwords, Ask(c, k, u, p)
      PROVE  LinkInv'
  <2> DEFINE m == Request(c, 0, k, u, p)
  <2>1. m \in Requests /\ m.from = c /\ m.conn = conn[c]
    BY RequestIsRequest, RequestFields
  <2>2. /\ outbox[c] = <<>> /\ outbox' = [outbox EXCEPT ![c] = Append(@, m)]
        /\ UNCHANGED <<requests, replies, conn>>
    BY <1>3 DEF Ask
  <2> HIDE DEF m
  <2> QED
    BY <1>1, <2>1, <2>2
<1>4. ASSUME NEW c \in Clients, Break(c)
      PROVE  LinkInv'
  <2>1. \A d \in Clients : conn[d] <= conn'[d] /\ (d # c => conn'[d] = conn[d])
    BY <1>4, Fields DEF Break, TypeOK
  <2>2. conn' \in [Clients -> Nat]
    BY <1>4 DEF Break, TypeOK
  <2>3. replies'.sent = replies.sent /\ replies'.cached \subseteq replies.cached
    BY <1>4 DEF Break, TypeOK
  <2>4. \A n \in Nat, d \in Clients : n <= conn[d] => n <= conn'[d]
    BY <2>1, <2>2, Fields
  <2>5. outbox'[c] = <<>> /\ \A d \in Clients : d # c => outbox'[d] = outbox[d]
    BY <1>4 DEF Break, TypeOK
  <2> QED
    BY <1>4, <2>1, <2>3, <2>4, <2>5, Fields DEF Break, LinkInv
<1>5. ASSUME NEW c \in Clients, ReadCB(c)
      PROVE  LinkInv'
  <2>1. /\ outbox[c] # <<>> /\ outbox'[c] = <<>>
        /\ \A d \in Clients : d # c => outbox'[d] = outbox[d]
    BY <1>5 DEF ReadCB, LinkInv, TypeOK
  <2>2. requests' \subseteq requests \cup {Head(outbox[c])}
    BY <1>5 DEF ReadCB
  <2>3. Head(outbox[c]).from = c /\ Head(outbox[c]).conn = conn[c]
    BY <2>1 DEF LinkInv
  <2>4. conn[c] <= conn[c]
    BY Fields
  <2> QED
    BY <1>5, <2>1, <2>2, <2>3, <2>4 DEF ReadCB, LinkInv
<1>6. ASSUME NEW m \in requests, Login(m)
      PROVE  LinkInv'
  <2>1. PICK t : /\ replies'.sent = replies.sent \cup {Answer(m, t)}
                 /\ replies'.cached = replies.cached
    BY <1>6, LoginAnswers
  <2>2. Answer(m, t).to = m.from /\ Answer(m, t).conn = m.conn
    BY DEF Answer
  <2>3. requests' \subseteq requests /\ UNCHANGED <<conn, outbox>>
    BY <1>6 DEF Login
  <2> QED
    BY <2>1, <2>2, <2>3 DEF LinkInv
<1>7. ASSUME NEW m \in requests, AddUser(m) \/ ChangePassword(m)
      PROVE  LinkInv'
  BY <1>7 DEF AddUser, ChangePassword, LinkInv
<1>8. ASSUME NEW r \in replies.sent, Cache(r)
      PROVE  LinkInv'
  BY <1>8 DEF Cache, LinkInv
<1>9. ASSUME NEW r \in replies.cached, LoginRes(r)
      PROVE  LinkInv'
  <2>1. replies'.sent = replies.sent /\ replies'.cached \subseteq replies.cached
    BY <1>9 DEF LoginRes, TypeOK
  <2> QED
    BY <1>9, <2>1 DEF LoginRes, LinkInv
<1>10. ASSUME UNCHANGED <<requests, replies, conn, outbox>>
       PROVE  LinkInv'
  BY <1>10 DEF LinkInv
<1>11. ASSUME NEW c \in Clients, LoginReturns(c) \/ LoginTimesOut(c)
       PROVE  LinkInv'
  BY <1>10, <1>11 DEF LoginReturns, LoginTimesOut
<1>12. CASE Tick \/ Expire \/ UNCHANGED vars
  BY <1>10, <1>12 DEF Tick, Expire, vars
<1> QED
  BY <1>2, <1>3, <1>4, <1>5, <1>6, <1>7, <1>8, <1>9, <1>11, <1>12, Bounds DEF Next

\* A step that concerns another client.
LEMMA SameAttempt ==
  ASSUME NEW c \in Clients, AttemptInv(c), outbox'[c] = outbox[c], wait'[c] = wait[c],
         login_map'[c] = login_map[c], cur_user'[c] = cur_user[c], login'[c] = login[c],
         try'[c] = try[c], Asked(c)' = Asked(c), Given(c)' = Given(c), Shown(c)' = Shown(c)
  PROVE  AttemptInv(c)'
BY DEF AttemptInv, Own, Stored, Posted

\* A step after which no login of the client is under way.
LEMMA QuietAttempt ==
  ASSUME NEW c \in Clients, ~Posted(c)', Asked(c)' = {}, Given(c)' = {}, Shown(c)' = {},
         wait'[c] /\ Stored(c)' # NoToken => login'[c] = Stored(c)' /\ Own(c, Stored(c))'
  PROVE  AttemptInv(c)'
BY DEF AttemptInv

LEMMA GoodUser ==
  ASSUME TypeOK
  PROVE  \A r \in replies.sent \cup replies.cached :
           /\ r.token \in Cached /\ r.token # NoToken
           /\ r.token.user # NoUser <=> r.token.user \in Users
<1>1. \A r \in replies.sent \cup replies.cached : r.token \in Cached
  BY DEF TypeOK, Answers, Cached
<1> QED
  BY <1>1, Bounds, Kinds DEF Cached

\* The router reads a login: it is with the service now.
LEMMA ReadAttempt ==
  ASSUME TypeOK, LinkInv, Attempted, NEW d \in Clients, ReadCB(d)
  PROVE  Attempted'
<1> USE DEF clock, service, gateway, links, clients
<1> DEFINE m == Head(outbox[d])
<1>1. m \in Requests /\ m.from = d /\ m.conn = conn[d] /\ outbox'[d] = <<>>
  BY Unqueued DEF ReadCB, LinkInv, TypeOK
<1>2. \A c \in Clients : c # d => outbox'[c] = outbox[c]
  BY DEF ReadCB, TypeOK
<1>3. /\ UNCHANGED <<conn, replies, wait, login_map, cur_user, login, try, timedOut>>
      /\ requests' = requests \cup {m} \/ requests' = requests
      /\ m.kind = "login" => requests' = requests \cup {m}
      /\ Posted(d) <=> m.kind = "login"
  BY DEF ReadCB, Posted
<1> HIDE DEF m
<1> SUFFICES ASSUME NEW c \in Clients, ~timedOut[c] PROVE AttemptInv(c)'
  BY <1>3 DEF Attempted
<1>4. AttemptInv(c)
  BY DEF Attempted
<1>5. Given(c)' = Given(c) /\ Shown(c)' = Shown(c)
  BY <1>3 DEF Given, Shown, Good
<1>6. CASE c # d
  <2>1. Asked(c)' = Asked(c)
    BY <1>1, <1>3, <1>6 DEF Asked
  <2> QED
    BY <1>2, <1>3, <1>4, <1>5, <1>6, <2>1, SameAttempt
<1>7. CASE c = d /\ m.kind = "login"
  <2>1. Posted(c)
    BY <1>3, <1>7
  <2>2. /\ Asked(c) = {} /\ Given(c) = {} /\ Shown(c) = {} /\ wait[c] /\ Stored(c) = NoToken
        /\ m.user = cur_user[c] /\ m.try = try[c]
    BY <1>4, <1>7, <2>1 DEF AttemptInv, m
  <2>3. Asked(c)' = {m}
    BY <1>1, <1>3, <1>7, <2>2 DEF Asked
  <2>4. ~Posted(c)'
    BY <1>1, <1>7 DEF Posted
  <2> QED
    BY <1>3, <1>5, <2>2, <2>3, <2>4 DEF AttemptInv, Own, Stored
<1>8. CASE c = d /\ m.kind # "login"
  <2>1. Asked(c)' = Asked(c)
    BY <1>1, <1>3, <1>8 DEF Asked
  <2>2. ~Posted(c) /\ ~Posted(c)'
    BY <1>1, <1>3, <1>8 DEF Posted
  <2> QED
    BY <1>3, <1>4, <1>5, <2>1, <2>2 DEF AttemptInv, Own, Stored
<1> QED
  BY <1>6, <1>7, <1>8

\* The service answers a login.
LEMMA LoginAttempt ==
  ASSUME TypeOK, LinkInv, Attempted, NEW m \in requests, Login(m)
  PROVE  Attempted'
<1> USE DEF clock, service, gateway, links, clients
<1>1. PICK t \in Cached : /\ t = Token(m) \/ t = Refusal(NoUser) \/ t = Refusal(m.user)
                          /\ replies'.sent = replies.sent \cup {Answer(m, t)}
                          /\ replies'.cached = replies.cached
  BY LoginAnswers
<1> DEFINE r == Answer(m, t)
<1>2. /\ r.to = m.from /\ r.conn = m.conn /\ r.token = t /\ r \in Answers
      /\ m \in Requests /\ m.kind = "login"
  BY <1>1, Fields, AnswerIsAnswer DEF Answer, Login
<1>3. /\ t.user # NoUser => t.user = m.user
      /\ t \in Tokens => t.from = m.from /\ t.try = m.try
  <2>1. m.user \in Users
    BY <1>2 DEF Requests
  <2>2. t = Refusal(NoUser) \/ t = Refusal(m.user) => t \notin Tokens /\ (t.user = NoUser \/ t.user = m.user)
    BY <2>1, Kinds
  <2>3. t = Token(m) => t.from = m.from /\ t.try = m.try /\ t.user = m.user
    BY DEF Token
  <2> QED
    BY <1>1, <2>2, <2>3
<1>4. /\ UNCHANGED <<conn, outbox, wait, login_map, cur_user, login, try, timedOut>>
      /\ requests' = requests \ {m}
  BY DEF Login
<1> HIDE DEF r
<1> SUFFICES ASSUME NEW c \in Clients, ~timedOut[c] PROVE AttemptInv(c)'
  BY <1>4 DEF Attempted
<1>5. AttemptInv(c)
  BY DEF Attempted
<1>6. Shown(c)' = Shown(c) /\ Good(c)' = Good(c) /\ Posted(c)' = Posted(c)
  BY <1>1, <1>4 DEF Shown, Good, Posted
<1>7. CASE m \in Asked(c)
  <2>1. /\ m.from = c /\ m.conn = conn[c] /\ Asked(c) = {m} /\ Given(c) = {} /\ Shown(c) = {}
        /\ ~Posted(c) /\ wait[c] /\ Stored(c) = NoToken /\ m.user = cur_user[c] /\ m.try = try[c]
    BY <1>5, <1>7 DEF AttemptInv, Asked
  <2>2. Asked(c)' = {}
    BY <1>4, <2>1 DEF Asked
  <2>3. Given(c)' = IF t.user # NoUser THEN {r} ELSE {}
    BY <1>1, <1>2, <1>6, <2>1 DEF Given, Good, r
  <2> QED
    BY <1>2, <1>3, <1>4, <1>6, <2>1, <2>2, <2>3 DEF AttemptInv, Own, Stored
<1>8. CASE m \notin Asked(c)
  <2>1. Asked(c)' = Asked(c)
    BY <1>4, <1>8 DEF Asked
  <2>2. r \notin Good(c)
    BY <1>2, <1>8 DEF Good, Asked
  <2>3. Given(c)' = Given(c)
    BY <1>1, <1>6, <2>2 DEF Given, r
  <2> QED
    BY <1>4, <1>5, <1>6, <2>1, <2>3, SameAttempt
<1> QED
  BY <1>7, <1>8

\* The gateway caches an answer.
LEMMA CacheAttempt ==
  ASSUME TypeOK, Attempted, NEW r \in replies.sent, Cache(r)
  PROVE  Attempted'
<1> USE DEF clock, service, gateway, links, clients
<1>1. /\ replies'.sent = replies.sent \ {r} /\ replies'.cached = replies.cached \cup {r}
      /\ UNCHANGED <<conn, outbox, requests, wait, login_map, cur_user, login, try, timedOut>>
  BY DEF Cache
<1> SUFFICES ASSUME NEW c \in Clients, ~timedOut[c] PROVE AttemptInv(c)'
  BY <1>1 DEF Attempted
<1>2. AttemptInv(c)
  BY DEF Attempted
<1>3. Asked(c)' = Asked(c) /\ Good(c)' = Good(c) /\ Posted(c)' = Posted(c)
  BY <1>1 DEF Asked, Good, Posted
<1>4. CASE r \in Good(c)
  <2>1. r \in Given(c)
    BY <1>4 DEF Given
  <2>2. /\ Given(c) = {r} /\ Shown(c) = {} /\ Asked(c) = {} /\ ~Posted(c)
        /\ wait[c] /\ Stored(c) = NoToken
        /\ r.token.user = cur_user[c] /\ Own(c, r.token)
    BY <1>2, <2>1 DEF AttemptInv
  <2>3. Given(c)' = {} /\ Shown(c)' = {r}
    BY <1>1, <1>3, <1>4, <2>2 DEF Given, Shown
  <2> QED
    BY <1>1, <1>3, <2>2, <2>3 DEF AttemptInv, Own, Stored
<1>5. CASE r \notin Good(c)
  <2>1. Given(c)' = Given(c) /\ Shown(c)' = Shown(c)
    BY <1>1, <1>3, <1>5 DEF Given, Shown
  <2> QED
    BY <1>1, <1>2, <1>3, <2>1, SameAttempt
<1> QED
  BY <1>4, <1>5

\* An answer comes to its client, or is dropped.
LEMMA ResAttempt ==
  ASSUME TypeOK, Attempted, NEW r \in replies.cached, LoginRes(r)
  PROVE  Attempted'
<1> USE DEF clock, service, gateway, links, clients
<1>1. /\ replies'.sent = replies.sent /\ replies'.cached = replies.cached \ {r}
      /\ UNCHANGED <<conn, outbox, requests, wait, cur_user, try, timedOut>>
  BY DEF LoginRes, TypeOK
<1>2. r \in Answers /\ r.to \in Clients
  BY Fields
<1> SUFFICES ASSUME NEW c \in Clients, ~timedOut[c] PROVE AttemptInv(c)'
  BY <1>1 DEF Attempted
<1>3. AttemptInv(c)
  BY DEF Attempted
<1>4. /\ Asked(c)' = Asked(c) /\ Good(c)' = Good(c) /\ Posted(c)' = Posted(c)
      /\ Given(c)' = Given(c)
  BY <1>1 DEF Asked, Good, Posted, Given
<1>5. CASE r \in Good(c)
  <2>1. r \in Shown(c) /\ r.to = c /\ r.conn = conn[c] /\ r.token.user # NoUser
    BY <1>5 DEF Shown, Good
  <2>2. /\ Given(c) = {} /\ Shown(c) = {r} /\ Asked(c) = {} /\ ~Posted(c)
        /\ r.token.user = cur_user[c] /\ Own(c, r.token)
    BY <1>3, <2>1 DEF AttemptInv
  <2>3. Shown(c)' = {}
    BY <1>1, <1>4, <2>2 DEF Shown
  <2>4. r.token.user # NoUser /\ r.token.user \in Users
    BY <2>1, GoodUser
  <2>5. /\ login_map' = [login_map EXCEPT ![c][r.token.user] = r.token]
        /\ login' = [login EXCEPT ![c] = r.token]
    BY <2>1, <2>4 DEF LoginRes
  <2>6. login_map'[c][r.token.user] = r.token /\ login'[c] = r.token
    BY <2>4, <2>5 DEF TypeOK
  <2>7. Stored(c)' = r.token
    BY <1>1, <2>2, <2>6 DEF Stored
  <2> QED
    BY <1>1, <1>4, <2>2, <2>3, <2>6, <2>7, QuietAttempt DEF Own
<1>6. CASE r \notin Good(c)
  <2>1. Shown(c)' = Shown(c)
    BY <1>1, <1>4, <1>6 DEF Shown
  <2>2. r.to # c \/ r.conn # conn[c] \/ r.token.user = NoUser
    BY <1>2, <1>6 DEF Good
  <2>3. login_map'[c] = login_map[c] /\ login'[c] = login[c]
    <3>1. CASE r.conn = conn[r.to] /\ r.token.user # NoUser
      <4>1. r.to # c
        BY <2>2, <3>1, GoodUser
      <4> QED
        BY <1>2, <3>1, <4>1 DEF LoginRes, TypeOK
    <3>2. CASE ~(r.conn = conn[r.to] /\ r.token.user # NoUser)
      BY <3>2 DEF LoginRes
    <3> QED
      BY <3>1, <3>2
  <2> QED
    BY <1>1, <1>3, <1>4, <2>1, <2>3, SameAttempt
<1> QED
  BY <1>5, <1>6

\* A new connection has nothing of the old one.
LEMMA BreakAttempt ==
  ASSUME TypeOK, LinkInv, Attempted, NEW d \in Clients, Break(d)
  PROVE  Attempted'
<1> USE DEF clock, service, gateway, links, clients
<1>1. /\ UNCHANGED <<requests, wait, login_map, cur_user, login, try>>
      /\ replies'.sent = replies.sent
      /\ replies'.cached = {r \in replies.cached : r.to # d}
  BY DEF Break, TypeOK
<1>2. /\ \A c \in Clients : c # d => /\ conn'[c] = conn[c] /\ outbox'[c] = outbox[c]
                                     /\ timedOut'[c] = timedOut[c]
      /\ conn'[d] = conn[d] + 1 /\ outbox'[d] = <<>>
      /\ timedOut'[d] <=> timedOut[d] /\ wait[d]
  <2>1. /\ \A c \in Clients : c # d => /\ conn'[c] = conn[c] /\ outbox'[c] = outbox[c]
                                       /\ timedOut'[c] = timedOut[c]
        /\ conn'[d] = conn[d] + 1 /\ outbox'[d] = <<>>
    BY DEF Break, TypeOK
  <2>2. timedOut' = [timedOut EXCEPT ![d] = timedOut[d] /\ wait[d]]
    BY DEF Break
  <2>3. timedOut'[d] = (timedOut[d] /\ wait[d])
    BY <2>2 DEF TypeOK
  <2> QED
    BY <2>1, <2>3
<1> SUFFICES ASSUME NEW c \in Clients, ~timedOut'[c] PROVE AttemptInv(c)'
  BY DEF Attempted
<1>3. CASE c # d
  <2>1. AttemptInv(c)
    BY <1>2, <1>3 DEF Attempted
  <2>2. Asked(c)' = Asked(c) /\ Good(c)' = Good(c)
    BY <1>1, <1>2, <1>3 DEF Asked, Good
  <2>3. Given(c)' = Given(c) /\ Shown(c)' = Shown(c)
    BY <1>1, <1>3, <2>2 DEF Given, Shown, Good
  <2> QED
    BY <1>1, <1>2, <1>3, <2>1, <2>2, <2>3, SameAttempt
<1>4. CASE c = d
  <2>1. \A n \in Nat : n <= conn[c] => n # conn'[c]
    BY <1>2, <1>4, Fields
  <2>2. Asked(c)' = {}
    BY <1>1, <2>1, Fields DEF LinkInv, Asked
  <2>3. Given(c)' = {} /\ Shown(c)' = {}
    BY <1>1, <2>1, Fields DEF LinkInv, Given, Shown, Good
  <2>4. ~Posted(c)'
    BY <1>2, <1>4 DEF Posted
  <2>5. wait[c] => AttemptInv(c)
    BY <1>2, <1>4 DEF Attempted
  <2>6. wait[c] /\ Stored(c) # NoToken => login[c] = Stored(c) /\ Own(c, Stored(c))
    BY <2>5 DEF AttemptInv
  <2>7. Stored(c)' = Stored(c)
    BY <1>1 DEF Stored
  <2> QED
    BY <1>1, <2>2, <2>3, <2>4, <2>6, <2>7, QuietAttempt DEF Own
<1> QED
  BY <1>3, <1>4

\* The client writes a request, its first on the way.
LEMMA AskAttempt ==
  ASSUME TypeOK, Attempted, NEW d \in Clients, NEW m \in Requests, outbox[d] = <<>>, ~wait[d],
         outbox' = [outbox EXCEPT ![d] = Append(@, m)],
         UNCHANGED <<requests, replies, conn, timedOut>>,
         \A c \in Clients : c # d => /\ wait'[c] = wait[c] /\ login_map'[c] = login_map[c]
                                     /\ cur_user'[c] = cur_user[c] /\ login'[c] = login[c]
                                     /\ try'[c] = try[c],
         IF m.kind = "login"
         THEN wait'[d] /\ Stored(d)' = NoToken /\ m.user = cur_user'[d] /\ m.try = try'[d]
         ELSE ~wait'[d]
  PROVE  Attempted'
<1> SUFFICES ASSUME NEW c \in Clients, ~timedOut[c] PROVE AttemptInv(c)'
  BY DEF Attempted
<1>1. AttemptInv(c)
  BY DEF Attempted
<1>2. Asked(c)' = Asked(c) /\ Given(c)' = Given(c) /\ Shown(c)' = Shown(c)
  BY DEF Asked, Given, Shown, Good
<1>3. CASE c # d
  BY <1>1, <1>2, <1>3, PutOne, SameAttempt
<1>4. CASE c = d
  <2>1. Asked(c) = {} /\ Given(c) = {} /\ Shown(c) = {}
    BY <1>1, <1>4 DEF AttemptInv
  <2>2. outbox'[c] # <<>> /\ Head(outbox'[c]) = m
    BY <1>4, PutOne
  <2>3. Posted(c)' <=> m.kind = "login"
    BY <2>2 DEF Posted
  <2> QED
    BY <1>2, <1>4, <2>1, <2>2, <2>3 DEF AttemptInv
<1> QED
  BY <1>3, <1>4

LEMMA AttemptStep == TypeOK /\ LinkInv /\ Attempted /\ [Next]_vars => Attempted'
<1> SUFFICES ASSUME TypeOK, LinkInv, Attempted, [Next]_vars PROVE Attempted'
  OBVIOUS
<1> USE DEF clock, service, gateway, links, clients
<1>1. ASSUME NEW d \in Clients, NEW u \in Users, NEW p \in Passwords, LoginReq(d, u, p)
      PROVE  Attempted'
  <2> DEFINE m == Request(d, try[d] + 1, "login", u, p)
  <2>1. try[d] + 1 \in Nat
    BY DEF TypeOK
  <2>2. m \in Requests /\ m.kind = "login" /\ m.user = u /\ m.try = try[d] + 1
    BY <2>1, RequestIsRequest, RequestFields
  <2>3. /\ outbox[d] = <<>> /\ ~wait[d] /\ outbox' = [outbox EXCEPT ![d] = Append(@, m)]
        /\ UNCHANGED <<requests, replies, conn, timedOut, login>>
    BY <1>1 DEF LoginReq
  <2> HIDE DEF m
  <2>4. \A c \in Clients : c # d => /\ wait'[c] = wait[c] /\ login_map'[c] = login_map[c]
                                    /\ cur_user'[c] = cur_user[c] /\ try'[c] = try[c]
    BY <1>1 DEF LoginReq, TypeOK
  <2>5. /\ login_map' = [login_map EXCEPT ![d][u] = NoToken] /\ cur_user'[d] = u
        /\ try'[d] = try[d] + 1 /\ wait'[d]
    BY <1>1 DEF LoginReq, TypeOK
  <2>6. login_map'[d][u] = NoToken
    BY <2>5 DEF TypeOK
  <2>7. Stored(d)' = NoToken
    BY <2>5, <2>6 DEF Stored
  <2> QED
    BY <2>2, <2>3, <2>4, <2>5, <2>7, AskAttempt
<1>2. ASSUME NEW d \in Clients, NEW k \in {"add", "change"}, NEW u \in Users,
             NEW p \in Passwords, Ask(d, k, u, p)
      PROVE  Attempted'
  <2> DEFINE m == Request(d, 0, k, u, p)
  <2>1. m \in Requests /\ m.kind # "login"
    BY RequestIsRequest, RequestFields
  <2>2. /\ outbox[d] = <<>> /\ ~wait[d] /\ outbox' = [outbox EXCEPT ![d] = Append(@, m)]
        /\ UNCHANGED <<requests, replies, conn, timedOut, login, wait, login_map, cur_user, try>>
    BY <1>2 DEF Ask
  <2> HIDE DEF m
  <2> QED
    BY <2>1, <2>2, AskAttempt
<1>3. ASSUME NEW d \in Clients, LoginReturns(d) \/ LoginTimesOut(d)
      PROVE  Attempted'
  <2>1. /\ UNCHANGED <<requests, replies, conn, outbox, login_map, cur_user, login, try>>
        /\ wait' = [wait EXCEPT ![d] = FALSE]
        /\ \A c \in Clients : c # d => timedOut'[c] = timedOut[c]
        /\ timedOut'[d] \/ (timedOut'[d] = timedOut[d] /\ wait[d] /\ Stored(d) # NoToken)
    BY <1>3 DEF LoginReturns, LoginTimesOut, TypeOK, Stored
  <2> SUFFICES ASSUME NEW c \in Clients, ~timedOut'[c] PROVE AttemptInv(c)'
    BY DEF Attempted
  <2>2. AttemptInv(c)
    BY <2>1 DEF Attempted
  <2>3. /\ Asked(c)' = Asked(c) /\ Given(c)' = Given(c) /\ Shown(c)' = Shown(c)
        /\ Posted(c)' = Posted(c)
    BY <2>1 DEF Asked, Given, Shown, Good, Posted
  <2>4. CASE c # d
    <3>1. wait'[c] = wait[c]
      BY <2>1, <2>4 DEF TypeOK
    <3> QED
      BY <2>1, <2>2, <2>3, <3>1, SameAttempt
  <2>5. CASE c = d
    <3>1. ~Posted(c) /\ Asked(c) = {} /\ Given(c) = {} /\ Shown(c) = {}
      BY <2>1, <2>2, <2>5 DEF AttemptInv
    <3>2. ~wait'[c]
      BY <2>1, <2>5 DEF TypeOK
    <3> QED
      BY <2>3, <3>1, <3>2, QuietAttempt
  <2> QED
    BY <2>4, <2>5
<1>4. ASSUME UNCHANGED <<links, clients, replies>>,
             \A c \in Clients : Asked(c)' = Asked(c)
      PROVE  Attempted'
  <2> SUFFICES ASSUME NEW c \in Clients, ~timedOut[c] PROVE AttemptInv(c)'
    BY <1>4 DEF Attempted
  <2>1. AttemptInv(c)
    BY DEF Attempted
  <2>2. Given(c)' = Given(c) /\ Shown(c)' = Shown(c)
    BY <1>4 DEF Given, Shown, Good
  <2> QED
    BY <1>4, <2>1, <2>2, SameAttempt
<1>5. ASSUME NEW m \in requests, AddUser(m) \/ ChangePassword(m)
      PROVE  Attempted'
  <2>1. /\ UNCHANGED <<links, clients, replies>>
        /\ m.kind # "login" /\ requests' = requests \ {m}
    BY <1>5 DEF AddUser, ChangePassword
  <2>2. \A c \in Clients : Asked(c)' = Asked(c)
    BY <2>1 DEF Asked
  <2> QED
    BY <1>4, <2>1, <2>2
<1>6. CASE Tick \/ Expire \/ UNCHANGED vars
  <2>1. UNCHANGED <<links, clients, replies, requests>>
    BY <1>6 DEF Tick, Expire, vars
  <2>2. \A c \in Clients : Asked(c)' = Asked(c)
    BY <2>1 DEF Asked
  <2> QED
    BY <1>4, <2>1, <2>2
<1> QED
  BY <1>1, <1>2, <1>3, <1>5, <1>6, ReadAttempt, LoginAttempt, CacheAttempt, ResAttempt,
     BreakAttempt, Bounds DEF Next

\* The answer Login returns is the one to its own request, for any clients,
\* passwords and lost connections, unless the client gave up on an earlier one
\* on the same connection.
THEOREM AnswerIsOfAttemptHolds == Spec => []AnswerIsOfAttempt
<1>1. Init => LinkInv /\ Attempted
  BY DEF Init, LinkInv, Attempted, AttemptInv, Posted, Asked, Given, Shown
<1>2. TypeOK /\ Attempted => AnswerIsOfAttempt
  BY DEF TypeOK, Attempted, AttemptInv, Own, Stored, AnswerIsOfAttempt
<1> QED
  BY <1>1, <1>2, LinkStep, AttemptStep, TypeCorrect, PTL DEF Spec
=============================================================================
