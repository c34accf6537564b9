-------------------------------- MODULE Auth --------------------------------
(***************************************************************************)
(* Logging in through the gateway.  A client (xauth/xauth_client.cpp) asks *)
(* for a token and waits for it; its router (xms_gateway/                  *)
(* xrouter_handle.cpp) lets a login pass and anything else only with a     *)
(* token the gateway has cached; the authentication service (xauth/        *)
(* xauth_handle.cpp, xauth_dao.cpp) checks the password and keeps users    *)
(* and tokens in two tables; the answer passes XAuthProxy                  *)
(* (xms_gateway/xauth_proxy.cpp), which caches the token and whose thread  *)
(* erases expired ones about once a second.                                *)
(* The way of a request through the gateway is modelled by Gateway; here   *)
(* requests and answers overtake each other freely, and an answer whose    *)
(* client is gone is dropped.  The model is one life of the gateway (a new *)
(* one starts with an empty cache), and no router gets the address of one  *)
(* that was deleted.                                                       *)
(***************************************************************************)
EXTENDS Naturals, Sequences

CONSTANTS
  Clients, Users,
  Root,        \* the user that Init of XAuthDao adds
  NoUser,      \* the empty user name
  Passwords,
  FirstPassword,
  NoPassword,  \* no row in xms_auth
  NoToken,     \* the empty token, and what is nowhere stored
  Attempts,    \* who logs in as which user and with which password
  Edits,       \* who adds which user and changes which password
  TimeoutSec,  \* seconds a token is valid
  MaxLate,     \* bound: seconds that begin between two rounds of the expiry thread
  MaxTime, MaxChanges, \* bounds
  MaxFaults,   \* bound: lost connections and failed statements together
  MaxLogins    \* [Clients -> Nat] bound

\* Tokens as the service makes them, with the login they answer.
Tokens ==
  [from : Clients, try : Nat, user : Users, expired_time : Nat]

\* The XLoginRes of a login that failed: every one has the same text for a
\* token and no expiry, and the user name only if the password was right.
Refusal(u) == [from |-> NoUser, try |-> 0, user |-> u, expired_time |-> 0]
Refusals == {Refusal(u) : u \in Users \cup {NoUser}}

\* A password as it is sent and stored: the text, hashed or not.
Secrets == [text : Passwords, md5 : BOOLEAN]

ASSUME ConstantsAssumption ==
  /\ Root \in Users /\ NoUser \notin Users \cup Clients
  /\ FirstPassword \in Passwords /\ NoPassword \notin Secrets
  /\ NoToken \notin Tokens \cup Refusals
  /\ Attempts \subseteq Clients \X Users \X Passwords
  /\ Edits \subseteq Clients \X {"add", "change"} \X Users \X Passwords
  /\ TimeoutSec \in Nat /\ MaxLate \in Nat /\ MaxTime \in Nat
  /\ MaxChanges \in Nat /\ MaxFaults \in Nat
  /\ MaxLogins \in [Clients -> Nat]

VARIABLES
  now,          \* time(0)
  late,         \* seconds begun since the expiry thread's last round
  xms_auth,     \* [Users -> secret] the table of users
  xms_token,    \* the table of tokens
  granted,      \* history: every token ever inserted
  requests,     \* on the way to the service, past the router's check
  replies,      \* answers to logins: on the way to the gateway, or to the client
  token_cache,  \* the gateway's cache, one entry per token
  outbox,       \* [Clients -> requests on their way to the router] (at most one)
  conn,         \* [Clients -> Nat] number of the connection to the gateway
  wait,         \* [Clients -> BOOLEAN] inside GetLoginInfo
  cur_user,     \* [Clients -> user] cur_user_name_
  login_map,    \* [Clients -> [Users -> answer or NoToken]] login_map_
  login,        \* [Clients -> answer or NoToken] what SetHead puts into each head
  try,          \* [Clients -> Nat] number of the last LoginReq
  timedOut,     \* [Clients -> BOOLEAN] history: an answer may still come late
  fresh,        \* history: the tokens cached since the expiry thread's last round
  changes, faults

clock == <<now, late>>
service == <<xms_auth, xms_token, granted, changes>>
gateway == <<requests, replies, token_cache, fresh>>
links == <<outbox, conn>>
clients == <<wait, cur_user, login_map, login, try, timedOut>>
vars == <<clock, service, gateway, links, clients, faults>>

\* LoginReq and AddUserReq hash the password, ChangePasswordReq does not.
Request(c, n, kind, u, p) ==
  [from |-> c, conn |-> conn[c], try |-> n, kind |-> kind, user |-> u,
   password |-> [text |-> p, md5 |-> kind # "change"], token |-> login[c]]

Init ==
  /\ now = 1 /\ late = 0
  /\ xms_auth = [u \in Users |->
       IF u = Root THEN [text |-> FirstPassword, md5 |-> TRUE] ELSE NoPassword]
  /\ xms_token = {} /\ granted = {} /\ requests = {} /\ token_cache = {}
  /\ replies = [sent |-> {}, cached |-> {}]
  /\ outbox = [c \in Clients |-> <<>>]
  /\ conn = [c \in Clients |-> 0] /\ try = [c \in Clients |-> 0]
  /\ wait = [c \in Clients |-> FALSE] /\ timedOut = [c \in Clients |-> FALSE]
  /\ cur_user = [c \in Clients |-> NoUser]
  /\ login_map = [c \in Clients |-> [u \in Users |-> NoToken]]
  /\ login = [c \in Clients |-> NoToken]
  /\ fresh = {}
  /\ changes = 0 /\ faults = 0

\* A connection is lost, or the database fails to execute a statement.
Fault == faults < MaxFaults /\ faults' = faults + 1
-----------------------------------------------------------------------------
(* Time and the expiry thread.                                             *)

\* A second begins.  The thread sleeps for one second between two rounds, so
\* that at most MaxLate begin without a round.
Tick ==
  /\ now < MaxTime /\ late < MaxLate
  /\ now' = now + 1 /\ late' = late + 1
  /\ UNCHANGED <<service, gateway, links, clients, faults>>

ExpireTwice ==
  /\ late > 0
  /\ late' = 0
  /\ token_cache' = {t \in token_cache : t.expired_time + 2 >= now}
  /\ fresh' = {}
  /\ UNCHANGED <<now, service, requests, replies, links, clients, faults>>

ExpireAtOnce ==
  /\ late > 0
  /\ late' = 0
  /\ token_cache' = {t \in token_cache : t.expired_time > now}
  /\ fresh' = {}
  /\ UNCHANGED <<now, service, requests, replies, links, clients, faults>>

\* A round of TokenThread::Main: entries with expired_time < time(0) go.
Expire ==
  /\ late > 0
  /\ late' = 0
  /\ token_cache' = {t \in token_cache : t.expired_time >= now}
  /\ fresh' = {}
  /\ UNCHANGED <<now, service, requests, replies, links, clients, faults>>
-----------------------------------------------------------------------------
(* The client's threads.                                                   *)

LoginReqKeep(c, u, p) ==
  /\ ~wait[c] /\ outbox[c] = <<>> /\ try[c] < MaxLogins[c]
  /\ cur_user' = [cur_user EXCEPT ![c] = u]
  /\ try' = [try EXCEPT ![c] = @ + 1]
  /\ wait' = [wait EXCEPT ![c] = TRUE]
  /\ outbox' = [outbox EXCEPT ![c] = Append(@, Request(c, try[c] + 1, "login", u, p))]
  /\ UNCHANGED <<clock, service, gateway, conn, login_map, login, timedOut, faults>>

\* XAuthClient::Login: forgets the last answer for the user, sends the
\* request and starts to wait.
LoginReq(c, u, p) ==
  /\ ~wait[c] /\ outbox[c] = <<>> /\ try[c] < MaxLogins[c]
  /\ cur_user' = [cur_user EXCEPT ![c] = u]
  /\ try' = [try EXCEPT ![c] = @ + 1]
  /\ wait' = [wait EXCEPT ![c] = TRUE]
  /\ login_map' = [login_map EXCEPT ![c][u] = NoToken]
  /\ outbox' = [outbox EXCEPT ![c] = Append(@, Request(c, try[c] + 1, "login", u, p))]
  /\ UNCHANGED <<clock, service, gateway, conn, login, timedOut, faults>>

\* GetLoginInfo finds an entry, and Login returns it, or an error if the entry
\* is a refusal.
LoginReturns(c) ==
  /\ wait[c] /\ login_map[c][cur_user[c]] # NoToken
  /\ wait' = [wait EXCEPT ![c] = FALSE]
  /\ UNCHANGED <<clock, service, gateway, links, cur_user, login_map, login, try, timedOut, faults>>

\* It gives up: no answer yet, or a refusal without a user name, which leaves
\* no entry.
LoginTimesOut(c) ==
  /\ wait[c] /\ login_map[c][cur_user[c]] = NoToken
  /\ wait' = [wait EXCEPT ![c] = FALSE]
  /\ timedOut' = [timedOut EXCEPT ![c] = TRUE]
  /\ UNCHANGED <<clock, service, gateway, links, cur_user, login_map, login, try, faults>>

\* AddUserReq and ChangePasswordReq; SetHead adds the token of the last login.
Ask(c, kind, u, p) ==
  /\ ~wait[c] /\ outbox[c] = <<>> /\ changes < MaxChanges
  /\ changes' = changes + 1
  /\ outbox' = [outbox EXCEPT ![c] = Append(@, Request(c, 0, kind, u, p))]
  /\ UNCHANGED <<clock, xms_auth, xms_token, granted, gateway, conn, clients, faults>>

\* The connection of a client to the gateway is lost and made again: what is
\* under way on it is lost, and its old router is gone, so that the answers to
\* what it asked are dropped after the cache has seen them.
Break(c) ==
  /\ Fault
  /\ conn' = [conn EXCEPT ![c] = @ + 1]
  /\ outbox' = [outbox EXCEPT ![c] = <<>>]
  /\ timedOut' = [timedOut EXCEPT ![c] = @ /\ wait[c]]
  /\ replies' = [replies EXCEPT !.cached = {r \in @ : r.to # c}]
  /\ UNCHANGED <<clock, service, requests, token_cache, fresh, wait, cur_user, login_map, login, try>>
-----------------------------------------------------------------------------
(* The gateway.                                                            *)

CheckTokenNone(t) == TRUE

\* The token is not empty and is in the cache, with the user and the role of
\* the head, which SetHead takes from the same answer.  Neither expired_time
\* nor whether the answer was a refusal is looked at.
CheckToken(t) == t # NoToken /\ t \in token_cache

\* XRouterHandle::ReadCB: a login passes, a request with a good token passes,
\* any other is dropped without an answer.
ReadCB(c) ==
  /\ outbox[c] # <<>>
  /\ outbox' = [outbox EXCEPT ![c] = Tail(@)]
  /\ LET m == Head(outbox[c]) IN
     requests' = IF m.kind = "login" \/ CheckToken(m.token) THEN requests \cup {m} ELSE requests
  /\ UNCHANGED <<clock, service, replies, token_cache, fresh, conn, clients, faults>>

\* XAuthProxy::ReadCB caches every login answer by its token, a refusal too;
\* only then it goes on to the client.  All refusals have one text, so that
\* each replaces the one before.
Cache(r) ==
  /\ r \in replies.sent
  /\ token_cache' =
       {t \in token_cache : ~(t \in Refusals /\ r.token \in Refusals)} \cup {r.token}
  /\ fresh' = fresh \cup {r.token}
  /\ replies' = [sent |-> replies.sent \ {r}, cached |-> replies.cached \cup {r}]
  /\ UNCHANGED <<clock, service, requests, links, clients, faults>>

\* The answer is relayed, if the router of its request is still there, and
\* XAuthClient::LoginRes stores it; one without a user name changes nothing,
\* but a refusal with one is stored like a token.
LoginRes(r) ==
  /\ r \in replies.cached
  /\ replies' = [replies EXCEPT !.cached = @ \ {r}]
  /\ IF r.conn = conn[r.to] /\ r.token.user # NoUser
     THEN /\ login_map' = [login_map EXCEPT ![r.to][r.token.user] = r.token]
          /\ login' = [login EXCEPT ![r.to] = r.token]
     ELSE UNCHANGED <<login_map, login>>
  /\ UNCHANGED <<clock, service, requests, token_cache, fresh, links, wait, cur_user, try, timedOut, faults>>
-----------------------------------------------------------------------------
(* The authentication service, each operation under auth_mutex.            *)

AnswerUser(m, t) == [to |-> m.user, conn |-> m.conn, token |-> t]

Answer(m, t) == [to |-> m.from, conn |-> m.conn, token |-> t]

\* The row that a login inserts; UUID() makes a token nobody else has.
Token(m) ==
  [from |-> m.from, try |-> m.try, user |-> m.user, expired_time |-> now + TimeoutSec]

Answered(m, t) == replies' = [replies EXCEPT !.sent = @ \cup {Answer(m, t)}]

\* XAuthDao::Login without a row for user and password.
LoginRefused(m) ==
  /\ (xms_auth[m.user] # m.password /\ faults' = faults) \/ Fault
  /\ Answered(m, Refusal(NoUser))
  /\ UNCHANGED <<xms_token, granted>>

\* From here on the answer has its user name.  The token is not inserted ...
LoginNotInserted(m) ==
  /\ xms_auth[m.user] = m.password /\ Fault
  /\ Answered(m, Refusal(m.user))
  /\ UNCHANGED <<xms_token, granted>>

\* ... or inserted and not read back ...
LoginNotRead(m) ==
  /\ xms_auth[m.user] = m.password /\ Fault
  /\ granted' = granted \cup {Token(m)}
  /\ xms_token' = xms_token \cup {Token(m)}
  /\ Answered(m, Refusal(m.user))

\* ... or answered, and expired rows are deleted.
LoginGranted(m) ==
  /\ xms_auth[m.user] = m.password
  /\ granted' = granted \cup {Token(m)}
  /\ \/ /\ xms_token' = {t \in xms_token \cup {Token(m)} : t.expired_time >= now}
        /\ faults' = faults
     \/ /\ xms_token' = xms_token \cup {Token(m)}
        /\ Fault
  /\ Answered(m, Token(m))

\* XAuthHandle::LoginReq answers either way.
Login(m) ==
  /\ m \in requests /\ m.kind = "login"
  /\ requests' = requests \ {m}
  /\ LoginRefused(m) \/ LoginNotInserted(m) \/ LoginNotRead(m) \/ LoginGranted(m)
  /\ UNCHANGED <<clock, xms_auth, changes, token_cache, fresh, links, clients>>

\* XAuthDao::AddUser: the user name is a unique key.
AddUser(m) ==
  /\ m \in requests /\ m.kind = "add"
  /\ requests' = requests \ {m}
  /\ \/ /\ xms_auth' = [xms_auth EXCEPT ![m.user] = IF @ = NoPassword THEN m.password ELSE @]
        /\ faults' = faults
     \/ Fault /\ UNCHANGED xms_auth
  /\ UNCHANGED <<clock, xms_token, granted, changes, replies, token_cache, fresh, links, clients>>

\* XAuthDao::ChangePassword: an UPDATE, which may find no row.  The tokens of
\* the user stay.
ChangePassword(m) ==
  /\ m \in requests /\ m.kind = "change"
  /\ requests' = requests \ {m}
  /\ \/ /\ xms_auth' = [xms_auth EXCEPT ![m.user] = IF @ = NoPassword THEN @ ELSE m.password]
        /\ faults' = faults
     \/ Fault /\ UNCHANGED xms_auth
  /\ UNCHANGED <<clock, xms_token, granted, changes, replies, token_cache, fresh, links, clients>>
-----------------------------------------------------------------------------
Next ==
  \/ Tick \/ Expire
  \/ \E a \in Attempts : LoginReq(a[1], a[2], a[3])
  \/ \E e \in Edits : Ask(e[1], e[2], e[3], e[4])
  \/ \E c \in Clients :
       \/ LoginReturns(c) \/ LoginTimesOut(c) \/ Break(c) \/ ReadCB(c)
  \/ \E m \in requests : Login(m) \/ AddUser(m) \/ ChangePassword(m)
  \/ \E r \in replies.sent : Cache(r)
  \/ \E r \in replies.cached : LoginRes(r)

Spec == Init /\ [][Next]_vars
-----------------------------------------------------------------------------
Requests ==
  [from : Clients, conn : Nat, try : Nat, kind : {"login", "add", "change"},
   user : Users, password : Secrets, token : Tokens \cup Refusals \cup {NoToken}]
Answers == [to : Clients, conn : Nat, token : Tokens \cup Refusals]

TypeOK ==
  /\ now \in Nat \ {0} /\ late \in 0..MaxLate
  /\ xms_auth \in [Users -> Secrets \cup {NoPassword}]
  /\ granted \subseteq Tokens /\ xms_token \subseteq Tokens
  /\ requests \subseteq Requests
  /\ replies \in [sent : SUBSET Answers, cached : SUBSET Answers]
  /\ token_cache \subseteq Tokens \cup Refusals
  /\ outbox \in [Clients -> Seq(Requests)]
  /\ conn \in [Clients -> Nat] /\ try \in [Clients -> Nat]
  /\ wait \in [Clients -> BOOLEAN] /\ timedOut \in [Clients -> BOOLEAN]
  /\ cur_user \in [Clients -> Users \cup {NoUser}]
  /\ login_map \in [Clients -> [Users -> Tokens \cup Refusals \cup {NoToken}]]
  /\ login \in [Clients -> Tokens \cup Refusals \cup {NoToken}]
  /\ fresh \subseteq Tokens \cup Refusals

\* A request goes on to a service only with a token that the service gave out
\* and that expired at most MaxLate seconds ago, although the router looks at
\* the cache only and never at the time.  There are two exceptions, both until
\* the next round of the expiry thread: a token whose answer came to the
\* gateway late, and the text of a refusal, which is cached like a token.
PassedWasGranted ==
  [][\A m \in requests' \ requests :
       m.kind # "login" =>
         \/ /\ m.token \in granted
            /\ now <= m.token.expired_time + MaxLate \/ m.token \in fresh
         \/ m.token \in Refusals \cap fresh]_vars

\* A client that holds a token is not refused before it expires: the token is
\* in the cache before the client has it, and stays.
GrantedIsAccepted ==
  \A c \in Clients :
    login[c] \in granted /\ now <= login[c].expired_time => login[c] \in token_cache

\* Unless an earlier Login of the client timed out on the same connection, the
\* answer Login returns is the one to its own request, and it is also the one
\* that SetHead puts into the heads that follow.
AnswerIsOfAttempt ==
  \A c \in Clients :
    LET t == login_map[c][cur_user[c]] IN
    wait[c] /\ ~timedOut[c] /\ t # NoToken =>
      /\ login[c] = t
      /\ t \in granted => t.from = c /\ t.try = try[c]
=============================================================================
