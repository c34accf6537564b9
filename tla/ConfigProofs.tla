----------------------------- MODULE ConfigProofs -----------------------------
(***************************************************************************)
(* For any managers, addresses, servers and number of changes: the types;  *)
(* that a single configuration server never stores an address twice; and   *)
(* that a list is not older than the call that asked for it.               *)
(***************************************************************************)
EXTENDS Config, WellFoundedInduction, TLAPS

\* my_mutex is one of a process: with two servers on a database the theorem
\* does not hold.
OneServer == \A s, t \in Servers : s = t

\* OneRow is not inductive: a call inside my_mutex that found no row is alone
\* there, and nobody adds one before it inserts its own.
RowInv ==
  /\ OneServer
  /\ my_mutex = [s \in Servers |-> my_mutex[s]]
  /\ \A s \in Servers : \A x, y \in my_mutex[s] : x = y
  /\ \A s \in Servers : \A call \in my_mutex[s] : ~call.found => Rows(call.addr) = {}
  /\ OneRow

\* Writing, the only step that adds rows: an update keeps addresses apart, and
\* an insert comes where no row has the address.
LEMMA WriteStep ==
  ASSUME RowInv, NEW s \in Servers, NEW call \in my_mutex[s], WriteRow(s, call)
  PROVE  RowInv'
<1>1. my_mutex'[s] = {} /\ \A t \in Servers : my_mutex'[t] = {}
  BY DEF WriteRow, RowInv, OneServer
<1>2. my_mutex' = [t \in Servers |-> my_mutex'[t]]
  BY DEF WriteRow, RowInv
<1>3. ASSUME NEW q \in table', NEW r \in table', q.addr = r.addr
      PROVE  q = r
  <2>1. CASE call.found
    <3> DEFINE New(x) == [id |-> x.id, addr |-> x.addr, conf |-> version + 1]
    <3>1. \A x \in table' :
            \/ x \in table /\ x.addr # call.addr
            \/ \E y \in table : y.addr = call.addr /\ x = New(y)
      BY <2>1 DEF WriteRow, Rows
    <3>2. \A y : New(y).addr = y.addr
      OBVIOUS
    <3>3. \A x, y \in table : x.addr = y.addr => x = y
      BY DEF RowInv, OneRow
    <3> HIDE DEF New
    <3> QED
      BY <1>3, <3>1, <3>2, <3>3
  <2>2. CASE ~call.found
    <3> DEFINE new == [id |-> version + 1, addr |-> call.addr, conf |-> version + 1]
    <3>1. table' = table \cup {new}
      BY <2>2 DEF WriteRow
    <3>2. new.addr = call.addr
      OBVIOUS
    <3>3. \A x \in table : x.addr # call.addr
      BY <2>2 DEF RowInv, Rows
    <3>4. \A x, y \in table : x.addr = y.addr => x = y
      BY DEF RowInv, OneRow
    <3> HIDE DEF new
    <3> QED
      BY <1>3, <3>1, <3>2, <3>3, <3>4
  <2> QED
    BY <2>1, <2>2
<1> QED
  BY <1>1, <1>2, <1>3 DEF RowInv, OneRow, OneServer

LEMMA RowStep == RowInv /\ [Next]_vars => RowInv'
<1> SUFFICES ASSUME RowInv, [Next]_vars PROVE RowInv'
  OBVIOUS
<1> USE DEF server, manager, client
<1>1. ASSUME UNCHANGED <<table, my_mutex>>
      PROVE  RowInv'
  BY <1>1 DEF RowInv, OneServer, OneRow, Rows
<1>2. ASSUME NEW p \in Peers, NEW s \in Servers, SelectRow(p, s)
      PROVE  RowInv'
  <2>1. /\ my_mutex' = [my_mutex EXCEPT ![s] = {Call(p, s)}] /\ table' = table
    BY <1>2 DEF SelectRow
  <2>2. my_mutex'[s] = {Call(p, s)} /\ \A t \in Servers : t # s => my_mutex'[t] = my_mutex[t]
    BY <2>1 DEF RowInv
  <2>3. ~Call(p, s).found => Rows(Call(p, s).addr) = {}
    BY DEF Call
  <2>4. my_mutex' = [t \in Servers |-> my_mutex'[t]]
    BY <2>1 DEF RowInv
  <2> QED
    BY <2>1, <2>2, <2>3, <2>4 DEF RowInv, OneServer, OneRow, Rows
<1>3. ASSUME NEW p \in Peers, NEW s \in Servers, DeleteConfig(p, s)
      PROVE  RowInv'
  <2>1. table' \subseteq table /\ my_mutex' = my_mutex
    BY <1>3 DEF DeleteConfig
  <2> QED
    BY <2>1 DEF RowInv, OneServer, OneRow, Rows
<1>4. ASSUME NEW p \in Peers, NEW s \in Servers, LoadConfig(p, s) \/ LoadAllConfig(p, s)
      PROVE  RowInv'
  BY <1>1, <1>4 DEF LoadConfig, LoadAllConfig
<1>5. ASSUME NEW m \in Managers,
             ManagerSteps(m) \/ LoadAllConfigRes(m)
             \/ \E s \in Servers : Route(m, s) \/ Receive(m, s)
      PROVE  RowInv'
  BY <1>1, <1>5 DEF ManagerSteps, Change, Refresh, GetAllConfig, SendList, NotConnected,
                    Returns, LoadAllConfigRes, Route, Receive
<1>6. CASE ClientSteps \/ Break \/ Restart
  BY <1>1, <1>6 DEF ClientSteps, ConfTimer, TimerCB, LoadConfigRes, OpenFile, WriteFile,
                    Break, Restart
<1>7. CASE UNCHANGED vars
  BY <1>1, <1>7 DEF vars
<1> QED
  BY <1>2, <1>3, <1>4, <1>5, <1>6, <1>7, WriteStep DEF Next, ServerSteps

\* Whoever saves and deletes at the same time, an address has one row, for any
\* number of managers and addresses.
THEOREM OneRowHolds == OneServer /\ Spec => []OneRow
<1>1. OneServer /\ Init => RowInv
  BY DEF Init, RowInv, OneRow
<1>2. RowInv => OneRow
  BY DEF RowInv
<1> QED
  BY <1>1, <1>2, RowStep, PTL DEF Spec
-----------------------------------------------------------------------------
\* A set of ids has a least one.
LEMMA LeastNumber ==
  ASSUME NEW T, T \subseteq Nat, T # {}
  PROVE  \E x \in T : \A y \in T : x <= y
<1> DEFINE R == OpToRel(<, Nat)
<1>1. IsWellFoundedOn(R, Nat)
  BY NatLessThanWellFounded
<1> HIDE DEF R
<1>2. PICK x \in T : \A y \in T : ~(<<y, x>> \in R)
  BY <1>1, WFMin
<1>3. \A y \in T : ~(y < x)
  BY <1>2 DEF R, OpToRel
<1> QED
  BY <1>3

LEMMA Parties ==
  /\ Client \in Peers /\ Home \in Servers /\ Own \in Addrs /\ MaxFaults \in Nat
  /\ \A m \in Managers : m \in Peers /\ m # Client /\ MaxOps[m] \in Nat
BY ConstantsAssumption DEF ConstantsAssumption, Peers

\* The row with the least id is one, so that a load answers with a number.
LEMMA StoredIsNumber ==
  ASSUME TypeOK, NEW a
  PROVE  Stored(a) \in Nat
<1>1. CASE Rows(a) = {}
  BY <1>1 DEF Stored
<1>2. CASE Rows(a) # {}
  <2> DEFINE ids == {r.id : r \in Rows(a)}
  <2>1. \A r \in Rows(a) : r.id \in Nat /\ r.conf \in Nat
    BY DEF Rows, TypeOK
  <2>2. ids \subseteq Nat /\ ids # {}
    BY <1>2, <2>1
  <2>3. PICK n \in ids : \A k \in ids : n <= k
    BY <2>2, LeastNumber
  <2>4. \E r \in Rows(a) : \A q \in Rows(a) : r.id <= q.id
    BY <2>3
  <2> QED
    BY <1>2, <2>1, <2>4 DEF Stored
<1> QED
  BY <1>1, <1>2

\* One queue of a table of queues changes.
LEMMA OneQueue ==
  ASSUME NEW S, NEW q \in [Peers -> [Servers -> S]], NEW p \in Peers, NEW s \in Servers,
         NEW v \in S
  PROVE  /\ [q EXCEPT ![p][s] = v] \in [Peers -> [Servers -> S]]
         /\ [q EXCEPT ![p][s] = v][p][s] = v
         /\ \A x \in Peers, y \in Servers :
              x # p \/ y # s => [q EXCEPT ![p][s] = v][x][y] = q[x][y]
OBVIOUS

LEMMA QueueTypes ==
  ASSUME TypeOK, NEW p \in Peers, NEW s \in Servers
  PROVE  /\ inbox[p][s] \in Seq(Requests)
         /\ back[p][s] \in Seq(Nat)
         /\ inbox[p][s] # <<>> => /\ Head(inbox[p][s]) \in Requests
                                  /\ Head(inbox[p][s]).addr \in Addrs
                                  /\ Tail(inbox[p][s]) \in Seq(Requests)
         /\ back[p][s] # <<>> => Head(back[p][s]) \in Nat /\ Tail(back[p][s]) \in Seq(Nat)
<1>1. inbox[p][s] \in Seq(Requests) /\ back[p][s] \in Seq(Nat)
  BY DEF TypeOK
<1>2. inbox[p][s] # <<>> => Head(inbox[p][s]) \in Requests /\ Tail(inbox[p][s]) \in Seq(Requests)
  BY <1>1
<1>3. back[p][s] # <<>> => Head(back[p][s]) \in Nat /\ Tail(back[p][s]) \in Seq(Nat)
  BY <1>1
<1>4. \A q \in Requests : q.addr \in Addrs
  BY DEF Requests
<1> QED
  BY <1>1, <1>2, <1>3, <1>4

\* A server takes a request from a queue, and may put an answer into another.
LEMMA TakeTypes ==
  ASSUME TypeOK, NEW p \in Peers, NEW s \in Servers, inbox[p][s] # <<>>, Take(p, s)
  PROVE  inbox' \in [Peers -> [Servers -> Seq(Requests)]]
BY QueueTypes, OneQueue DEF Take, TypeOK

LEMMA ReplyTypes ==
  ASSUME TypeOK, NEW p \in Peers, NEW s \in Servers, NEW n \in Nat, Reply(p, s, n)
  PROVE  back' \in [Peers -> [Servers -> Seq(Nat)]]
<1>1. Append(back[p][s], n) \in Seq(Nat)
  BY QueueTypes
<1> QED
  BY <1>1, OneQueue DEF Reply, TypeOK

\* Close leaves as many requests in a queue as there were.
LEMMA ForsakenTypes ==
  ASSUME NEW q \in Seq(Requests)
  PROVE  /\ Forsaken(q) \in Seq(Requests) /\ Len(Forsaken(q)) = Len(q)
         /\ \A i \in 1 .. Len(q) : Forsaken(q)[i].kind # "list"
<1>1. \A r \in Requests : [r EXCEPT !.kind = "gone"] \in Requests
  BY DEF Requests
<1>2. DOMAIN q = 1 .. Len(q) /\ Len(q) \in Nat
  OBVIOUS
<1>3. \A i \in 1 .. Len(q) : q[i] \in Requests
  OBVIOUS
<1>4. \A i \in 1 .. Len(q) : Forsaken(q)[i] \in Requests /\ Forsaken(q)[i].kind # "list"
  BY <1>1, <1>2, <1>3 DEF Forsaken, Requests
<1> QED
  BY <1>2, <1>4 DEF Forsaken

\* Every variable keeps the type TypeOK gives it, and one call at a time is
\* inside my_mutex of a server, whatever managers and clients do.
THEOREM TypeCorrect == Spec => []TypeOK
<1>1. Init => TypeOK
  <2> SUFFICES ASSUME Init PROVE TypeOK
    OBVIOUS
  <2>1. /\ out \in [Managers -> Seq(Requests)]
        /\ reading \in [Managers -> Seq(Nat)] /\ all_config \in [Managers -> Seq(Nat)]
    BY DEF Init
  <2>2. inbox \in [Peers -> [Servers -> Seq(Requests)]] /\ back \in [Peers -> [Servers -> Seq(Nat)]]
    BY DEF Init, Nothing
  <2>3. faults \in 0 .. MaxFaults
    BY Parties DEF Init
  <2> QED
    BY <2>1, <2>2, <2>3 DEF Init, TypeOK
<1>2. TypeOK /\ [Next]_vars => TypeOK'
  <2> SUFFICES ASSUME TypeOK, [Next]_vars PROVE TypeOK'
    OBVIOUS
  <2> USE DEF server, manager, client
  <2>1. \A m \in Managers : ops[m] + 1 \in Nat
    BY DEF TypeOK
  <2>2. ASSUME NEW m \in Managers, NEW k \in {"save", "del", "list"}, NEW a \in Addrs,
               SendMsg(m, k, a)
        PROVE  out' \in [Managers -> Seq(Requests)]
    <3>1. [kind |-> k, addr |-> a] \in Requests
      BY DEF Requests
    <3> HIDE DEF Requests
    <3>2. Append(out[m], [kind |-> k, addr |-> a]) \in Seq(Requests)
      BY <3>1 DEF TypeOK
    <3> QED
      BY <2>2, <3>2 DEF SendMsg, TypeOK
  <2>3. ASSUME NEW m \in Managers, NEW k \in {"save", "del"}, NEW a \in Addrs, Change(m, k, a)
        PROVE  TypeOK'
    <3>1. out' \in [Managers -> Seq(Requests)]
      BY <2>2, <2>3 DEF Change
    <3>2. phase' \in [Managers -> {"idle", "refresh", "list", "send", "wait"}]
      BY <2>3 DEF Change, TypeOK
    <3>3. ops' \in [Managers -> Nat]
      BY <2>1, <2>3 DEF Change, Operates, TypeOK
    <3> QED
      BY <2>3, <3>1, <3>2, <3>3 DEF Change, TypeOK
  <2>4. ASSUME NEW m \in Managers, Refresh(m)
        PROVE  TypeOK'
    <3>1. out' \in [Managers -> Seq(Requests)]
      BY <2>4 DEF Refresh, TypeOK
    <3>2. phase' \in [Managers -> {"idle", "refresh", "list", "send", "wait"}]
      BY <2>4 DEF Refresh, TypeOK
    <3>3. ops' \in [Managers -> Nat]
      BY <2>1, <2>4 DEF Refresh, Operates, TypeOK
    <3>4. inbox' \in [Peers -> [Servers -> Seq(Requests)]]
      <4>1. [s \in Servers |-> Forsaken(inbox[m][s])] \in [Servers -> Seq(Requests)]
        BY Parties, ForsakenTypes, QueueTypes
      <4>2. inbox' = [inbox EXCEPT ![m] = [s \in Servers |-> Forsaken(inbox[m][s])]]
        BY <2>4 DEF Refresh
      <4> QED
        BY <4>1, <4>2 DEF TypeOK
    <3>5. back' \in [Peers -> [Servers -> Seq(Nat)]]
      <4>1. [s \in Servers |-> <<>>] \in [Servers -> Seq(Nat)]
        OBVIOUS
      <4> QED
        BY <2>4, <4>1 DEF Refresh, TypeOK
    <3>6. late' \in [Managers -> BOOLEAN]
      <4>1. (late[m] /\ reading[m] # <<>>) \in BOOLEAN
        OBVIOUS
      <4> QED
        BY <2>4, <4>1 DEF Refresh, TypeOK
    <3> QED
      BY <2>4, <3>1, <3>2, <3>3, <3>4, <3>5, <3>6 DEF Refresh, TypeOK
  <2>5. ASSUME NEW m \in Managers, GetAllConfig(m)
        PROVE  TypeOK'
    <3>1. ops' \in [Managers -> Nat]
      BY <2>1, <2>5 DEF GetAllConfig, Operates, TypeOK
    <3>2. phase' \in [Managers -> {"idle", "refresh", "list", "send", "wait"}]
      BY <2>5 DEF GetAllConfig, TypeOK
    <3>3. all_config' \in [Managers -> Seq(Nat)] /\ asked' \in [Managers -> Nat]
      BY <2>5 DEF GetAllConfig, TypeOK
    <3> QED
      BY <2>5, <3>1, <3>2, <3>3 DEF GetAllConfig, TypeOK
  <2>6. ASSUME NEW m \in Managers, SendList(m)
        PROVE  TypeOK'
    <3>1. out' \in [Managers -> Seq(Requests)]
      BY <2>2, <2>6, Parties DEF SendList
    <3>2. phase' \in [Managers -> {"idle", "refresh", "list", "send", "wait"}]
      BY <2>6 DEF SendList, TypeOK
    <3> QED
      BY <2>6, <3>1, <3>2 DEF SendList, TypeOK
  <2>7. ASSUME NEW m \in Managers, NotConnected(m) \/ Returns(m)
        PROVE  TypeOK'
    <3>1. phase' \in [Managers -> {"idle", "refresh", "list", "send", "wait"}]
      BY <2>7 DEF NotConnected, Returns, TypeOK
    <3>2. late' \in [Managers -> BOOLEAN]
      <4>1. (late[m] \/ all_config[m] = <<>>) \in BOOLEAN
        OBVIOUS
      <4>2. CASE Returns(m)
        BY <4>1, <4>2 DEF Returns, TypeOK
      <4>3. CASE NotConnected(m)
        BY <4>3 DEF NotConnected, TypeOK
      <4> QED
        BY <2>7, <4>2, <4>3
    <3>3. asked' \in [Managers -> Nat]
      <4>1. asked' = [asked EXCEPT ![m] = 0] /\ asked \in [Managers -> Nat]
        BY <2>7 DEF NotConnected, Returns, TypeOK
      <4> QED
        BY <4>1
    <3> QED
      BY <2>7, <3>1, <3>2, <3>3 DEF NotConnected, Returns, TypeOK
  <2>8. ASSUME NEW m \in Managers, NEW s \in Servers, Route(m, s)
        PROVE  TypeOK'
    <3>1. out[m] \in Seq(Requests) /\ out[m] # <<>>
      BY <2>8 DEF Route, TypeOK
    <3>2. Head(out[m]) \in Requests /\ Tail(out[m]) \in Seq(Requests)
      BY <3>1
    <3>3. out' \in [Managers -> Seq(Requests)]
      BY <2>8, <3>2 DEF Route, TypeOK
    <3>4. Append(inbox[m][s], Head(out[m])) \in Seq(Requests)
      BY <3>2, Parties, QueueTypes
    <3>5. inbox' \in [Peers -> [Servers -> Seq(Requests)]]
      BY <2>8, <3>4, Parties, OneQueue, SMTT(30) DEF Route, TypeOK
    <3> QED
      BY <2>8, <3>3, <3>5 DEF Route, TypeOK
  <2>9. ASSUME NEW m \in Managers, NEW s \in Servers, Receive(m, s)
        PROVE  TypeOK'
    <3>1. Head(back[m][s]) \in Nat /\ Tail(back[m][s]) \in Seq(Nat)
      BY <2>9, Parties, QueueTypes DEF Receive
    <3>2. back' \in [Peers -> [Servers -> Seq(Nat)]]
      BY <2>9, <3>1, Parties, OneQueue, SMTT(30) DEF Receive, TypeOK
    <3>3. reading' \in [Managers -> Seq(Nat)]
      BY <2>9, <3>1 DEF Receive, TypeOK
    <3> QED
      BY <2>9, <3>2, <3>3 DEF Receive, TypeOK
  <2>10. ASSUME NEW m \in Managers, LoadAllConfigRes(m)
         PROVE  TypeOK'
    <3>1. all_config' \in [Managers -> Seq(Nat)] /\ reading' \in [Managers -> Seq(Nat)]
      BY <2>10 DEF LoadAllConfigRes, TypeOK
    <3> QED
      BY <2>10, <3>1 DEF LoadAllConfigRes, TypeOK
  <2>11. ASSUME NEW p \in Peers, NEW s \in Servers, SelectRow(p, s)
         PROVE  TypeOK'
    <3>1. inbox' \in [Peers -> [Servers -> Seq(Requests)]]
      BY <2>11, TakeTypes DEF SelectRow, Is
    <3>2. Call(p, s) \in [by : Peers, addr : Addrs, found : BOOLEAN]
      BY <2>11, QueueTypes DEF SelectRow, Is, Call
    <3>3. /\ my_mutex' \in [Servers -> SUBSET [by : Peers, addr : Addrs, found : BOOLEAN]]
          /\ \A t \in Servers : \A x, y \in my_mutex'[t] : x = y
      BY <2>11, <3>2 DEF SelectRow, TypeOK
    <3> QED
      BY <2>11, <3>1, <3>3 DEF SelectRow, TypeOK
  <2>12. ASSUME NEW p \in Peers, NEW s \in Servers, DeleteConfig(p, s)
         PROVE  TypeOK'
    <3>1. inbox' \in [Peers -> [Servers -> Seq(Requests)]]
      BY <2>12, TakeTypes DEF DeleteConfig, Is
    <3>2. table' \subseteq table /\ version' \in Nat
      BY <2>12 DEF DeleteConfig, TypeOK
    <3> QED
      BY <2>12, <3>1, <3>2 DEF DeleteConfig, TypeOK
  <2>13. ASSUME NEW p \in Peers, NEW s \in Servers, LoadConfig(p, s)
         PROVE  TypeOK'
    <3>1. inbox' \in [Peers -> [Servers -> Seq(Requests)]]
      BY <2>13, TakeTypes DEF LoadConfig, Reply, Is
    <3>2. back' \in [Peers -> [Servers -> Seq(Nat)]]
      BY <2>13, ReplyTypes, StoredIsNumber DEF LoadConfig
    <3> QED
      BY <2>13, <3>1, <3>2 DEF LoadConfig, TypeOK
  <2>14. ASSUME NEW p \in Peers, NEW s \in Servers, LoadAllConfig(p, s)
         PROVE  TypeOK'
    <3>1. inbox' \in [Peers -> [Servers -> Seq(Requests)]]
      BY <2>14, TakeTypes DEF LoadAllConfig, Reply, Is
    <3>2. version \in Nat /\ back \in [Peers -> [Servers -> Seq(Nat)]]
      BY DEF TypeOK
    <3>3. back' \in [Peers -> [Servers -> Seq(Nat)]]
      BY <2>14, <3>2, ReplyTypes DEF LoadAllConfig
    <3> QED
      BY <2>14, <3>1, <3>3 DEF LoadAllConfig, TypeOK
  <2>15. ASSUME NEW s \in Servers, NEW call \in my_mutex[s], WriteRow(s, call)
         PROVE  TypeOK'
    <3>1. version + 1 \in Nat /\ version' = version + 1 /\ call.addr \in Addrs
      BY <2>15 DEF WriteRow, TypeOK
    <3>2. table' \subseteq [id : Nat, addr : Addrs, conf : Nat]
      <4>1. \A r \in Rows(call.addr) :
              [id |-> r.id, addr |-> r.addr, conf |-> version + 1] \in [id : Nat, addr : Addrs, conf : Nat]
        BY <3>1 DEF Rows, TypeOK
      <4>2. [id |-> version + 1, addr |-> call.addr, conf |-> version + 1]
              \in [id : Nat, addr : Addrs, conf : Nat]
        BY <3>1
      <4> QED
        BY <2>15, <4>1, <4>2 DEF WriteRow, TypeOK
    <3>3. /\ my_mutex' \in [Servers -> SUBSET [by : Peers, addr : Addrs, found : BOOLEAN]]
          /\ \A t \in Servers : \A x, y \in my_mutex'[t] : x = y
      BY <2>15 DEF WriteRow, TypeOK
    <3> QED
      BY <2>15, <3>1, <3>2, <3>3 DEF WriteRow, TypeOK
  <2>16. CASE ClientSteps
    <3>1. inbox' \in [Peers -> [Servers -> Seq(Requests)]]
      <4>1. CASE TimerCB
        <5>1. [kind |-> "load", addr |-> Own] \in Requests
          BY Parties DEF Requests
        <5>2. <<[kind |-> "load", addr |-> Own]>> \in Seq(Requests)
          BY <5>1
        <5> QED
          BY <4>1, <5>2, Parties, OneQueue DEF TimerCB, TypeOK
      <4>2. CASE inbox' = inbox
        BY <4>2 DEF TypeOK
      <4> QED
        BY <2>16, <4>1, <4>2 DEF ClientSteps, ConfTimer, LoadConfigRes, OpenFile, WriteFile
    <3>2. back' \in [Peers -> [Servers -> Seq(Nat)]] /\ conf' \in Nat
      <4>1. CASE LoadConfigRes
        <5>1. Head(back[Client][Home]) \in Nat /\ Tail(back[Client][Home]) \in Seq(Nat)
          BY <4>1, Parties, QueueTypes DEF LoadConfigRes
        <5>2. back' \in [Peers -> [Servers -> Seq(Nat)]]
          BY <4>1, <5>1, Parties, OneQueue DEF LoadConfigRes, TypeOK
        <5> QED
          BY <4>1, <5>1, <5>2 DEF LoadConfigRes, TypeOK
      <4>2. CASE back' = back /\ conf' = conf
        BY <4>2 DEF TypeOK
      <4> QED
        BY <2>16, <4>1, <4>2 DEF ClientSteps, ConfTimer, TimerCB, OpenFile, WriteFile
    <3>3. /\ UNCHANGED <<server, manager, out, reading, faults>>
          /\ link' \in {"none", "up", "lost"} /\ cur' \in {"saved", "empty"}
          /\ file' \in {"saved", "empty"} /\ saving' \in {"no", "open", "write"}
      BY <2>16 DEF ClientSteps, ConfTimer, TimerCB, LoadConfigRes, OpenFile, WriteFile, TypeOK
    <3> QED
      BY <3>1, <3>2, <3>3 DEF TypeOK
  <2>17. CASE Break \/ Restart
    <3>1. Cut
      BY <2>17 DEF Break, Restart
    <3>2. inbox' \in [Peers -> [Servers -> Seq(Requests)]] /\ back' \in [Peers -> [Servers -> Seq(Nat)]]
      <4>1. /\ [s \in Servers |-> <<>>] \in [Servers -> Seq(Requests)]
            /\ [s \in Servers |-> <<>>] \in [Servers -> Seq(Nat)]
        OBVIOUS
      <4> QED
        BY <3>1, <4>1, Parties DEF Cut, TypeOK
    <3>3. faults' \in 0 .. MaxFaults
      BY <3>1, Parties DEF Cut, TypeOK
    <3>4. /\ UNCHANGED <<server, manager, out, reading>>
          /\ link' \in {"none", "up", "lost"} /\ cur' \in {"saved", "empty"}
          /\ file' \in {"saved", "empty"} /\ saving' \in {"no", "open", "write"} /\ conf' \in Nat
      BY <2>17 DEF Break, Restart, TypeOK
    <3> QED
      BY <3>2, <3>3, <3>4 DEF TypeOK
  <2>18. CASE UNCHANGED vars
    BY <2>18 DEF vars, TypeOK
  <2> QED
    BY <2>3, <2>4, <2>5, <2>6, <2>7, <2>8, <2>9, <2>10, <2>11, <2>12, <2>13, <2>14, <2>15,
       <2>16, <2>17, <2>18 DEF Next, ManagerSteps, ServerSteps
<1> QED
  BY <1>1, <1>2, PTL DEF Spec
-----------------------------------------------------------------------------
\* A request of a kind is in a queue nowhere, or once at most.
NoList(q) == \A i \in 1 .. Len(q) : q[i].kind # "list"
OneList(q) == \A i, j \in 1 .. Len(q) : q[i].kind = "list" /\ q[j].kind = "list" => i = j

\* No list of manager m is asked for, answered or read and not yet stored.
Free(m) ==
  /\ NoList(out[m])
  /\ \A s \in Servers : NoList(inbox[m][s]) /\ back[m][s] = <<>>
  /\ reading[m] = <<>>

\* While it waits one at most is, in one place: on its way to a server, at one, on its
\* way back, read, or stored; and what came is not older than the call.
Awaited(m) ==
  /\ OneList(out[m])
  /\ \A s \in Servers : OneList(inbox[m][s])
  /\ ~NoList(out[m]) =>
       /\ \A s \in Servers : NoList(inbox[m][s]) /\ back[m][s] = <<>>
       /\ reading[m] = <<>> /\ all_config[m] = <<>>
  /\ \A s \in Servers : ~NoList(inbox[m][s]) =>
       /\ \A t \in Servers : (t # s => NoList(inbox[m][t])) /\ back[m][t] = <<>>
       /\ reading[m] = <<>> /\ all_config[m] = <<>>
  /\ \A s \in Servers : back[m][s] # <<>> =>
       /\ Head(back[m][s]) >= asked[m] /\ Tail(back[m][s]) = <<>>
       /\ \A t \in Servers : t # s => back[m][t] = <<>>
       /\ reading[m] = <<>> /\ all_config[m] = <<>>
  /\ reading[m] # <<>> => reading[m][1] >= asked[m] /\ all_config[m] = <<>>
  /\ all_config[m] # <<>> => all_config[m][1] >= asked[m]

ListInv(m) ==
  ~late[m] =>
    /\ phase[m] = "wait" => Awaited(m)
    /\ phase[m] # "wait" => Free(m)
    /\ phase[m] = "send" => all_config[m] = <<>>

\* A manager asks for no single configuration, and for a list as it is by then.
NoLoad(q) == \A i \in 1 .. Len(q) : q[i].kind # "load"
AskInv ==
  \A m \in Managers :
    /\ asked[m] <= version
    /\ NoLoad(out[m]) /\ \A s \in Servers : NoLoad(inbox[m][s])

Listed == \A m \in Managers : ListInv(m)

LEMMA TailLists ==
  ASSUME NEW q \in Seq(Requests), q # <<>>
  PROVE  /\ NoList(q) => NoList(Tail(q)) /\ Head(q).kind # "list"
         /\ OneList(q) => OneList(Tail(q))
         /\ OneList(q) /\ Head(q).kind = "list" => NoList(Tail(q))
         /\ NoLoad(q) => NoLoad(Tail(q)) /\ Head(q).kind # "load"
<1>1. /\ Len(q) \in Nat /\ Len(Tail(q)) = Len(q) - 1 /\ Len(q) > 0 /\ Head(q) = q[1]
      /\ \A i \in 1 .. Len(q) - 1 : Tail(q)[i] = q[i + 1]
  OBVIOUS
<1>2. /\ 1 \in 1 .. Len(q)
      /\ \A i \in 1 .. Len(q) - 1 : i + 1 \in 1 .. Len(q) /\ i + 1 # 1
      /\ \A i, j \in 1 .. Len(q) - 1 : i + 1 = j + 1 => i = j
  BY <1>1
<1>3. NoList(q) => NoList(Tail(q)) /\ Head(q).kind # "list"
  BY <1>1, <1>2 DEF NoList
<1>4. OneList(q) => OneList(Tail(q))
  BY <1>1, <1>2 DEF OneList
<1>5. OneList(q) /\ Head(q).kind = "list" => NoList(Tail(q))
  BY <1>1, <1>2 DEF OneList, NoList
<1>6. NoLoad(q) => NoLoad(Tail(q)) /\ Head(q).kind # "load"
  BY <1>1, <1>2 DEF NoLoad
<1> QED
  BY <1>3, <1>4, <1>5, <1>6

LEMMA AppendLists ==
  ASSUME NEW q \in Seq(Requests), NEW r \in Requests
  PROVE  /\ r.kind # "list" /\ NoList(q) => NoList(Append(q, r))
         /\ r.kind # "list" /\ OneList(q) => OneList(Append(q, r))
         /\ NoList(q) => OneList(Append(q, r))
         /\ r.kind # "load" /\ NoLoad(q) => NoLoad(Append(q, r))
<1>1. /\ Len(q) \in Nat /\ Len(Append(q, r)) = Len(q) + 1 /\ Append(q, r)[Len(q) + 1] = r
      /\ \A i \in 1 .. Len(q) : Append(q, r)[i] = q[i]
  OBVIOUS
<1>2. \A i \in 1 .. Len(q) + 1 : i \in 1 .. Len(q) \/ i = Len(q) + 1
  BY <1>1
<1>3. r.kind # "list" /\ NoList(q) => NoList(Append(q, r))
  BY <1>1, <1>2 DEF NoList
<1>4. r.kind # "list" /\ OneList(q) => OneList(Append(q, r))
  BY <1>1, <1>2 DEF OneList
<1>5. NoList(q) => OneList(Append(q, r))
  BY <1>1, <1>2 DEF NoList, OneList
<1>6. r.kind # "load" /\ NoLoad(q) => NoLoad(Append(q, r))
  BY <1>1, <1>2 DEF NoLoad
<1> QED
  BY <1>3, <1>4, <1>5, <1>6

LEMMA NoListIsOne ==
  /\ \A q : NoList(q) => OneList(q)
  /\ NoList(<<>>) /\ NoLoad(<<>>)
BY DEF NoList, OneList, NoLoad

LEMMA ForsakenLists ==
  ASSUME NEW q \in Seq(Requests)
  PROVE  NoList(Forsaken(q)) /\ (NoLoad(q) => NoLoad(Forsaken(q)))
<1>1. NoList(Forsaken(q))
  BY ForsakenTypes DEF NoList
<1>2. \A i \in 1 .. Len(q) : q[i] \in Requests /\ q[i].kind # "load" => Forsaken(q)[i].kind # "load"
  BY DEF Forsaken, Requests
<1>3. \A i \in 1 .. Len(q) : q[i] \in Requests
  OBVIOUS
<1> QED
  BY <1>1, <1>2, <1>3, ForsakenTypes DEF NoLoad

\* One step of a server or of the way: the queue it takes from and the rest.
LEMMA TookFrom ==
  ASSUME TypeOK, NEW p \in Peers, NEW s \in Servers, inbox[p][s] # <<>>, Take(p, s)
  PROVE  /\ inbox'[p][s] = Tail(inbox[p][s])
         /\ \A x \in Peers, y \in Servers : x # p \/ y # s => inbox'[x][y] = inbox[x][y]
<1>1. Tail(inbox[p][s]) \in Seq(Requests)
  BY QueueTypes
<1>2. inbox \in [Peers -> [Servers -> Seq(Requests)]]
  BY DEF TypeOK
<1> QED
  BY <1>1, <1>2, OneQueue DEF Take

\* A step that leaves manager m alone.
LEMMA SameList ==
  ASSUME NEW m \in Managers, ListInv(m), out'[m] = out[m], reading'[m] = reading[m],
         \A s \in Servers : inbox'[m][s] = inbox[m][s] /\ back'[m][s] = back[m][s],
         phase'[m] = phase[m], all_config'[m] = all_config[m], asked'[m] = asked[m],
         late'[m] = late[m]
  PROVE  ListInv(m)'
BY DEF ListInv, Awaited, Free

\* A server takes a request that asks for no list.
LEMMA TakeNoList ==
  ASSUME TypeOK, Listed, NEW p \in Peers, NEW s \in Servers, inbox[p][s] # <<>>,
         Head(inbox[p][s]).kind # "list", Take(p, s), UNCHANGED <<out, back, reading, manager>>
  PROVE  Listed'
<1> USE DEF manager
<1> SUFFICES ASSUME NEW m \in Managers PROVE ListInv(m)'
  BY DEF Listed
<1>1. ListInv(m) /\ m \in Peers
  BY Parties DEF Listed
<1>2. CASE p # m
  BY <1>1, <1>2, TookFrom, SameList
<1>3. CASE p = m
  <2>1. \A t \in Servers : /\ NoList(inbox[m][t]) => NoList(inbox'[m][t])
                           /\ OneList(inbox[m][t]) => OneList(inbox'[m][t])
    <3> TAKE t \in Servers
    <3>1. CASE t = s
      BY <1>1, <1>3, <3>1, TookFrom, QueueTypes, TailLists
    <3>2. CASE t # s
      BY <1>1, <3>2, TookFrom
    <3> QED
      BY <3>1, <3>2
  <2>2. Free(m) => Free(m)'
    BY <2>1 DEF Free
  <2>3. Awaited(m) => Awaited(m)'
    BY <2>1 DEF Awaited
  <2> QED
    BY <1>1, <2>2, <2>3 DEF ListInv
<1> QED
  BY <1>2, <1>3

\* A server answers with the list as it is now.
LEMMA AnswerList ==
  ASSUME TypeOK, AskInv, Listed, NEW p \in Peers, NEW s \in Servers, Is(p, s, "list"),
         Reply(p, s, version), UNCHANGED <<out, reading, manager>>
  PROVE  Listed'
<1> USE DEF manager
<1> SUFFICES ASSUME NEW m \in Managers PROVE ListInv(m)'
  BY DEF Listed
<1>1. ListInv(m) /\ m \in Peers
  BY Parties DEF Listed
<1>2. inbox[p][s] # <<>> /\ Head(inbox[p][s]).kind = "list" /\ Take(p, s)
  BY DEF Is, Reply
<1>3. /\ back'[p][s] = Append(back[p][s], version)
      /\ \A x \in Peers, y \in Servers : x # p \/ y # s => back'[x][y] = back[x][y]
  <2>1. Append(back[p][s], version) \in Seq(Nat) /\ back \in [Peers -> [Servers -> Seq(Nat)]]
    BY QueueTypes DEF TypeOK
  <2> QED
    BY <2>1, OneQueue DEF Reply
<1>4. CASE p # m
  BY <1>1, <1>2, <1>3, <1>4, TookFrom, SameList
<1>5. CASE p = m /\ ~late[m]
  <2>1. ~NoList(inbox[m][s])
    BY <1>1, <1>2, <1>5, QueueTypes, TailLists
  <2>2. phase[m] = "wait" /\ Awaited(m)
    BY <1>1, <1>5, <2>1 DEF ListInv, Free
  <2>3. /\ NoList(out[m]) /\ OneList(inbox[m][s]) /\ reading[m] = <<>> /\ all_config[m] = <<>>
        /\ \A t \in Servers : (t # s => NoList(inbox[m][t])) /\ back[m][t] = <<>>
    BY <2>1, <2>2 DEF Awaited
  <2>4. \A t \in Servers : NoList(inbox'[m][t])
    <3> TAKE t \in Servers
    <3>1. CASE t = s
      BY <1>1, <1>2, <1>5, <2>3, <3>1, TookFrom, QueueTypes, TailLists
    <3>2. CASE t # s
      BY <1>1, <1>2, <2>3, <3>2, TookFrom
    <3> QED
      BY <3>1, <3>2
  <2>5. back'[m][s] = <<version>> /\ \A t \in Servers : t # s => back'[m][t] = <<>>
    BY <1>1, <1>3, <1>5, <2>3 DEF TypeOK
  <2>6. version \in Nat /\ asked[m] \in Nat /\ version >= asked[m]
    BY DEF AskInv, TypeOK
  <2>7. Head(<<version>>) = version /\ Tail(<<version>>) = <<>>
    BY <2>6
  <2>8. Awaited(m)'
    BY <2>3, <2>4, <2>5, <2>6, <2>7, NoListIsOne DEF Awaited
  <2> QED
    BY <1>5, <2>2, <2>8 DEF ListInv
<1>6. CASE late[m]
  BY <1>6 DEF ListInv
<1> QED
  BY <1>4, <1>5, <1>6

\* What one step of manager d leaves of another.
LEMMA OtherLists ==
  ASSUME Listed, NEW d \in Managers,
         \A m \in Managers : m # d =>
           /\ out'[m] = out[m] /\ reading'[m] = reading[m]
           /\ \A s \in Servers : inbox'[m][s] = inbox[m][s] /\ back'[m][s] = back[m][s]
           /\ phase'[m] = phase[m] /\ all_config'[m] = all_config[m]
           /\ asked'[m] = asked[m] /\ late'[m] = late[m],
         ListInv(d)'
  PROVE  Listed'
BY SameList DEF Listed

\* A request is written.
LEMMA SendLists ==
  ASSUME TypeOK, NEW m \in Managers, NEW k \in {"save", "del", "list"}, NEW a \in Addrs,
         SendMsg(m, k, a)
  PROVE  /\ k # "list" /\ NoList(out[m]) => NoList(out'[m])
         /\ k # "list" /\ OneList(out[m]) => OneList(out'[m])
         /\ NoList(out[m]) => OneList(out'[m])
         /\ NoLoad(out[m]) => NoLoad(out'[m])
         /\ \A d \in Managers : d # m => out'[d] = out[d]
<1> DEFINE r == [kind |-> k, addr |-> a]
<1>1. r \in Requests /\ r.kind = k /\ k # "load"
  BY DEF Requests
<1> HIDE DEF r
<1>2. out[m] \in Seq(Requests) /\ out'[m] = Append(out[m], r)
  BY DEF SendMsg, TypeOK, r
<1>3. \A d \in Managers : d # m => out'[d] = out[d]
  BY DEF SendMsg, TypeOK
<1> QED
  BY <1>1, <1>2, <1>3, AppendLists

\* The threads of a manager.
LEMMA ManagerLists ==
  ASSUME TypeOK, AskInv, Listed, NEW m \in Managers, ManagerSteps(m)
  PROVE  Listed'
<1> USE DEF server, manager, client
<1>1. ListInv(m) /\ m \in Peers
  BY Parties DEF Listed
<1>2. ASSUME NEW k \in {"save", "del"}, NEW a \in Addrs, Change(m, k, a)
      PROVE  Listed'
  <2>1. SendMsg(m, k, a) /\ UNCHANGED <<inbox, back, reading, all_config, asked, late>>
    BY <1>2 DEF Change
  <2>2. /\ phase[m] = "idle" /\ phase'[m] \in {"idle", "refresh"}
        /\ \A d \in Managers : d # m => phase'[d] = phase[d]
    BY <1>2 DEF Change, Operates, TypeOK
  <2>3. ListInv(m)'
    BY <1>1, <2>1, <2>2, SendLists DEF ListInv, Free
  <2> QED
    BY <2>1, <2>2, <2>3, SendLists, OtherLists
<1>3. CASE Refresh(m)
  <2>1. /\ UNCHANGED <<reading, all_config, asked>> /\ phase[m] \in {"idle", "refresh"}
        /\ out'[m] = <<>> /\ phase'[m] = "list"
        /\ \A d \in Managers : d # m => /\ out'[d] = out[d] /\ phase'[d] = phase[d]
                                        /\ late'[d] = late[d]
    BY <1>3 DEF Refresh, Operates, TypeOK
  <2>2. /\ \A s \in Servers : inbox'[m][s] = Forsaken(inbox[m][s]) /\ back'[m][s] = <<>>
        /\ \A d \in Managers : d # m => inbox'[d] = inbox[d] /\ back'[d] = back[d]
    BY <1>1, <1>3, Parties DEF Refresh, TypeOK
  <2>3. ~late'[m] => ~late[m] \/ reading[m] = <<>>
    BY <1>3 DEF Refresh, TypeOK
  <2>4. \A s \in Servers : NoList(inbox'[m][s])
    BY <1>1, <2>2, QueueTypes, ForsakenLists
  <2>5. ~late'[m] => reading'[m] = <<>>
    BY <1>1, <2>1, <2>3 DEF ListInv, Free
  <2>6. ListInv(m)'
    BY <2>1, <2>2, <2>4, <2>5, NoListIsOne DEF ListInv, Free
  <2> QED
    BY <2>1, <2>2, <2>6, OtherLists
<1>4. CASE GetAllConfig(m)
  <2>1. /\ UNCHANGED <<out, inbox, back, reading, late>> /\ phase[m] \in {"idle", "list"}
        /\ phase'[m] = "send" /\ all_config'[m] = <<>>
        /\ \A d \in Managers : d # m => /\ all_config'[d] = all_config[d] /\ phase'[d] = phase[d]
                                        /\ asked'[d] = asked[d]
    BY <1>4 DEF GetAllConfig, Operates, TypeOK
  <2>2. ListInv(m)'
    BY <1>1, <2>1 DEF ListInv, Free
  <2> QED
    BY <2>1, <2>2, OtherLists
<1>5. CASE SendList(m)
  <2>1. /\ SendMsg(m, "list", Own) /\ UNCHANGED <<inbox, back, reading, all_config, asked, late>>
        /\ phase[m] = "send" /\ phase'[m] = "wait"
        /\ \A d \in Managers : d # m => phase'[d] = phase[d]
    BY <1>5 DEF SendList, TypeOK
  <2>2. ~late[m] => Free(m) /\ all_config[m] = <<>>
    BY <1>1, <2>1 DEF ListInv
  <2>3. ~late[m] => OneList(out'[m])
    BY <2>1, <2>2, Parties, SendLists DEF Free
  <2>4. ~late[m] => Awaited(m)'
    BY <2>1, <2>2, <2>3, NoListIsOne DEF Free, Awaited
  <2>5. ListInv(m)'
    BY <2>1, <2>4 DEF ListInv
  <2> QED
    BY <2>1, <2>5, Parties, SendLists, OtherLists
<1>6. CASE Returns(m)
  <2>1. /\ UNCHANGED <<out, inbox, back, reading, all_config>> /\ phase[m] = "wait"
        /\ phase'[m] = "idle"
        /\ \A d \in Managers : d # m => /\ phase'[d] = phase[d] /\ asked'[d] = asked[d]
                                        /\ late'[d] = late[d]
    BY <1>6 DEF Returns, TypeOK
  <2>2. ~late'[m] => ~late[m] /\ all_config[m] # <<>>
    BY <1>6 DEF Returns, TypeOK
  <2>3. ~late'[m] => Free(m)
    BY <1>1, <2>1, <2>2 DEF ListInv, Awaited, Free
  <2>4. Free(m)' <=> Free(m)
    BY <2>1 DEF Free
  <2>5. ListInv(m)'
    BY <2>1, <2>3, <2>4 DEF ListInv
  <2> QED
    BY <2>1, <2>5, OtherLists
<1>7. CASE NotConnected(m)
  <2>1. /\ UNCHANGED <<out, inbox, back, reading, all_config, late>> /\ phase[m] = "send"
        /\ phase'[m] = "idle"
        /\ \A d \in Managers : d # m => phase'[d] = phase[d] /\ asked'[d] = asked[d]
    BY <1>7 DEF NotConnected, TypeOK
  <2>2. ~late[m] => Free(m)
    BY <1>1, <2>1 DEF ListInv
  <2>3. Free(m)' <=> Free(m)
    BY <2>1 DEF Free
  <2>4. ListInv(m)'
    BY <2>1, <2>2, <2>3 DEF ListInv
  <2> QED
    BY <2>1, <2>4, OtherLists
<1> QED
  BY <1>2, <1>3, <1>4, <1>5, <1>6, <1>7 DEF ManagerSteps

\* A request comes to a server.
LEMMA RouteLists ==
  ASSUME TypeOK, Listed, NEW m \in Managers, NEW s \in Servers, Route(m, s)
  PROVE  Listed'
<1> USE DEF server, manager, client
<1>1. ListInv(m) /\ m \in Peers
  BY Parties DEF Listed
<1> DEFINE r == Head(out[m])
<1>2. /\ out[m] \in Seq(Requests) /\ out[m] # <<>> /\ r \in Requests
      /\ out'[m] = Tail(out[m]) /\ \A d \in Managers : d # m => out'[d] = out[d]
  BY DEF Route, TypeOK
<1>3. /\ inbox'[m][s] = Append(inbox[m][s], r)
      /\ \A x \in Peers, y \in Servers : x # m \/ y # s => inbox'[x][y] = inbox[x][y]
  <2>1. Append(inbox[m][s], r) \in Seq(Requests) /\ inbox \in [Peers -> [Servers -> Seq(Requests)]]
    BY <1>1, <1>2, QueueTypes DEF TypeOK
  <2> QED
    BY <1>1, <2>1, OneQueue DEF Route
<1>4. UNCHANGED <<back, reading, phase, all_config, asked, late>>
  BY DEF Route
<1> HIDE DEF r
<1>5. CASE r.kind = "list"
  <2>1. ~NoList(out[m]) /\ (OneList(out[m]) => NoList(out'[m]))
    BY <1>2, <1>5, TailLists DEF r
  <2>2. ~late[m] => phase[m] = "wait" /\ Awaited(m)
    BY <1>1, <2>1 DEF ListInv, Free
  <2>3. ~late[m] => /\ NoList(out'[m]) /\ reading[m] = <<>> /\ all_config[m] = <<>>
                    /\ \A t \in Servers : NoList(inbox[m][t]) /\ back[m][t] = <<>>
    BY <2>1, <2>2 DEF Awaited
  <2>4. ~late[m] => \A t \in Servers : /\ t # s => NoList(inbox'[m][t])
                                       /\ OneList(inbox'[m][t])
    <3> SUFFICES ASSUME ~late[m], NEW t \in Servers
                 PROVE  (t # s => NoList(inbox'[m][t])) /\ OneList(inbox'[m][t])
      OBVIOUS
    <3>1. CASE t = s
      BY <1>1, <1>2, <1>3, <2>3, <3>1, QueueTypes, AppendLists
    <3>2. CASE t # s
      BY <1>1, <1>3, <2>3, <3>2, NoListIsOne
    <3> QED
      BY <3>1, <3>2
  <2>5. ~late[m] => Awaited(m)'
    BY <1>4, <2>3, <2>4, NoListIsOne DEF Awaited
  <2>6. ListInv(m)'
    BY <1>4, <2>2, <2>5 DEF ListInv
  <2> QED
    BY <1>2, <1>3, <1>4, <2>6, Parties, OtherLists
<1>6. CASE r.kind # "list"
  <2>1. /\ NoList(out[m]) => NoList(out'[m])
        /\ OneList(out[m]) => OneList(out'[m])
    BY <1>2, TailLists
  <2>2. \A t \in Servers : /\ NoList(inbox[m][t]) => NoList(inbox'[m][t])
                           /\ OneList(inbox[m][t]) => OneList(inbox'[m][t])
    <3> TAKE t \in Servers
    <3>1. CASE t = s
      BY <1>1, <1>2, <1>3, <1>6, <3>1, QueueTypes, AppendLists
    <3>2. CASE t # s
      BY <1>1, <1>3, <3>2
    <3> QED
      BY <3>1, <3>2
  <2>3. Free(m) => Free(m)'
    BY <1>4, <2>1, <2>2 DEF Free
  <2>4. Awaited(m) => Awaited(m)'
    BY <1>4, <2>1, <2>2 DEF Awaited
  <2>5. ListInv(m)'
    BY <1>1, <1>4, <2>3, <2>4 DEF ListInv
  <2> QED
    BY <1>2, <1>3, <1>4, <2>5, Parties, OtherLists
<1> QED
  BY <1>5, <1>6

\* The event thread reads a list, and stores it.
LEMMA ReceiveLists ==
  ASSUME TypeOK, Listed, NEW m \in Managers,
         LoadAllConfigRes(m) \/ \E s \in Servers : Receive(m, s)
  PROVE  Listed'
<1> USE DEF server, manager, client
<1>1. ListInv(m) /\ m \in Peers
  BY Parties DEF Listed
<1>2. ASSUME NEW s \in Servers, Receive(m, s)
      PROVE  Listed'
  <2>1. /\ UNCHANGED <<out, inbox, phase, all_config, asked, late>>
        /\ reading'[m] = <<Head(back[m][s])>> /\ back[m][s] # <<>>
        /\ \A d \in Managers : d # m => reading'[d] = reading[d]
    BY <1>2 DEF Receive, TypeOK
  <2>2. /\ back'[m][s] = Tail(back[m][s])
        /\ \A x \in Peers, y \in Servers : x # m \/ y # s => back'[x][y] = back[x][y]
    <3>1. Tail(back[m][s]) \in Seq(Nat) /\ back \in [Peers -> [Servers -> Seq(Nat)]]
      BY <1>1, <2>1, QueueTypes DEF TypeOK
    <3> QED
      BY <1>1, <1>2, <3>1, OneQueue DEF Receive
  <2>3. ~late[m] => phase[m] = "wait" /\ Awaited(m)
    BY <1>1, <2>1 DEF ListInv, Free
  <2>4. ~late[m] => /\ Head(back[m][s]) >= asked[m] /\ all_config[m] = <<>>
                    /\ \A t \in Servers : back'[m][t] = <<>> /\ NoList(inbox[m][t])
                    /\ NoList(out[m])
    BY <1>1, <2>1, <2>2, <2>3 DEF Awaited
  <2>5. reading'[m][1] = Head(back[m][s])
    BY <2>1
  <2>6. ~late[m] => Awaited(m)'
    BY <2>1, <2>4, <2>5, NoListIsOne DEF Awaited
  <2>7. ListInv(m)'
    BY <2>1, <2>3, <2>6 DEF ListInv
  <2> QED
    BY <2>1, <2>2, <2>7, Parties, OtherLists
<1>3. CASE LoadAllConfigRes(m)
  <2>1. /\ UNCHANGED <<out, inbox, back, phase, asked, late>>
        /\ reading[m] # <<>> /\ reading'[m] = <<>> /\ all_config'[m] = reading[m]
        /\ \A d \in Managers : d # m => reading'[d] = reading[d] /\ all_config'[d] = all_config[d]
    BY <1>3 DEF LoadAllConfigRes, TypeOK
  <2>2. ~late[m] => phase[m] = "wait" /\ Awaited(m)
    BY <1>1, <2>1 DEF ListInv, Free
  <2>3. ~late[m] => Awaited(m)'
    BY <2>1, <2>2 DEF Awaited
  <2>4. ListInv(m)'
    BY <2>1, <2>2, <2>3 DEF ListInv
  <2> QED
    BY <2>1, <2>4, OtherLists
<1> QED
  BY <1>2, <1>3

\* The table only changes to newer versions.
LEMMA Newer ==
  ASSUME TypeOK, [Next]_vars
  PROVE  version' >= version
<1>1. version \in Nat /\ version >= version /\ version + 1 >= version
  BY DEF TypeOK
<1>2. version' = version \/ version' = version + 1
  BY DEF Next, ManagerSteps, Change, Refresh, GetAllConfig, SendList, NotConnected, Returns,
         LoadAllConfigRes, Route, Receive, ServerSteps, SelectRow, DeleteConfig, LoadConfig, LoadAllConfig,
         WriteRow, ClientSteps, ConfTimer, TimerCB, LoadConfigRes, OpenFile, WriteFile, Break,
         Restart, server, vars
<1> QED
  BY <1>1, <1>2

\* The steps of the client keep to its own queues.
LEMMA ClientKeeps ==
  ASSUME TypeOK, ClientSteps \/ Break \/ Restart
  PROVE  /\ UNCHANGED <<server, out, reading, manager>>
         /\ \A m \in Managers, s \in Servers :
              inbox'[m][s] = inbox[m][s] /\ back'[m][s] = back[m][s]
<1> USE DEF server, manager, client
<1>1. UNCHANGED <<server, out, reading, manager>>
  BY DEF ClientSteps, ConfTimer, TimerCB, LoadConfigRes, OpenFile, WriteFile, Break, Restart
<1>2. \A m \in Managers, s \in Servers : inbox'[m][s] = inbox[m][s] /\ back'[m][s] = back[m][s]
  BY Parties
    DEF ClientSteps, ConfTimer, TimerCB, LoadConfigRes, OpenFile, WriteFile, Break, Restart,
        Cut, TypeOK
<1> QED
  BY <1>1, <1>2

LEMMA AskStep == TypeOK /\ TypeOK' /\ AskInv /\ [Next]_vars => AskInv'
<1> SUFFICES ASSUME TypeOK, TypeOK', AskInv, [Next]_vars, NEW m \in Managers
             PROVE  /\ asked'[m] <= version'
                    /\ NoLoad(out'[m]) /\ \A t \in Servers : NoLoad(inbox'[m][t])
  BY DEF AskInv
<1> USE DEF server, manager, client
<1>1. m \in Peers
  BY Parties
<1>2. asked'[m] <= version'
  <2>1. asked'[m] = asked[m] \/ asked'[m] = version \/ asked'[m] = 0
    <3>1. UNCHANGED asked \/ \E d \in Managers : GetAllConfig(d) \/ NotConnected(d) \/ Returns(d)
      BY DEF Next, ManagerSteps, Change, Refresh, SendList, LoadAllConfigRes, Route, Receive,
             ServerSteps, SelectRow, DeleteConfig, LoadConfig, LoadAllConfig, WriteRow,
             ClientSteps, ConfTimer, TimerCB, LoadConfigRes, OpenFile, WriteFile, Break,
             Restart, vars
    <3> QED
      BY <3>1, ZenonT(60) DEF GetAllConfig, NotConnected, Returns, TypeOK
  <2>2. asked[m] <= version /\ asked[m] \in Nat /\ version \in Nat /\ version' \in Nat
    BY DEF AskInv, TypeOK
  <2> QED
    BY <2>1, <2>2, Newer
<1>3. NoLoad(out[m]) /\ \A t \in Servers : NoLoad(inbox[m][t])
  BY DEF AskInv
<1>4. ASSUME NEW d \in Managers, ManagerSteps(d)
      PROVE  NoLoad(out'[m]) /\ \A t \in Servers : NoLoad(inbox'[m][t])
  <2>1. NoLoad(out'[m])
    <3>1. CASE \E k \in {"save", "del"}, a \in Addrs : Change(d, k, a)
      <4>1. PICK k \in {"save", "del"}, a \in Addrs : Change(d, k, a)
        BY <3>1
      <4>2. NoLoad(out[d]) => NoLoad(out'[d])
        BY <4>1, SendLists DEF Change
      <4>3. m # d => out'[m] = out[m]
        BY <4>1, SendLists DEF Change
      <4> QED
        BY <1>3, <4>2, <4>3
    <3>2. CASE SendList(d)
      <4>1. NoLoad(out[d]) => NoLoad(out'[d])
        BY <3>2, Parties, SendLists DEF SendList
      <4>2. m # d => out'[m] = out[m]
        BY <3>2, Parties, SendLists DEF SendList
      <4> QED
        BY <1>3, <4>1, <4>2
    <3>3. CASE Refresh(d)
      BY <1>3, <3>3, NoListIsOne DEF Refresh, TypeOK
    <3>4. CASE out' = out
      BY <1>3, <3>4
    <3> QED
      BY <1>4, <3>1, <3>2, <3>3, <3>4 DEF ManagerSteps, GetAllConfig, NotConnected, Returns
  <2>2. \A t \in Servers : NoLoad(inbox'[m][t])
    <3>1. CASE Refresh(d)
      <4>1. \A t \in Servers : inbox'[m][t] = inbox[m][t] \/ inbox'[m][t] = Forsaken(inbox[m][t])
        BY <1>1, <3>1 DEF Refresh, TypeOK
      <4> QED
        BY <1>1, <1>3, <4>1, QueueTypes, ForsakenLists
    <3>2. CASE inbox' = inbox
      BY <1>3, <3>2
    <3> QED
      BY <1>4, <3>1, <3>2 DEF ManagerSteps, Change, GetAllConfig, SendList, NotConnected,
                             Returns
  <2> QED
    BY <2>1, <2>2
<1>5. ASSUME NEW d \in Managers, NEW s \in Servers, Route(d, s)
      PROVE  NoLoad(out'[m]) /\ \A t \in Servers : NoLoad(inbox'[m][t])
  <2>1. /\ out[d] \in Seq(Requests) /\ out[d] # <<>> /\ Head(out[d]) \in Requests
        /\ out'[d] = Tail(out[d]) /\ (m # d => out'[m] = out[m])
    BY <1>5 DEF Route, TypeOK
  <2>2. /\ NoLoad(out[d]) /\ d \in Peers /\ inbox[d][s] \in Seq(Requests)
        /\ NoLoad(inbox[d][s])
    BY Parties, QueueTypes DEF AskInv
  <2>3. Append(inbox[d][s], Head(out[d])) \in Seq(Requests)
    BY <2>1, <2>2
  <2>4. /\ inbox'[d][s] = Append(inbox[d][s], Head(out[d]))
        /\ \A x \in Peers, y \in Servers : x # d \/ y # s => inbox'[x][y] = inbox[x][y]
    <3>1. inbox \in [Peers -> [Servers -> Seq(Requests)]]
      BY DEF TypeOK
    <3> QED
      BY <1>5, <2>2, <2>3, <3>1, OneQueue DEF Route
  <2>5. NoLoad(out'[d]) /\ NoLoad(inbox'[d][s])
    BY <2>1, <2>2, <2>4, TailLists, AppendLists
  <2> QED
    BY <1>1, <1>3, <2>1, <2>4, <2>5
<1>6. ASSUME NEW p \in Peers, NEW s \in Servers, ServerSteps(p, s)
      PROVE  NoLoad(out'[m]) /\ \A t \in Servers : NoLoad(inbox'[m][t])
  <2>1. inbox[p][s] # <<>> /\ Take(p, s) /\ UNCHANGED out
    BY <1>6 DEF ServerSteps, SelectRow, DeleteConfig, LoadConfig, LoadAllConfig, Reply, Is
  <2>2. \A t \in Servers : NoLoad(inbox'[m][t])
    <3> TAKE t \in Servers
    <3>1. CASE m = p /\ t = s
      BY <1>1, <1>3, <2>1, <3>1, TookFrom, QueueTypes, TailLists
    <3>2. CASE m # p \/ t # s
      BY <1>1, <1>3, <2>1, <3>2, TookFrom
    <3> QED
      BY <3>1, <3>2
  <2> QED
    BY <1>3, <2>1, <2>2
<1>8. ASSUME NEW d \in Managers, LoadAllConfigRes(d) \/ \E s \in Servers : Receive(d, s)
      PROVE  UNCHANGED <<out, inbox>>
  BY <1>8 DEF LoadAllConfigRes, Receive
<1>9. ASSUME NEW s \in Servers, NEW call \in my_mutex[s], WriteRow(s, call)
      PROVE  UNCHANGED <<out, inbox>>
  BY <1>9 DEF WriteRow
<1>10. CASE ClientSteps \/ Break \/ Restart
  <2>1. UNCHANGED out /\ \A t \in Servers : inbox'[m][t] = inbox[m][t]
    BY <1>10, ClientKeeps
  <2> QED
    BY <1>2, <1>3, <2>1
<1>11. CASE UNCHANGED vars
  <2>1. UNCHANGED <<out, inbox>>
    BY <1>11 DEF vars
  <2> QED
    BY <1>2, <1>3, <2>1
<1>12. NoLoad(out'[m]) /\ \A t \in Servers : NoLoad(inbox'[m][t])
  BY <1>3, <1>4, <1>5, <1>6, <1>8, <1>9, <1>10, <1>11 DEF Next
<1> QED
  BY <1>2, <1>12

LEMMA ListedStep == TypeOK /\ AskInv /\ Listed /\ [Next]_vars => Listed'
<1> SUFFICES ASSUME TypeOK, AskInv, Listed, [Next]_vars PROVE Listed'
  OBVIOUS
<1> USE DEF server, manager, client
<1>1. ASSUME UNCHANGED <<out, reading, manager>>,
             \A m \in Managers, s \in Servers :
               inbox'[m][s] = inbox[m][s] /\ back'[m][s] = back[m][s]
      PROVE  Listed'
  BY <1>1, SameList DEF Listed
<1>2. ASSUME NEW p \in Peers, NEW s \in Servers, SelectRow(p, s) \/ DeleteConfig(p, s)
      PROVE  Listed'
  BY <1>2, TakeNoList DEF SelectRow, DeleteConfig, Is
<1>3. ASSUME NEW p \in Peers, NEW s \in Servers, LoadConfig(p, s)
      PROVE  Listed'
  <2>1. /\ inbox[p][s] # <<>> /\ Head(inbox[p][s]).kind = "load" /\ Take(p, s)
        /\ UNCHANGED <<out, reading, manager>>
    BY <1>3 DEF LoadConfig, Is, Reply
  <2>2. p \notin Managers
    BY <2>1, QueueTypes, TailLists DEF AskInv
  <2>3. \A m \in Managers, t \in Servers : inbox'[m][t] = inbox[m][t]
    BY <2>1, <2>2, Parties, TookFrom
  <2>4. \A m \in Managers, t \in Servers : back'[m][t] = back[m][t]
    BY <1>3, <2>2, Parties DEF LoadConfig, Reply, TypeOK
  <2> QED
    BY <1>1, <2>1, <2>3, <2>4
<1>4. ASSUME NEW p \in Peers, NEW s \in Servers, LoadAllConfig(p, s)
      PROVE  Listed'
  <2>1. CASE Is(p, s, "list") /\ Reply(p, s, version)
    BY <1>4, <2>1, AnswerList DEF LoadAllConfig
  <2>2. CASE Is(p, s, "gone") /\ Take(p, s) /\ UNCHANGED back
    BY <1>4, <2>2, TakeNoList DEF LoadAllConfig, Is
  <2> QED
    BY <1>4, <2>1, <2>2 DEF LoadAllConfig
<1>5. ASSUME NEW s \in Servers, NEW call \in my_mutex[s], WriteRow(s, call)
      PROVE  Listed'
  BY <1>1, <1>5 DEF WriteRow
<1>6. CASE ClientSteps \/ Break \/ Restart
  BY <1>1, <1>6, ClientKeeps
<1>7. CASE UNCHANGED vars
  BY <1>1, <1>7 DEF vars
<1> QED
  BY <1>2, <1>3, <1>4, <1>5, <1>6, <1>7, ManagerLists, RouteLists, ReceiveLists
    DEF Next, ServerSteps

\* GetAllConfig returns no list older than the call, with any managers, servers,
\* changes and refreshes, unless an earlier list can still come late.
THEOREM ListIsNotOlderHolds == Spec => []ListIsNotOlder
<1>1. Init => AskInv /\ Listed
  <2> SUFFICES ASSUME Init, NEW m \in Managers
               PROVE  /\ asked[m] <= version /\ NoLoad(out[m])
                      /\ \A s \in Servers : NoLoad(inbox[m][s])
                      /\ ListInv(m)
    BY DEF AskInv, Listed
  <2>1. /\ asked[m] = 0 /\ version = 0 /\ out[m] = <<>> /\ reading[m] = <<>> /\ phase[m] = "idle"
        /\ \A s \in Servers : inbox[m][s] = <<>> /\ back[m][s] = <<>>
    BY Parties DEF Init, Nothing
  <2> QED
    BY <2>1, NoListIsOne DEF ListInv, Free
<1>2. Listed => ListIsNotOlder
  BY DEF Listed, ListInv, Awaited, ListIsNotOlder
<1> QED
  BY <1>1, <1>2, AskStep, ListedStep, TypeCorrect, PTL DEF Spec
=============================================================================
