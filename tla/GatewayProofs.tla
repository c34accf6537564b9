---------------------------- MODULE GatewayProofs -----------------------------
(***************************************************************************)
(* The safety of the gateway's routing and the balance of its load, for    *)
(* any number of routers, proxies and requests.                            *)
(***************************************************************************)
EXTENDS Gateway, SequenceTheorems, TLAPS

LEMMA Owners ==
  /\ \A q \in Requests : Owner[q] \in Routers
  /\ NoProxy \notin Proxies
  /\ Over \in RequestState
BY ConstantsAssumption DEF ConstantsAssumption, Over, RequestState

Stages == {"new", "lock", "choose", "chosen", "noted", "send", "sent", "reply", "found", "over"}

\* A request keeps its type when it goes to another stage; over which proxy it
\* goes does not change.
LEMMA NextStage ==
  ASSUME TypeOK, NEW q \in Requests, NEW a \in Stages
  PROVE  LET r == [req EXCEPT ![q].at = a] IN
         /\ r \in [Requests -> RequestState]
         /\ r[q].at = a
         /\ \A x \in Requests : r[x].via = req[x].via /\ (x # q => r[x] = req[x])
BY ZenonT(60) DEF TypeOK, RequestState, Stages

\* The same for a request that is over.
LEMMA RequestOver ==
  ASSUME TypeOK, NEW q \in Requests
  PROVE  LET r == [req EXCEPT ![q] = Over] IN
         /\ r \in [Requests -> RequestState]
         /\ r[q].at = "over"
         /\ \A x \in Requests : x # q => r[x] = req[x]
BY Owners DEF TypeOK, Over

\* Either of the two, as a step takes them.
LEMMA NextOrOver ==
  ASSUME TypeOK, NEW q \in Requests, NEW a \in Stages,
         req' = [req EXCEPT ![q].at = a] \/ req' = [req EXCEPT ![q] = Over]
  PROVE  /\ req' \in [Requests -> RequestState]
         /\ \A x \in Requests : x # q => req'[x] = req[x]
         /\ \/ req'[q].at = a /\ req'[q].via = req[q].via
            \/ req'[q].at = "over"
<1>1. CASE req' = [req EXCEPT ![q].at = a]
  BY <1>1, NextStage
<1>2. CASE req' = [req EXCEPT ![q] = Over]
  BY <1>2, RequestOver
<1> QED
  BY <1>1, <1>2

\* What TypeOK says of the requests, after such a step.
ReqOK ==
  /\ req \in [Requests -> RequestState]
  /\ \A q \in Requests : req[q].at \in Chosen => req[q].via \in Proxies

LEMMA ReqStep ==
  ASSUME TypeOK, NEW q \in Requests, NEW a \in Stages,
         req' = [req EXCEPT ![q].at = a] \/ req' = [req EXCEPT ![q] = Over],
         a \in Chosen => req[q].via \in Proxies
  PROVE  ReqOK'
<1>1. /\ req' \in [Requests -> RequestState]
      /\ \A x \in Requests : x # q => req'[x] = req[x]
      /\ \/ req'[q].at = a /\ req'[q].via = req[q].via
         \/ req'[q].at = "over"
  BY NextOrOver
<1>2. \A x \in Requests : req[x].at \in Chosen => req[x].via \in Proxies
  BY DEF TypeOK
<1> QED
  BY <1>1, <1>2 DEF ReqOK, Chosen

\* The index NextIndex computes is one of the list's, and so is the instance.
LEMMA NextInstance ==
  ASSUME TypeOK, Len(instances) > 0
  PROVE  /\ NextIndex \in 0 .. Len(instances) - 1
         /\ instances[NextIndex + 1] \in Proxies
<1> DEFINE n == Len(instances)
           k == last_index + 1
<1>1. /\ instances \in Seq(Proxies) /\ n \in Nat \ {0} /\ k \in Nat
  BY DEF TypeOK
<1>2. k % n \in 0 .. n - 1
  <2> HIDE DEF n, k
  <2> QED
    BY <1>1
<1>3. NextIndex \in 0 .. n - 1
  BY <1>2 DEF NextIndex
<1>4. NextIndex + 1 \in 1 .. n
  BY <1>1, <1>3
<1>5. instances[NextIndex + 1] \in Proxies
  BY <1>1, <1>4, ElementOfSeq
<1> QED
  BY <1>3, <1>5

\* Every variable keeps the type TypeOK gives it; in particular the index of
\* the round stays within the list that new instances are added to.
THEOREM TypeCorrect == Spec => []TypeOK
<1>1. Init => TypeOK
  BY Owners DEF Init, TypeOK, RequestState, RouterState, Chosen
<1>2. TypeOK /\ [Next]_vars => TypeOK'
  <2> SUFFICES ASSUME TypeOK, [Next]_vars
               PROVE  TypeOK'
    OBVIOUS
  <2> USE Owners DEF listVars, eventVars
  <2>1. ASSUME NEW p \in Proxies, AddInstance(p)
        PROVE  TypeOK'
    BY <2>1 DEF AddInstance, Afresh, TypeOK, locks
  <2>2. ASSUME NEW p \in Proxies, ProxyConnected(p) \/ CloseProxy(p)
        PROVE  TypeOK'
    <3>1. CASE ProxyConnected(p)
      BY <3>1 DEF ProxyConnected, Afresh, TypeOK, locks
    <3>2. CASE CloseProxy(p)
      BY <3>2 DEF CloseProxy, TypeOK
    <3> QED
      BY <2>2, <3>1, <3>2
  <2>3. ASSUME NEW p \in Proxies, ProxyClosed(p)
        PROVE  TypeOK'
    <3>1. req' \in [Requests -> RequestState]
      BY <2>3 DEF ProxyClosed, TypeOK
    <3>2. \A q \in Requests : req'[q] = Over \/ req'[q] = req[q]
      BY <2>3 DEF ProxyClosed
    <3>3. ReqOK'
      <4>1. Over.at \notin Chosen
        BY DEF Over, Chosen
      <4>2. \A q \in Requests : req[q].at \in Chosen => req[q].via \in Proxies
        BY DEF TypeOK
      <4>3. \A q \in Requests : req'[q].at \in Chosen => req'[q].via \in Proxies
        BY <3>2, <4>1, <4>2
      <4> QED
        BY <3>1, <4>3 DEF ReqOK
    <3>4. /\ mux_' \in [Proxies -> Proxies \cup {Nobody}]
          /\ connected' \in [Proxies -> BOOLEAN] /\ turns' \in [Proxies -> Nat]
          /\ UNCHANGED <<router, instances, last_index, callbacks_, callback_task_,
                         client_map_mutex_, callbacks_mutex_, callback_task_mutex_>>
      BY <2>3 DEF ProxyClosed, Afresh, TypeOK
    <3>5. \A r \in Routers : router'[r] \in {"cleaning", "erasing"} => callbacks_'[r] \in Proxies
      BY <3>4 DEF TypeOK
    <3>6. last_index' < Len(instances') \/ last_index' = 0
      BY <3>4 DEF TypeOK
    <3> QED
      BY <3>3, <3>4, <3>5, <3>6 DEF TypeOK, ReqOK
  <2>4. ASSUME NEW q \in Requests,
               \/ Receive(q) \/ LockMap(q) \/ Refuse(q) \/ Send(q)
               \/ Answer(q) \/ Find(q) \/ Relay(q)
        PROVE  TypeOK'
    <3>1. PICK a \in Stages :
            /\ req' = [req EXCEPT ![q].at = a] \/ req' = [req EXCEPT ![q] = Over]
            /\ a \in Chosen => req[q].at \in Chosen
      BY <2>4 DEF Receive, LockMap, Refuse, Send, Written, Answer, Find, Relay, Stages, Chosen,
                  TypeOK
    <3>2. ReqOK'
      BY <3>1, ReqStep DEF TypeOK
    <3>3. /\ client_map_mutex_' \in Requests \cup {Nobody}
          /\ callbacks_mutex_' \in Requests \cup Routers \cup {Nobody}
          /\ UNCHANGED <<router, listVars, connected, eventVars, callback_task_mutex_, mux_, turns>>
      BY <2>4 DEF Receive, LockMap, Refuse, Send, Answer, Find, Relay, locks, TypeOK
    <3> QED
      BY <3>2, <3>3 DEF TypeOK, ReqOK
  <2>5. ASSUME NEW q \in Requests, LockCallbacks(q) \/ RegEvent(q)
        PROVE  TypeOK'
    <3>1. req[q].via \in Proxies /\ Owner[q] \in Routers
      BY <2>5 DEF LockCallbacks, RegEvent, TypeOK, Chosen
    <3>2. PICK a \in {"noted", "send"} : req' = [req EXCEPT ![q].at = a]
      BY <2>5 DEF LockCallbacks, RegEvent
    <3>3. ReqOK'
      BY <3>1, <3>2, ReqStep DEF Stages
    <3>4. /\ callbacks_mutex_' \in Requests \cup Routers \cup {Nobody}
          /\ UNCHANGED <<router, instances, last_index, connected, client_map_mutex_,
                         callback_task_mutex_, mux_, turns>>
      BY <2>5 DEF LockCallbacks, RegEvent, locks, TypeOK
    <3>5. /\ callbacks_' \in [Routers -> Proxies \cup {NoProxy}]
          /\ \A r \in Routers : callbacks_'[r] = callbacks_[r] \/ callbacks_'[r] \in Proxies
      BY <2>5, <3>1 DEF LockCallbacks, RegEvent, TypeOK
    <3>6. callback_task_' \in [Proxies -> SUBSET Routers]
      <4>1. callback_task_ \in [Proxies -> SUBSET Routers]
        BY DEF TypeOK
      <4>2. \/ callback_task_' = callback_task_
            \/ callback_task_' = [callback_task_ EXCEPT ![req[q].via] = @ \cup {Owner[q]}]
        BY <2>5 DEF LockCallbacks, RegEvent
      <4> QED
        BY <3>1, <4>1, <4>2
    <3>7. \A r \in Routers : router'[r] \in {"cleaning", "erasing"} => callbacks_'[r] \in Proxies
      BY <3>4, <3>5 DEF TypeOK
    <3>8. last_index' < Len(instances') \/ last_index' = 0
      BY <3>4 DEF TypeOK
    <3> QED
      BY <3>3, <3>4, <3>5, <3>6, <3>7, <3>8 DEF TypeOK, ReqOK
  <2>6. ASSUME NEW q \in Requests, Choose(q)
        PROVE  TypeOK'
    <3> DEFINE p == instances[NextIndex + 1]
    <3>1. Len(instances) > 0
      BY <2>6 DEF Choose, TypeOK, RequestState
    <3>2. /\ last_index' \in Nat /\ last_index' < Len(instances)
          /\ p \in Proxies
          /\ UNCHANGED <<router, instances, connected, eventVars, locks>>
      BY <2>6, <3>1, NextInstance DEF Choose, TypeOK
    <3>3. CASE connected[p]
      <4>1. /\ turns' = [turns EXCEPT ![p] = @ + 1]
            /\ req' = [req EXCEPT ![q] = [at |-> "chosen", via |-> p, tried |-> 0]]
        BY <2>6, <3>3 DEF Choose
      <4> HIDE DEF p
      <4>2. turns' \in [Proxies -> Nat]
        BY <3>2, <4>1 DEF TypeOK
      <4>3. /\ req' \in [Requests -> RequestState]
            /\ \A x \in Requests : x # q => req'[x] = req[x]
            /\ req'[q].via \in Proxies
        BY <3>2, <4>1 DEF TypeOK, RequestState
      <4> QED
        BY <3>2, <4>2, <4>3 DEF TypeOK, locks
    <3>4. CASE ~connected[p]
      <4>1. /\ req' = [req EXCEPT ![q].tried = @ + 1]
            /\ UNCHANGED turns
        BY <2>6, <3>4 DEF Choose
      <4>2. /\ req' \in [Requests -> RequestState]
            /\ \A x \in Requests : req'[x].at = req[x].at /\ req'[x].via = req[x].via
        <5>1. req[q] \in RequestState /\ req[q].tried \in Nat
          BY DEF TypeOK, RequestState
        <5>2. [req[q] EXCEPT !.tried = @ + 1] \in RequestState
          BY <5>1 DEF RequestState
        <5> QED
          BY <4>1, <5>1, <5>2 DEF TypeOK
      <4> QED
        BY <3>2, <4>1, <4>2 DEF TypeOK, locks
    <3> QED
      BY <3>3, <3>4
  <2>7. ASSUME NEW r \in Routers, Close(r) \/ CloseRouter(r)
        PROVE  TypeOK'
    <3>1. /\ router' \in [Routers -> RouterState]
          /\ \A x \in Routers : x # r => router'[x] = router[x]
          /\ router'[r] \in {"cleaning", "erasing"} => callbacks_[r] \in Proxies
      BY <2>7 DEF Close, CloseRouter, DelEvent, DelEventAt, Erase, DeleteRouter, RouterState, TypeOK
    <3>2. /\ UNCHANGED <<instances, last_index, connected, callbacks_, req,
                         client_map_mutex_, mux_, turns>>
          /\ callbacks_mutex_' \in Requests \cup Routers \cup {Nobody}
      BY <2>7 DEF Close, CloseRouter, DelEvent, DelEventAt, Erase, DeleteRouter, locks, TypeOK
    <3>3. /\ callback_task_' \in [Proxies -> SUBSET Routers]
          /\ callback_task_mutex_' \in [Proxies -> Routers \cup {Nobody}]
      <4>1. CASE Close(r) \/ DelEvent(r) \/ DeleteRouter(r)
        BY <4>1 DEF Close, DelEvent, DeleteRouter, locks, TypeOK
      <4>2. CASE DelEventAt(r)
        BY <4>2 DEF DelEventAt, TypeOK
      <4>3. CASE Erase(r)
        BY <4>3 DEF Erase, TypeOK
      <4> QED
        BY <2>7, <4>1, <4>2, <4>3 DEF CloseRouter
    <3>4. \A x \in Routers : router'[x] \in {"cleaning", "erasing"} => callbacks_'[x] \in Proxies
      BY <3>1, <3>2 DEF TypeOK
    <3> QED
      BY <3>1, <3>2, <3>3, <3>4 DEF TypeOK
  <2>8. CASE UNCHANGED vars
    BY <2>8 DEF vars, TypeOK
  <2> QED
    BY <2>1, <2>2, <2>3, <2>4, <2>5, <2>6, <2>7, <2>8 DEF Next, SendMsg, ReadCB
<1> QED
  BY <1>1, <1>2, PTL DEF Spec
-----------------------------------------------------------------------------
\* A router does not close while its thread is inside SendMsg.
InsideIsOpen ==
  \A q \in Requests : req[q].at \in InCall => router[Owner[q]] = "open"

RoutingInv == InsideIsOpen /\ ReplyFindsRouter /\ LastProxyCleaned

\* What a step does that changes neither routers nor their registration: a
\* request is over, or goes on by one stage over the same proxy.
LEMMA OnlyRequestsStep ==
  ASSUME TypeOK, RoutingInv,
         UNCHANGED <<router, callbacks_, callback_task_>>,
         \A q \in Requests :
           \/ req'[q].at \in {"over", "found"}
           \/ req'[q].at = req[q].at /\ req'[q].via = req[q].via
           \/ req'[q].at = "lock" /\ router[Owner[q]] = "open"
           \/ req'[q].at \in {"choose", "chosen"} /\ req[q].at \in InCall
           \/ req'[q].at \in {"sent", "reply"} /\ req[q].at \in InFlight
                                              /\ req'[q].via = req[q].via
  PROVE  RoutingInv'
<1>1. InsideIsOpen'
  BY DEF RoutingInv, InsideIsOpen, InFlight, InCall
<1>2. ReplyFindsRouter'
  BY DEF RoutingInv, ReplyFindsRouter, InFlight
<1>3. LastProxyCleaned'
  BY DEF RoutingInv, LastProxyCleaned
<1> QED
  BY <1>1, <1>2, <1>3 DEF RoutingInv

\* LockCallbacks notes the proxy, of a router that is open.
LEMMA LockCallbacksStep ==
  ASSUME TypeOK, RoutingInv, NEW q \in Requests, LockCallbacks(q)
  PROVE  RoutingInv'
<1> USE Owners
<1>1. router[Owner[q]] = "open" /\ UNCHANGED <<router, callback_task_>>
  BY DEF LockCallbacks, RoutingInv, InsideIsOpen, InCall
<1>2. \A r \in Routers : r # Owner[q] => callbacks_'[r] = callbacks_[r]
  BY DEF LockCallbacks, TypeOK
<1>3. /\ req'[q].at = "noted"
      /\ \A x \in Requests : x # q => req'[x] = req[x]
  <2>1. req' = [req EXCEPT ![q].at = "noted"] /\ "noted" \in Stages
    BY DEF LockCallbacks, Stages
  <2> QED
    BY <2>1, NextStage
<1>4. InsideIsOpen' /\ ReplyFindsRouter'
  BY <1>1, <1>3 DEF RoutingInv, InsideIsOpen, ReplyFindsRouter, InFlight
<1>5. LastProxyCleaned'
  BY <1>1, <1>2 DEF RoutingInv, LastProxyCleaned
<1> QED
  BY <1>4, <1>5 DEF RoutingInv

\* RegEvent registers the router with the proxy; what it registered before
\* stays.
LEMMA RegEventStep ==
  ASSUME TypeOK, RoutingInv, NEW q \in Requests, RegEvent(q)
  PROVE  RoutingInv'
<1> USE Owners
<1> DEFINE p == req[q].via
<1>1. router[Owner[q]] = "open" /\ UNCHANGED <<router, callbacks_>>
  BY DEF RegEvent, RoutingInv, InsideIsOpen, InCall
<1>2. /\ p \in Proxies
      /\ callback_task_' = [callback_task_ EXCEPT ![p] = @ \cup {Owner[q]}]
  BY DEF RegEvent, TypeOK, Chosen
<1>3. /\ req'[q].at = "send" /\ req'[q].via = p
      /\ \A x \in Requests : x # q => req'[x] = req[x]
  <2>1. req' = [req EXCEPT ![q].at = "send"] /\ "send" \in Stages
    BY DEF RegEvent, Stages
  <2> QED
    BY <2>1, NextStage
<1> HIDE DEF p
<1>4. /\ Owner[q] \in callback_task_'[p]
      /\ \A x \in Proxies : callback_task_[x] \subseteq callback_task_'[x]
      /\ \A x \in Proxies, r \in Routers :
           r # Owner[q] /\ r \in callback_task_'[x] => r \in callback_task_[x]
  BY <1>2 DEF TypeOK
<1>5. InsideIsOpen'
  BY <1>1, <1>3 DEF RoutingInv, InsideIsOpen
<1>6. ReplyFindsRouter'
  <2> SUFFICES ASSUME NEW x \in Requests,
                      req'[x].at \in InFlight, router'[Owner[x]] = "open"
               PROVE  Owner[x] \in callback_task_'[req'[x].via]
    BY DEF ReplyFindsRouter
  <2>1. CASE x = q
    BY <1>3, <1>4, <2>1
  <2>2. CASE x # q
    <3>1. req[x].via \in Proxies /\ Owner[x] \in callback_task_[req[x].via]
      BY <1>1, <1>3, <2>2 DEF RoutingInv, ReplyFindsRouter, TypeOK, InFlight, Chosen
    <3> QED
      BY <1>3, <1>4, <2>2, <3>1
  <2> QED
    BY <2>1, <2>2
<1>7. LastProxyCleaned'
  BY <1>1, <1>4 DEF RoutingInv, LastProxyCleaned
<1> QED
  BY <1>5, <1>6, <1>7 DEF RoutingInv

\* Choose only finds the proxy.
LEMMA ChooseStep ==
  ASSUME TypeOK, RoutingInv, NEW q \in Requests, Choose(q)
  PROVE  RoutingInv'
<1>1. /\ \A x \in Requests : x # q => req'[x] = req[x]
      /\ \/ req'[q].at = "chosen" /\ req[q].at = "choose"
         \/ req'[q].at = req[q].at /\ req'[q].via = req[q].via
  BY DEF Choose, TypeOK, RequestState
<1>2. UNCHANGED <<router, callbacks_, callback_task_>>
  BY DEF Choose, eventVars
<1> QED
  BY <1>1, <1>2, OnlyRequestsStep DEF InCall

\* Every step keeps RoutingInv.
LEMMA RoutingStep ==
  ASSUME TypeOK, RoutingInv, [Next]_vars
  PROVE  RoutingInv'
<1> USE Owners DEF listVars, eventVars
<1>1. ASSUME NEW p \in Proxies, AddInstance(p) \/ ProxyConnected(p) \/ CloseProxy(p)
      PROVE  RoutingInv'
  BY <1>1, OnlyRequestsStep DEF AddInstance, ProxyConnected, CloseProxy
<1>2. ASSUME NEW p \in Proxies, ProxyClosed(p)
      PROVE  RoutingInv'
  <2>1. \A q \in Requests : req'[q].at = "over" \/ req'[q] = req[q]
    BY <1>2 DEF ProxyClosed, Over
  <2> QED
    BY <1>2, <2>1, OnlyRequestsStep DEF ProxyClosed
<1>3. ASSUME NEW q \in Requests, Receive(q)
      PROVE  RoutingInv'
  <2>1. /\ req'[q].at = "lock" /\ router[Owner[q]] = "open"
        /\ \A x \in Requests : x # q => req'[x] = req[x]
    <3>1. req' = [req EXCEPT ![q].at = "lock"] /\ "lock" \in Stages
      BY <1>3 DEF Receive, Stages
    <3>2. /\ req'[q].at = "lock"
          /\ \A x \in Requests : x # q => req'[x] = req[x]
      BY <3>1, NextStage
    <3> QED
      BY <1>3, <3>2 DEF Receive
  <2> QED
    BY <1>3, <2>1, OnlyRequestsStep DEF Receive
<1>4. ASSUME NEW q \in Requests, LockMap(q)
      PROVE  RoutingInv'
  <2>1. /\ req'[q].at = "choose" /\ req[q].at = "lock"
        /\ \A x \in Requests : x # q => req'[x] = req[x]
    <3>1. req' = [req EXCEPT ![q].at = "choose"] /\ "choose" \in Stages
      BY <1>4 DEF LockMap, Stages
    <3>2. /\ req'[q].at = "choose"
          /\ \A x \in Requests : x # q => req'[x] = req[x]
      BY <3>1, NextStage
    <3> QED
      BY <1>4, <3>2 DEF LockMap
  <2> QED
    BY <1>4, <2>1, OnlyRequestsStep DEF LockMap, InCall
<1>5. ASSUME NEW q \in Requests, Refuse(q) \/ Relay(q)
      PROVE  RoutingInv'
  <2>1. /\ req'[q].at = "over"
        /\ \A x \in Requests : x # q => req'[x] = req[x]
    BY <1>5, RequestOver DEF Refuse, Relay
  <2> QED
    BY <1>5, <2>1, OnlyRequestsStep DEF Refuse, Relay
<1>6. ASSUME NEW q \in Requests, Send(q)
      PROVE  RoutingInv'
  <2>1. req' = [req EXCEPT ![q].at = "sent"] \/ req' = [req EXCEPT ![q] = Over]
    BY <1>6 DEF Send, Written, TypeOK
  <2>2. /\ \A x \in Requests : x # q => req'[x] = req[x]
        /\ \/ req'[q].at = "sent" /\ req'[q].via = req[q].via
           \/ req'[q].at = "over"
    BY <2>1, NextOrOver DEF Stages
  <2> QED
    BY <1>6, <2>2, OnlyRequestsStep DEF Send, InFlight
<1>7. ASSUME NEW q \in Requests, Answer(q)
      PROVE  RoutingInv'
  <2>1. /\ req'[q].at = "reply" /\ req'[q].via = req[q].via
        /\ \A x \in Requests : x # q => req'[x] = req[x]
    BY <1>7, NextStage, ZenonT(60) DEF Answer, Stages
  <2> QED
    BY <1>7, <2>1, OnlyRequestsStep DEF Answer, InFlight
<1>8. ASSUME NEW q \in Requests, Find(q)
      PROVE  RoutingInv'
  <2>1. req' = [req EXCEPT ![q].at = "found"] \/ req' = [req EXCEPT ![q] = Over]
    BY <1>8 DEF Find, TypeOK
  <2>2. /\ \A x \in Requests : x # q => req'[x] = req[x]
        /\ req'[q].at \in {"found", "over"}
    BY <2>1, NextOrOver DEF Stages
  <2> QED
    BY <1>8, <2>2, OnlyRequestsStep DEF Find
<1>9. ASSUME NEW r \in Routers, Close(r)
      PROVE  RoutingInv'
  <2>1. /\ router'[r] = "leaving" /\ ~InSendMsg(r)
        /\ \A x \in Routers : x # r => router'[x] = router[x]
        /\ UNCHANGED <<callbacks_, callback_task_, req>>
    BY <1>9 DEF Close, TypeOK
  <2>2. InsideIsOpen'
    BY <2>1 DEF InSendMsg, RoutingInv, InsideIsOpen
  <2>3. ReplyFindsRouter' /\ LastProxyCleaned'
    BY <2>1 DEF RoutingInv, ReplyFindsRouter, LastProxyCleaned
  <2> QED
    BY <2>2, <2>3 DEF RoutingInv
<1>10. ASSUME NEW r \in Routers, CloseRouter(r)
       PROVE  RoutingInv'
  <2>1. /\ router[r] # "open" /\ router'[r] # "open"
        /\ \A x \in Routers : x # r => router'[x] = router[x]
        /\ UNCHANGED <<callbacks_, req>>
    BY <1>10 DEF CloseRouter, DelEvent, DelEventAt, Erase, DeleteRouter, eventVars, TypeOK
  <2>2. \A p \in Proxies :
          /\ callback_task_'[p] \subseteq callback_task_[p]
          /\ \A x \in Routers : x # r /\ x \in callback_task_[p] => x \in callback_task_'[p]
    BY <1>10 DEF CloseRouter, DelEvent, DelEventAt, Erase, DeleteRouter, eventVars, TypeOK
  <2>3. ASSUME NEW p \in Proxies, router'[r] \in {"closing", "deleted"}, callbacks_[r] = p
        PROVE  r \notin callback_task_'[p]
    <3>1. CASE Erase(r)
      BY <2>3, <3>1 DEF Erase, TypeOK
    <3>2. CASE DeleteRouter(r)
      BY <2>2, <2>3, <3>2 DEF DeleteRouter, RoutingInv, LastProxyCleaned
    <3>3. CASE DelEvent(r) \/ DelEventAt(r)
      BY <2>3, <3>3 DEF DelEvent, DelEventAt, TypeOK
    <3> QED
      BY <1>10, <3>1, <3>2, <3>3 DEF CloseRouter
  <2>4. InsideIsOpen'
    BY <2>1 DEF RoutingInv, InsideIsOpen
  <2>5. ReplyFindsRouter'
    <3> SUFFICES ASSUME NEW q \in Requests,
                        req[q].at \in InFlight, router'[Owner[q]] = "open"
                 PROVE  Owner[q] \in callback_task_'[req[q].via]
      BY <2>1 DEF ReplyFindsRouter
    <3>1. Owner[q] # r /\ router[Owner[q]] = "open"
      BY <2>1
    <3>2. req[q].via \in Proxies /\ Owner[q] \in callback_task_[req[q].via]
      BY <3>1 DEF RoutingInv, ReplyFindsRouter, TypeOK, InFlight, Chosen
    <3> QED
      BY <2>2, <3>1, <3>2
  <2>6. LastProxyCleaned'
    BY <2>1, <2>2, <2>3 DEF RoutingInv, LastProxyCleaned
  <2> QED
    BY <2>4, <2>5, <2>6 DEF RoutingInv
<1>11. CASE UNCHANGED vars
  BY <1>11, OnlyRequestsStep DEF vars
<1> QED
  BY <1>1, <1>2, <1>3, <1>4, <1>5, <1>6, <1>7, <1>8, <1>9, <1>10, <1>11, ChooseStep,
     LockCallbacksStep, RegEventStep DEF Next, SendMsg, ReadCB

LEMMA RoutingInvHolds == Spec => []RoutingInv
<1>1. Init => RoutingInv
  BY Owners DEF Init, RoutingInv, InsideIsOpen, ReplyFindsRouter, LastProxyCleaned,
                InFlight
<1> QED
  BY <1>1, RoutingStep, TypeCorrect, PTL DEF Spec

\* A router that is still there is registered with every proxy that carries a
\* request of it, for any number of routers, instances and requests.
THEOREM ReplyFindsRouterHolds == Spec => []ReplyFindsRouter
<1>1. RoutingInv => ReplyFindsRouter
  BY DEF RoutingInv
<1> QED
  BY <1>1, RoutingInvHolds, PTL

\* DelEvent leaves nothing of the router at the proxy it used last, and nothing
\* is registered for it afterwards.
THEOREM LastProxyCleanedHolds == Spec => []LastProxyCleaned
<1>1. RoutingInv => LastProxyCleaned
  BY DEF RoutingInv
<1> QED
  BY <1>1, RoutingInvHolds, PTL
-----------------------------------------------------------------------------
(* The round.                                                              *)

\* Positions in the list, counted from 1: the one used last, and whether i
\* comes before j (or is j) in the round that goes on after it.
LastUsed == last_index + 1
Sooner(i, j) ==
  IF i > LastUsed <=> j > LastUsed THEN i <= j ELSE i > LastUsed

Turns(i) == turns[instances[i]]

\* Balanced is not inductive: the instance that is chosen next must be one of
\* those with the fewest turns.  In the order of the round turns never fall and
\* rise by one at most.
RoundInv ==
  (\A p \in Listed : connected[p]) =>
    \A i, j \in 1 .. Len(instances) :
      Sooner(i, j) => Turns(i) <= Turns(j) /\ Turns(j) <= Turns(i) + 1

ListedOnce == \A i, j \in 1 .. Len(instances) : instances[i] = instances[j] => i = j

\* The list and its turns, as TypeOK has them.
LEMMA ListTypes ==
  ASSUME TypeOK
  PROVE  /\ Len(instances) \in Nat
         /\ \A i \in 1 .. Len(instances) : instances[i] \in Proxies /\ Turns(i) \in Nat
         /\ LastUsed \in Nat /\ LastUsed >= 1
         /\ Len(instances) > 0 => LastUsed <= Len(instances)
<1>1. /\ instances \in Seq(Proxies) /\ Len(instances) \in Nat
      /\ last_index \in Nat /\ (last_index < Len(instances) \/ last_index = 0)
  BY DEF TypeOK
<1>2. \A i \in 1 .. Len(instances) : instances[i] \in Proxies
  BY <1>1, ElementOfSeq
<1>3. \A i \in 1 .. Len(instances) : Turns(i) \in Nat
  BY <1>2 DEF Turns, TypeOK
<1> QED
  BY <1>1, <1>2, <1>3 DEF LastUsed

\* The position that NextIndex leads to: the one after the last used, or the
\* first.
LEMMA NextPosition ==
  ASSUME TypeOK, Len(instances) > 0
  PROVE  NextIndex + 1 = IF LastUsed = Len(instances) THEN 1 ELSE LastUsed + 1
<1> DEFINE n == Len(instances)
           k == last_index + 1
<1>1. n \in Nat \ {0} /\ k \in 1 .. n
  BY ListTypes DEF LastUsed
<1>2. k % n = IF k = n THEN 0 ELSE k
  <2> HIDE DEF n, k
  <2> QED
    BY <1>1
<1> QED
  BY <1>1, <1>2 DEF NextIndex, LastUsed

\* A turn of the round.
LEMMA ChooseRound ==
  ASSUME TypeOK, RoundInv, ListedOnce, NEW q \in Requests, Choose(q)
  PROVE  RoundInv' /\ ListedOnce'
<1> DEFINE n == Len(instances)
           k == NextIndex + 1
           p == instances[k]
<1>1. n \in Nat /\ n > 0 /\ UNCHANGED <<instances, connected>> /\ last_index' + 1 = k
  BY ListTypes DEF Choose, TypeOK, RequestState
<1>2. /\ k \in 1 .. n /\ p \in Proxies
      /\ k = IF LastUsed = n THEN 1 ELSE LastUsed + 1
  BY <1>1, NextInstance, NextPosition, ListTypes
<1>3. ListedOnce'
  BY <1>1 DEF ListedOnce
<1>4. CASE ~connected[p]
  BY <1>1, <1>2, <1>3, <1>4 DEF RoundInv, Listed
<1>5. ASSUME connected[p], \A x \in Listed : connected[x]
      PROVE  RoundInv'
  <2> HIDE DEF k
  <2>1. turns' = [turns EXCEPT ![p] = @ + 1]
    BY <1>5 DEF Choose, k
  <2>2. \A i \in 1 .. n : Turns(i)' = IF i = k THEN Turns(i) + 1 ELSE Turns(i)
    BY <1>1, <1>2, <2>1, ListTypes DEF Turns, TypeOK, ListedOnce
  <2>3. LastUsed' = k
    BY <1>1 DEF LastUsed
  <2> DEFINE Near(i, j) == Turns(i) <= Turns(j) /\ Turns(j) <= Turns(i) + 1
  <2>4. \A i, j \in 1 .. n : Sooner(i, j) => Near(i, j)
    BY <1>5 DEF RoundInv
  <2>5. \A i \in 1 .. n : Near(k, i)
    <3>1. \A i \in 1 .. n : Sooner(k, i)
      BY <1>2, ListTypes DEF Sooner
    <3> QED
      BY <1>2, <2>4, <3>1
  <2>6. ASSUME NEW i \in 1 .. n, NEW j \in 1 .. n, Sooner(i, j)'
        PROVE  Turns(i)' <= Turns(j)' /\ Turns(j)' <= Turns(i)' + 1
    <3>1. Turns(i) \in Nat /\ Turns(j) \in Nat /\ Turns(k) \in Nat
      BY <1>2, ListTypes
    <3>2. CASE i = k
      <4>1. j = k
        BY <1>2, <2>3, <2>6, <3>2 DEF Sooner
      <4> QED
        BY <2>2, <3>1, <3>2, <4>1
    <3>3. CASE i # k /\ j = k
      BY <2>2, <2>5, <3>1, <3>3
    <3>4. CASE i # k /\ j # k
      <4>1. Sooner(i, j)
        BY <1>2, <2>3, <2>6, <3>4, ListTypes DEF Sooner
      <4> QED
        BY <2>2, <2>4, <3>4, <4>1
    <3> QED
      BY <3>2, <3>3, <3>4
  <2> QED
    BY <1>1, <2>6 DEF RoundInv
<1> QED
  BY <1>1, <1>3, <1>4, <1>5 DEF RoundInv, Listed

LEMMA RoundStep ==
  ASSUME TypeOK, RoundInv, ListedOnce, [Next]_vars
  PROVE  RoundInv' /\ ListedOnce'
<1> USE DEF listVars, eventVars
<1>1. ASSUME NEW p \in Proxies, AddInstance(p)
      PROVE  RoundInv' /\ ListedOnce'
  <2>1. /\ instances \in Seq(Proxies) /\ instances' = Append(instances, p) /\ p \notin Listed
        /\ turns' = [x \in Proxies |-> 0]
    BY <1>1 DEF AddInstance, Afresh, TypeOK
  <2>2. /\ Len(instances') = Len(instances) + 1 /\ Len(instances) \in Nat
        /\ \A i \in 1 .. Len(instances) : instances'[i] = instances[i] /\ instances[i] # p
        /\ instances'[Len(instances) + 1] = p
    BY <2>1 DEF Listed
  <2>3. \A i \in 1 .. Len(instances') : i \in 1 .. Len(instances) \/ i = Len(instances) + 1
    BY <2>2
  <2>4. ListedOnce'
    BY <2>2, <2>3 DEF ListedOnce
  <2>5. \A i \in 1 .. Len(instances') : Turns(i)' = 0
    BY <2>1, <2>2, <2>3, ListTypes DEF Turns
  <2> QED
    BY <2>4, <2>5 DEF RoundInv
<1>2. ASSUME NEW p \in Proxies, ProxyConnected(p) \/ ProxyClosed(p)
      PROVE  RoundInv' /\ ListedOnce'
  <2>1. instances' = instances /\ turns' = [x \in Proxies |-> 0]
    BY <1>2 DEF ProxyConnected, ProxyClosed, Afresh
  <2>2. \A i \in 1 .. Len(instances') : Turns(i)' = 0
    BY <2>1, ListTypes DEF Turns
  <2> QED
    BY <2>1, <2>2 DEF RoundInv, ListedOnce
<1>3. ASSUME UNCHANGED <<instances, last_index, connected, turns>>
      PROVE  RoundInv' /\ ListedOnce'
  BY <1>3 DEF RoundInv, ListedOnce, Listed, Sooner, LastUsed, Turns
<1>4. ASSUME NEW q \in Requests,
             \/ Receive(q) \/ LockMap(q) \/ Refuse(q) \/ LockCallbacks(q)
             \/ RegEvent(q) \/ Send(q) \/ Answer(q) \/ ReadCB(q)
      PROVE  RoundInv' /\ ListedOnce'
  BY <1>3, <1>4 DEF Receive, LockMap, Refuse, LockCallbacks, RegEvent, Send, Answer, ReadCB,
                    Find, Relay
<1>5. ASSUME NEW r \in Routers, Close(r) \/ CloseRouter(r)
      PROVE  RoundInv' /\ ListedOnce'
  BY <1>3, <1>5 DEF Close, CloseRouter, DelEvent, DelEventAt, Erase, DeleteRouter
<1>6. CASE UNCHANGED vars
  BY <1>3, <1>6 DEF vars
<1>7. ASSUME NEW p \in Proxies, CloseProxy(p)
      PROVE  RoundInv' /\ ListedOnce'
  BY <1>3, <1>7 DEF CloseProxy
<1> QED
  BY <1>1, <1>2, <1>4, <1>5, <1>6, <1>7, ChooseRound DEF Next, SendMsg

\* While all instances are connected none gets two requests more than another,
\* for any number of instances and requests and wherever the round began.
THEOREM BalancedHolds == Spec => []Balanced
<1>1. Init => RoundInv /\ ListedOnce
  BY DEF Init, RoundInv, ListedOnce
<1>2. ASSUME TypeOK, RoundInv
      PROVE  Balanced
  <2> SUFFICES ASSUME \A p \in Listed : connected[p],
                      NEW i \in 1 .. Len(instances), NEW j \in 1 .. Len(instances)
               PROVE  Turns(i) <= Turns(j) + 1
    BY DEF Balanced, Listed, Turns
  <2>1. Sooner(i, j) \/ Sooner(j, i)
    BY ListTypes DEF Sooner
  <2> QED
    BY <1>2, <2>1, ListTypes DEF RoundInv
<1> QED
  BY <1>1, <1>2, RoundStep, TypeCorrect, PTL DEF Spec
=============================================================================
