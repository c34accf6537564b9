---------------------------- MODULE RegisterProofs ----------------------------
(***************************************************************************)
(* The safety of the registry and its clients, for every set of processes  *)
(* and services, queues of any length and any number of faults.            *)
(***************************************************************************)
EXTENDS Register, SequenceTheorems, TLAPS

\* What the constants' assumption says of the processes and the lists.
LEMMA Processes ==
  /\ \A c \in Instances : NameOf[c] \in Names
  /\ Pollers \subseteq Instances /\ Callers \subseteq Instances
  /\ Nobody \notin Instances
  /\ Blank \notin Instances
  /\ Instances \subseteq Entry /\ Blank \in Entry
  /\ NoService \in ServiceMap
  /\ MaxRestarts \in Nat /\ MaxBreaks \in Nat
<1>1. <<>> \in Seq(Entry)
  OBVIOUS
<1> QED
  BY <1>1, ConstantsAssumption DEF ConstantsAssumption, Entry, NoService, ServiceMap

\* A queue keeps its type when a message is put at its end, when its first one
\* is taken, and when it is cut; and the first message has the type of the queue.
LEMMA Queues ==
  ASSUME NEW S, NEW q \in [Instances -> Seq(S)], NEW c \in Instances
  PROVE  /\ \A m \in S : [q EXCEPT ![c] = Append(@, m)] \in [Instances -> Seq(S)]
         /\ q[c] # <<>> => /\ Head(q[c]) \in S
                           /\ [q EXCEPT ![c] = Tail(@)] \in [Instances -> Seq(S)]
         /\ [q EXCEPT ![c] = <<>>] \in [Instances -> Seq(S)]
         /\ \A m \in S : [q EXCEPT ![c] = <<m>>] \in [Instances -> Seq(S)]
OBVIOUS

\* A list of entries keeps its type when an entry is added and when its last
\* entry gets an address.
LEMMA Lists ==
  ASSUME NEW m \in ServiceMap, NEW n \in Names, NEW e \in Entry
  PROVE  /\ [m EXCEPT ![n] = Append(@, e)] \in ServiceMap
         /\ m[n] # <<>> => [m EXCEPT ![n] = [@ EXCEPT ![Len(@)] = e]] \in ServiceMap
<1>1. m[n] \in Seq(Entry) /\ Append(m[n], e) \in Seq(Entry)
  BY DEF ServiceMap
<1>2. ASSUME m[n] # <<>>
      PROVE  [m[n] EXCEPT ![Len(m[n])] = e] \in Seq(Entry)
  <2>1. Len(m[n]) \in 1 .. Len(m[n])
    BY <1>1, <1>2
  <2> QED
    BY <1>1, <2>1, ExceptSeq
<1> QED
  BY <1>1, <1>2 DEF ServiceMap

\* The two forms of an answer, and what the client makes of it, are maps.
LEMMA Answers ==
  ASSUME NEW old \in ServiceMap, NEW new \in ServiceMap, NEW n \in Names
  PROVE  /\ [NoService EXCEPT ![n] = old[n]] \in ServiceMap
         /\ Merge(old, new) \in ServiceMap
<1>1. <<>> \in Seq(Entry)
  OBVIOUS
<1> QED
  BY <1>1 DEF ServiceMap, NoService, Merge, Known

\* A handle in the middle of a request has it at the head of its queue, and while
\* it adds an entry the list of its service is not empty.
Busy ==
  \A c \in Instances :
    /\ handle[c] # "idle" => requests[c] # <<>>
    /\ handle[c] = "register" => service_map[NameOf[c]] # <<>>

\* Every step keeps the types.
LEMMA TypeStep ==
  ASSUME TypeOK, Busy, [Next]_vars
  PROVE  TypeOK'
<1> USE Processes
<1>1. ASSUME NEW c \in Instances, ConnectedCB(c)
      PROVE  TypeOK'
  <2>1. Register(c) \in Request
    BY DEF Register, Request
  <2> QED
    BY <1>1, <2>1, Queues DEF ConnectedCB, TypeOK, serverVars, clientVars, faults
<1>2. ASSUME NEW c \in Instances, Break(c)
      PROVE  TypeOK'
  BY <1>2, Queues DEF Break, Cut, TypeOK, serverVars, clientVars
<1>3. ASSUME NEW c \in Instances, RestartClient(c)
      PROVE  TypeOK'
  <2>1. /\ requests' \in [Instances -> Seq(Request)]
        /\ responses' \in [Instances -> Seq(Response)]
    BY <1>3, Queues DEF RestartClient, Cut, TypeOK
  <2>2. cache' \in [Instances -> ServiceMap]
    BY <1>3 DEF RestartClient, TypeOK
  <2>3. call' \in [Instances -> [at : {"none", "connect", "look"}, name : Names]]
    BY <1>3 DEF RestartClient, TypeOK
  <2> QED
    BY <1>3, <2>1, <2>2, <2>3 DEF RestartClient, Cut, TypeOK, serverVars
<1>4. CASE RestartServer
  BY <1>4 DEF RestartServer, TypeOK, clientVars
<1>5. ASSUME NEW c \in Instances, RegisterReq(c)
      PROVE  TypeOK'
  <2>1. CASE c \in Entries(service_map[NameOf[c]])
    <3>1. /\ Received(c) /\ requests[c] # <<>>
          /\ UNCHANGED <<serverVars, handle>>
      BY <1>5, <2>1 DEF RegisterReq, Receives
    <3>2. requests' \in [Instances -> Seq(Request)]
      BY <3>1, Queues DEF Received, TypeOK
    <3> QED
      BY <1>5, <3>1, <3>2 DEF RegisterReq, TypeOK, serverVars, clientVars, faults
  <2>2. CASE c \notin Entries(service_map[NameOf[c]])
    <3>1. /\ service_map' = [service_map EXCEPT ![NameOf[c]] = Append(@, Blank)]
          /\ service_map_mutex' = c
          /\ handle' = [handle EXCEPT ![c] = "register"]
          /\ service_map_mutex = Nobody
          /\ UNCHANGED requests
      BY <1>5, <2>2 DEF RegisterReq, Receives
    <3>2. service_map' \in ServiceMap
      BY <3>1, Lists DEF TypeOK
    <3>3. \A d \in Instances : handle'[d] = "register" <=> service_map_mutex' = d
      BY <3>1 DEF TypeOK
    <3>4. handle' \in [Instances -> {"idle", "register", "all"}]
      BY <3>1 DEF TypeOK
    <3> QED
      BY <1>5, <3>1, <3>2, <3>3, <3>4 DEF RegisterReq, TypeOK, clientVars, faults
  <2> QED
    BY <2>1, <2>2
<1>6. ASSUME NEW c \in Instances, SetService(c)
      PROVE  TypeOK'
  <2>1. requests' \in [Instances -> Seq(Request)]
    BY <1>6, Queues DEF SetService, Received, TypeOK, Busy
  <2>2. service_map' \in ServiceMap
    BY <1>6, Lists DEF SetService, TypeOK, Busy
  <2>3. /\ handle' \in [Instances -> {"idle", "register", "all"}]
        /\ service_map_mutex' \in Instances \cup {Nobody}
        /\ \A d \in Instances : handle'[d] = "register" <=> service_map_mutex' = d
    BY <1>6 DEF SetService, TypeOK
  <2> QED
    BY <1>6, <2>1, <2>2, <2>3 DEF SetService, TypeOK, clientVars, faults
<1>7. ASSUME NEW c \in Instances, GetServiceOne(c)
      PROVE  TypeOK'
  <2> DEFINE n == Head(requests[c]).name
             res == [type |-> "ONE", map |-> [NoService EXCEPT ![n] = service_map[n]]]
  <2>1. Head(requests[c]) \in Request /\ n \in Names
    <3>1. requests[c] # <<>> /\ requests \in [Instances -> Seq(Request)]
      BY <1>7 DEF GetServiceOne, Receives, TypeOK
    <3>2. Head(requests[c]) \in Request
      BY <3>1, Queues
    <3> QED
      BY <3>2 DEF Request
  <2>2. res \in Response
    BY <2>1, Answers DEF TypeOK, Response
  <2>3. responses' \in [Instances -> Seq(Response)]
    <3>1. responses' = [responses EXCEPT ![c] = Append(@, res)]
      BY <1>7 DEF GetServiceOne, Send
    <3> HIDE DEF res
    <3> QED
      BY <3>1, <2>2, Queues DEF TypeOK
  <2>4. requests' \in [Instances -> Seq(Request)]
    BY <1>7, Queues DEF GetServiceOne, Receives, Received, TypeOK
  <2> QED
    BY <1>7, <2>3, <2>4 DEF GetServiceOne, TypeOK, serverVars, clientVars, faults
<1>8. ASSUME NEW c \in Instances, GetServiceAll(c)
      PROVE  TypeOK'
  BY <1>8 DEF GetServiceAll, Receives, TypeOK, serverVars, clientVars, faults
<1>9. ASSUME NEW c \in Instances, SendAll(c)
      PROVE  TypeOK'
  <2>1. [type |-> "ALL", map |-> service_map] \in Response
    BY DEF TypeOK, Response
  <2>2. responses' \in [Instances -> Seq(Response)]
    BY <1>9, <2>1, Queues DEF SendAll, Send, TypeOK
  <2>3. requests' \in [Instances -> Seq(Request)]
    BY <1>9, Queues DEF SendAll, Received, TypeOK, Busy
  <2> QED
    BY <1>9, <2>2, <2>3 DEF SendAll, TypeOK, serverVars, clientVars, faults
<1>10. ASSUME NEW c \in Instances, GetServiceRes(c)
       PROVE  TypeOK'
  <2> DEFINE res == Head(responses[c])
  <2>1. res \in Response /\ responses' \in [Instances -> Seq(Response)]
    BY <1>10, Queues DEF GetServiceRes, TypeOK
  <2>2. res.map \in ServiceMap /\ cache[c] \in ServiceMap
    BY <2>1 DEF Response, TypeOK
  <2>3. Merge(cache[c], res.map) \in ServiceMap
    <3>1. \E n \in Names : TRUE
      BY Processes
    <3> QED
      BY <2>2, <3>1, Answers
  <2>4. cache' \in [Instances -> ServiceMap]
    BY <1>10, <2>2, <2>3 DEF GetServiceRes, Refresh, TypeOK, clientVars
  <2>5. disk' \in [Instances -> ServiceMap] /\ saving' \in [Instances -> BOOLEAN]
    <3>1. CASE Save(c)
      BY <3>1 DEF Save, TypeOK
    <3>2. CASE UNCHANGED clientVars
      BY <3>2 DEF TypeOK, clientVars
    <3> QED
      BY <1>10, <3>1, <3>2 DEF GetServiceRes
  <2> QED
    BY <1>10, <2>1, <2>4, <2>5 DEF GetServiceRes, TypeOK, serverVars, faults
<1>11. ASSUME NEW c \in Instances, Saved(c)
       PROVE  TypeOK'
  BY <1>11 DEF Saved, TypeOK, serverVars, faults
<1>12. ASSUME NEW c \in Instances, NEW m \in Request, GetServiceReq(c, m)
       PROVE  requests' \in [Instances -> Seq(Request)]
  <2>1. CASE connected[c]
    <3>1. requests' = [requests EXCEPT ![c] = Append(@, m)]
      BY <1>12, <2>1 DEF GetServiceReq
    <3>2. requests \in [Instances -> Seq(Request)]
      BY DEF TypeOK
    <3> QED
      BY <1>12, <3>1, <3>2, Queues
  <2>2. CASE ~connected[c]
    BY <1>12, <2>2 DEF GetServiceReq, TypeOK
  <2> QED
    BY <2>1, <2>2
<1>13. ASSUME NEW c \in Pollers, Poll(c)
       PROVE  TypeOK'
  <2>1. [type |-> "ALL", name |-> NameOf[c]] \in Request
    BY DEF Request
  <2>2. requests' \in [Instances -> Seq(Request)]
    BY <1>12, <1>13, <2>1 DEF Poll
  <2> QED
    BY <1>13, <2>2 DEF Poll, TypeOK, serverVars, clientVars, faults
<1>14. ASSUME NEW c \in Callers, Call(c)
       PROVE  TypeOK'
  <2>1. c \in Instances /\ call[c].name \in Names
    BY DEF TypeOK
  <2>2. [type |-> "ONE", name |-> call[c].name] \in Request
    BY <2>1 DEF Request
  <2>3. requests' \in [Instances -> Seq(Request)]
    BY <1>12, <1>14, <2>1, <2>2
      DEF Call, GetServcies, GiveUp, Ask, Look, TimeOut, TypeOK
  <2>4. call' \in [Instances -> [at : {"none", "connect", "look"}, name : Names]]
    BY <1>14, <2>1 DEF Call, GetServcies, GiveUp, Ask, Look, TimeOut, TypeOK
  <2>5. UNCHANGED <<serverVars, handle, responses, connected, clientVars, faults>>
    BY <1>14 DEF Call, GetServcies, GiveUp, Ask, Look, TimeOut
  <2> QED
    BY <2>3, <2>4, <2>5 DEF TypeOK, serverVars, clientVars, faults
<1>15. CASE UNCHANGED vars
  BY <1>15 DEF vars, TypeOK, serverVars, clientVars, faults
<1> QED
  BY <1>1, <1>2, <1>3, <1>4, <1>5, <1>6, <1>7, <1>8, <1>9, <1>10, <1>11, <1>13,
     <1>14, <1>15 DEF Next, Handle, Answered

\* Every step keeps what TypeStep needs of the handles: only the handle itself
\* takes the first request of its queue, and no entry leaves a list.
LEMMA BusyStep ==
  ASSUME TypeOK, Busy, [Next]_vars
  PROVE  Busy'
<1> USE Processes
<1>1. ASSUME NEW c \in Instances, ConnectedCB(c)
      PROVE  Busy'
  BY <1>1 DEF ConnectedCB, Busy, TypeOK, serverVars
<1>2. ASSUME NEW c \in Instances, Break(c) \/ RestartClient(c)
      PROVE  Busy'
  BY <1>2 DEF Break, RestartClient, Cut, Busy, TypeOK, serverVars
<1>3. CASE RestartServer
  BY <1>3 DEF RestartServer, Busy
<1>4. ASSUME NEW c \in Instances, RegisterReq(c)
      PROVE  Busy'
  <2>1. CASE c \in Entries(service_map[NameOf[c]])
    BY <1>4, <2>1 DEF RegisterReq, Receives, Received, Busy, TypeOK, serverVars
  <2>2. CASE c \notin Entries(service_map[NameOf[c]])
    <3>1. \A n \in Names : service_map[n] \in Seq(Entry)
      BY DEF TypeOK, ServiceMap
    <3>2. service_map' = [service_map EXCEPT ![NameOf[c]] = Append(@, Blank)]
      BY <1>4, <2>2 DEF RegisterReq
    <3>3. service_map'[NameOf[c]] # <<>>
      <4>1. service_map'[NameOf[c]] = Append(service_map[NameOf[c]], Blank)
        BY <3>2 DEF TypeOK, ServiceMap
      <4>2. Append(service_map[NameOf[c]], Blank) # <<>>
        BY <3>1
      <4> QED
        BY <4>1, <4>2
    <3>4. /\ requests[c] # <<>> /\ UNCHANGED requests
          /\ \A d \in Instances : d # c => handle'[d] = handle[d]
      <4>1. handle' = [handle EXCEPT ![c] = "register"]
        BY <1>4, <2>2 DEF RegisterReq
      <4>2. requests[c] # <<>> /\ UNCHANGED requests
        BY <1>4, <2>2 DEF RegisterReq, Receives
      <4> QED
        BY <4>1, <4>2 DEF TypeOK
    <3>5. \A d \in Instances :
            service_map[NameOf[d]] # <<>> => service_map'[NameOf[d]] # <<>>
      BY <3>2, <3>3 DEF TypeOK, ServiceMap
    <3> QED
      BY <3>3, <3>4, <3>5 DEF Busy
  <2> QED
    BY <2>1, <2>2
<1>5. ASSUME NEW c \in Instances, SetService(c)
      PROVE  Busy'
  <2>1. \A d \in Instances : d # c => handle'[d] # "register"
    BY <1>5 DEF SetService, TypeOK
  <2>2. handle'[c] = "idle" /\ \A d \in Instances : d # c => /\ handle'[d] = handle[d]
                                                            /\ requests'[d] = requests[d]
    BY <1>5 DEF SetService, Received, TypeOK
  <2> QED
    BY <2>1, <2>2 DEF Busy
<1>6. ASSUME NEW c \in Instances, GetServiceOne(c) \/ SendAll(c)
      PROVE  Busy'
  BY <1>6 DEF GetServiceOne, SendAll, Receives, Received, Busy, TypeOK, serverVars
<1>7. ASSUME NEW c \in Instances, GetServiceAll(c)
      PROVE  Busy'
  BY <1>7 DEF GetServiceAll, Receives, Busy, TypeOK, serverVars
<1>8. ASSUME NEW c \in Instances, Answered(c)
      PROVE  Busy'
  BY <1>8 DEF Answered, GetServiceRes, Saved, Busy, serverVars
<1>9. ASSUME NEW c \in Instances, NEW m, GetServiceReq(c, m)
      PROVE  \A d \in Instances : requests[d] # <<>> => requests'[d] # <<>>
  BY <1>9 DEF GetServiceReq, TypeOK
<1>10. ASSUME NEW c \in Pollers, Poll(c)
       PROVE  Busy'
  BY <1>9, <1>10 DEF Poll, Busy, serverVars
<1>11. ASSUME NEW c \in Callers, Call(c)
       PROVE  Busy'
  BY <1>9, <1>11 DEF Call, GetServcies, GiveUp, Ask, Look, TimeOut, Busy, serverVars
<1>12. CASE UNCHANGED vars
  BY <1>12 DEF vars, Busy, serverVars
<1> QED
  BY <1>1, <1>2, <1>3, <1>4, <1>5, <1>6, <1>7, <1>8, <1>10, <1>11, <1>12
    DEF Next, Handle

\* Types, and what each handle is in the middle of, in every reachable state.
LEMMA TypeCorrectBusy == Spec => [](TypeOK /\ Busy)
<1>1. Init => TypeOK /\ Busy
  BY Processes DEF Init, TypeOK, NoCall, Busy
<1> QED
  BY <1>1, TypeStep, BusyStep, PTL DEF Spec

\* Every variable keeps the type TypeOK gives it; in particular exactly the
\* handle that is adding an entry holds service_map_mutex.
THEOREM TypeCorrect == Spec => []TypeOK
BY TypeCorrectBusy, PTL
-----------------------------------------------------------------------------
Unique(list) == \A i, j \in 1 .. Len(list) : list[i] = list[j] => i = j

\* An entry without address goes to the end of a list that has none.
LEMMA AddEntry ==
  ASSUME NEW list \in Seq(Entry), Unique(list), Blank \notin Entries(list)
  PROVE  /\ Unique(Append(list, Blank))
         /\ Append(list, Blank)[Len(Append(list, Blank))] = Blank
         /\ \A c \in Instances :
              c \notin Entries(list) => c \notin Entries(Append(list, Blank))
BY Processes DEF Unique, Entries

\* The last entry of a list, which has no address yet, gets one that is new.
LEMMA CompleteEntry ==
  ASSUME NEW list \in Seq(Entry), list # <<>>, Unique(list),
         list[Len(list)] = Blank,
         NEW c \in Instances, c \notin Entries(list)
  PROVE  /\ Unique([list EXCEPT ![Len(list)] = c])
         /\ Blank \notin Entries([list EXCEPT ![Len(list)] = c])
<1> DEFINE n == Len(list)
           new == [list EXCEPT ![n] = c]
<1>1. n \in 1 .. n /\ c \in Entry /\ c # Blank
  BY Processes
<1>2. /\ Len(new) = n
      /\ \A i \in 1 .. n : new[i] = IF i = n THEN c ELSE list[i]
  BY <1>1, ExceptSeq
<1>3. \A i \in 1 .. n : list[i] # c
  BY DEF Entries
<1>4. \A i \in 1 .. n : list[i] = Blank => i = n
  BY <1>1 DEF Unique
<1> HIDE DEF new, n
<1>5. Unique(new)
  BY <1>2, <1>3 DEF Unique, n
<1>6. \A i \in 1 .. n : new[i] # Blank
  BY <1>1, <1>2, <1>4
<1>7. Blank \notin Entries(new)
  BY <1>2, <1>6 DEF Entries
<1> QED
  BY <1>5, <1>7 DEF new, n

\* What RegisteredOnce rests on: a handle that is adding an entry has it at the
\* end of its list, and its own address is not there yet; only the list of such
\* a handle has an entry without address.
Adding ==
  /\ \A n \in Names : Unique(service_map[n])
  /\ \A c \in Instances :
       LET list == service_map[NameOf[c]] IN
       handle[c] = "register" => list[Len(list)] = Blank /\ c \notin Entries(list)
  /\ \A n \in Names :
       Blank \in Entries(service_map[n])
         => \E c \in Instances : handle[c] = "register" /\ NameOf[c] = n

LEMMA AddingRegistersOnce ==
  ASSUME TypeOK, Adding
  PROVE  RegisteredOnce
BY Processes DEF TypeOK, Adding, RegisteredOnce, Unique

\* Every step keeps Adding.
LEMMA AddingStep ==
  ASSUME TypeOK, Busy, Adding, [Next]_vars
  PROVE  Adding'
<1> USE Processes
<1>1. ASSUME NEW c \in Instances, RegisterReq(c)
      PROVE  Adding'
  <2>1. CASE c \in Entries(service_map[NameOf[c]])
    BY <1>1, <2>1 DEF RegisterReq, Adding, serverVars
  <2>2. CASE c \notin Entries(service_map[NameOf[c]])
    <3> DEFINE k == NameOf[c]
    <3>1. /\ service_map' = [service_map EXCEPT ![k] = Append(@, Blank)]
          /\ handle' = [handle EXCEPT ![c] = "register"]
          /\ \A d \in Instances : handle[d] # "register"
      BY <1>1, <2>2 DEF RegisterReq, Receives, TypeOK
    <3>2. /\ \A n \in Names : service_map[n] \in Seq(Entry)
          /\ \A n \in Names : Unique(service_map[n])
          /\ \A n \in Names : Blank \notin Entries(service_map[n])
      BY <3>1 DEF TypeOK, ServiceMap, Adding
    <3>3. /\ service_map'[k] = Append(service_map[k], Blank)
          /\ \A n \in Names \ {k} : service_map'[n] = service_map[n]
      BY <3>1 DEF TypeOK, ServiceMap
    <3>4. /\ handle'[c] = "register"
          /\ \A d \in Instances \ {c} : handle'[d] # "register"
      BY <3>1 DEF TypeOK
    <3>5. /\ Unique(service_map'[k])
          /\ service_map'[k][Len(service_map'[k])] = Blank
          /\ c \notin Entries(service_map'[k])
      BY <2>2, <3>2, <3>3, AddEntry
    <3> QED
      BY <3>2, <3>3, <3>4, <3>5 DEF Adding
  <2> QED
    BY <2>1, <2>2
<1>2. ASSUME NEW c \in Instances, SetService(c)
      PROVE  Adding'
  <2> DEFINE k == NameOf[c]
  <2>1. /\ handle[c] = "register"
        /\ \A d \in Instances \ {c} : handle[d] # "register"
        /\ \A d \in Instances : handle'[d] # "register"
    BY <1>2 DEF SetService, TypeOK
  <2>2. /\ service_map[k] \in Seq(Entry) /\ service_map[k] # <<>>
        /\ Unique(service_map[k])
        /\ service_map[k][Len(service_map[k])] = Blank
        /\ c \notin Entries(service_map[k])
    BY <2>1 DEF TypeOK, ServiceMap, Busy, Adding
  <2>3. /\ service_map'[k] = [service_map[k] EXCEPT ![Len(service_map[k])] = c]
        /\ \A n \in Names \ {k} : service_map'[n] = service_map[n]
    BY <1>2 DEF SetService, TypeOK, ServiceMap
  <2>4. Unique(service_map'[k]) /\ Blank \notin Entries(service_map'[k])
    BY <2>2, <2>3, CompleteEntry
  <2>5. \A n \in Names \ {k} : /\ Unique(service_map[n])
                              /\ Blank \notin Entries(service_map[n])
    BY <2>1 DEF Adding
  <2> QED
    BY <2>1, <2>3, <2>4, <2>5 DEF Adding
<1>3. CASE RestartServer
  BY <1>3 DEF RestartServer, Adding, NoService, Unique, Entries
<1>4. ASSUME NEW c \in Instances, GetServiceAll(c) \/ SendAll(c)
      PROVE  Adding'
  <2>1. /\ UNCHANGED service_map
        /\ \A d \in Instances : handle'[d] = "register" <=> handle[d] = "register"
    BY <1>4 DEF GetServiceAll, SendAll, Receives, TypeOK, serverVars
  <2> QED
    BY <2>1 DEF Adding
<1>5. CASE UNCHANGED <<service_map, handle>>
  BY <1>5 DEF Adding
<1>6. ASSUME NEW c \in Instances,
             \/ ConnectedCB(c) \/ Break(c) \/ RestartClient(c)
             \/ GetServiceOne(c) \/ Answered(c)
      PROVE  UNCHANGED <<service_map, handle>>
  BY <1>6 DEF ConnectedCB, Break, RestartClient, GetServiceOne, Answered, GetServiceRes,
              Saved, serverVars
<1>7. ASSUME NEW c \in Instances, Poll(c) \/ Call(c)
      PROVE  UNCHANGED <<service_map, handle>>
  BY <1>7 DEF Poll, Call, GetServcies, GiveUp, Ask, Look, TimeOut, serverVars
<1>8. CASE UNCHANGED vars
  BY <1>5, <1>8 DEF vars, serverVars
<1> QED
  BY <1>1, <1>2, <1>3, <1>4, <1>5, <1>6, <1>7, <1>8 DEF Next, Handle

\* However many handles register at the same time and however often connections
\* break and processes start again, an address is in a list once, and no entry
\* without an address is left when service_map_mutex is free.
THEOREM RegisteredOnceHolds == Spec => []RegisteredOnce
<1>1. Init => Adding
  BY Processes DEF Init, Adding, NoService, Unique, Entries
<1>2. TypeOK /\ Busy /\ Adding /\ [Next]_vars => Adding'
  BY AddingStep
<1>3. TypeOK /\ Adding => RegisteredOnce
  BY AddingRegistersOnce
<1> QED
  BY <1>1, <1>2, <1>3, TypeCorrectBusy, PTL DEF Spec
-----------------------------------------------------------------------------
\* The file of a client holds what its memory holds whenever it is not open for
\* writing, with any order of answers, lost connections and restarts.
THEOREM DiskIsMemoryHolds == Spec => []DiskIsMemory
<1>1. Init => DiskIsMemory
  BY DEF Init, DiskIsMemory
<1>2. TypeOK /\ DiskIsMemory /\ [Next]_vars => DiskIsMemory'
  <2> SUFFICES ASSUME TypeOK, DiskIsMemory, [Next]_vars
               PROVE  DiskIsMemory'
    OBVIOUS
  <2> USE Processes
  <2>1. ASSUME NEW c \in Instances, RestartClient(c)
        PROVE  DiskIsMemory'
    BY <2>1 DEF RestartClient, DiskIsMemory, TypeOK
  <2>2. ASSUME NEW c \in Instances, GetServiceRes(c)
        PROVE  DiskIsMemory'
    <3>1. CASE UNCHANGED clientVars
      BY <3>1 DEF DiskIsMemory, clientVars
    <3>2. CASE Refresh(c, Head(responses[c])) /\ Save(c)
      BY <3>2 DEF Refresh, Save, DiskIsMemory, TypeOK
    <3> QED
      BY <2>2, <3>1, <3>2 DEF GetServiceRes
  <2>3. ASSUME NEW c \in Instances, Saved(c)
        PROVE  DiskIsMemory'
    BY <2>3 DEF Saved, DiskIsMemory, TypeOK
  <2>4. CASE UNCHANGED clientVars
    BY <2>4 DEF DiskIsMemory, clientVars
  <2>5. ASSUME NEW c \in Instances, ConnectedCB(c) \/ Break(c) \/ Handle(c)
        PROVE  UNCHANGED clientVars
    BY <2>5 DEF ConnectedCB, Break, Handle, RegisterReq, SetService, GetServiceOne,
                GetServiceAll, SendAll
  <2>6. ASSUME NEW c \in Instances, Poll(c) \/ Call(c)
        PROVE  UNCHANGED clientVars
    BY <2>6 DEF Poll, Call, GetServcies, GiveUp, Ask, Look, TimeOut
  <2>7. RestartServer \/ UNCHANGED vars => UNCHANGED clientVars
    BY DEF RestartServer, vars, clientVars
  <2> QED
    BY <2>1, <2>2, <2>3, <2>4, <2>5, <2>6, <2>7 DEF Next, Answered
<1> QED
  BY <1>1, <1>2, TypeCorrect, PTL DEF Spec
-----------------------------------------------------------------------------
(* The memory of a client only grows.                                      *)

\* An answer for all services carries each list, one for a single service the
\* list that is not empty.
Carries(res, n) == res.type = "ALL" \/ res.map[n] # <<>>

\* What is on its way to c, and what c has in the end, is as old as it is far
\* from the registry: memory, answers in their order, map of the registry.
InOrder(c, n) ==
  /\ Keeps(cache[c][n], service_map[n])
  /\ \A i \in 1 .. Len(responses[c]) : Carries(responses[c][i], n) =>
       /\ Keeps(cache[c][n], responses[c][i].map[n])
       /\ Keeps(responses[c][i].map[n], service_map[n])
       /\ \A j \in 1 .. Len(responses[c]) : i < j /\ Carries(responses[c][j], n) =>
            Keeps(responses[c][i].map[n], responses[c][j].map[n])

\* A file that is open is empty, so that a client that starts again begins with
\* what it had or with nothing.
AgeInv ==
  /\ \A c \in Instances : saving[c] => disk[c] = NoService
  /\ restarts = 0 => \A c \in Instances, n \in Names : InOrder(c, n)

LEMMA KeepsTransitive ==
  ASSUME NEW s \in Seq(Entry), NEW t \in Seq(Entry), NEW u \in Seq(Entry),
         Keeps(s, t), Keeps(t, u)
  PROVE  Keeps(s, u)
<1>1. Len(s) \in Nat /\ Len(t) \in Nat /\ Len(u) \in Nat
  OBVIOUS
<1> QED
  BY <1>1 DEF Keeps

LEMMA KeepsSame == \A s \in Seq(Entry) : Keeps(s, s) /\ Keeps(<<>>, s)
  BY DEF Keeps

\* The maps that types give to the lists of a step.
LEMMA ListsOf ==
  ASSUME TypeOK, NEW c \in Instances, NEW n \in Names
  PROVE  /\ cache[c][n] \in Seq(Entry) /\ service_map[n] \in Seq(Entry)
         /\ responses[c] \in Seq(Response) /\ Len(responses[c]) \in Nat
         /\ \A i \in 1 .. Len(responses[c]) : responses[c][i].map[n] \in Seq(Entry)
<1>1. responses[c] \in Seq(Response)
  BY DEF TypeOK
<1>2. \A i \in 1 .. Len(responses[c]) : responses[c][i] \in Response
  BY <1>1, ElementOfSeq
<1>3. cache[c] \in ServiceMap /\ service_map \in ServiceMap
  BY DEF TypeOK
<1> QED
  BY <1>1, <1>2, <1>3 DEF Response, ServiceMap

\* The registry's lists grow and nothing else changes.
LEMMA MapGrows ==
  ASSUME TypeOK, TypeOK', AgeInv, UNCHANGED <<responses, clientVars, restarts>>,
         restarts = 0 => \A n \in Names : Keeps(service_map[n], service_map'[n])
  PROVE  AgeInv'
<1> SUFFICES ASSUME restarts = 0, NEW c \in Instances, NEW n \in Names
             PROVE  InOrder(c, n)'
  BY DEF AgeInv, clientVars
<1>1. service_map'[n] \in Seq(Entry)
  BY ListsOf DEF TypeOK, ServiceMap
<1>2. \A s \in Seq(Entry) : Keeps(s, service_map[n]) => Keeps(s, service_map'[n])
  BY <1>1, ListsOf, KeepsTransitive
<1>3. InOrder(c, n)
  BY DEF AgeInv
<1> QED
  BY <1>2, <1>3, ListsOf DEF InOrder, clientVars

\* A handle answers with lists as they are now.
LEMMA AnswerIsNewest ==
  ASSUME TypeOK, AgeInv, NEW d \in Instances, NEW res \in Response, Send(d, res),
         UNCHANGED <<service_map, clientVars, restarts>>,
         \A n \in Names : Carries(res, n) => res.map[n] = service_map[n]
  PROVE  AgeInv'
<1> SUFFICES ASSUME restarts = 0, NEW c \in Instances, NEW n \in Names
             PROVE  InOrder(c, n)'
  BY DEF AgeInv, clientVars
<1>1. InOrder(c, n)
  BY DEF AgeInv
<1>2. CASE c # d
  <2>1. responses'[c] = responses[c]
    BY <1>2 DEF Send, TypeOK
  <2> QED
    BY <1>1, <2>1 DEF InOrder, clientVars
<1>3. CASE c = d
  <2> DEFINE k == Len(responses[c])
  <2>1. /\ Len(responses'[c]) = k + 1 /\ responses'[c][k + 1] = res /\ k \in Nat
        /\ \A i \in 1 .. k : responses'[c][i] = responses[c][i]
    BY <1>3, ListsOf DEF Send, TypeOK
  <2>2. \A i \in 1 .. k + 1 : i \in 1 .. k \/ i = k + 1
    BY <2>1
  <2>3. Carries(res, n) => Keeps(res.map[n], service_map[n])
    BY ListsOf, KeepsSame
  <2> HIDE DEF k
  <2>4. ASSUME NEW i \in 1 .. k + 1, Carries(responses'[c][i], n)
        PROVE  /\ Keeps(cache[c][n], responses'[c][i].map[n])
               /\ Keeps(responses'[c][i].map[n], service_map[n])
    BY <1>1, <2>1, <2>2, <2>3, <2>4 DEF InOrder, k
  <2>5. ASSUME NEW i \in 1 .. k + 1, NEW j \in 1 .. k + 1, i < j,
               Carries(responses'[c][i], n), Carries(responses'[c][j], n)
        PROVE  Keeps(responses'[c][i].map[n], responses'[c][j].map[n])
    <3>1. i \in 1 .. k
      BY <2>1, <2>5
    <3>2. CASE j \in 1 .. k
      BY <1>1, <2>1, <2>5, <3>1, <3>2 DEF InOrder, k
    <3>3. CASE j = k + 1
      BY <1>1, <2>1, <2>5, <3>1, <3>3 DEF InOrder, k
    <3> QED
      BY <2>2, <3>2, <3>3
  <2> QED
    BY <1>1, <2>1, <2>4, <2>5 DEF InOrder, clientVars
<1> QED
  BY <1>2, <1>3

\* A client takes the oldest of its answers: its memory grows, and is still
\* older than the others.
LEMMA TakeAnswer ==
  ASSUME TypeOK, AgeInv, NEW d \in Instances, GetServiceRes(d)
  PROVE  /\ AgeInv'
         /\ restarts = 0 => \A n \in Names : Keeps(cache[d][n], cache'[d][n])
<1> DEFINE res == Head(responses[d])
           k == Len(responses[d])
<1>1. /\ responses[d] \in Seq(Response) /\ responses[d] # <<>> /\ k \in Nat \ {0}
      /\ res = responses[d][1] /\ res \in Response /\ 1 \in 1 .. k
  <2>1. responses[d] \in Seq(Response) /\ responses[d] # <<>>
    BY DEF GetServiceRes, TypeOK
  <2> QED
    BY <2>1
<1>2. /\ Len(responses'[d]) = k - 1
      /\ \A i \in 1 .. k - 1 : i + 1 \in 1 .. k /\ responses'[d][i] = responses[d][i + 1]
      /\ \A c \in Instances : c # d => responses'[c] = responses[c]
  BY <1>1 DEF GetServiceRes, TypeOK
<1>3. /\ UNCHANGED <<service_map, restarts>>
      /\ \A c \in Instances : c # d => /\ cache'[c] = cache[c] /\ disk'[c] = disk[c]
                                       /\ saving'[c] = saving[c]
  BY DEF GetServiceRes, Refresh, Save, TypeOK, serverVars, clientVars, faults
<1>4. saving'[d] => disk'[d] = NoService
  BY DEF GetServiceRes, Save, TypeOK, AgeInv, clientVars
<1>5. \A n \in Names : cache'[d][n] = IF Carries(res, n) THEN res.map[n] ELSE cache[d][n]
  <2>1. CASE res.type = "ALL"
    BY <2>1 DEF GetServiceRes, Refresh, Carries, TypeOK
  <2>2. CASE res.type # "ALL"
    <3>1. res.type = "ONE"
      BY <1>1, <2>2 DEF Response
    <3>2. CASE Known(res.map) = {}
      BY <2>2, <3>1, <3>2 DEF GetServiceRes, Carries, Known, clientVars
    <3>3. CASE Known(res.map) # {}
      BY <2>2, <3>1, <3>3 DEF GetServiceRes, Refresh, Merge, Carries, Known, TypeOK
    <3> QED
      BY <3>2, <3>3
  <2> QED
    BY <2>1, <2>2
<1> HIDE DEF res
<1>6. ASSUME restarts = 0, NEW n \in Names
      PROVE  /\ Keeps(cache[d][n], cache'[d][n])
             /\ InOrder(d, n)'
  <2>1. InOrder(d, n)
    BY <1>6 DEF AgeInv
  <2>2. Carries(res, n) => /\ Keeps(cache[d][n], res.map[n])
                           /\ Keeps(res.map[n], service_map[n])
                           /\ \A j \in 1 .. k : 1 < j /\ Carries(responses[d][j], n) =>
                                Keeps(res.map[n], responses[d][j].map[n])
    BY <1>1, <2>1 DEF InOrder
  <2>3. Keeps(cache[d][n], cache'[d][n]) /\ Keeps(cache'[d][n], service_map[n])
    BY <1>5, <2>1, <2>2, ListsOf, KeepsSame DEF InOrder
  <2>4. \A j \in 1 .. k : 1 < j /\ Carries(responses[d][j], n) =>
          /\ Keeps(cache'[d][n], responses[d][j].map[n])
          /\ Keeps(responses[d][j].map[n], service_map[n])
    BY <1>5, <2>1, <2>2 DEF InOrder
  <2>5. \A i, j \in 1 .. k :
          i < j /\ Carries(responses[d][i], n) /\ Carries(responses[d][j], n) =>
            Keeps(responses[d][i].map[n], responses[d][j].map[n])
    BY <2>1 DEF InOrder
  <2>6. \A i, j \in 1 .. k - 1 : 1 < i + 1 /\ (i < j => i + 1 < j + 1)
    BY <1>1
  <2> QED
    BY <1>2, <1>3, <2>3, <2>4, <2>5, <2>6, SMTT(30) DEF InOrder
<1>7. ASSUME restarts = 0, NEW c \in Instances, c # d, NEW n \in Names
      PROVE  InOrder(c, n)'
  BY <1>2, <1>3, <1>7 DEF AgeInv, InOrder
<1> QED
  BY <1>3, <1>4, <1>6, <1>7 DEF AgeInv

\* A connection is cut: what was on its way is gone.
LEMMA CutAge ==
  ASSUME TypeOK, AgeInv, NEW d \in Instances,
         responses' = [responses EXCEPT ![d] = <<>>],
         UNCHANGED <<service_map, restarts>>,
         \A c \in Instances : c # d => cache'[c] = cache[c],
         cache'[d] \in {cache[d], NoService},
         \A c \in Instances : saving'[c] => disk'[c] = NoService
  PROVE  AgeInv'
<1> SUFFICES ASSUME restarts = 0, NEW c \in Instances, NEW n \in Names
             PROVE  InOrder(c, n)'
  BY DEF AgeInv
<1>1. InOrder(c, n)
  BY DEF AgeInv
<1>2. CASE c # d
  BY <1>1, <1>2 DEF InOrder, TypeOK
<1>3. CASE c = d
  <2>1. responses'[c] = <<>>
    BY <1>3 DEF TypeOK
  <2>2. cache'[c][n] \in {cache[c][n], <<>>}
    BY <1>3 DEF NoService
  <2> QED
    BY <1>1, <2>1, <2>2, ListsOf, KeepsSame DEF InOrder
<1> QED
  BY <1>2, <1>3

LEMMA AgeStep ==
  ASSUME TypeOK, TypeOK', Busy, Adding, DiskIsMemory, AgeInv, [Next]_vars
  PROVE  AgeInv'
<1> USE Processes
<1>1. ASSUME UNCHANGED <<service_map, responses, clientVars, restarts>>
      PROVE  AgeInv'
  BY <1>1 DEF AgeInv, InOrder, clientVars
<1>2. ASSUME NEW c \in Instances, Break(c)
      PROVE  AgeInv'
  BY <1>2, CutAge DEF Break, Cut, AgeInv, serverVars, clientVars
<1>3. ASSUME NEW c \in Instances, RestartClient(c)
      PROVE  AgeInv'
  <2>1. disk[c] \in {cache[c], NoService}
    BY DEF AgeInv, DiskIsMemory
  <2>2. /\ cache'[c] = disk[c] /\ \A e \in Instances : e # c => cache'[e] = cache[e]
        /\ \A e \in Instances : saving'[e] => saving[e]
        /\ UNCHANGED <<disk, service_map, restarts>>
        /\ responses' = [responses EXCEPT ![c] = <<>>]
    BY <1>3 DEF RestartClient, Cut, TypeOK, serverVars
  <2>3. \A e \in Instances : saving'[e] => disk'[e] = NoService
    BY <2>2 DEF AgeInv
  <2> QED
    BY <2>1, <2>2, <2>3, CutAge
<1>4. CASE RestartServer
  <2>1. restarts' # 0 /\ UNCHANGED clientVars
    BY <1>4 DEF RestartServer, TypeOK
  <2> QED
    BY <2>1 DEF AgeInv, clientVars
<1>5. ASSUME NEW c \in Instances, RegisterReq(c)
      PROVE  AgeInv'
  <2>1. \A n \in Names : Keeps(service_map[n], service_map'[n])
    <3> SUFFICES ASSUME NEW n \in Names PROVE Keeps(service_map[n], service_map'[n])
      OBVIOUS
    <3>1. service_map[n] \in Seq(Entry)
      BY DEF TypeOK, ServiceMap
    <3>2. service_map'[n] = service_map[n] \/ service_map'[n] = Append(service_map[n], Blank)
      <4>1. \/ service_map' = [service_map EXCEPT ![NameOf[c]] = Append(@, Blank)]
            \/ service_map' = service_map
        BY <1>5 DEF RegisterReq, serverVars
      <4>2. service_map \in [Names -> Seq(Entry)]
        BY DEF TypeOK, ServiceMap
      <4> QED
        BY <4>1, <4>2
    <3> QED
      BY <3>1, <3>2 DEF Keeps
  <2>2. UNCHANGED <<responses, clientVars, restarts>>
    BY <1>5 DEF RegisterReq, faults
  <2> QED
    BY <2>1, <2>2, MapGrows
<1>6. ASSUME NEW c \in Instances, SetService(c)
      PROVE  AgeInv'
  <2>1. \A n \in Names : Keeps(service_map[n], service_map'[n])
    <3> SUFFICES ASSUME NEW n \in Names PROVE Keeps(service_map[n], service_map'[n])
      OBVIOUS
    <3>1. service_map[n] \in Seq(Entry)
      BY DEF TypeOK, ServiceMap
    <3>2. CASE n # NameOf[c]
      BY <1>6, <3>1, <3>2, KeepsSame DEF SetService, TypeOK, ServiceMap
    <3>3. CASE n = NameOf[c]
      <4>1. service_map[n] # <<>> /\ service_map[n][Len(service_map[n])] = Blank
        BY <1>6, <3>3 DEF SetService, Busy, Adding
      <4>2. service_map'[n] = [service_map[n] EXCEPT ![Len(service_map[n])] = c]
        BY <1>6, <3>3 DEF SetService, TypeOK, ServiceMap
      <4>3. Len(service_map[n]) \in 1 .. Len(service_map[n]) /\ c \in Entry
        BY <3>1, <4>1
      <4>4. /\ Len(service_map'[n]) = Len(service_map[n])
            /\ \A i \in 1 .. Len(service_map[n]) :
                 i # Len(service_map[n]) => service_map'[n][i] = service_map[n][i]
        BY <3>1, <4>2, <4>3, ExceptSeq
      <4> QED
        BY <3>1, <4>1, <4>4 DEF Keeps
    <3> QED
      BY <3>2, <3>3
  <2>2. UNCHANGED <<responses, clientVars, restarts>>
    BY <1>6 DEF SetService, faults
  <2> QED
    BY <2>1, <2>2, MapGrows
<1>7. ASSUME NEW c \in Instances, GetServiceOne(c)
      PROVE  AgeInv'
  <2> DEFINE n == Head(requests[c]).name
             res == [type |-> "ONE", map |-> [NoService EXCEPT ![n] = service_map[n]]]
  <2>1. n \in Names
    <3>1. requests[c] # <<>> /\ requests \in [Instances -> Seq(Request)]
      BY <1>7 DEF GetServiceOne, Receives, TypeOK
    <3>2. Head(requests[c]) \in Request
      BY <3>1, Queues
    <3> QED
      BY <3>2 DEF Request
  <2>2. res \in Response
    BY <2>1, Answers DEF TypeOK, Response
  <2>3. \A m \in Names : Carries(res, m) => res.map[m] = service_map[m]
    BY <2>1 DEF Carries, NoService
  <2>4. Send(c, res) /\ UNCHANGED <<service_map, clientVars, restarts>>
    BY <1>7 DEF GetServiceOne, serverVars, faults
  <2> HIDE DEF res
  <2> QED
    BY <2>2, <2>3, <2>4, AnswerIsNewest
<1>8. ASSUME NEW c \in Instances, SendAll(c)
      PROVE  AgeInv'
  <2> DEFINE res == [type |-> "ALL", map |-> service_map]
  <2>1. res \in Response /\ \A m \in Names : res.map[m] = service_map[m]
    BY DEF TypeOK, Response
  <2>2. Send(c, res) /\ UNCHANGED <<service_map, clientVars, restarts>>
    BY <1>8 DEF SendAll, serverVars, faults
  <2> HIDE DEF res
  <2> QED
    BY <2>1, <2>2, AnswerIsNewest
<1>9. ASSUME NEW c \in Instances, Saved(c)
      PROVE  AgeInv'
  <2>1. /\ UNCHANGED <<service_map, responses, cache, restarts>>
        /\ \A d \in Instances : d # c => disk'[d] = disk[d] /\ saving'[d] = saving[d]
        /\ ~saving'[c]
    BY <1>9 DEF Saved, TypeOK, serverVars, faults
  <2> QED
    BY <2>1 DEF AgeInv, InOrder
<1>10. ASSUME NEW c \in Instances, ConnectedCB(c) \/ GetServiceAll(c) \/ Poll(c) \/ Call(c)
       PROVE  UNCHANGED <<service_map, responses, clientVars, restarts>>
  BY <1>10 DEF ConnectedCB, GetServiceAll, Poll, Call, GetServcies, GiveUp, Ask, Look,
               TimeOut, serverVars, faults
<1>11. UNCHANGED vars => UNCHANGED <<service_map, responses, clientVars, restarts>>
  BY DEF vars, clientVars
<1> QED
  BY <1>1, <1>2, <1>3, <1>4, <1>5, <1>6, <1>7, <1>8, <1>9, <1>10, <1>11, TakeAnswer
    DEF Next, Handle, Answered

\* As long as the registry did not start again a running client forgets no
\* address, with any number of clients, answers under way and lost connections.
THEOREM CacheGrowsHolds == Spec => CacheGrows
<1>1. Init => AgeInv
  <2> SUFFICES ASSUME Init, NEW c \in Instances, NEW n \in Names
               PROVE  InOrder(c, n)
    BY DEF Init, AgeInv
  <2>1. cache[c][n] = <<>> /\ service_map[n] = <<>> /\ responses[c] = <<>>
    BY DEF Init, NoService
  <2> QED
    BY <2>1 DEF InOrder, Keeps
<1>2. ASSUME TypeOK, TypeOK', AgeInv, [Next]_vars
      PROVE  \A c \in Instances, n \in Names :
               restarts' = 0 /\ ~RestartClient(c) => Keeps(cache[c][n], cache'[c][n])
  <2> SUFFICES ASSUME NEW c \in Instances, NEW n \in Names, restarts' = 0, ~RestartClient(c)
               PROVE  Keeps(cache[c][n], cache'[c][n])
    OBVIOUS
  <2>1. restarts' = restarts \/ restarts' = restarts + 1
    BY <1>2 DEF Next, ConnectedCB, Break, RestartClient, RestartServer, Handle, RegisterReq,
       SetService, GetServiceOne, GetServiceAll, SendAll, Answered, GetServiceRes, Saved,
       Poll, Call, GetServcies, GiveUp, Ask, Look, TimeOut, vars, faults
  <2>2. restarts = 0
    BY <1>2, <2>1 DEF TypeOK
  <2>3. cache'[c] = cache[c] \/ GetServiceRes(c)
    BY <1>2, ZenonT(60) DEF Next, ConnectedCB, Break, RestartClient, RestartServer, Handle, RegisterReq,
       SetService, GetServiceOne, GetServiceAll, SendAll, Answered, GetServiceRes, Saved,
       Refresh, Poll, Call, GetServcies, GiveUp, Ask, Look, TimeOut, vars, clientVars, TypeOK
  <2> QED
    BY <1>2, <2>2, <2>3, TakeAnswer, ListsOf, KeepsSame
<1>3. Spec => [](TypeOK /\ Busy /\ Adding /\ DiskIsMemory)
  <2>1. Init => Adding
    BY Processes DEF Init, Adding, NoService, Unique, Entries
  <2> QED
    BY <2>1, AddingStep, TypeCorrectBusy, DiskIsMemoryHolds, PTL DEF Spec
<1>4. TypeOK /\ TypeOK' /\ Busy /\ Adding /\ DiskIsMemory /\ AgeInv /\ [Next]_vars => AgeInv'
  BY AgeStep
<1>5. Spec => []AgeInv
  BY <1>1, <1>3, <1>4, PTL DEF Spec
<1> QED
  BY <1>2, <1>3, <1>5, PTL DEF Spec, CacheGrows
=============================================================================
