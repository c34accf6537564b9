------------------------------- MODULE Gateway -------------------------------
(***************************************************************************)
(* Requests and replies through the gateway (src/xms_gateway).  A client's *)
(* connection is an XRouterHandle; each instance of a service is reached   *)
(* through an XServiceProxyClient.  XServiceProxy::SendMsg chooses a proxy *)
(* round robin and registers the router in its callback_task_, and when    *)
(* the reply comes, on the thread of the proxy, ReadCB looks the router up *)
(* by the msg_id in its head, which is the router's address.  Routers and  *)
(* proxies live on different pool threads, and a router is deleted when    *)
(* its client leaves.                                                      *)
(*                                                                         *)
(* Four kinds of mutex are taken on the way, one inside the other:         *)
(* client_map_mutex_ and callbacks_mutex_ of the one XServiceProxy,        *)
(* callback_task_mutex_ of a proxy, and the mutex mux_ of the proxy as a   *)
(* task.  A router's own mux_ is never held while another is waited for,   *)
(* and is left out.                                                        *)
(*                                                                         *)
(* The module follows the requests for one service.  The service itself is *)
(* external: it answers a request on the connection it came from and keeps *)
(* its msg_id.  No two routers have the same address here.                 *)
(***************************************************************************)
EXTENDS Integers, Sequences, FiniteSets

CONSTANTS
  Routers,    \* the XRouterHandle objects, by address
  Proxies,    \* the XServiceProxyClient objects of the service
  Requests,   \* the requests of the clients
  Owner,      \* Owner[q]: the router that q arrives at
  NoProxy,    \* no client yet
  Nobody      \* a mutex is free

ASSUME ConstantsAssumption ==
  /\ Owner \in [Requests -> Routers]
  /\ NoProxy \notin Proxies
  /\ Nobody \notin Requests \cup Routers \cup Proxies

VARIABLES
  router,         \* router[r]: "open", in DelEvent ("leaving", "cleaning",
                  \* "erasing"), "closing" after it, "deleted"
  instances,      \* client_map_[service_name]
  last_index,     \* client_map_last_index_[service_name]
  connected,      \* connected[p]: is_connected() of p
  callbacks_,     \* callbacks_[r]: the proxy that sent last for r
  callback_task_, \* callback_task_[p]: the routers registered with p
  req,            \* req[q]: how far q is, over which proxy, instances tried
  client_map_mutex_, \* the request whose SendMsg holds it
  callbacks_mutex_,  \* the request, or the router that closes
  callback_task_mutex_, \* callback_task_mutex_[p]: the router that closes
  mux_,           \* mux_[p]: p itself, while its connection is closed
  turns           \* history: turns[p], the requests p got since every
                  \* instance has been connected

vars == <<router, instances, last_index, connected, callbacks_, callback_task_,
          req, client_map_mutex_, callbacks_mutex_, callback_task_mutex_, mux_, turns>>
locks == <<client_map_mutex_, callbacks_mutex_, callback_task_mutex_, mux_>>
listVars == <<instances, last_index>>
eventVars == <<callbacks_, callback_task_>>

Listed == {instances[i] : i \in 1 .. Len(instances)}

Init ==
  /\ router = [r \in Routers |-> "open"]
  /\ instances = <<>>
  /\ last_index = 0
  /\ connected = [p \in Proxies |-> FALSE]
  /\ callbacks_ = [r \in Routers |-> NoProxy]
  /\ callback_task_ = [p \in Proxies |-> {}]
  /\ req = [q \in Requests |-> [at |-> "new", via |-> NoProxy, tried |-> 0]]
  /\ client_map_mutex_ = Nobody /\ callbacks_mutex_ = Nobody
  /\ callback_task_mutex_ = [p \in Proxies |-> Nobody]
  /\ mux_ = [p \in Proxies |-> Nobody]
  /\ turns = [p \in Proxies |-> 0]

\* A request that is over: answered, refused or lost.
Over == [at |-> "over", via |-> NoProxy, tried |-> 0]

Afresh == turns' = [p \in Proxies |-> 0]
-----------------------------------------------------------------------------
(* XServiceProxy::Main and the connections of the proxies.                  *)

\* Mutant: the new instance counts as the one used last.
AddInstanceLast(p) ==
  /\ client_map_mutex_ = Nobody
  /\ p \notin Listed
  /\ instances' = Append(instances, p)
  /\ last_index' = Len(instances')
  /\ Afresh
  /\ UNCHANGED <<router, connected, eventVars, req, locks>>

\* A new instance from the registry: the round starts at the first again.
AddInstance(p) ==
  /\ client_map_mutex_ = Nobody
  /\ p \notin Listed
  /\ instances' = Append(instances, p)
  /\ last_index' = 0
  /\ Afresh
  /\ UNCHANGED <<router, connected, eventVars, req, locks>>

\* On the thread of p, without a mutex.
ProxyConnected(p) ==
  /\ p \in Listed /\ ~connected[p] /\ mux_[p] # p
  /\ connected' = [connected EXCEPT ![p] = TRUE]
  /\ Afresh
  /\ UNCHANGED <<router, listVars, eventVars, req, locks>>

\* XComTask::Close takes the mutex of p ...  ReadCB of p runs on the same
\* thread and is not interrupted.  (Connect holds the mutex in the same way.)
CloseProxy(p) ==
  /\ p \in Listed
  /\ \A q \in Requests : ~(req[q].at = "found" /\ req[q].via = p)
  /\ mux_[p] = Nobody
  /\ mux_' = [mux_ EXCEPT ![p] = p]
  /\ UNCHANGED <<router, listVars, connected, eventVars, req, client_map_mutex_,
                 callbacks_mutex_, callback_task_mutex_, turns>>

\* ... and ends the connection of p, or what was to be one.  What was sent over
\* it is lost.
ProxyClosed(p) ==
  /\ mux_[p] = p
  /\ mux_' = [mux_ EXCEPT ![p] = Nobody]
  /\ connected' = [connected EXCEPT ![p] = FALSE]
  /\ req' = [q \in Requests |->
               IF req[q].via = p /\ req[q].at \in {"sent", "reply"}
               THEN Over ELSE req[q]]
  /\ Afresh
  /\ UNCHANGED <<router, listVars, eventVars, client_map_mutex_, callbacks_mutex_,
                 callback_task_mutex_>>
-----------------------------------------------------------------------------
(* XRouterHandle::ReadCB and XServiceProxy::SendMsg, on the thread of the   *)
(* router, one request of a router at a time.                               *)

\* The router's thread is inside ReadCB from here until SendMsg returns.
InCall == {"lock", "choose", "chosen", "noted", "send"}
InSendMsg(r) == \E q \in Requests : Owner[q] = r /\ req[q].at \in InCall

Receive(q) ==
  /\ req[q].at = "new"
  /\ router[Owner[q]] = "open" /\ ~InSendMsg(Owner[q])
  /\ req' = [req EXCEPT ![q].at = "lock"]
  /\ UNCHANGED <<router, listVars, connected, eventVars, locks, turns>>

\* SendMsg takes client_map_mutex_ and keeps it until it returns.
LockMap(q) ==
  /\ req[q].at = "lock"
  /\ client_map_mutex_ = Nobody
  /\ client_map_mutex_' = q
  /\ req' = [req EXCEPT ![q].at = "choose"]
  /\ UNCHANGED <<router, listVars, connected, eventVars, callbacks_mutex_,
                 callback_task_mutex_, mux_, turns>>

\* Mutant: the index is taken as it was stored.
NextIndexSame == last_index % Len(instances)
NextIndex == (last_index + 1) % Len(instances)

\* One turn of the loop: the next instance, and whether it is connected.
Choose(q) ==
  /\ req[q].at = "choose"
  /\ req[q].tried < Len(instances)
  /\ last_index' = NextIndex
  /\ LET p == instances[NextIndex + 1] IN
       IF connected[p]
       THEN /\ turns' = [turns EXCEPT ![p] = @ + 1]
            /\ req' = [req EXCEPT ![q] = [at |-> "chosen", via |-> p, tried |-> 0]]
       ELSE /\ req' = [req EXCEPT ![q].tried = @ + 1]
            /\ UNCHANGED turns
  /\ UNCHANGED <<router, instances, connected, eventVars, locks>>

\* It takes callbacks_mutex_ too, and keeps it until it returns.
LockCallbacks(q) ==
  /\ req[q].at = "chosen"
  /\ callbacks_mutex_ = Nobody
  /\ callbacks_mutex_' = q
  /\ callbacks_' = [callbacks_ EXCEPT ![Owner[q]] = req[q].via]
  /\ req' = [req EXCEPT ![q].at = "noted"]
  /\ UNCHANGED <<router, listVars, connected, callback_task_, client_map_mutex_,
                 callback_task_mutex_, mux_, turns>>

\* Mutant: a router that is registered anywhere is not registered again.
RegEventOnce(q) ==
  LET p == req[q].via IN
  /\ req[q].at = "noted"
  /\ callback_task_mutex_[p] = Nobody
  /\ callback_task_' = IF \A x \in Proxies : Owner[q] \notin callback_task_[x]
                       THEN [callback_task_ EXCEPT ![p] = @ \cup {Owner[q]}]
                       ELSE callback_task_
  /\ req' = [req EXCEPT ![q].at = "send"]
  /\ UNCHANGED <<router, listVars, connected, callbacks_, locks, turns>>

\* The proxy registers the router, inside callback_task_mutex_.
RegEvent(q) ==
  LET p == req[q].via IN
  /\ req[q].at = "noted"
  /\ callback_task_mutex_[p] = Nobody
  /\ callback_task_' = [callback_task_ EXCEPT ![p] = @ \cup {Owner[q]}]
  /\ req' = [req EXCEPT ![q].at = "send"]
  /\ UNCHANGED <<router, listVars, connected, callbacks_, locks, turns>>

\* No instance is connected: SendMsg returns false and nobody is told.
Refuse(q) ==
  /\ req[q].at = "choose"
  /\ req[q].tried = Len(instances)
  /\ req' = [req EXCEPT ![q] = Over]
  /\ client_map_mutex_' = Nobody
  /\ UNCHANGED <<router, listVars, connected, eventVars, callbacks_mutex_,
                 callback_task_mutex_, mux_, turns>>

\* What a Write on the proxy of q comes to.  If its connection ended meanwhile
\* the write fails, or goes to the output buffer of the next connection.
Written(q) ==
  LET sent == [req[q] EXCEPT !.at = "sent"] IN
  IF connected[req[q].via] THEN {sent} ELSE {sent, Over}

\* XMsgEvent::SendMsg on the proxy; every Write takes the mutex of the proxy.
\* On return the two mutexes of XServiceProxy are released.
Send(q) ==
  /\ req[q].at = "send"
  /\ mux_[req[q].via] = Nobody
  /\ \E w \in Written(q) : req' = [req EXCEPT ![q] = w]
  /\ client_map_mutex_' = Nobody /\ callbacks_mutex_' = Nobody
  /\ UNCHANGED <<router, listVars, connected, eventVars, callback_task_mutex_, mux_, turns>>
-----------------------------------------------------------------------------
(* The reply: XServiceProxyClient::ReadCB, on the thread of the proxy.      *)

Answer(q) ==
  /\ req[q].at = "sent"
  /\ connected[req[q].via]
  /\ req' = [req EXCEPT ![q].at = "reply"]
  /\ UNCHANGED <<router, listVars, connected, eventVars, locks, turns>>

\* callback_task_.find(head->msg_id()): no lock is taken.
Find(q) ==
  LET p == req[q].via IN
  /\ req[q].at = "reply"
  /\ mux_[p] # p
  /\ \A x \in Requests : ~(req[x].at = "found" /\ req[x].via = p)
  /\ req' = [req EXCEPT ![q] = IF Owner[q] \in callback_task_[p]
                               THEN [@ EXCEPT !.at = "found"] ELSE Over]
  /\ UNCHANGED <<router, listVars, connected, eventVars, locks, turns>>

\* router->second->SendMsg: the router that was found is used, whether or not
\* it is still there.
Relay(q) ==
  /\ req[q].at = "found"
  /\ req' = [req EXCEPT ![q] = Over]
  /\ UNCHANGED <<router, listVars, connected, eventVars, locks, turns>>
-----------------------------------------------------------------------------
(* XRouterHandle::Close, on the thread of the router, when it is not inside *)
(* ReadCB.                                                                  *)

Close(r) ==
  /\ router[r] = "open" /\ ~InSendMsg(r)
  /\ router' = [router EXCEPT ![r] = "leaving"]
  /\ UNCHANGED <<listVars, connected, eventVars, req, locks, turns>>

\* XServiceProxy::DelEvent takes callbacks_mutex_; if callbacks_ has no entry
\* of the router there is nothing to do.
DelEvent(r) ==
  /\ router[r] = "leaving"
  /\ callbacks_mutex_ = Nobody
  /\ IF callbacks_[r] = NoProxy
     THEN /\ router' = [router EXCEPT ![r] = "closing"]
          /\ UNCHANGED callbacks_mutex_
     ELSE /\ router' = [router EXCEPT ![r] = "cleaning"]
          /\ callbacks_mutex_' = r
  /\ UNCHANGED <<listVars, connected, eventVars, req, client_map_mutex_,
                 callback_task_mutex_, mux_, turns>>

\* XServiceProxyClient::DelEvent of the proxy found there takes its
\* callback_task_mutex_ as well ...
DelEventAt(r) ==
  /\ router[r] = "cleaning"
  /\ callback_task_mutex_[callbacks_[r]] = Nobody
  /\ callback_task_mutex_' = [callback_task_mutex_ EXCEPT ![callbacks_[r]] = r]
  /\ router' = [router EXCEPT ![r] = "erasing"]
  /\ UNCHANGED <<listVars, connected, eventVars, req, client_map_mutex_,
                 callbacks_mutex_, mux_, turns>>

\* Mutant: nothing is erased.
EraseNothing(r) ==
  /\ router[r] = "erasing"
  /\ router' = [router EXCEPT ![r] = "closing"]
  /\ callback_task_mutex_' = [callback_task_mutex_ EXCEPT ![callbacks_[r]] = Nobody]
  /\ callbacks_mutex_' = Nobody
  /\ UNCHANGED <<listVars, connected, eventVars, req, client_map_mutex_, mux_, turns>>

\* Mutant: the list of instances is searched, inside its own mutex.
EraseFromList(r) ==
  /\ router[r] = "erasing"
  /\ client_map_mutex_ = Nobody
  /\ router' = [router EXCEPT ![r] = "closing"]
  /\ callback_task_' = [p \in Proxies |-> callback_task_[p] \ {r}]
  /\ callback_task_mutex_' = [callback_task_mutex_ EXCEPT ![callbacks_[r]] = Nobody]
  /\ callbacks_mutex_' = Nobody
  /\ UNCHANGED <<listVars, connected, callbacks_, req, client_map_mutex_, mux_, turns>>

\* ... and erases the router there; it stays in callbacks_.
Erase(r) ==
  LET p == callbacks_[r] IN
  /\ router[r] = "erasing"
  /\ router' = [router EXCEPT ![r] = "closing"]
  /\ callback_task_' = [callback_task_ EXCEPT ![p] = @ \ {r}]
  /\ callback_task_mutex_' = [callback_task_mutex_ EXCEPT ![p] = Nobody]
  /\ callbacks_mutex_' = Nobody
  /\ UNCHANGED <<listVars, connected, callbacks_, req, client_map_mutex_, mux_, turns>>

\* XMsgEvent::Close deletes the handle.
DeleteRouter(r) ==
  /\ router[r] = "closing"
  /\ router' = [router EXCEPT ![r] = "deleted"]
  /\ UNCHANGED <<listVars, connected, eventVars, req, locks, turns>>
-----------------------------------------------------------------------------
SendMsg(q) ==
  \/ LockMap(q) \/ Choose(q) \/ Refuse(q) \/ LockCallbacks(q) \/ RegEvent(q) \/ Send(q)
ReadCB(q) == Find(q) \/ Relay(q)
CloseRouter(r) == DelEvent(r) \/ DelEventAt(r) \/ Erase(r) \/ DeleteRouter(r)

Next ==
  \/ \E p \in Proxies :
       AddInstance(p) \/ ProxyConnected(p) \/ CloseProxy(p) \/ ProxyClosed(p)
  \/ \E q \in Requests : Receive(q) \/ SendMsg(q) \/ Answer(q) \/ ReadCB(q)
  \/ \E r \in Routers : Close(r) \/ CloseRouter(r)

\* A thread that is inside a call runs on, and one that waits for a mutex that
\* is free again and again gets it some time.  Nothing is assumed of the
\* network, of the services and of the clients.
Fairness ==
  /\ \A q \in Requests : SF_vars(SendMsg(q)) /\ SF_vars(ReadCB(q))
  /\ \A r \in Routers : SF_vars(CloseRouter(r))
  /\ \A p \in Proxies : WF_vars(ProxyClosed(p))

Spec == Init /\ [][Next]_vars
FairSpec == Spec /\ Fairness
-----------------------------------------------------------------------------
RequestState ==
  [at : {"new", "lock", "choose", "chosen", "noted", "send", "sent", "reply",
         "found", "over"},
   via : Proxies \cup {NoProxy}, tried : Nat]

Chosen == {"chosen", "noted", "send", "sent", "reply", "found"}
RouterState == {"open", "leaving", "cleaning", "erasing", "closing", "deleted"}

TypeOK ==
  /\ router \in [Routers -> RouterState]
  /\ instances \in Seq(Proxies)
  /\ last_index \in Nat
  /\ last_index < Len(instances) \/ last_index = 0
  /\ connected \in [Proxies -> BOOLEAN]
  /\ callbacks_ \in [Routers -> Proxies \cup {NoProxy}]
  /\ callback_task_ \in [Proxies -> SUBSET Routers]
  /\ req \in [Requests -> RequestState]
  /\ \A q \in Requests : req[q].at \in Chosen => req[q].via \in Proxies
  /\ \A r \in Routers : router[r] \in {"cleaning", "erasing"} => callbacks_[r] \in Proxies
  /\ client_map_mutex_ \in Requests \cup {Nobody}
  /\ callbacks_mutex_ \in Requests \cup Routers \cup {Nobody}
  /\ callback_task_mutex_ \in [Proxies -> Routers \cup {Nobody}]
  /\ mux_ \in [Proxies -> Proxies \cup {Nobody}]
  /\ turns \in [Proxies -> Nat]

InFlight == {"send", "sent", "reply"}

\* A router whose client is there is registered with every proxy that carries
\* one of its requests, although other requests of it went over other proxies
\* since and other routers come and go: its reply will find it.
ReplyFindsRouter ==
  \A q \in Requests :
    (req[q].at \in InFlight /\ router[Owner[q]] = "open")
      => Owner[q] \in callback_task_[req[q].via]

\* callbacks_ is "for the clean-up on exit": a router that left is not
\* registered with the proxy it used last.
LastProxyCleaned ==
  \A r \in Routers, p \in Proxies :
    router[r] \in {"closing", "deleted"} /\ callbacks_[r] = p => r \notin callback_task_[p]

\* The load is balanced: while all instances are connected, no instance gets
\* two requests more than another, whichever routers they come from.
Balanced ==
  (\A p \in Listed : connected[p]) =>
     \A p, p2 \in Listed : turns[p] <= turns[p2] + 1

\* callbacks_ is there "to clean the callback buffer": once a router has been
\* deleted no callback_task_ points to it.
NoStaleEntry ==
  \A r \in Routers, p \in Proxies :
    router[r] = "deleted" => r \notin callback_task_[p]

\* No thread of the gateway waits for ever for another one: every SendMsg that
\* has begun returns, every reply a proxy got is relayed or dropped, and every
\* router that closes is deleted, though they take up to four mutexes, one
\* inside the other, and connections break meanwhile.  (There are finitely many
\* requests and routers, each with one call: all return if there are moments
\* without any again and again.)
CallsReturn ==
  []<>(/\ \A q \in Requests : req[q].at \notin InCall \cup {"reply"}
       /\ \A r \in Routers : router[r] \in {"open", "deleted"})
=============================================================================
