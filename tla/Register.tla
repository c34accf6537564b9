------------------------------- MODULE Register -------------------------------
(***************************************************************************)
(* The registry (src/register_server/xregister_handle.cpp) and its clients *)
(* (src/register_client/xregister_client.cpp).  Every micro-service is a   *)
(* process with one XRegisterClient.  It registers its own address each    *)
(* time its connection comes up, asks for the list of one service or of    *)
(* all, and keeps the answers in memory and in a file.  The registry keeps *)
(* its map in memory only; each connection has a handle of its own, and    *)
(* the handles run on several threads.                                     *)
(*                                                                         *)
(* An address stands for the process that has it.  A service without an    *)
(* entry in a map and one with an empty list are the same here: the code   *)
(* never makes an empty list.  The replies to a registration and the       *)
(* heartbeats change no state; what a missing heartbeat does is Break.     *)
(***************************************************************************)
EXTENDS Naturals, Sequences, FiniteSets

CONSTANTS
  Instances,    \* the processes
  Names,        \* the names of the services
  NameOf,       \* NameOf[c]: the service that c registers as
  Pollers,      \* the processes that ask for all services again and again
  Callers,      \* the processes that call GetServcies
  Blank,        \* an entry just added, whose address is not set yet
  Nobody,       \* no handle
  MaxQueue,     \* bound: the messages on their way in one direction
  MaxRestarts,  \* bound: how often the registry starts again
  MaxBreaks     \* bound: how often connections break and processes start again

ASSUME ConstantsAssumption ==
  /\ NameOf \in [Instances -> Names]
  /\ Pollers \subseteq Instances /\ Callers \subseteq Instances
  /\ Blank \notin Instances /\ Nobody \notin Instances
  /\ MaxQueue \in Nat \ {0}
  /\ MaxRestarts \in Nat /\ MaxBreaks \in Nat

VARIABLES
  service_map,        \* of the registry: the list of each service
  service_map_mutex,  \* of the registry: the handle that holds it
  handle,             \* handle[c]: what the handle of c is in the middle of
  requests,           \* requests[c]: from c to its handle
  responses,          \* responses[c]: the lists on their way to c
  connected,          \* connected[c]: is_connected()
  cache,              \* cache[c]: the service_map of the client c
  disk,               \* disk[c]: what the cache file of c holds
  saving,             \* saving[c]: the file is open and not written yet
  call,               \* call[c]: where GetServcies is, and for which service
  restarts, breaks    \* how often that happened

vars == <<service_map, service_map_mutex, handle, requests, responses, connected,
          cache, disk, saving, call, restarts, breaks>>
serverVars == <<service_map, service_map_mutex>>
clientVars == <<cache, disk, saving>>
faults == <<restarts, breaks>>

NoService == [n \in Names |-> <<>>]
NoCall(n) == [at |-> "none", name |-> n]

Init ==
  /\ service_map = NoService
  /\ service_map_mutex = Nobody
  /\ handle = [c \in Instances |-> "idle"]
  /\ requests = [c \in Instances |-> <<>>]
  /\ responses = [c \in Instances |-> <<>>]
  /\ connected = [c \in Instances |-> FALSE]
  /\ cache = [c \in Instances |-> NoService]
  /\ disk = [c \in Instances |-> NoService]
  /\ saving = [c \in Instances |-> FALSE]
  /\ call = [c \in Instances |-> NoCall(NameOf[c])]
  /\ restarts = 0 /\ breaks = 0

Entries(list) == {list[i] : i \in 1 .. Len(list)}
Register(c) == [type |-> "REGISTER", name |-> NameOf[c]]
-----------------------------------------------------------------------------
(* The connection of a client.                                              *)

\* Mutant: a process registers only when it connects for the first time.
ConnectedCBOnce(c) ==
  /\ ~connected[c]
  /\ connected' = [connected EXCEPT ![c] = TRUE]
  /\ requests' = [requests EXCEPT ![c] = IF restarts = 0 THEN <<Register(c)>> ELSE <<>>]
  /\ UNCHANGED <<serverVars, handle, responses, clientVars, call, faults>>

\* The connection is up: ConnectedCB registers the process.
ConnectedCB(c) ==
  /\ ~connected[c]
  /\ connected' = [connected EXCEPT ![c] = TRUE]
  /\ requests' = [requests EXCEPT ![c] = <<Register(c)>>]
  /\ UNCHANGED <<serverVars, handle, responses, clientVars, call, faults>>

Cut(c) ==
  /\ connected' = [connected EXCEPT ![c] = FALSE]
  /\ requests' = [requests EXCEPT ![c] = <<>>]
  /\ responses' = [responses EXCEPT ![c] = <<>>]

\* The connection of c ends, or the registry heard no heartbeat for five
\* seconds.  The handle is not in the middle of a request then.
Break(c) ==
  /\ connected[c] /\ handle[c] = "idle"
  /\ breaks < MaxBreaks
  /\ breaks' = breaks + 1
  /\ Cut(c)
  /\ UNCHANGED <<serverVars, handle, clientVars, call, restarts>>

\* The process of c ends at any point and starts again: RegisterServer reads
\* the file back with LoadLocalFile.
RestartClient(c) ==
  /\ handle[c] = "idle"
  /\ breaks < MaxBreaks
  /\ breaks' = breaks + 1
  /\ Cut(c)
  /\ cache' = [cache EXCEPT ![c] = disk[c]]
  /\ saving' = [saving EXCEPT ![c] = FALSE]
  /\ call' = [call EXCEPT ![c].at = "none"]
  /\ UNCHANGED <<serverVars, handle, disk, restarts>>

\* The registry ends and is started again by its watchdog: its map is empty.
RestartServer ==
  /\ restarts < MaxRestarts
  /\ restarts' = restarts + 1
  /\ service_map' = NoService
  /\ service_map_mutex' = Nobody
  /\ handle' = [c \in Instances |-> "idle"]
  /\ connected' = [c \in Instances |-> FALSE]
  /\ requests' = [c \in Instances |-> <<>>]
  /\ responses' = [c \in Instances |-> <<>>]
  /\ UNCHANGED <<clientVars, call, breaks>>
-----------------------------------------------------------------------------
(* XRegisterHandle, on the thread of the connection of c.                   *)

Receives(c, type) ==
  /\ handle[c] = "idle"
  /\ requests[c] # <<>> /\ Head(requests[c]).type = type
  /\ service_map_mutex = Nobody

Received(c) == requests' = [requests EXCEPT ![c] = Tail(@)]
Send(c, res) == responses' = [responses EXCEPT ![c] = Append(@, res)]

\* Mutants: the return on a known address keeps the mutex; the list is not
\* searched for the address.
RegisterReqKeepsLock(c) ==
  /\ Receives(c, "REGISTER")
  /\ service_map_mutex' = c
  /\ IF c \in Entries(service_map[NameOf[c]])
     THEN /\ Received(c)
          /\ UNCHANGED <<service_map, handle>>
     ELSE /\ service_map' = [service_map EXCEPT ![NameOf[c]] = Append(@, Blank)]
          /\ handle' = [handle EXCEPT ![c] = "register"]
          /\ UNCHANGED requests
  /\ UNCHANGED <<responses, connected, clientVars, call, faults>>

RegisterReqAgain(c) ==
  /\ Receives(c, "REGISTER")
  /\ service_map' = [service_map EXCEPT ![NameOf[c]] = Append(@, Blank)]
  /\ service_map_mutex' = c
  /\ handle' = [handle EXCEPT ![c] = "register"]
  /\ UNCHANGED <<requests, responses, connected, clientVars, call, faults>>

\* RegisterReq up to add_service: an address that is in the list already is
\* refused, a new one gets an entry, still without its address.
RegisterReq(c) ==
  /\ Receives(c, "REGISTER")
  /\ IF c \in Entries(service_map[NameOf[c]])
     THEN /\ Received(c)
          /\ UNCHANGED <<serverVars, handle>>
     ELSE /\ service_map' = [service_map EXCEPT ![NameOf[c]] = Append(@, Blank)]
          /\ service_map_mutex' = c
          /\ handle' = [handle EXCEPT ![c] = "register"]
          /\ UNCHANGED requests
  /\ UNCHANGED <<responses, connected, clientVars, call, faults>>

\* set_ip and the others: the entry is complete and the mutex released.
SetService(c) ==
  LET n == NameOf[c] IN
  /\ handle[c] = "register"
  /\ service_map' = [service_map EXCEPT ![n] = [@ EXCEPT ![Len(@)] = c]]
  /\ service_map_mutex' = Nobody
  /\ handle' = [handle EXCEPT ![c] = "idle"]
  /\ Received(c)
  /\ UNCHANGED <<responses, connected, clientVars, call, faults>>

\* GetServiceReq for one service: its list is copied under the mutex.
GetServiceOne(c) ==
  LET n == Head(requests[c]).name IN
  /\ Receives(c, "ONE")
  /\ Len(responses[c]) < MaxQueue
  /\ Send(c, [type |-> "ONE", map |-> [NoService EXCEPT ![n] = service_map[n]]])
  /\ Received(c)
  /\ UNCHANGED <<serverVars, handle, connected, clientVars, call, faults>>

\* GetServiceReq for all: the mutex is released with a pointer to the map.
GetServiceAll(c) ==
  /\ Receives(c, "ALL")
  /\ Len(responses[c]) < MaxQueue
  /\ handle' = [handle EXCEPT ![c] = "all"]
  /\ UNCHANGED <<serverVars, requests, responses, connected, clientVars, call,
                 faults>>

\* SendMsg serialises the map itself, without the mutex: as it is by now,
\* with an entry that another handle has not completed.
SendAll(c) ==
  /\ handle[c] = "all"
  /\ Send(c, [type |-> "ALL", map |-> service_map])
  /\ handle' = [handle EXCEPT ![c] = "idle"]
  /\ Received(c)
  /\ UNCHANGED <<serverVars, connected, clientVars, call, faults>>
-----------------------------------------------------------------------------
(* XRegisterClient: asking for services.                                    *)

\* SendMsg of a GetServiceReq; without a connection nothing is sent.
GetServiceReq(c, req) ==
  IF connected[c]
  THEN /\ Len(requests[c]) < MaxQueue
       /\ requests' = [requests EXCEPT ![c] = Append(@, req)]
  ELSE UNCHANGED requests

\* GetServiceReq(NULL) by XServiceProxy::Main
Poll(c) ==
  /\ connected[c]
  /\ GetServiceReq(c, [type |-> "ALL", name |-> NameOf[c]])
  /\ UNCHANGED <<serverVars, handle, responses, connected, clientVars, call, faults>>

\* GetServcies waits for the connection first.
GetServcies(c, n) ==
  /\ call[c].at = "none"
  /\ call' = [call EXCEPT ![c] = [at |-> "connect", name |-> n]]
  /\ UNCHANGED <<serverVars, handle, requests, responses, connected, clientVars,
                 faults>>

\* The wait timed out: an empty list is returned.
GiveUp(c) ==
  /\ call[c].at = "connect" /\ ~connected[c]
  /\ ~saving[c]
  /\ call' = [call EXCEPT ![c].at = "none"]
  /\ UNCHANGED <<serverVars, handle, requests, responses, connected, clientVars,
                 faults>>

Ask(c) ==
  /\ call[c].at = "connect" /\ connected[c]
  /\ call' = [call EXCEPT ![c].at = "look"]
  /\ GetServiceReq(c, [type |-> "ONE", name |-> call[c].name])
  /\ UNCHANGED <<serverVars, handle, responses, connected, clientVars, faults>>

\* One turn of the second loop, under the client's mutex: the list is in
\* memory and is returned, or the request is sent again.
Look(c) ==
  /\ call[c].at = "look" /\ ~saving[c]
  /\ IF cache[c][call[c].name] # <<>>
     THEN /\ call' = [call EXCEPT ![c].at = "none"]
          /\ UNCHANGED requests
     ELSE /\ GetServiceReq(c, [type |-> "ONE", name |-> call[c].name])
          /\ UNCHANGED call
  /\ UNCHANGED <<serverVars, handle, responses, connected, clientVars, faults>>

\* The time is over.
TimeOut(c) ==
  /\ call[c].at = "look"
  /\ call' = [call EXCEPT ![c].at = "none"]
  /\ UNCHANGED <<serverVars, handle, requests, responses, connected, clientVars,
                 faults>>
-----------------------------------------------------------------------------
(* XRegisterClient::GetServiceRes, on the thread of the connection, under   *)
(* the client's mutex.                                                      *)

\* The lists of an answer to a request for one service go over the others'.
Known(map) == {n \in Names : map[n] # <<>>}
Merge(old, new) == [n \in Names |-> IF n \in Known(new) THEN new[n] ELSE old[n]]

\* Mutants: the type of the answer is not looked at; an answer for one service
\* is not written to the file.
RefreshAll(c, res) == cache' = [cache EXCEPT ![c] = res.map]
SaveAllOnly(c) ==
  /\ saving' = [saving EXCEPT ![c] = Head(responses[c]).type = "ALL"]
  /\ disk' = [disk EXCEPT ![c] = IF Head(responses[c]).type = "ALL" THEN NoService ELSE @]

Refresh(c, res) ==
  cache' = [cache EXCEPT ![c] = IF res.type = "ALL" THEN res.map ELSE Merge(@, res.map)]

\* The file is opened, and is empty from then on.
Save(c) ==
  /\ saving' = [saving EXCEPT ![c] = TRUE]
  /\ disk' = [disk EXCEPT ![c] = NoService]

GetServiceRes(c) ==
  LET res == Head(responses[c]) IN
  /\ responses[c] # <<>> /\ ~saving[c]
  /\ responses' = [responses EXCEPT ![c] = Tail(@)]
  /\ IF res.type = "ONE" /\ Known(res.map) = {}
     THEN UNCHANGED clientVars
     ELSE Refresh(c, res) /\ Save(c)
  /\ UNCHANGED <<serverVars, handle, requests, connected, call, faults>>

\* The memory is written and the file closed.
Saved(c) ==
  /\ saving[c]
  /\ disk' = [disk EXCEPT ![c] = cache[c]]
  /\ saving' = [saving EXCEPT ![c] = FALSE]
  /\ UNCHANGED <<serverVars, handle, requests, responses, connected, cache, call,
                 faults>>
-----------------------------------------------------------------------------
Handle(c) ==
  \/ RegisterReq(c)
  \/ SetService(c)
  \/ GetServiceOne(c)
  \/ GetServiceAll(c)
  \/ SendAll(c)
Answered(c) == GetServiceRes(c) \/ Saved(c)
Call(c) ==
  \/ \E n \in Names : GetServcies(c, n)
  \/ GiveUp(c)
  \/ Ask(c)
  \/ Look(c)
  \/ TimeOut(c)

Next ==
  \/ \E c \in Instances : ConnectedCB(c) \/ Break(c) \/ RestartClient(c)
  \/ RestartServer
  \/ \E c \in Instances : Handle(c) \/ Answered(c)
  \/ \E c \in Pollers : Poll(c)
  \/ \E c \in Callers : Call(c)

\* A client connects by its timer, the threads on both sides run, each gets the
\* mutex in the end, and the pollers poll.
Fairness ==
  /\ \A c \in Instances : WF_vars(ConnectedCB(c)) /\ SF_vars(Handle(c))
                          /\ WF_vars(Answered(c))
  /\ \A c \in Pollers : SF_vars(Poll(c))

Spec == Init /\ [][Next]_vars
FairSpec == Spec /\ Fairness
-----------------------------------------------------------------------------
Entry == Instances \cup {Blank}
ServiceMap == [Names -> Seq(Entry)]
Request == [type : {"REGISTER", "ONE", "ALL"}, name : Names]
Response == [type : {"ONE", "ALL"}, map : ServiceMap]

TypeOK ==
  /\ service_map \in ServiceMap
  /\ service_map_mutex \in Instances \cup {Nobody}
  /\ handle \in [Instances -> {"idle", "register", "all"}]
  /\ \A c \in Instances : handle[c] = "register" <=> service_map_mutex = c
  /\ requests \in [Instances -> Seq(Request)]
  /\ responses \in [Instances -> Seq(Response)]
  /\ connected \in [Instances -> BOOLEAN]
  /\ cache \in [Instances -> ServiceMap]
  /\ disk \in [Instances -> ServiceMap]
  /\ saving \in [Instances -> BOOLEAN]
  /\ call \in [Instances -> [at : {"none", "connect", "look"}, name : Names]]
  /\ restarts \in 0 .. MaxRestarts /\ breaks \in 0 .. MaxBreaks

\* A process that registers again after every connection is in the list of its
\* service once, whatever other handles do at the same time, and no entry stays
\* without an address.
RegisteredOnce ==
  \A n \in Names :
    LET list == service_map[n] IN
    /\ \A i, j \in 1 .. Len(list) : list[i] = list[j] => i = j
    /\ Blank \in Entries(list) => service_map_mutex # Nobody

\* The file always holds what the memory holds, unless it is being written:
\* also after answers for one service, broken connections and restarts.
DiskIsMemory ==
  \A c \in Instances : ~saving[c] => disk[c] = cache[c]

\* Every entry of s that has its address is in t, at the same place.
Keeps(s, t) == \A i \in 1 .. Len(s) : s[i] # Blank => i <= Len(t) /\ t[i] = s[i]

\* As long as the registry did not start again, a running client never forgets
\* an address and never gets an older list after a newer one, though it has
\* requests for one service and for all under way at the same time and
\* connections break.
CacheGrows ==
  [][\A c \in Instances, n \in Names :
       (restarts' = 0 /\ ~RestartClient(c))
         => Keeps(cache[c][n], cache'[c][n])]_vars

\* Once faults are over, a process that polls knows every process for good: all
\* have registered again by themselves, and its memory follows.
AllKnown ==
  <>[](\A p \in Pollers, c \in Instances : c \in Entries(cache[p][NameOf[c]]))
=============================================================================
