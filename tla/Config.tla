------------------------------- MODULE Config -------------------------------
(***************************************************************************)
(* The configuration centre.  Servers (config_server/xconfig_handle.cpp,   *)
(* config_dao.cpp) keep one table of configurations; each process has one  *)
(* my_mutex around its statements, and saving takes two of them.  Managers *)
(* (config_client/xconfig_manager.cpp, config_gui, config_client.cpp)      *)
(* save, delete and list configurations over a connection, and a gateway   *)
(* that routes each request to some server.  A client (config_client/      *)
(* xconfig_client.cpp) is a service that asks for its own configuration at *)
(* every timer, keeps the answer in memory, and rewrites a file.           *)
(* The content of a configuration is the number of the write that made it. *)
(* A page of GetAllConfig holds the whole table.                           *)
(***************************************************************************)
EXTENDS Naturals, Sequences

CONSTANTS
  Servers, Managers,
  Guis,     \* the managers that are a config_gui: they close before they list
  Client, Home,   \* a service, and the server it is connected to
  Addrs, Own,     \* addresses of services, and the one of Client
  MaxOps,   \* bound: [Managers -> Nat] operations of a manager
  MaxFaults \* bound: lost connections and restarts of Client

ASSUME ConstantsAssumption ==
  /\ Guis \subseteq Managers /\ Client \notin Managers
  /\ Home \in Servers /\ Own \in Addrs
  /\ MaxOps \in [Managers -> Nat] /\ MaxFaults \in Nat

Peers == Managers \cup {Client}

VARIABLES
  table,      \* set of rows
  version,    \* number of the last change of the table
  my_mutex,   \* [Servers -> the calls of SaveConfig between lock and unlock]
  out,        \* [Managers -> Seq(request)] written, not yet out of the process
  inbox,      \* [Peers -> [Servers -> Seq(request)]] at the handle of a server
  back,       \* [Peers -> [Servers -> Seq(Nat)]] replies: to a list the version of
              \* the table, to a load the configuration
  reading,    \* [Managers -> Seq(Nat)] the reply that the event thread has read
  phase,      \* [Managers -> where the caller's thread is]
  all_config, \* [Managers -> Seq(Nat)] the list, as version of the table; <<>> is NULL
  asked,      \* [Managers -> Nat] history: the table's version when it was asked for
  late,       \* [Managers -> BOOLEAN] history: a list may still come after its wait
  ops,
  link,       \* Client's connection: "none" before it knows the server, "up", "lost"
  conf,       \* entry of Client's conf_map for its own address, 0 is none
  cur,        \* cur_service_conf: "saved", or "empty" when the file was
  file,       \* [port]_conf.cache
  saving,     \* what LoadConfigRes does next with the file
  faults

server == <<table, version, my_mutex>>
manager == <<phase, all_config, asked, late, ops>>
client == <<link, conf, cur, file, saving, faults>>
vars == <<server, out, inbox, back, reading, manager, client>>

Nothing == [p \in Peers |-> [s \in Servers |-> <<>>]]

Init ==
  /\ table = {} /\ version = 0
  /\ my_mutex = [s \in Servers |-> {}]
  /\ inbox = Nothing /\ back = Nothing
  /\ out = [m \in Managers |-> <<>>]
  /\ reading = [m \in Managers |-> <<>>]
  /\ phase = [m \in Managers |-> "idle"]
  /\ all_config = [m \in Managers |-> <<>>] /\ asked = [m \in Managers |-> 0]
  /\ late = [m \in Managers |-> FALSE] /\ ops = [m \in Managers |-> 0]
  /\ link = "none" /\ conf = 0 /\ cur = "saved" /\ file = "saved"
  /\ saving = "no" /\ faults = 0

SendMsg(m, kind, a) ==
  out' = [out EXCEPT ![m] = Append(@, [kind |-> kind, addr |-> a])]
-----------------------------------------------------------------------------
(* The threads that use a manager.                                         *)

Operates(m) ==
  /\ phase[m] = "idle" /\ ops[m] < MaxOps[m]
  /\ ops' = [ops EXCEPT ![m] = @ + 1]

\* SendConfig and DeleteConfig write a request and do not wait; the interface
\* refreshes its list next.
Change(m, kind, a) ==
  /\ Operates(m)
  /\ SendMsg(m, kind, a)
  /\ phase' = [phase EXCEPT ![m] = IF m \in Guis THEN "refresh" ELSE "idle"]
  /\ UNCHANGED <<server, inbox, back, reading, all_config, asked, late, client>>

\* A list asked for on a connection that is gone: a server still answers it,
\* and the answer is dropped where it would be relayed.
Forsaken(q) ==
  [i \in DOMAIN q |-> IF q[i].kind = "list" THEN [q[i] EXCEPT !.kind = "gone"] ELSE q[i]]

\* ConfigGui::Refresh: Close frees the bufferevent with what it has not sent,
\* and AutoConnect makes a new connection.  A message that the event thread
\* has read is still handled, and a change on its way to a server done.
Refresh(m) ==
  /\ m \in Guis
  /\ \/ phase[m] = "refresh" /\ UNCHANGED ops
     \/ Operates(m)
  /\ out' = [out EXCEPT ![m] = <<>>]
  /\ inbox' = [inbox EXCEPT ![m] = [s \in Servers |-> Forsaken(@[s])]]
  /\ back' = [back EXCEPT ![m] = [s \in Servers |-> <<>>]]
  /\ late' = [late EXCEPT ![m] = @ /\ reading[m] # <<>>]
  /\ phase' = [phase EXCEPT ![m] = "list"]
  /\ UNCHANGED <<server, reading, all_config, asked, client>>

GetAllConfigKeep(m) ==
  /\ \/ m \in Guis /\ phase[m] = "list" /\ UNCHANGED ops
     \/ m \notin Guis /\ Operates(m)
  /\ asked' = [asked EXCEPT ![m] = version]
  /\ phase' = [phase EXCEPT ![m] = "send"]
  /\ UNCHANGED <<server, out, inbox, back, reading, all_config, late, client>>

\* GetAllConfig clears the last list, then connects, sends and waits.
GetAllConfig(m) ==
  /\ \/ m \in Guis /\ phase[m] = "list" /\ UNCHANGED ops
     \/ m \notin Guis /\ Operates(m)
  /\ all_config' = [all_config EXCEPT ![m] = <<>>]
  /\ asked' = [asked EXCEPT ![m] = version]
  /\ phase' = [phase EXCEPT ![m] = "send"]
  /\ UNCHANGED <<server, out, inbox, back, reading, late, client>>

SendList(m) ==
  /\ phase[m] = "send"
  /\ SendMsg(m, "list", Own)
  /\ phase' = [phase EXCEPT ![m] = "wait"]
  /\ UNCHANGED <<server, inbox, back, reading, all_config, asked, late, ops, client>>

\* AutoConnect gives up: GetAllConfig asks nobody and returns an empty list.
NotConnected(m) ==
  /\ phase[m] = "send"
  /\ phase' = [phase EXCEPT ![m] = "idle"]
  /\ asked' = [asked EXCEPT ![m] = 0]
  /\ UNCHANGED <<server, out, inbox, back, reading, all_config, late, ops, client>>

\* The wait returns the list, or an empty one after timeout_sec.
Returns(m) ==
  /\ phase[m] = "wait"
  /\ phase' = [phase EXCEPT ![m] = "idle"]
  /\ late' = [late EXCEPT ![m] = @ \/ all_config[m] = <<>>]
  /\ asked' = [asked EXCEPT ![m] = 0]
  /\ UNCHANGED <<server, out, inbox, back, reading, all_config, ops, client>>
-----------------------------------------------------------------------------
(* The way of requests and replies.                                        *)

\* A request is routed to some server.
Route(m, s) ==
  /\ out[m] # <<>>
  /\ out' = [out EXCEPT ![m] = Tail(@)]
  /\ inbox' = [inbox EXCEPT ![m][s] = Append(@, Head(out[m]))]
  /\ UNCHANGED <<server, back, reading, manager, client>>

\* The event thread reads a list.
Receive(m, s) ==
  /\ back[m][s] # <<>> /\ reading[m] = <<>>
  /\ back' = [back EXCEPT ![m][s] = Tail(@)]
  /\ reading' = [reading EXCEPT ![m] = <<Head(back[m][s])>>]
  /\ UNCHANGED <<server, out, inbox, manager, client>>

LoadAllConfigRes(m) ==
  /\ reading[m] # <<>>
  /\ all_config' = [all_config EXCEPT ![m] = reading[m]]
  /\ reading' = [reading EXCEPT ![m] = <<>>]
  /\ UNCHANGED <<server, out, inbox, back, phase, asked, late, ops, client>>
-----------------------------------------------------------------------------
(* The servers.                                                            *)

Rows(a) == {r \in table : r.addr = a}

Is(p, s, kind) == inbox[p][s] # <<>> /\ Head(inbox[p][s]).kind = kind

Take(p, s) == inbox' = [inbox EXCEPT ![p][s] = Tail(@)]

Reply(p, s, n) ==
  /\ Take(p, s)
  /\ back' = [back EXCEPT ![p][s] = Append(@, n)]

Call(p, s) ==
  LET a == Head(inbox[p][s]).addr
  IN  [by |-> p, addr |-> a, found |-> Rows(a) # {}]

SelectRowUnlocked(p, s) ==
  /\ Is(p, s, "save") /\ \A call \in my_mutex[s] : call.by # p
  /\ my_mutex' = [my_mutex EXCEPT ![s] = @ \cup {Call(p, s)}]
  /\ Take(p, s)
  /\ UNCHANGED <<table, version, out, back, reading, manager, client>>

\* SaveConfig takes my_mutex and looks for a row with the address ...
SelectRow(p, s) ==
  /\ Is(p, s, "save") /\ my_mutex[s] = {}
  /\ my_mutex' = [my_mutex EXCEPT ![s] = {Call(p, s)}]
  /\ Take(p, s)
  /\ UNCHANGED <<table, version, out, back, reading, manager, client>>

\* ... and updates every row of the address if there was one, or inserts one,
\* with an id of its own.  The reply only tells the user, and is left out.
WriteRow(s, call) ==
  /\ call \in my_mutex[s]
  /\ my_mutex' = [my_mutex EXCEPT ![s] = @ \ {call}]
  /\ version' = version + 1
  /\ table' = IF call.found
              THEN (table \ Rows(call.addr)) \cup
                   {[id |-> r.id, addr |-> r.addr, conf |-> version + 1] : r \in Rows(call.addr)}
              ELSE table \cup {[id |-> version + 1, addr |-> call.addr, conf |-> version + 1]}
  /\ UNCHANGED <<out, inbox, back, reading, manager, client>>

DeleteConfig(p, s) ==
  /\ Is(p, s, "del") /\ my_mutex[s] = {}
  /\ table' = table \ Rows(Head(inbox[p][s]).addr)
  /\ version' = version + 1
  /\ Take(p, s)
  /\ UNCHANGED <<my_mutex, out, back, reading, manager, client>>

\* The first row of the address, in order of id; 0 is the configuration
\* without an address that answers when there is none.
Stored(a) ==
  IF Rows(a) = {} THEN 0
  ELSE (CHOOSE r \in Rows(a) : \A q \in Rows(a) : r.id <= q.id).conf

LoadConfig(p, s) ==
  /\ Is(p, s, "load") /\ my_mutex[s] = {}
  /\ Reply(p, s, Stored(Head(inbox[p][s]).addr))
  /\ UNCHANGED <<server, out, reading, manager, client>>

LoadAllConfig(p, s) ==
  /\ my_mutex[s] = {}
  /\ \/ Is(p, s, "list") /\ Reply(p, s, version)
     \/ Is(p, s, "gone") /\ Take(p, s) /\ UNCHANGED back
  /\ UNCHANGED <<server, out, reading, manager, client>>
-----------------------------------------------------------------------------
(* The client.  One thread runs its timer, its messages and its connection *)
(* events, none while LoadConfigRes writes the file.                       *)

\* ConfTimer: the registry tells where the configuration server is, and the
\* client connects; it does so once, and Init has set no auto-connect timer.
ConfTimer ==
  /\ link = "none" /\ link' = "up"
  /\ UNCHANGED <<server, out, inbox, back, reading, manager, conf, cur, file, saving, faults>>

\* TimerCB can send.  Bound: one request under way, which the three seconds
\* between two timers leave time for.
Idle ==
  /\ link = "up" /\ saving = "no"
  /\ inbox[Client][Home] = <<>> /\ back[Client][Home] = <<>>

TimerCBOnce ==
  /\ Idle /\ conf = 0
  /\ inbox' = [inbox EXCEPT ![Client][Home] = <<[kind |-> "load", addr |-> Own]>>]
  /\ UNCHANGED <<server, out, back, reading, manager, client>>

\* TimerCB asks for the own configuration.
TimerCB ==
  /\ Idle
  /\ inbox' = [inbox EXCEPT ![Client][Home] = <<[kind |-> "load", addr |-> Own]>>]
  /\ UNCHANGED <<server, out, back, reading, manager, client>>

\* LoadConfigRes puts the answer into conf_map under its own address; only its
\* own configuration goes on to the file.
LoadConfigRes ==
  /\ back[Client][Home] # <<>> /\ saving = "no"
  /\ back' = [back EXCEPT ![Client][Home] = Tail(@)]
  /\ LET n == Head(back[Client][Home]) IN
     IF n = 0 THEN UNCHANGED <<conf, saving>>
     ELSE conf' = n /\ saving' = "open"
  /\ UNCHANGED <<server, out, inbox, reading, manager, link, cur, file, faults>>

\* The file is truncated when it is opened, and gets cur_service_conf, into
\* which the answer is never parsed.
OpenFile ==
  /\ saving = "open"
  /\ file' = "empty" /\ saving' = "write"
  /\ UNCHANGED <<server, out, inbox, back, reading, manager, link, conf, cur, faults>>

WriteFile ==
  /\ saving = "write"
  /\ file' = cur /\ saving' = "no"
  /\ UNCHANGED <<server, out, inbox, back, reading, manager, link, conf, cur, faults>>

\* What is under way on the client's connection is gone; loading changes
\* nothing at the server, so it may as well not have happened.
Cut ==
  /\ faults < MaxFaults /\ faults' = faults + 1
  /\ inbox' = [inbox EXCEPT ![Client] = [s \in Servers |-> <<>>]]
  /\ back' = [back EXCEPT ![Client] = [s \in Servers |-> <<>>]]

\* The connection is lost, or could not be made; nothing connects again.
Break ==
  /\ Cut /\ saving = "no"
  /\ link = "up" /\ link' = "lost"
  /\ UNCHANGED <<server, out, reading, manager, conf, cur, file, saving>>

\* StartGetConf reads the file again.
Restart ==
  /\ Cut
  /\ link' = "none" /\ conf' = 0 /\ cur' = file /\ saving' = "no"
  /\ UNCHANGED <<server, out, reading, manager, file>>
-----------------------------------------------------------------------------
ManagerSteps(m) ==
  \/ \E kind \in {"save", "del"}, a \in Addrs : Change(m, kind, a)
  \/ Refresh(m) \/ GetAllConfig(m) \/ SendList(m) \/ NotConnected(m)
  \/ Returns(m)

ServerSteps(p, s) ==
  \/ SelectRow(p, s) \/ DeleteConfig(p, s) \/ LoadConfig(p, s) \/ LoadAllConfig(p, s)

ClientSteps == ConfTimer \/ TimerCB \/ LoadConfigRes \/ OpenFile \/ WriteFile

Next ==
  \/ \E m \in Managers : ManagerSteps(m) \/ LoadAllConfigRes(m)
  \/ \E m \in Managers, s \in Servers : Route(m, s) \/ Receive(m, s)
  \/ \E p \in Peers, s \in Servers : ServerSteps(p, s)
  \/ \E s \in Servers : \E call \in my_mutex[s] : WriteRow(s, call)
  \/ ClientSteps \/ Break \/ Restart

Spec == Init /\ [][Next]_vars

\* The registry answers, the client's timer and thread run on, its handle at the
\* server answers, and a handle that holds the mutex goes on; nothing makes a manager act, its
\* requests arrive, or a fault happen.
FairSpec ==
  /\ Spec
  /\ WF_vars(ConfTimer) /\ WF_vars(TimerCB) /\ WF_vars(LoadConfigRes)
  /\ WF_vars(OpenFile) /\ WF_vars(WriteFile)
  /\ WF_vars(LoadConfig(Client, Home))
  /\ \A s \in Servers : WF_vars(\E call \in my_mutex[s] : WriteRow(s, call))
-----------------------------------------------------------------------------
Requests == [kind : {"save", "del", "list", "load", "gone"}, addr : Addrs]

\* Types; my_mutex admits one call at a time.
TypeOK ==
  /\ table \subseteq [id : Nat, addr : Addrs, conf : Nat] /\ version \in Nat
  /\ my_mutex \in [Servers -> SUBSET [by : Peers, addr : Addrs, found : BOOLEAN]]
  /\ \A s \in Servers : \A x, y \in my_mutex[s] : x = y
  /\ out \in [Managers -> Seq(Requests)]
  /\ inbox \in [Peers -> [Servers -> Seq(Requests)]]
  /\ back \in [Peers -> [Servers -> Seq(Nat)]]
  /\ reading \in [Managers -> Seq(Nat)]
  /\ phase \in [Managers -> {"idle", "refresh", "list", "send", "wait"}]
  /\ all_config \in [Managers -> Seq(Nat)] /\ asked \in [Managers -> Nat]
  /\ late \in [Managers -> BOOLEAN] /\ ops \in [Managers -> Nat]
  /\ link \in {"none", "up", "lost"} /\ conf \in Nat
  /\ cur \in {"saved", "empty"} /\ file \in {"saved", "empty"}
  /\ saving \in {"no", "open", "write"} /\ faults \in 0..MaxFaults

\* Saving updates the row of an address if there is one: an address never has
\* two rows, whoever saves it at the same time.  One server only: the mutex is
\* one of a process, and the table has no unique key.
OneRow ==
  \A q, r \in table : q.addr = r.addr => q = r

\* GetAllConfig returns no list older than the call, unless an earlier call
\* gave up and its answer can still arrive: on the same connection, or from
\* the event thread that has read it before Close.
ListIsNotOlder ==
  \A m \in Managers :
    phase[m] \in {"send", "wait"} /\ all_config[m] # <<>> /\ ~late[m] =>
      all_config[m][1] >= asked[m]

\* When no more configurations change, the memory of a client that has not lost
\* its connection since it started comes to hold its configuration of the
\* table, if there is one: also after a restart in the middle of a load.
Converges ==
  <>[](link # "lost" /\ Rows(Own) # {} => conf = Stored(Own))
=============================================================================
