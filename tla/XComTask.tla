------------------------------- MODULE XComTask -------------------------------
(***************************************************************************)
(* One client connection, an XServiceClient, over its life: StartConnect,  *)
(* the bufferevent, the flags is_connecting_ and is_connected_ and the     *)
(* timers of XComTask (src/xplatform/xcom_task.cpp, xservice_client.cpp).  *)
(* The pool thread the client was dispatched to runs Init, the event and   *)
(* the timer callbacks.  Other threads connect it too: XServiceProxy::Main *)
(* and XConfigManager::AutoConnect look at the two flags, without the      *)
(* mutex, and then call Connect.                                           *)
(*                                                                         *)
(* libevent is external: bufferevent_socket_connect either starts to       *)
(* connect, and an event tells how it ended, or says at once that it       *)
(* failed and leaves the bufferevent as it was.                            *)
(***************************************************************************)
EXTENDS Naturals, FiniteSets

CONSTANTS
  Outside,    \* the threads that call Connect from outside the pool
  Loop,       \* the pool thread of the client
  NoThread,   \* nobody
  KeepFirst,  \* was auto_delete_ cleared before StartConnect?
  HasTimer,   \* was set_timer_ms called?
  MaxCloses   \* bound: how often the connection ends

Threads == Outside \cup {Loop}

ASSUME ConstantsAssumption ==
  /\ Loop \notin Outside
  /\ NoThread \notin Threads
  /\ KeepFirst \in BOOLEAN /\ HasTimer \in BOOLEAN
  /\ MaxCloses \in Nat

VARIABLES
  alive,          \* the object exists
  auto_delete_,   \* delete it when the connection closes?
  start,          \* where StartConnect is: "begin", "dispatched", "done"
  server,         \* is server_ip_ known?
  init,           \* was XComTask::Init called?
  bev_,           \* the bufferevent: "none", "new", "connecting", "up"
  is_connecting_,
  is_connected_,
  autoTimer,      \* auto_connect_timer_event_ is set
  timers,         \* how many events call TimerCB
  calling,        \* calling[t]: where t is in Connect, or before it
  mux_,           \* the thread that holds the mutex
  closes          \* how often the connection ended

vars == <<alive, auto_delete_, start, server, init, bev_, is_connecting_,
          is_connected_, autoTimer, timers, calling, mux_, closes>>
flags == <<is_connecting_, is_connected_>>
lifeVars == <<alive, auto_delete_, start, server>>
timerVars == <<autoTimer, timers>>

Init ==
  /\ alive = TRUE
  /\ auto_delete_ = ~KeepFirst
  /\ start = "begin"
  /\ server \in BOOLEAN               \* XConfigClient learns it later
  /\ init = FALSE
  /\ bev_ = "none"
  /\ is_connecting_ = TRUE            \* its value from construction on
  /\ is_connected_ = FALSE
  /\ autoTimer = FALSE /\ timers = 0
  /\ calling = [t \in Threads |-> "idle"]
  /\ mux_ = NoThread
  /\ closes = 0
-----------------------------------------------------------------------------
(* StartConnect, by the thread that owns the client.                        *)

DispatchClient ==
  /\ start = "begin"
  /\ start' = "dispatched"
  /\ UNCHANGED <<alive, auto_delete_, server, init, bev_, flags, timerVars, calling,
                 mux_, closes>>

\* set_auto_delete(false) comes after Dispatch: the pool thread may have run
\* Init, failed to connect and closed the client by then.
KeepClient ==
  /\ start = "dispatched"
  /\ start' = "done"
  /\ auto_delete_' = FALSE
  /\ UNCHANGED <<alive, server, init, bev_, flags, timerVars, calling, mux_,
                 closes>>
-----------------------------------------------------------------------------
(* InitBev: the bufferevent and one more event for TimerCB, if one is asked *)
(* for.  bufferevent_socket_new does not fail here.                         *)
InitBev ==
  /\ bev_' = "new"
  /\ timers' = IF HasTimer THEN timers + 1 ELSE timers

\* XComTask::Init up to its call of Connect.  Without a server it returns
\* early: no auto-connect timer, no Connect.
InitTask ==
  /\ alive /\ start # "begin" /\ ~init
  /\ mux_ = NoThread
  /\ InitBev
  /\ autoTimer' = server
  /\ init' = TRUE
  /\ calling' = [calling EXCEPT ![Loop] = IF server THEN "called" ELSE "idle"]
  /\ UNCHANGED <<lifeVars, flags, mux_, closes>>

\* The pool thread is back in its event loop.
InEventLoop == alive /\ init /\ calling[Loop] = "idle"

\* The TimerCB of an XConfigClient calls ConfTimer, which once learns the
\* server's address from the registry and connects.
ConfTimer ==
  /\ InEventLoop /\ timers > 0
  /\ ~server
  /\ server' = TRUE
  /\ calling' = [calling EXCEPT ![Loop] = "called"]
  /\ UNCHANGED <<alive, auto_delete_, start, init, bev_, flags, timerVars, mux_,
                 closes>>

\* AutoConnectTimerCB calls Connect unless a flag is set.
AutoConnectTimerCB ==
  /\ InEventLoop /\ autoTimer
  /\ ~is_connected_ /\ ~is_connecting_
  /\ calling' = [calling EXCEPT ![Loop] = "called"]
  /\ UNCHANGED <<lifeVars, init, bev_, flags, timerVars, mux_, closes>>

\* The same test by a thread outside the pool, once StartConnect returned.
CheckOutside(t) ==
  /\ alive /\ start = "done"
  /\ calling[t] = "idle"
  /\ ~is_connected_ /\ ~is_connecting_
  /\ calling' = [calling EXCEPT ![t] = "called"]
  /\ UNCHANGED <<lifeVars, init, bev_, flags, timerVars, mux_, closes>>

\* Connect, lines 339 to 344: both flags go down under the mutex, and a
\* client without bufferevent gets one.
ConnectBegin(t) ==
  /\ alive /\ calling[t] = "called"
  /\ mux_ = NoThread
  /\ mux_' = t
  /\ is_connecting_' = FALSE /\ is_connected_' = FALSE
  /\ IF bev_ = "none" THEN InitBev ELSE UNCHANGED <<bev_, timers>>
  /\ calling' = [calling EXCEPT ![t] = "locked"]
  /\ UNCHANGED <<lifeVars, init, autoTimer, closes>>

\* Line 350 starts to connect; a socket that is connected already may be
\* reported as connected once more.
ConnectSocket(t) ==
  /\ calling[t] = "locked"
  /\ bev_ \in {"new", "up"}
  /\ bev_' = "connecting"
  /\ calling' = [calling EXCEPT ![t] = "started"]
  /\ UNCHANGED <<lifeVars, init, flags, timerVars, mux_, closes>>

\* Mutant: the early return leaves the mutex locked.
ConnectFailsLocked(t) ==
  /\ calling[t] = "locked"
  /\ calling' = [calling EXCEPT ![t] = "idle"]
  /\ UNCHANGED <<lifeVars, init, bev_, flags, timerVars, mux_, closes>>

\* Line 350 fails: no route, or the socket is connecting or connected.
ConnectFails(t) ==
  /\ calling[t] = "locked"
  /\ calling' = [calling EXCEPT ![t] = "idle"]
  /\ mux_' = NoThread
  /\ UNCHANGED <<lifeVars, init, bev_, flags, timerVars, closes>>

\* Line 357
ConnectEnd(t) ==
  /\ calling[t] = "started"
  /\ is_connecting_' = TRUE
  /\ calling' = [calling EXCEPT ![t] = "idle"]
  /\ mux_' = NoThread
  /\ UNCHANGED <<lifeVars, init, bev_, is_connected_, timerVars, closes>>
-----------------------------------------------------------------------------
(* EventCB, on the pool thread.                                             *)

\* BEV_EVENT_CONNECTED: the flags are set without the mutex.
Connected ==
  /\ InEventLoop
  /\ bev_ = "connecting"
  /\ bev_' = "up"
  /\ is_connected_' = TRUE /\ is_connecting_' = FALSE
  /\ UNCHANGED <<lifeVars, init, timerVars, calling, mux_, closes>>

\* Close under the mutex.  Mutants: one of the flags is forgotten.
FreeBevConnecting ==
  /\ bev_' = "none"
  /\ is_connected_' = FALSE
  /\ UNCHANGED is_connecting_
FreeBevConnected ==
  /\ bev_' = "none"
  /\ is_connecting_' = FALSE
  /\ UNCHANGED is_connected_
FreeBev ==
  /\ bev_' = "none"
  /\ is_connecting_' = FALSE /\ is_connected_' = FALSE

\* Close after the mutex: the timers and the object go with auto_delete_.
\* Mutants: the test is missing, for both or for the timers.
DeleteAlways == alive' = FALSE /\ autoTimer' = FALSE /\ timers' = 0
DeleteTimers == alive' = ~auto_delete_ /\ autoTimer' = FALSE /\ timers' = 0
Delete ==
  IF auto_delete_ THEN alive' = FALSE /\ autoTimer' = FALSE /\ timers' = 0
                  ELSE UNCHANGED <<alive, timerVars>>

\* BEV_EVENT_ERROR, TIMEOUT or EOF, and Close
Close ==
  /\ InEventLoop
  /\ bev_ \in {"connecting", "up"}
  /\ mux_ = NoThread
  /\ closes < MaxCloses
  /\ closes' = closes + 1
  /\ FreeBev
  /\ Delete
  /\ UNCHANGED <<auto_delete_, start, server, init, calling, mux_>>
-----------------------------------------------------------------------------
Connect(t) ==
  \/ ConnectBegin(t)
  \/ ConnectSocket(t)
  \/ ConnectFails(t)
  \/ ConnectEnd(t)

Next ==
  \/ DispatchClient
  \/ KeepClient
  \/ InitTask
  \/ ConfTimer
  \/ AutoConnectTimerCB
  \/ \E t \in Outside : CheckOutside(t)
  \/ \E t \in Threads : Connect(t)
  \/ Connected
  \/ Close

\* StartConnect runs on, the pool thread runs Init and its timer, and a call
\* of Connect returns.  A connect that was started ends one way or the other:
\* the event loop comes to it between two calls of the timer, which are three
\* seconds apart.  One that is tried again and again is at some time started.
Fairness ==
  /\ WF_vars(DispatchClient) /\ WF_vars(KeepClient)
  /\ WF_vars(InitTask)
  /\ WF_vars(AutoConnectTimerCB)
  /\ \A t \in Threads : SF_vars(ConnectBegin(t)) /\ WF_vars(Connect(t))
  /\ SF_vars(ConnectSocket(Loop))
  /\ SF_vars(Connected \/ Close)

Spec == Init /\ [][Next]_vars
FairSpec == Spec /\ Fairness
-----------------------------------------------------------------------------
TypeOK ==
  /\ alive \in BOOLEAN /\ auto_delete_ \in BOOLEAN
  /\ start \in {"begin", "dispatched", "done"}
  /\ server \in BOOLEAN /\ init \in BOOLEAN
  /\ bev_ \in {"none", "new", "connecting", "up"}
  /\ is_connecting_ \in BOOLEAN /\ is_connected_ \in BOOLEAN
  /\ autoTimer \in BOOLEAN
  /\ timers \in Nat
  /\ calling \in [Threads -> {"idle", "called", "locked", "started"}]
  /\ mux_ \in Threads \cup {NoThread}
  /\ \A t \in Threads : calling[t] \in {"locked", "started"} <=> mux_ = t
  /\ closes \in 0 .. MaxCloses

\* is_connected_ is never left set by a connection that is gone: a message is
\* not sent to a client without bufferevent because of a stale flag, and the
\* auto-connect timer is not kept from connecting again by it.
ConnectedHasBev == is_connected_ => bev_ \in {"connecting", "up"}

\* Whoever holds a client that connects by itself keeps it: "a client is not
\* destroyed automatically, it has to reconnect".
ClientSurvives == alive

\* Every event for TimerCB is there once per bufferevent this client ever had,
\* and none before Init: Close keeps them, InitBev adds one.
TimerPerBev == timers = IF HasTimer THEN closes + (IF bev_ = "none" THEN 0 ELSE 1)
                                    ELSE 0

\* A client with an auto-connect timer whose connection is gone gets a new
\* bufferevent: is_connecting_ is not left set when nobody is connecting.
Reconnects == (autoTimer /\ bev_ = "none") ~> (bev_ # "none")

\* Such a client is connected again and again, however often it was closed and
\* whoever else calls Connect meanwhile.
ComesUp == autoTimer ~> (bev_ = "up")
=============================================================================
