---------------------------- MODULE XComTaskProofs ----------------------------
(***************************************************************************)
(* The safety of a client connection, for any set of threads that call     *)
(* Connect and any number of closes.                                       *)
(***************************************************************************)
EXTENDS XComTask, TLAPS

LEMMA ThreadsAreSomebody ==
  /\ Loop \in Threads /\ NoThread \notin Threads
  /\ Outside \subseteq Threads
  /\ KeepFirst \in BOOLEAN /\ HasTimer \in BOOLEAN
  /\ MaxCloses \in Nat
BY ConstantsAssumption DEF ConstantsAssumption, Threads

\* Every variable keeps the type TypeOK gives it; in particular the mutex is
\* held exactly by the thread that is inside Connect.
THEOREM TypeCorrect == Spec => []TypeOK
<1>1. Init => TypeOK
  <2> SUFFICES ASSUME Init PROVE TypeOK
    OBVIOUS
  <2>1. alive \in BOOLEAN /\ auto_delete_ \in BOOLEAN /\ server \in BOOLEAN
    BY DEF Init
  <2>2. /\ calling \in [Threads -> {"idle", "called", "locked", "started"}]
        /\ \A t \in Threads : calling[t] \in {"locked", "started"} <=> mux_ = t
    BY ThreadsAreSomebody DEF Init
  <2>3. /\ init \in BOOLEAN /\ autoTimer \in BOOLEAN
        /\ is_connecting_ \in BOOLEAN /\ is_connected_ \in BOOLEAN
    BY DEF Init
  <2>4. timers \in Nat /\ closes \in 0 .. MaxCloses
    BY ThreadsAreSomebody DEF Init
  <2>5. /\ start \in {"begin", "dispatched", "done"}
        /\ bev_ \in {"none", "new", "connecting", "up"}
        /\ mux_ \in Threads \cup {NoThread}
    BY DEF Init
  <2> QED
    BY <2>1, <2>2, <2>3, <2>4, <2>5 DEF TypeOK
<1>2. TypeOK /\ [Next]_vars => TypeOK'
  <2> SUFFICES ASSUME TypeOK, [Next]_vars
               PROVE  TypeOK'
    OBVIOUS
  <2> USE ThreadsAreSomebody DEF TypeOK, flags, lifeVars, timerVars
  <2>1. CASE DispatchClient
    BY <2>1 DEF DispatchClient
  <2>2. CASE KeepClient
    BY <2>2 DEF KeepClient
  <2>3. CASE InitTask
    <3>1. bev_' = "new" /\ timers' \in Nat
      BY <2>3 DEF InitTask, InitBev
    <3>2. calling' \in [Threads -> {"idle", "called", "locked", "started"}]
      BY <2>3 DEF InitTask
    <3>3. \A t \in Threads : calling'[t] \in {"locked", "started"} <=> mux_' = t
      BY <2>3 DEF InitTask
    <3> QED
      BY <2>3, <3>1, <3>2, <3>3 DEF InitTask
  <2>4. CASE ConfTimer
    BY <2>4 DEF ConfTimer, InEventLoop
  <2>5. CASE AutoConnectTimerCB
    BY <2>5 DEF AutoConnectTimerCB, InEventLoop
  <2>6. ASSUME NEW t \in Outside, CheckOutside(t)
        PROVE  TypeOK'
    BY <2>6 DEF CheckOutside
  <2>7. ASSUME NEW t \in Threads, ConnectBegin(t)
        PROVE  TypeOK'
    <3>1. /\ bev_' \in {"none", "new", "connecting", "up"}
          /\ timers' \in Nat
      BY <2>7 DEF ConnectBegin, InitBev
    <3>2. \A u \in Threads : calling'[u] \in {"locked", "started"} <=> mux_' = u
      BY <2>7 DEF ConnectBegin
    <3> QED
      BY <2>7, <3>1, <3>2 DEF ConnectBegin
  <2>8. ASSUME NEW t \in Threads, ConnectSocket(t)
        PROVE  TypeOK'
    BY <2>8 DEF ConnectSocket
  <2>9. ASSUME NEW t \in Threads, ConnectFails(t)
        PROVE  TypeOK'
    BY <2>9 DEF ConnectFails
  <2>10. ASSUME NEW t \in Threads, ConnectEnd(t)
         PROVE  TypeOK'
    BY <2>10 DEF ConnectEnd
  <2>11. CASE Connected
    BY <2>11 DEF Connected, InEventLoop
  <2>12. CASE Close
    <3>1. alive' \in BOOLEAN /\ autoTimer' \in BOOLEAN /\ timers' \in Nat
      <4>1. CASE auto_delete_
        <5>1. alive' = FALSE /\ autoTimer' = FALSE /\ timers' = 0
          BY <2>12, <4>1 DEF Close, Delete
        <5>2. timers' \in Nat
          BY <5>1
        <5> QED
          BY <5>1, <5>2, Zenon
      <4>2. CASE ~auto_delete_
        BY <2>12, <4>2 DEF Close, Delete
      <4> QED
        BY <4>1, <4>2
    <3>2. closes' \in 0 .. MaxCloses
      BY <2>12 DEF Close
    <3> QED
      BY <2>12, <3>1, <3>2 DEF Close, FreeBev
  <2>13. CASE UNCHANGED vars
    BY <2>13 DEF vars
  <2> QED
    BY <2>1, <2>2, <2>3, <2>4, <2>5, <2>6, <2>7, <2>8, <2>9, <2>10, <2>11, <2>12,
       <2>13 DEF Next, Connect
<1> QED
  BY <1>1, <1>2, PTL DEF Spec
-----------------------------------------------------------------------------
\* Until Init has run nobody connects: is_connecting_ is set from construction
\* on, and that keeps the threads outside the pool away.
NotYet ==
  ~init => /\ is_connecting_ /\ bev_ = "none"
           /\ timers = 0 /\ closes = 0
           /\ \A t \in Threads : calling[t] = "idle"

LEMMA NotYetHolds == Spec => []NotYet
<1>1. Init => NotYet
  BY DEF Init, NotYet
<1>2. TypeOK /\ NotYet /\ [Next]_vars => NotYet'
  <2> SUFFICES ASSUME TypeOK, NotYet, [Next]_vars
               PROVE  NotYet'
    OBVIOUS
  <2> USE ThreadsAreSomebody DEF NotYet, flags, lifeVars, timerVars
  <2>1. CASE DispatchClient \/ KeepClient
    BY <2>1 DEF DispatchClient, KeepClient
  <2>2. CASE InitTask
    BY <2>2 DEF InitTask
  <2>3. CASE ConfTimer \/ AutoConnectTimerCB \/ Connected \/ Close
    BY <2>3 DEF ConfTimer, AutoConnectTimerCB, Connected, Close, InEventLoop
  <2>4. ASSUME NEW t \in Outside, CheckOutside(t)
        PROVE  NotYet'
    BY <2>4 DEF CheckOutside
  <2>5. ASSUME NEW t \in Threads, Connect(t)
        PROVE  NotYet'
    BY <2>5 DEF Connect, ConnectBegin, ConnectSocket, ConnectFails, ConnectEnd
  <2>6. CASE UNCHANGED vars
    BY <2>6 DEF vars
  <2> QED
    BY <2>1, <2>2, <2>3, <2>4, <2>5, <2>6 DEF Next
<1> QED
  BY <1>1, <1>2, TypeCorrect, PTL DEF Spec

\* is_connected_ never outlives the bufferevent it speaks of, with any number of
\* threads that connect while the event loop sets the flags without the mutex.
THEOREM ConnectedHasBevHolds == Spec => []ConnectedHasBev
<1>1. Init => ConnectedHasBev
  BY DEF Init, ConnectedHasBev
<1>2. NotYet /\ ConnectedHasBev /\ [Next]_vars => ConnectedHasBev'
  <2> SUFFICES ASSUME NotYet, ConnectedHasBev, [Next]_vars
               PROVE  ConnectedHasBev'
    OBVIOUS
  <2> USE DEF ConnectedHasBev, flags
  <2>1. CASE InitTask
    BY <2>1 DEF InitTask, NotYet
  <2>2. ASSUME NEW t \in Threads, Connect(t)
        PROVE  ConnectedHasBev'
    BY <2>2 DEF Connect, ConnectBegin, ConnectSocket, ConnectFails, ConnectEnd
  <2>3. CASE Connected
    BY <2>3 DEF Connected
  <2>4. CASE Close
    BY <2>4 DEF Close, FreeBev
  <2>5. ASSUME NEW t \in Outside, CheckOutside(t)
        PROVE  ConnectedHasBev'
    BY <2>5 DEF CheckOutside
  <2>6. CASE \/ DispatchClient \/ KeepClient \/ ConfTimer \/ AutoConnectTimerCB
             \/ UNCHANGED vars
    BY <2>6 DEF DispatchClient, KeepClient, ConfTimer, AutoConnectTimerCB, vars
  <2> QED
    BY <2>1, <2>2, <2>3, <2>4, <2>5, <2>6 DEF Next
<1> QED
  BY <1>1, <1>2, NotYetHolds, PTL DEF Spec
-----------------------------------------------------------------------------
\* What a client that cleared auto_delete_ before StartConnect has: nothing
\* deletes it, so its timers stay too.
Kept == alive /\ ~auto_delete_

LEMMA KeptHolds == KeepFirst /\ Spec => []Kept
<1>1. KeepFirst /\ Init => Kept
  BY DEF Init, Kept
<1>2. Kept /\ [Next]_vars => Kept'
  <2> SUFFICES ASSUME Kept, [Next]_vars
               PROVE  Kept'
    OBVIOUS
  <2>1. CASE UNCHANGED <<alive, auto_delete_>>
    BY <2>1 DEF Kept
  <2>2. CASE KeepClient
    BY <2>2 DEF Kept, KeepClient
  <2>3. CASE Close
    BY <2>3 DEF Kept, Close, Delete
  <2>4. CASE DispatchClient \/ InitTask \/ ConfTimer \/ AutoConnectTimerCB \/ Connected
    <3> UNCHANGED <<alive, auto_delete_>>
      BY <2>4 DEF DispatchClient, InitTask, ConfTimer, AutoConnectTimerCB, Connected,
                  lifeVars
    <3> QED
      BY <2>1
  <2>5. ASSUME NEW t \in Threads, CheckOutside(t) \/ Connect(t)
        PROVE  UNCHANGED <<alive, auto_delete_>>
    BY <2>5 DEF CheckOutside, Connect, ConnectBegin, ConnectSocket, ConnectFails,
                ConnectEnd, lifeVars
  <2>6. UNCHANGED vars => UNCHANGED <<alive, auto_delete_>>
    BY DEF vars
  <2> QED
    BY <2>1, <2>2, <2>3, <2>4, <2>5, <2>6, ThreadsAreSomebody DEF Next
<1> QED
  BY <1>1, <1>2, PTL DEF Spec

\* A client that clears auto_delete_ before StartConnect is never deleted.
THEOREM ClientSurvivesHolds == KeepFirst /\ Spec => []ClientSurvives
<1>1. Kept => ClientSurvives
  BY DEF Kept, ClientSurvives
<1> QED
  BY <1>1, KeptHolds, PTL

\* Such a client has one event for TimerCB for each bufferevent it ever had.
THEOREM TimerPerBevHolds == KeepFirst /\ Spec => []TimerPerBev
<1>1. Init => TimerPerBev
  BY DEF Init, TimerPerBev
<1>2. TypeOK /\ NotYet /\ Kept /\ TimerPerBev /\ [Next]_vars => TimerPerBev'
  <2> SUFFICES ASSUME TypeOK, NotYet, Kept, TimerPerBev, [Next]_vars
               PROVE  TimerPerBev'
    OBVIOUS
  <2> USE DEF TimerPerBev, timerVars
  <2>1. CASE InitTask
    BY <2>1 DEF InitTask, InitBev, NotYet
  <2>2. ASSUME NEW t \in Threads, ConnectBegin(t)
        PROVE  TimerPerBev'
    BY <2>2 DEF ConnectBegin, InitBev, TypeOK
  <2>3. ASSUME NEW t \in Threads, ConnectSocket(t) \/ ConnectFails(t) \/ ConnectEnd(t)
        PROVE  TimerPerBev'
    BY <2>3 DEF ConnectSocket, ConnectFails, ConnectEnd
  <2>4. CASE Connected
    BY <2>4 DEF Connected
  <2>5. CASE Close
    BY <2>5 DEF Close, FreeBev, Delete, Kept, TypeOK
  <2>6. ASSUME NEW t \in Outside, CheckOutside(t)
        PROVE  TimerPerBev'
    BY <2>6 DEF CheckOutside
  <2>7. CASE \/ DispatchClient \/ KeepClient \/ ConfTimer \/ AutoConnectTimerCB
             \/ UNCHANGED vars
    BY <2>7 DEF DispatchClient, KeepClient, ConfTimer, AutoConnectTimerCB, vars
  <2> QED
    BY <2>1, <2>2, <2>3, <2>4, <2>5, <2>6, <2>7 DEF Next, Connect
<1> QED
  BY <1>1, <1>2, TypeCorrect, NotYetHolds, KeptHolds, PTL DEF Spec
=============================================================================
