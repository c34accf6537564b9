-------------------------------- MODULE XLog --------------------------------
(***************************************************************************)
(* The log client and the log server.  Any thread of a process calls       *)
(* AddLog (xplatform/xlog_client.cpp), which puts a log into logs_; the    *)
(* client's event loop calls TimerCB every 100 ms, which takes the logs    *)
(* out one by one and writes them to the connection, connected or not; a   *)
(* handle of the server inserts every log it receives into the table       *)
(* (xlog/xlog_handle.cpp, xlog/xlog_dao.cpp).  Logs below log_level_ are   *)
(* not looked at: AddLog returns and changes nothing.                      *)
(***************************************************************************)
EXTENDS Naturals, Sequences

CONSTANTS
  Threads,     \* the threads that log
  LogsEach,    \* bound: logs of one thread
  MaxFaults    \* bound: lost connections and failed inserts together

ASSUME ConstantsAssumption == LogsEach \in Nat /\ MaxFaults \in Nat

VARIABLES
  count,       \* [Threads -> Nat] the logs each thread has stamped so far
  adding,      \* [Threads -> Logs] stamped, not yet in the list (<<>> or one)
  logs_,       \* the list of the client
  loop,        \* where the event loop is: not "new" once StartLog was called
  hand,        \* the log TimerCB has taken (<<>> or one)
  bev_,        \* the connection: "none", "connecting" or "up"
  conn,        \* its number
  out,         \* its output buffer
  wire,        \* [connections -> Logs] sent and not yet read by its handle
  table,       \* the rows of xms_log in the order of their id
  faults

client == <<count, adding, logs_, loop, hand>>
network == <<bev_, conn, out, wire>>
vars == <<client, network, table, faults>>

\* A log: the nr-th of thread by.
Logs == Seq([by : Threads, nr : 1..LogsEach])
Connections == 1..(MaxFaults + 1)

Init ==
  /\ count = [t \in Threads |-> 0]
  /\ adding = [t \in Threads |-> <<>>]
  /\ logs_ = <<>> /\ hand = <<>> /\ loop = "new"
  /\ bev_ = "none" /\ conn = 1 /\ out = <<>>
  /\ wire = [c \in Connections |-> <<>>]
  /\ table = <<>> /\ faults = 0
-----------------------------------------------------------------------------
\* AddLog copies the request and stamps it before it takes logs_mutex_.
Stamp(t) ==
  /\ adding[t] = <<>> /\ count[t] < LogsEach
  /\ count' = [count EXCEPT ![t] = @ + 1]
  /\ adding' = [adding EXCEPT ![t] = <<[by |-> t, nr |-> count[t] + 1]>>]
  /\ UNCHANGED <<logs_, loop, hand, network, table, faults>>

PushFront(t) ==
  /\ adding[t] # <<>>
  /\ logs_' = adding[t] \o logs_
  /\ adding' = [adding EXCEPT ![t] = <<>>]
  /\ UNCHANGED <<count, loop, hand, network, table, faults>>

Push(t) ==
  /\ adding[t] # <<>>
  /\ logs_' = logs_ \o adding[t]
  /\ adding' = [adding EXCEPT ![t] = <<>>]
  /\ UNCHANGED <<count, loop, hand, network, table, faults>>

\* StartLog: the task is dispatched; its Init creates the bufferevent, sets
\* the timer and starts to connect.
StartLog ==
  /\ loop = "new"
  /\ loop' = "idle" /\ bev_' = "connecting"
  /\ UNCHANGED <<count, adding, logs_, hand, conn, out, wire, table, faults>>
-----------------------------------------------------------------------------
(* The timer.                                                              *)

\* TimerCB is called; with an empty list it returns at once.
TimerCB ==
  /\ loop = "idle" /\ logs_ # <<>>
  /\ loop' = "timer"
  /\ UNCHANGED <<count, adding, logs_, hand, network, table, faults>>

TakeLogKeep ==
  /\ loop = "timer" /\ hand = <<>>
  /\ IF logs_ = <<>> THEN loop' = "idle" /\ UNCHANGED <<logs_, hand>>
     ELSE hand' = <<Head(logs_)>> /\ UNCHANGED <<logs_, loop>>
  /\ UNCHANGED <<count, adding, network, table, faults>>

TakeLogAll ==
  /\ loop = "timer" /\ hand = <<>>
  /\ IF logs_ = <<>> THEN loop' = "idle" /\ UNCHANGED <<logs_, hand>>
     ELSE hand' = logs_ /\ logs_' = <<>> /\ UNCHANGED loop
  /\ UNCHANGED <<count, adding, network, table, faults>>

TakeLogClear ==
  /\ loop = "timer" /\ hand = <<>>
  /\ IF logs_ = <<>> THEN loop' = "idle" /\ UNCHANGED <<logs_, hand>>
     ELSE hand' = <<Head(logs_)>> /\ logs_' = <<>> /\ UNCHANGED loop
  /\ UNCHANGED <<count, adding, network, table, faults>>

\* One turn of its loop, under logs_mutex_: leave on an empty list, else take
\* the first log out.
TakeLog ==
  /\ loop = "timer" /\ hand = <<>>
  /\ IF logs_ = <<>> THEN loop' = "idle" /\ UNCHANGED <<logs_, hand>>
     ELSE hand' = <<Head(logs_)>> /\ logs_' = Tail(logs_) /\ UNCHANGED loop
  /\ UNCHANGED <<count, adding, network, table, faults>>

WriteUp == IF bev_ = "up" THEN out \o hand ELSE out

\* Write fails without a bufferevent only; while connecting, the buffer
\* takes the log.
Write == IF bev_ = "none" THEN out ELSE out \o hand

\* The rest of the turn; the result of SendMsg is not looked at.
SendLog ==
  /\ hand # <<>>
  /\ out' = Write /\ hand' = <<>>
  /\ UNCHANGED <<count, adding, logs_, loop, bev_, conn, wire, table, faults>>
-----------------------------------------------------------------------------
(* The connection, run by the same event loop between two timers.          *)

\* The auto-connect timer.
Connect ==
  /\ loop = "idle" /\ bev_ = "none"
  /\ bev_' = "connecting" /\ conn' = conn + 1
  /\ UNCHANGED <<client, out, wire, table, faults>>

Connected ==
  /\ loop = "idle" /\ bev_ = "connecting"
  /\ bev_' = "up"
  /\ UNCHANGED <<client, conn, out, wire, table, faults>>

\* The bufferevent writes what it holds to the socket.
Flush ==
  /\ loop = "idle" /\ bev_ = "up" /\ out # <<>>
  /\ wire' = [wire EXCEPT ![conn] = Append(@, Head(out))]
  /\ out' = Tail(out)
  /\ UNCHANGED <<client, bev_, conn, table, faults>>

\* The connection is lost or could not be made: bufferevent_free drops what
\* was not yet sent.
Close ==
  /\ loop = "idle" /\ bev_ # "none" /\ faults < MaxFaults
  /\ bev_' = "none" /\ out' = <<>> /\ faults' = faults + 1
  /\ UNCHANGED <<client, conn, wire, table>>

\* The server's handle of an old connection ends with what it has not read.
HandleEnds(c) ==
  /\ c # conn \/ bev_ = "none"
  /\ wire[c] # <<>>
  /\ wire' = [wire EXCEPT ![c] = <<>>]
  /\ UNCHANGED <<client, bev_, conn, out, table, faults>>
-----------------------------------------------------------------------------
\* XLogHandle::AddLogReq and XLogDAO::AddLog under my_mutex; handles of
\* several connections run at the same time.
AddLogReq(c) ==
  /\ wire[c] # <<>>
  /\ wire' = [wire EXCEPT ![c] = Tail(@)]
  /\ \/ table' = Append(table, Head(wire[c])) /\ UNCHANGED faults
     \/ faults < MaxFaults /\ faults' = faults + 1 /\ UNCHANGED table
  /\ UNCHANGED <<client, bev_, conn, out>>
-----------------------------------------------------------------------------
Next ==
  \/ \E t \in Threads : Stamp(t) \/ Push(t)
  \/ StartLog \/ TimerCB \/ TakeLog \/ SendLog
  \/ Connect \/ Connected \/ Flush \/ Close
  \/ \E c \in Connections : HandleEnds(c) \/ AddLogReq(c)

\* The threads, the event loops of both processes and the reconnect timer run
\* on; nobody has to log or to lose a connection.
Fairness ==
  /\ \A t \in Threads : WF_vars(Push(t))
  /\ WF_vars(TimerCB) /\ WF_vars(TakeLog) /\ WF_vars(SendLog)
  /\ WF_vars(Connect) /\ SF_vars(Connected) /\ SF_vars(Flush)
  /\ \A c \in Connections : WF_vars(AddLogReq(c))

Spec == Init /\ [][Next]_vars
FairSpec == Spec /\ Fairness
-----------------------------------------------------------------------------
AtMostOne(s) == Len(s) <= 1

TypeOK ==
  /\ count \in [Threads -> 0..LogsEach]
  /\ adding \in [Threads -> Logs] /\ \A t \in Threads : AtMostOne(adding[t])
  /\ logs_ \in Logs /\ out \in Logs /\ table \in Logs
  /\ hand \in Logs /\ AtMostOne(hand) /\ (hand # <<>> => loop = "timer")
  /\ loop \in {"new", "idle", "timer"}
  /\ bev_ \in {"none", "connecting", "up"}
  /\ conn \in Connections
  /\ wire \in [Connections -> Logs]
  /\ faults \in 0..MaxFaults

\* A log and a place: the sequence of what connection c carried or may still
\* carry, from what its handle reads next to what threads are about to add.
Pending(c) == wire[c] \o (IF c = conn THEN out \o hand \o logs_ ELSE <<>>)

Ordered(s) ==
  \A i, j \in DOMAIN s : i < j /\ s[i].by = s[j].by => s[i].nr < s[j].nr

\* What one thread logged keeps its order through the list, the buffer and
\* one connection, whatever other threads log and the connection does
\* meanwhile; and reconnects repeat nothing: no log is inserted twice, or
\* inserted and on the way.
InOrder ==
  /\ \A c \in Connections : Ordered(Pending(c))
  /\ \A t \in Threads, c \in Connections :
       adding[t] # <<>> => Ordered(Pending(c) \o adding[t])
  /\ faults = 0 => Ordered(table \o Pending(conn))
  /\ \A i \in DOMAIN table :
       /\ \A j \in DOMAIN table : table[i] = table[j] => i = j
       /\ \A c \in Connections : \A j \in DOMAIN Pending(c) : Pending(c)[j] # table[i]

Held(l) ==
  \/ \E i \in DOMAIN table : table[i] = l
  \/ \E c \in Connections : \E i \in DOMAIN Pending(c) : Pending(c)[i] = l
  \/ adding[l.by] = <<l>>

\* Until a connection is lost or an insert fails every log is somewhere: also
\* what was logged before StartLog and what was sent while connecting.
NothingLostWhileUp ==
  faults = 0 => \A t \in Threads : \A n \in 1..count[t] : Held([by |-> t, nr |-> n])

\* A log in the list while the connection is up gets into the table, unless
\* the connection is lost or an insert fails.
Arrives ==
  \A t \in Threads, n \in 1..LogsEach, f \in 0..MaxFaults :
    LET l == [by |-> t, nr |-> n]
    IN  (faults = f /\ bev_ = "up" /\ \E i \in DOMAIN logs_ : logs_[i] = l)
          ~> (faults # f \/ \E i \in DOMAIN table : table[i] = l)
=============================================================================
