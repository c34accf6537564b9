----------------------------- MODULE XLogProofs -----------------------------
(***************************************************************************)
(* Proofs about XLog: its types, that logging loses nothing while there is *)
(* no fault, and that it keeps each thread's order and repeats nothing.    *)
(***************************************************************************)
EXTENDS XLog, TLAPS

Log == [by : Threads, nr : 1..LogsEach]

In(x, s) == \E i \in DOMAIN s : s[i] = x

\* Every x of s comes before every y of t, if one thread logged both.
Before(s, t) == \A x, y : In(x, s) /\ In(y, t) /\ x.by = y.by => x.nr < y.nr
-----------------------------------------------------------------------------
(* Sequences of logs.                                                      *)

LEMMA Bounds == LogsEach \in Nat /\ MaxFaults \in Nat
  BY ConstantsAssumption

LEMMA InType ==
  ASSUME NEW s \in Logs, NEW x, In(x, s)
  PROVE  x \in Log /\ x.nr \in Nat /\ x.by \in Threads
<1>1. x \in Log
  <2>1. s \in Seq(Log)
    BY DEF Logs, Log
  <2>2. PICK i \in 1..Len(s) : s[i] = x
    BY <2>1 DEF In
  <2> QED
    BY <2>1, <2>2
<1>2. x.nr \in 1..LogsEach /\ x.by \in Threads
  BY <1>1 DEF Log
<1>3. x.nr \in Nat
  BY <1>2, Bounds
<1> QED
  BY <1>1, <1>2, <1>3

LEMMA InEmpty == \A x : ~In(x, <<>>)
  BY DEF In

LEMMA InConcat ==
  ASSUME NEW s \in Logs, NEW t \in Logs, NEW x
  PROVE  In(x, s \o t) <=> In(x, s) \/ In(x, t)
<1> DEFINE u == s \o t
<1>1. /\ Len(s) \in Nat /\ Len(t) \in Nat /\ Len(u) = Len(s) + Len(t)
      /\ DOMAIN s = 1..Len(s) /\ DOMAIN t = 1..Len(t) /\ DOMAIN u = 1..Len(u)
  BY DEF Logs
<1>2. \A i \in 1..Len(s) : u[i] = s[i]
  BY DEF Logs
<1>3. \A i \in 1..Len(t) : u[Len(s) + i] = t[i]
  BY DEF Logs
<1>4. ASSUME In(x, s) PROVE In(x, u)
  BY <1>1, <1>2, <1>4 DEF In
<1>5. ASSUME In(x, t) PROVE In(x, u)
  <2>1. PICK i \in 1..Len(t) : t[i] = x
    BY <1>1, <1>5 DEF In
  <2>2. Len(s) + i \in DOMAIN u /\ u[Len(s) + i] = x
    BY <1>1, <1>3, <2>1
  <2> QED
    BY <2>2 DEF In
<1>6. ASSUME In(x, u), ~In(x, s) PROVE In(x, t)
  <2>1. PICK i \in 1..Len(u) : u[i] = x
    BY <1>1, <1>6 DEF In
  <2>2. i \notin 1..Len(s)
    BY <1>1, <1>2, <1>6, <2>1 DEF In
  <2>3. i - Len(s) \in 1..Len(t) /\ i = Len(s) + (i - Len(s))
    BY <1>1, <2>1, <2>2
  <2> QED
    BY <1>1, <1>3, <2>1, <2>3 DEF In
<1> QED
  BY <1>4, <1>5, <1>6

LEMMA InOne == \A x, y : In(x, <<y>>) <=> x = y
  BY DEF In

LEMMA InAppend ==
  ASSUME NEW s \in Logs, NEW y \in Log, NEW x
  PROVE  In(x, Append(s, y)) <=> In(x, s) \/ x = y
<1>1. Append(s, y) = s \o <<y>> /\ <<y>> \in Logs
  BY DEF Logs, Log
<1> QED
  BY <1>1, InConcat, InOne

LEMMA InHeadTail ==
  ASSUME NEW s \in Logs, s # <<>>, NEW x
  PROVE  In(x, s) <=> x = Head(s) \/ In(x, Tail(s))
<1>1. /\ Len(s) \in Nat \ {0} /\ DOMAIN s = 1..Len(s) /\ Head(s) = s[1]
      /\ DOMAIN Tail(s) = 1..(Len(s) - 1)
      /\ \A i \in 1..(Len(s) - 1) : Tail(s)[i] = s[i + 1]
  BY DEF Logs
<1>2. ASSUME In(x, s), x # Head(s) PROVE In(x, Tail(s))
  <2>1. PICK i \in 1..Len(s) : s[i] = x
    BY <1>1, <1>2 DEF In
  <2>2. i - 1 \in 1..(Len(s) - 1) /\ i = (i - 1) + 1
    BY <1>1, <1>2, <2>1
  <2> QED
    BY <1>1, <2>1, <2>2 DEF In
<1>3. ASSUME In(x, Tail(s)) PROVE In(x, s)
  <2>1. PICK i \in 1..(Len(s) - 1) : s[i + 1] = x
    BY <1>1, <1>3 DEF In
  <2>2. i + 1 \in 1..Len(s)
    BY <1>1
  <2> QED
    BY <1>1, <2>1, <2>2 DEF In
<1>4. 1 \in 1..Len(s)
  BY <1>1
<1> QED
  BY <1>1, <1>2, <1>3, <1>4 DEF In
-----------------------------------------------------------------------------
(* Types.                                                                  *)

\* A new connection comes after a fault, so that there are enough numbers; one
\* that was not made yet carries nothing, and before StartLog there is none.
ConnInv ==
  /\ conn + (IF bev_ = "none" /\ loop # "new" THEN 1 ELSE 0) <= faults + 1
  /\ \A c \in Connections : c > conn => wire[c] = <<>>
  /\ loop = "new" => bev_ = "none" /\ conn = 1 /\ wire[1] = <<>> /\ out = <<>>

LEMMA Types ==
  /\ TypeOK => conn \in Nat /\ faults \in Nat /\ conn \in Connections
  /\ 1 \in Connections
  BY Bounds DEF TypeOK, Connections

\* Taking the head of a sequence of logs, or adding a log.
LEMMA LogsTypes ==
  /\ <<>> \in Logs
  /\ \A s, t \in Logs : s \o t \in Logs
  /\ \A s \in Logs : s # <<>> => Head(s) \in Log /\ Tail(s) \in Logs /\ <<Head(s)>> \in Logs
  /\ \A s \in Logs, x \in Log : Append(s, x) \in Logs
<1>1. Logs = Seq(Log)
  BY DEF Logs, Log
<1> QED
  BY <1>1

LEMMA AppendOne ==
  ASSUME NEW s \in Logs, NEW x \in Log
  PROVE  Append(s, x) = s \o <<x>> /\ <<x>> \in Logs
<1>1. s \in Seq(Log)
  BY DEF Logs, Log
<1>2. <<x>> \in Logs
  BY DEF Logs, Log
<1> QED
  BY <1>1, <1>2

LEMMA One == \A x : AtMostOne(<<x>>) /\ AtMostOne(<<>>) /\ <<x>> # <<>>
  BY DEF AtMostOne

LEMMA TypeInit == Init => TypeOK /\ ConnInv
<1> SUFFICES ASSUME Init PROVE TypeOK /\ ConnInv
  OBVIOUS
<1>1. 0 \in 0..LogsEach /\ 0 \in 0..MaxFaults
  BY Bounds
<1>2. 1 \in Connections
  BY Types
<1>3. TypeOK
  BY <1>1, <1>2, One, LogsTypes DEF Init, TypeOK
<1>4. conn = 1 /\ loop = "new" /\ bev_ = "none" /\ faults = 0 /\ out = <<>>
      /\ \A c \in Connections : wire[c] = <<>>
  BY DEF Init
<1> QED
  BY <1>2, <1>3, <1>4 DEF ConnInv

LEMMA TypeStep == TypeOK /\ ConnInv /\ [Next]_vars => TypeOK' /\ ConnInv'
<1> SUFFICES ASSUME TypeOK, ConnInv, [Next]_vars PROVE TypeOK' /\ ConnInv'
  OBVIOUS
<1> USE DEF client, network
<1>1. ASSUME NEW t \in Threads, Stamp(t)
      PROVE  TypeOK' /\ ConnInv'
  <2>1. count[t] \in 0..LogsEach /\ count[t] < LogsEach
    BY <1>1 DEF Stamp, TypeOK
  <2>2. count[t] + 1 \in 1..LogsEach /\ count[t] + 1 \in 0..LogsEach
    BY <2>1, Bounds
  <2>3. [by |-> t, nr |-> count[t] + 1] \in [by : Threads, nr : 1..LogsEach]
    BY <2>2
  <2>4. <<[by |-> t, nr |-> count[t] + 1]>> \in Logs
    BY <2>3 DEF Logs
  <2> QED
    BY <1>1, <2>2, <2>4, One DEF Stamp, TypeOK, ConnInv
<1>2. ASSUME NEW t \in Threads, Push(t)
      PROVE  TypeOK' /\ ConnInv'
  BY <1>2, LogsTypes, One DEF Push, TypeOK, ConnInv
<1>3. ASSUME StartLog
      PROVE  TypeOK' /\ ConnInv'
  BY <1>3, Types DEF StartLog, TypeOK, ConnInv
<1>4. ASSUME TimerCB
      PROVE  TypeOK' /\ ConnInv'
  BY <1>4 DEF TimerCB, TypeOK, ConnInv
<1>5. ASSUME TakeLog
      PROVE  TypeOK' /\ ConnInv'
  BY <1>5, LogsTypes, One DEF TakeLog, TypeOK, ConnInv
<1>6. ASSUME SendLog
      PROVE  TypeOK' /\ ConnInv'
  <2>1. loop = "timer" /\ out' \in Logs
    BY <1>6, LogsTypes DEF SendLog, Write, TypeOK
  <2> QED
    BY <1>6, <2>1, LogsTypes, One DEF SendLog, TypeOK, ConnInv
<1>7. ASSUME Connect
      PROVE  TypeOK' /\ ConnInv'
  <2>1. conn \in Nat /\ faults \in Nat /\ faults <= MaxFaults /\ conn + 1 <= faults + 1
    BY <1>7, Types, Bounds DEF Connect, TypeOK, ConnInv
  <2>2. conn' = conn + 1 /\ conn' \in Connections
    BY <1>7, <2>1, Bounds DEF Connect, Connections
  <2>3. \A c \in Connections : c > conn' => c > conn
    BY <2>1, <2>2 DEF Connections
  <2> QED
    BY <1>7, <2>1, <2>2, <2>3 DEF Connect, TypeOK, ConnInv
<1>8. ASSUME Connected
      PROVE  TypeOK' /\ ConnInv'
  BY <1>8 DEF Connected, TypeOK, ConnInv
<1>9. ASSUME Flush
      PROVE  TypeOK' /\ ConnInv'
  <2>1. Append(wire[conn], Head(out)) \in Logs /\ Tail(out) \in Logs
    BY <1>9, LogsTypes DEF Flush, TypeOK
  <2>2. \A c \in Connections : c > conn => c # conn
    BY Types DEF TypeOK, Connections
  <2> QED
    BY <1>9, <2>1, <2>2 DEF Flush, TypeOK, ConnInv
<1>10. ASSUME Close
       PROVE  TypeOK' /\ ConnInv'
  <2>1. faults + 1 \in 0..MaxFaults /\ faults' = faults + 1
    BY <1>10, Types, Bounds DEF Close, TypeOK
  <2> QED
    BY <1>10, <2>1, LogsTypes, Types DEF Close, TypeOK, ConnInv
<1>11. ASSUME NEW c \in Connections, HandleEnds(c)
       PROVE  TypeOK' /\ ConnInv'
  BY <1>11, LogsTypes, Types DEF HandleEnds, TypeOK, ConnInv
<1>12. ASSUME NEW c \in Connections, AddLogReq(c)
       PROVE  TypeOK' /\ ConnInv'
  <2>1. Head(wire[c]) \in Log /\ Tail(wire[c]) \in Logs
    BY <1>12, LogsTypes DEF AddLogReq, TypeOK
  <2>2. wire' \in [Connections -> Logs] /\ table' \in Logs
    BY <1>12, <2>1, LogsTypes DEF AddLogReq, TypeOK
  <2>3. faults' \in 0..MaxFaults /\ faults <= faults'
    BY <1>12, Types, Bounds DEF AddLogReq, TypeOK
  <2>4. \A d \in Connections : d > conn => wire'[d] = <<>>
    BY <1>12 DEF AddLogReq, TypeOK, ConnInv
  <2>5. loop # "new"
    BY <1>12, Types, <2>3 DEF AddLogReq, ConnInv, Connections, TypeOK
  <2>6. conn + (IF bev_ = "none" /\ loop # "new" THEN 1 ELSE 0) <= faults' + 1
    BY <2>3, Types DEF ConnInv, TypeOK
  <2> QED
    BY <1>12, <2>2, <2>3, <2>4, <2>5, <2>6 DEF AddLogReq, TypeOK, ConnInv
<1>13. CASE UNCHANGED vars
  BY <1>13 DEF vars, TypeOK, ConnInv
<1> QED
  BY <1>1, <1>2, <1>3, <1>4, <1>5, <1>6, <1>7, <1>8, <1>9, <1>10, <1>11, <1>12, <1>13
     DEF Next

\* The types, for any threads and bounds: a connection that is made again has
\* a number, and TimerCB has one log in its hand at most.
THEOREM TypeCorrect == Spec => [](TypeOK /\ ConnInv)
  BY TypeInit, TypeStep, PTL DEF Spec
-----------------------------------------------------------------------------
(* Nothing is lost.                                                        *)

Somewhere(x) ==
  \/ In(x, table) \/ \E c \in Connections : In(x, wire[c])
  \/ In(x, out) \/ In(x, hand) \/ In(x, logs_)

LostInv ==
  faults = 0 =>
    \A t \in Threads : \A n \in 1..count[t] :
      Somewhere([by |-> t, nr |-> n]) \/ adding[t] = <<[by |-> t, nr |-> n]>>

LEMMA InPending ==
  ASSUME TypeOK, NEW c \in Connections, NEW x
  PROVE  In(x, Pending(c)) <=>
           \/ In(x, wire[c])
           \/ c = conn /\ (In(x, out) \/ In(x, hand) \/ In(x, logs_))
<1>1. wire[c] \in Logs /\ out \in Logs /\ hand \in Logs /\ logs_ \in Logs
      /\ out \o hand \in Logs /\ (out \o hand) \o logs_ \in Logs /\ <<>> \in Logs
  BY LogsTypes DEF TypeOK
<1>2. In(x, (out \o hand) \o logs_) <=> In(x, out) \/ In(x, hand) \/ In(x, logs_)
  BY <1>1, InConcat
<1>3. CASE c = conn
  BY <1>1, <1>2, <1>3, InConcat DEF Pending
<1>4. CASE c # conn
  BY <1>1, <1>4, InConcat, InEmpty DEF Pending
<1> QED
  BY <1>3, <1>4

\* Without faults the one connection is there when TimerCB writes, and its
\* handle reads what it carries.
LEMMA OneConnection ==
  ASSUME TypeOK, ConnInv, faults = 0
  PROVE  /\ loop # "new" => bev_ # "none"
         /\ \A c \in Connections : HandleEnds(c) => FALSE
         /\ \A c \in Connections : c # conn => wire[c] = <<>>
<1>1. conn \in Nat /\ conn \in Connections /\ \A c \in Connections : c \in Nat
  BY Types DEF Connections, TypeOK
<1>2. conn >= 1
  BY <1>1, Bounds DEF Connections
<1>3. loop # "new" => bev_ # "none"
  BY <1>1, <1>2 DEF ConnInv
<1>4. conn = 1
  BY <1>1, <1>2, <1>3 DEF ConnInv
<1>5. \A c \in Connections : c # conn => wire[c] = <<>>
  BY <1>1, <1>4 DEF ConnInv, Connections
<1>6. bev_ = "none" => wire[conn] = <<>>
  BY <1>3, <1>4 DEF ConnInv
<1> QED
  BY <1>3, <1>5, <1>6 DEF HandleEnds

\* No step that is not a fault makes a log vanish.
LEMMA KeptStep ==
  ASSUME TypeOK, ConnInv, [Next]_vars, faults = 0, faults' = 0, NEW x, Somewhere(x)
  PROVE  Somewhere(x)'
<1> USE DEF client, network
<1>1. ASSUME NEW t \in Threads, Stamp(t)
      PROVE  Somewhere(x)'
  BY <1>1 DEF Stamp, Somewhere
<1>2. ASSUME NEW t \in Threads, Push(t)
      PROVE  Somewhere(x)'
  BY <1>2, InConcat DEF Push, Somewhere, TypeOK
<1>3. ASSUME StartLog \/ TimerCB \/ Connected \/ UNCHANGED vars
      PROVE  Somewhere(x)'
  BY <1>3 DEF StartLog, TimerCB, Connected, vars, Somewhere
<1>4. ASSUME TakeLog
      PROVE  Somewhere(x)'
  <2>1. CASE logs_ = <<>>
    BY <1>4, <2>1 DEF TakeLog, Somewhere
  <2>2. CASE logs_ # <<>>
    <3>1. hand = <<>> /\ hand' = <<Head(logs_)>> /\ logs_' = Tail(logs_)
      BY <1>4, <2>2 DEF TakeLog
    <3>2. In(x, logs_) => In(x, hand') \/ In(x, logs_')
      BY <2>2, <3>1, InHeadTail, InOne DEF TypeOK
    <3> QED
      BY <1>4, <3>1, <3>2, InEmpty DEF TakeLog, Somewhere
  <2> QED
    BY <2>1, <2>2
<1>5. ASSUME SendLog
      PROVE  Somewhere(x)'
  <2>1. bev_ # "none"
    BY <1>5, OneConnection DEF SendLog, TypeOK
  <2>2. out' = out \o hand
    BY <1>5, <2>1 DEF SendLog, Write
  <2>3. In(x, out) \/ In(x, hand) => In(x, out')
    BY <2>2, InConcat DEF TypeOK
  <2> QED
    BY <1>5, <2>3 DEF SendLog, Somewhere
<1>6. ASSUME Connect
      PROVE  Somewhere(x)'
  BY <1>6, OneConnection DEF Connect
<1>7. ASSUME Flush
      PROVE  Somewhere(x)'
  <2>1. Head(out) \in Log /\ conn \in Connections /\ wire[conn] \in Logs /\ out # <<>>
    BY <1>7, LogsTypes DEF Flush, TypeOK
  <2>2. wire'[conn] = Append(wire[conn], Head(out)) /\ out' = Tail(out)
        /\ \A c \in Connections : c # conn => wire'[c] = wire[c]
    BY <1>7 DEF Flush, TypeOK
  <2>3. In(x, out) => In(x, wire'[conn]) \/ In(x, out')
    BY <2>1, <2>2, InHeadTail, InAppend DEF TypeOK
  <2>4. In(x, wire[conn]) => In(x, wire'[conn])
    BY <2>1, <2>2, InAppend
  <2>5. \A c \in Connections : In(x, wire[c]) => In(x, wire'[c])
    BY <2>2, <2>4
  <2> QED
    BY <1>7, <2>1, <2>3, <2>5 DEF Flush, Somewhere
<1>8. ASSUME Close
      PROVE  Somewhere(x)'
  BY <1>8 DEF Close
<1>9. ASSUME NEW c \in Connections, HandleEnds(c)
      PROVE  Somewhere(x)'
  BY <1>9, OneConnection
<1>10. ASSUME NEW c \in Connections, AddLogReq(c)
       PROVE  Somewhere(x)'
  <2>1. Head(wire[c]) \in Log /\ wire[c] \in Logs /\ table \in Logs /\ wire[c] # <<>>
    BY <1>10, LogsTypes DEF AddLogReq, TypeOK
  <2>2. table' = Append(table, Head(wire[c])) /\ wire'[c] = Tail(wire[c])
        /\ \A d \in Connections : d # c => wire'[d] = wire[d]
    BY <1>10 DEF AddLogReq, TypeOK
  <2>3. In(x, wire[c]) => In(x, table') \/ In(x, wire'[c])
    BY <2>1, <2>2, InHeadTail, InAppend
  <2>4. In(x, table) => In(x, table')
    BY <2>1, <2>2, InAppend
  <2> QED
    BY <1>10, <2>2, <2>3, <2>4 DEF AddLogReq, Somewhere
<1> QED
  BY <1>1, <1>2, <1>3, <1>4, <1>5, <1>6, <1>7, <1>8, <1>9, <1>10 DEF Next

LEMMA FaultsGrow == TypeOK /\ [Next]_vars => faults' >= faults
<1> SUFFICES ASSUME TypeOK, [Next]_vars PROVE faults' >= faults
  OBVIOUS
<1>1. faults' = faults \/ faults' = faults + 1
  BY DEF Next, Stamp, Push, StartLog, TimerCB, TakeLog, SendLog, Connect, Connected,
         Flush, Close, HandleEnds, AddLogReq, vars
<1> QED
  BY <1>1, Types

LEMMA LostStep == TypeOK /\ ConnInv /\ LostInv /\ [Next]_vars => LostInv'
<1> SUFFICES ASSUME TypeOK, ConnInv, LostInv, [Next]_vars, faults' = 0,
                    NEW t \in Threads, NEW n \in 1..count'[t]
             PROVE  LET l == [by |-> t, nr |-> n]
                    IN  Somewhere(l)' \/ adding'[t] = <<l>>
  BY DEF LostInv
<1> DEFINE l == [by |-> t, nr |-> n]
<1>1. faults = 0
  BY FaultsGrow, Types
<1>2. Somewhere(l) => Somewhere(l)'
  BY <1>1, KeptStep
<1>3. n \in 1..count[t] => Somewhere(l) \/ adding[t] = <<l>>
  BY <1>1 DEF LostInv
<1>4. CASE UNCHANGED <<count, adding>>
  BY <1>2, <1>3, <1>4
<1>5. ASSUME NEW u \in Threads, Stamp(u)
      PROVE  Somewhere(l)' \/ adding'[t] = <<l>>
  <2>1. CASE u # t
    BY <1>2, <1>3, <1>5, <2>1 DEF Stamp, TypeOK
  <2>2. CASE u = t
    <3>1. count[t] \in Nat /\ count'[t] = count[t] + 1 /\ adding[t] = <<>>
          /\ adding'[t] = <<[by |-> t, nr |-> count[t] + 1]>>
      BY <1>5, <2>2, Bounds DEF Stamp, TypeOK
    <3>2. CASE n = count[t] + 1
      BY <3>1, <3>2
    <3>3. CASE n # count[t] + 1
      BY <1>2, <1>3, <3>1, <3>3, One
    <3> QED
      BY <3>2, <3>3
  <2> QED
    BY <2>1, <2>2
<1>6. ASSUME NEW u \in Threads, Push(u)
      PROVE  Somewhere(l)' \/ adding'[t] = <<l>>
  <2>1. CASE u # t
    BY <1>2, <1>3, <1>6, <2>1 DEF Push, TypeOK
  <2>2. CASE u = t
    <3>1. logs_' = logs_ \o adding[t] /\ logs_ \in Logs /\ adding[t] \in Logs
          /\ count' = count
      BY <1>6, <2>2 DEF Push, TypeOK
    <3>2. In(l, adding[t]) => In(l, logs_')
      BY <3>1, InConcat
    <3>3. adding[t] = <<l>> => Somewhere(l)'
      BY <3>2, InOne DEF Somewhere
    <3> QED
      BY <1>2, <1>3, <3>1, <3>3
  <2> QED
    BY <2>1, <2>2
<1> QED
  BY <1>4, <1>5, <1>6 DEF Next, StartLog, TimerCB, TakeLog, SendLog, Connect, Connected,
     Flush, Close, HandleEnds, AddLogReq, vars, client

LEMMA LostIsHeld == TypeOK /\ LostInv => NothingLostWhileUp
<1> SUFFICES ASSUME TypeOK, LostInv, faults = 0, NEW t \in Threads, NEW n \in 1..count[t]
             PROVE  Held([by |-> t, nr |-> n])
  BY DEF NothingLostWhileUp
<1> DEFINE l == [by |-> t, nr |-> n]
<1>1. Somewhere(l) \/ adding[t] = <<l>>
  BY DEF LostInv
<1>2. l.by = t
  OBVIOUS
<1>3. ASSUME Somewhere(l)
      PROVE  In(l, table) \/ \E c \in Connections : In(l, Pending(c))
  BY <1>3, Types, InPending DEF Somewhere
<1> QED
  BY <1>1, <1>2, <1>3 DEF Held, In

\* Until a connection is lost or an insert fails no log is lost, with any
\* number of threads and logs, whenever the client is started.
THEOREM NothingLostWhileUpHolds == Spec => []NothingLostWhileUp
<1>1. Init => LostInv
  BY DEF Init, LostInv
<1> QED
  BY <1>1, TypeInit, TypeStep, LostStep, LostIsHeld, PTL DEF Spec
-----------------------------------------------------------------------------
(* Order.                                                                  *)

LEMMA OrderedShort == \A s \in Logs : AtMostOne(s) => Ordered(s)
<1> SUFFICES ASSUME NEW s \in Logs, AtMostOne(s), NEW i \in DOMAIN s, NEW j \in DOMAIN s, i < j
             PROVE  FALSE
  BY DEF Ordered
<1>1. i \in 1..Len(s) /\ j \in 1..Len(s) /\ Len(s) \in Nat /\ Len(s) <= 1
  BY DEF Logs, AtMostOne
<1> QED
  BY <1>1

LEMMA OrderedConcat ==
  ASSUME NEW s \in Logs, NEW t \in Logs, Ordered(s), Ordered(t), Before(s, t)
  PROVE  Ordered(s \o t)
<1> DEFINE u == s \o t
<1>1. /\ Len(s) \in Nat /\ Len(t) \in Nat /\ Len(u) = Len(s) + Len(t)
      /\ DOMAIN s = 1..Len(s) /\ DOMAIN t = 1..Len(t) /\ DOMAIN u = 1..Len(u)
  BY DEF Logs
<1>2. \A i \in 1..Len(s) : u[i] = s[i]
  BY DEF Logs
<1>3. \A i \in 1..Len(t) : u[Len(s) + i] = t[i]
  BY DEF Logs
<1>4. \A i \in 1..Len(u) : i \in 1..Len(s) \/ (i - Len(s) \in 1..Len(t) /\ u[i] = t[i - Len(s)])
  <2> SUFFICES ASSUME NEW i \in 1..Len(u), i \notin 1..Len(s)
               PROVE  i - Len(s) \in 1..Len(t) /\ u[i] = t[i - Len(s)]
    OBVIOUS
  <2>1. i - Len(s) \in 1..Len(t) /\ Len(s) + (i - Len(s)) = i
    BY <1>1
  <2> QED
    BY <1>3, <2>1
<1> SUFFICES ASSUME NEW i \in 1..Len(u), NEW j \in 1..Len(u), i < j, u[i].by = u[j].by
             PROVE  u[i].nr < u[j].nr
  BY <1>1 DEF Ordered
<1> HIDE DEF u
<1>5. CASE j \in 1..Len(s)
  <2>1. i \in 1..Len(s)
    BY <1>1, <1>5
  <2> QED
    BY <1>1, <1>2, <1>5, <2>1 DEF Ordered
<1>6. CASE j \notin 1..Len(s) /\ i \in 1..Len(s)
  <2>1. In(u[i], s) /\ In(u[j], t)
    BY <1>1, <1>2, <1>4, <1>6 DEF In
  <2> QED
    BY <2>1 DEF Before
<1>7. CASE j \notin 1..Len(s) /\ i \notin 1..Len(s)
  <2>1. i - Len(s) < j - Len(s)
    BY <1>1
  <2> QED
    BY <1>1, <1>4, <1>7, <2>1 DEF Ordered
<1> QED
  BY <1>5, <1>6, <1>7

LEMMA OrderedTail ==
  ASSUME NEW s \in Logs, s # <<>>, Ordered(s)
  PROVE  Ordered(Tail(s)) /\ \A y : In(y, Tail(s)) /\ y.by = Head(s).by => Head(s).nr < y.nr
<1>1. /\ Len(s) \in Nat \ {0} /\ DOMAIN s = 1..Len(s) /\ Head(s) = s[1]
      /\ DOMAIN Tail(s) = 1..(Len(s) - 1)
      /\ \A i \in 1..(Len(s) - 1) : Tail(s)[i] = s[i + 1]
  BY DEF Logs
<1>2. \A i \in 1..(Len(s) - 1) : i + 1 \in DOMAIN s /\ 1 < i + 1 /\ 1 \in DOMAIN s
  BY <1>1
<1>3. \A i, j \in 1..(Len(s) - 1) : i < j => i + 1 < j + 1
  BY <1>1
<1>4. Ordered(Tail(s))
  BY <1>1, <1>2, <1>3 DEF Ordered
<1>5. ASSUME NEW y, In(y, Tail(s)), y.by = Head(s).by
      PROVE  Head(s).nr < y.nr
  <2>1. PICK i \in 1..(Len(s) - 1) : s[i + 1] = y
    BY <1>1, <1>5 DEF In
  <2> QED
    BY <1>1, <1>2, <1>5, <2>1 DEF Ordered
<1> QED
  BY <1>4, <1>5

LEMMA BeforeIrreflexive ==
  ASSUME NEW s \in Logs, NEW t, Before(s, t), NEW x, In(x, s)
  PROVE  ~In(x, t)
<1>1. x.nr \in Nat
  BY InType
<1> QED
  BY <1>1 DEF Before
-----------------------------------------------------------------------------
(* What the steps that move logs do to the places where they are.          *)

LEMMA PushMoves ==
  ASSUME TypeOK, NEW t \in Threads, Push(t), NEW a, adding[t] = <<a>>
  PROVE  \A x : In(x, logs_') <=> In(x, logs_) \/ x = a
<1>1. logs_' = logs_ \o adding[t] /\ logs_ \in Logs /\ adding[t] \in Logs
  BY DEF Push, TypeOK
<1> QED
  BY <1>1, InConcat, InOne

LEMMA TakeMoves ==
  ASSUME TypeOK, TakeLog, logs_ # <<>>
  PROVE  /\ hand = <<>> /\ hand' = <<Head(logs_)>> /\ logs_' = Tail(logs_)
         /\ \A x : In(x, hand') <=> x = Head(logs_)
         /\ \A x : In(x, logs_) <=> x = Head(logs_) \/ In(x, logs_')
<1>1. hand = <<>> /\ hand' = <<Head(logs_)>> /\ logs_' = Tail(logs_) /\ logs_ \in Logs
  BY DEF TakeLog, TypeOK
<1>2. \A x : In(x, logs_) <=> x = Head(logs_) \/ In(x, Tail(logs_))
  BY <1>1, InHeadTail
<1> QED
  BY <1>1, <1>2, InOne

LEMMA SendMoves ==
  ASSUME TypeOK, SendLog
  PROVE  /\ hand' = <<>> /\ (out' = out \/ out' = out \o hand)
         /\ \A x : In(x, out') => In(x, out) \/ In(x, hand)
<1>1. hand' = <<>> /\ (out' = out \/ out' = out \o hand) /\ out \in Logs /\ hand \in Logs
  BY DEF SendLog, Write, TypeOK
<1>2. \A x : In(x, out \o hand) <=> In(x, out) \/ In(x, hand)
  BY <1>1, InConcat
<1>3. \A x : In(x, out') => In(x, out) \/ In(x, hand)
  BY <1>1, <1>2, Zenon
<1> QED
  BY <1>1, <1>3

LEMMA FlushMoves ==
  ASSUME TypeOK, Flush
  PROVE  /\ out # <<>> /\ Head(out) \in Log /\ out' = Tail(out)
         /\ wire'[conn] = wire[conn] \o <<Head(out)>> /\ <<Head(out)>> \in Logs
         /\ \A c \in Connections : c # conn => wire'[c] = wire[c]
         /\ \A x : In(x, wire'[conn]) <=> In(x, wire[conn]) \/ x = Head(out)
         /\ \A x : In(x, out) <=> x = Head(out) \/ In(x, out')
<1>1. out # <<>> /\ out \in Logs /\ Head(out) \in Log /\ <<Head(out)>> \in Logs
      /\ conn \in Connections /\ wire[conn] \in Logs
  BY LogsTypes DEF Flush, TypeOK
<1>2. /\ out' = Tail(out) /\ wire'[conn] = Append(wire[conn], Head(out))
      /\ \A c \in Connections : c # conn => wire'[c] = wire[c]
  BY DEF Flush, TypeOK
<1>3. wire'[conn] = wire[conn] \o <<Head(out)>>
  BY <1>1, <1>2, AppendOne
<1>4. \A x : In(x, wire'[conn]) <=> In(x, wire[conn]) \/ x = Head(out)
  BY <1>1, <1>2, InAppend
<1>5. \A x : In(x, out) <=> x = Head(out) \/ In(x, out')
  BY <1>1, <1>2, InHeadTail
<1> QED
  BY <1>1, <1>2, <1>3, <1>4, <1>5

LEMMA AddMoves ==
  ASSUME TypeOK, NEW c \in Connections, AddLogReq(c)
  PROVE  /\ wire[c] # <<>> /\ Head(wire[c]) \in Log /\ wire'[c] = Tail(wire[c])
         /\ \A d \in Connections : d # c => wire'[d] = wire[d]
         /\ \A x : In(x, wire[c]) <=> x = Head(wire[c]) \/ In(x, wire'[c])
         /\ table' = table \/ table' = table \o <<Head(wire[c])>>
         /\ \A x : In(x, table') => In(x, table) \/ x = Head(wire[c])
<1>1. /\ wire[c] # <<>> /\ wire[c] \in Logs /\ Head(wire[c]) \in Log
      /\ <<Head(wire[c])>> \in Logs /\ table \in Logs
  BY LogsTypes DEF AddLogReq, TypeOK
<1>2. /\ wire'[c] = Tail(wire[c]) /\ \A d \in Connections : d # c => wire'[d] = wire[d]
      /\ table' = table \/ table' = Append(table, Head(wire[c]))
  BY DEF AddLogReq, TypeOK
<1>3. table' = table \/ table' = table \o <<Head(wire[c])>>
  BY <1>1, <1>2, AppendOne
<1>4. \A x : In(x, wire[c]) <=> x = Head(wire[c]) \/ In(x, wire'[c])
  BY <1>1, <1>2, InHeadTail
<1>5. \A x : In(x, Append(table, Head(wire[c]))) <=> In(x, table) \/ x = Head(wire[c])
  BY <1>1, InAppend
<1>6. \A x : In(x, table') => In(x, table) \/ x = Head(wire[c])
  BY <1>2, <1>5, Zenon
<1> QED
  BY <1>1, <1>2, <1>3, <1>4, <1>6
-----------------------------------------------------------------------------
(* Order: the invariants.                                                  *)

\* What a thread has in its hand is its newest log, and nowhere else.
NewInv ==
  /\ \A x : Somewhere(x) =>
       x.nr <= count[x.by] /\ (adding[x.by] # <<>> => x.nr < count[x.by])
  /\ \A t \in Threads :
       adding[t] # <<>> => adding[t] = <<[by |-> t, nr |-> count[t]]>>

\* Each place is in order, and the places of the newest connection are.
LineInv ==
  /\ \A c \in Connections : Ordered(wire[c])
  /\ Ordered(out) /\ Ordered(logs_)
  /\ Before(wire[conn], out) /\ Before(wire[conn], hand) /\ Before(wire[conn], logs_)
  /\ Before(out, hand) /\ Before(out, logs_) /\ Before(hand, logs_)

Distinct(s) == \A i, j \in DOMAIN s : s[i] = s[j] => i = j

\* A log is in one place.
Away(x) == In(x, out) \/ In(x, hand) \/ In(x, logs_)

OnceInv ==
  /\ \A x : In(x, table) => ~Away(x) /\ \A c \in Connections : ~In(x, wire[c])
  /\ Distinct(table)
  /\ \A x : \A c, d \in Connections : In(x, wire[c]) /\ In(x, wire[d]) => c = d
  /\ \A x : \A c \in Connections : c # conn /\ In(x, wire[c]) => ~Away(x)

\* Without a fault the table is in order too, and before all that comes.
TableInv ==
  faults = 0 =>
    /\ Ordered(table) /\ Before(table, wire[conn])
    /\ Before(table, out) /\ Before(table, hand) /\ Before(table, logs_)

LEMMA BeforeEmpty == \A s : Before(s, <<>>) /\ Before(<<>>, s)
  BY InEmpty DEF Before

LEMMA BeforeOr ==
  ASSUME NEW s, NEW t, NEW u, NEW v, Before(s, v), Before(t, v),
         \A x : In(x, u) => In(x, s) \/ In(x, t)
  PROVE  Before(u, v)
  BY DEF Before

LEMMA OrBefore ==
  ASSUME NEW s, NEW t, NEW u, NEW v, Before(v, s), Before(v, t),
         \A x : In(x, u) => In(x, s) \/ In(x, t)
  PROVE  Before(v, u)
  BY DEF Before

\* Only Push puts anything into the places, and only what its thread stamped.
LEMMA NothingNew ==
  ASSUME TypeOK, [Next]_vars, NEW x, Somewhere(x)'
  PROVE  Somewhere(x) \/ \E t \in Threads : Push(t) /\ adding[t] # <<>> /\ In(x, adding[t])
<1> USE DEF client, network
<1>1. ASSUME NEW t \in Threads, Stamp(t)
      PROVE  Somewhere(x)
  BY <1>1 DEF Stamp, Somewhere
<1>2. ASSUME NEW t \in Threads, Push(t)
      PROVE  Somewhere(x) \/ (adding[t] # <<>> /\ In(x, adding[t]))
  <2>1. logs_' = logs_ \o adding[t] /\ logs_ \in Logs /\ adding[t] \in Logs /\ adding[t] # <<>>
    BY <1>2 DEF Push, TypeOK
  <2>2. In(x, logs_') => In(x, logs_) \/ In(x, adding[t])
    BY <2>1, InConcat
  <2>3. UNCHANGED <<table, wire, out, hand>>
    BY <1>2 DEF Push
  <2> QED
    BY <2>1, <2>2, <2>3 DEF Somewhere
<1>3. ASSUME StartLog \/ TimerCB \/ Connected \/ Connect \/ UNCHANGED vars
      PROVE  Somewhere(x)
  BY <1>3 DEF StartLog, TimerCB, Connected, Connect, vars, Somewhere
<1>4. ASSUME TakeLog
      PROVE  Somewhere(x)
  <2>1. CASE logs_ = <<>>
    BY <1>4, <2>1 DEF TakeLog, Somewhere
  <2>2. CASE logs_ # <<>>
    BY <1>4, <2>2, TakeMoves DEF TakeLog, Somewhere
  <2> QED
    BY <2>1, <2>2
<1>5. ASSUME SendLog
      PROVE  Somewhere(x)
  BY <1>5, SendMoves, InEmpty DEF SendLog, Somewhere
<1>6. ASSUME Flush
      PROVE  Somewhere(x)
  <2>1. \A c \in Connections : In(x, wire'[c]) => In(x, wire[c]) \/ In(x, out)
    BY <1>6, FlushMoves
  <2>2. In(x, out') => In(x, out)
    BY <1>6, FlushMoves
  <2> QED
    BY <1>6, <2>1, <2>2 DEF Flush, Somewhere
<1>7. ASSUME Close
      PROVE  Somewhere(x)
  BY <1>7, InEmpty DEF Close, Somewhere
<1>8. ASSUME NEW c \in Connections, HandleEnds(c)
      PROVE  Somewhere(x)
  <2>1. \A d \in Connections : In(x, wire'[d]) => In(x, wire[d])
    BY <1>8, InEmpty DEF HandleEnds, TypeOK
  <2> QED
    BY <1>8, <2>1 DEF HandleEnds, Somewhere
<1>9. ASSUME NEW c \in Connections, AddLogReq(c)
      PROVE  Somewhere(x)
  <2>1. \A d \in Connections : In(x, wire'[d]) => In(x, wire[d])
    BY <1>9, AddMoves
  <2>2. In(x, table') => In(x, table) \/ In(x, wire[c])
    BY <1>9, AddMoves
  <2> QED
    BY <1>9, <2>1, <2>2 DEF AddLogReq, Somewhere
<1> QED
  BY <1>1, <1>2, <1>3, <1>4, <1>5, <1>6, <1>7, <1>8, <1>9 DEF Next

LEMMA NewStep == TypeOK /\ NewInv /\ [Next]_vars => NewInv'
<1> SUFFICES ASSUME TypeOK, NewInv, [Next]_vars PROVE NewInv'
  OBVIOUS
<1> USE DEF client, network
<1>1. ASSUME NEW t \in Threads, Stamp(t)
      PROVE  NewInv'
  <2>1. /\ adding[t] = <<>> /\ count[t] \in Nat /\ count'[t] = count[t] + 1
        /\ adding'[t] = <<[by |-> t, nr |-> count[t] + 1]>>
        /\ \A u : u # t => count'[u] = count[u] /\ adding'[u] = adding[u]
    BY <1>1, Bounds DEF Stamp, TypeOK
  <2>2. \A x : Somewhere(x)' => Somewhere(x)
    BY <1>1 DEF Stamp, Somewhere
  <2>3. ASSUME NEW x, Somewhere(x)'
        PROVE  x.nr <= count'[x.by] /\ (adding'[x.by] # <<>> => x.nr < count'[x.by])
    <3>1. x.nr <= count[x.by] /\ (adding[x.by] # <<>> => x.nr < count[x.by])
      BY <2>2, <2>3 DEF NewInv
    <3>2. x.nr \in Nat
      BY <2>2, <2>3, InType DEF Somewhere, TypeOK
    <3> QED
      BY <2>1, <3>1, <3>2
  <2>4. \A u \in Threads : adding'[u] # <<>> => adding'[u] = <<[by |-> u, nr |-> count'[u]]>>
    BY <2>1 DEF NewInv
  <2> QED
    BY <2>3, <2>4 DEF NewInv
<1>2. ASSUME NEW t \in Threads, Push(t)
      PROVE  NewInv'
  <2>1. /\ count' = count /\ adding'[t] = <<>> /\ adding[t] = <<[by |-> t, nr |-> count[t]]>>
        /\ \A u \in Threads : u # t => adding'[u] = adding[u]
    BY <1>2 DEF Push, TypeOK, NewInv
  <2>2. \A x : Somewhere(x)' => Somewhere(x) \/ x = [by |-> t, nr |-> count[t]]
    <3>1. \A x : In(x, logs_') <=> In(x, logs_) \/ x = [by |-> t, nr |-> count[t]]
      BY <1>2, <2>1, PushMoves
    <3> QED
      BY <1>2, <3>1 DEF Push, Somewhere
  <2>3. ASSUME NEW x, Somewhere(x)'
        PROVE  x.nr <= count'[x.by] /\ (adding'[x.by] # <<>> => x.nr < count'[x.by])
    <3>1. CASE Somewhere(x)
      <4>1. x.by \in Threads
        BY <3>1, InType DEF Somewhere, TypeOK
      <4> QED
        BY <2>1, <3>1, <4>1 DEF NewInv
    <3>2. CASE x = [by |-> t, nr |-> count[t]]
      <4>1. x.by = t /\ x.nr = count[t] /\ count[t] \in Nat
        BY <3>2, Bounds DEF TypeOK
      <4> QED
        BY <2>1, <4>1
    <3> QED
      BY <2>2, <2>3, <3>1, <3>2
  <2>4. \A u \in Threads : adding'[u] # <<>> => adding'[u] = <<[by |-> u, nr |-> count'[u]]>>
    BY <2>1 DEF NewInv
  <2> QED
    BY <2>3, <2>4 DEF NewInv
<1>3. CASE UNCHANGED <<count, adding>>
  <2>1. \A t \in Threads : Push(t) => adding'[t] = <<>> /\ adding[t] # <<>>
    BY DEF Push, TypeOK
  <2>2. \A x : Somewhere(x)' => Somewhere(x)
    BY <1>3, <2>1, NothingNew
  <2> QED
    BY <1>3, <2>2 DEF NewInv
<1> QED
  BY <1>1, <1>2, <1>3 DEF Next, StartLog, TimerCB, TakeLog, SendLog, Connect, Connected,
     Flush, Close, HandleEnds, AddLogReq, vars

LEMMA LineStep ==
  TypeOK /\ ConnInv /\ NewInv /\ LineInv /\ [Next]_vars => LineInv'
<1> SUFFICES ASSUME TypeOK, ConnInv, NewInv, LineInv, [Next]_vars PROVE LineInv'
  OBVIOUS
<1> USE DEF client, network
<1>1. ASSUME UNCHANGED <<conn, wire, out, hand, logs_>>
      PROVE  LineInv'
  BY <1>1 DEF LineInv
<1>2. ASSUME NEW t \in Threads, Push(t)
      PROVE  LineInv'
  <2> DEFINE a == [by |-> t, nr |-> count[t]]
  <2>1. adding[t] = <<a>> /\ adding[t] # <<>> /\ adding[t] \in Logs
    BY <1>2 DEF Push, TypeOK, NewInv
  <2>2. ASSUME NEW s, \A x : In(x, s) => Somewhere(x)
        PROVE  Before(s, <<a>>)
    BY <2>1, <2>2, InOne DEF Before, NewInv
  <2>3. logs_' = logs_ \o <<a>> /\ UNCHANGED <<conn, wire, out, hand>>
    BY <1>2, <2>1 DEF Push
  <2>4. \A x : In(x, logs_') => In(x, logs_) \/ In(x, <<a>>)
    BY <1>2, <2>1, PushMoves, InOne
  <2>5. Before(wire[conn], <<a>>) /\ Before(out, <<a>>) /\ Before(hand, <<a>>)
        /\ Before(logs_, <<a>>)
    BY <2>2 DEF Somewhere, TypeOK
  <2>6. Ordered(<<a>>)
    BY <2>1, OrderedShort, One
  <2>7. Ordered(logs_')
    BY <2>1, <2>3, <2>5, <2>6, OrderedConcat DEF LineInv, TypeOK
  <2> HIDE DEF a
  <2>8. Before(wire[conn], logs_') /\ Before(out, logs_') /\ Before(hand, logs_')
    BY <2>4, <2>5, OrBefore DEF LineInv
  <2> QED
    BY <2>3, <2>7, <2>8 DEF LineInv
<1>3. ASSUME TakeLog, logs_ # <<>>
      PROVE  LineInv'
  <2>1. UNCHANGED <<conn, wire, out>>
    BY <1>3 DEF TakeLog
  <2>2. /\ logs_' = Tail(logs_) /\ \A x : In(x, hand') <=> x = Head(logs_)
        /\ \A x : In(x, logs_) <=> x = Head(logs_) \/ In(x, logs_')
    BY <1>3, TakeMoves
  <2>3. Ordered(logs_') /\ Before(hand', logs_')
    BY <1>3, <2>2, OrderedTail DEF Before, LineInv, TypeOK
  <2>4. \A x : (In(x, hand') => In(x, logs_)) /\ (In(x, logs_') => In(x, logs_))
    BY <2>2
  <2>5. \A s : Before(s, logs_) => Before(s, hand') /\ Before(s, logs_')
    BY <2>4 DEF Before
  <2> QED
    BY <2>1, <2>3, <2>5 DEF LineInv
<1>4. ASSUME SendLog
      PROVE  LineInv'
  <2>1. UNCHANGED <<conn, wire, logs_>>
    BY <1>4 DEF SendLog
  <2>2. /\ hand' = <<>> /\ (out' = out \/ out' = out \o hand)
        /\ \A x : In(x, out') => In(x, out) \/ In(x, hand)
    BY <1>4, SendMoves
  <2>3. Ordered(out')
    BY <2>2, OrderedConcat, OrderedShort DEF LineInv, TypeOK
  <2>4. Before(wire[conn], out') /\ Before(out', logs_)
    BY <2>2, OrBefore, BeforeOr DEF LineInv
  <2> QED
    BY <2>1, <2>2, <2>3, <2>4, BeforeEmpty DEF LineInv
<1>5. ASSUME Connect
      PROVE  LineInv'
  <2>1. conn' = conn + 1 /\ UNCHANGED <<wire, out, hand, logs_>>
    BY <1>5 DEF Connect
  <2>2. conn' \in Connections /\ wire[conn'] = <<>>
    BY <1>5, <2>1, TypeStep, Types DEF ConnInv, TypeOK
  <2> QED
    BY <2>1, <2>2, BeforeEmpty DEF LineInv
<1>6. ASSUME Flush
      PROVE  LineInv'
  <2>1. UNCHANGED <<conn, hand, logs_>>
    BY <1>6 DEF Flush
  <2> DEFINE h == Head(out)
  <2>2. /\ out # <<>> /\ h \in Log /\ <<h>> \in Logs /\ out' = Tail(out)
        /\ wire'[conn] = wire[conn] \o <<h>>
        /\ \A c \in Connections : c # conn => wire'[c] = wire[c]
        /\ \A x : In(x, wire'[conn]) <=> In(x, wire[conn]) \/ x = h
        /\ \A x : In(x, out) <=> x = h \/ In(x, out')
    BY <1>6, FlushMoves
  <2>3. Ordered(out') /\ Before(<<h>>, out')
    BY <2>2, OrderedTail, InOne DEF Before, LineInv, TypeOK
  <2> HIDE DEF h
  <2>4. \A x : (In(x, <<h>>) => In(x, out)) /\ (In(x, out') => In(x, out))
    BY <2>2, InOne
  <2>5. Before(wire[conn], <<h>>) /\ Before(wire[conn], out')
    BY <2>4 DEF Before, LineInv
  <2>6. \A s : Before(out, s) => Before(<<h>>, s) /\ Before(out', s)
    BY <2>4 DEF Before
  <2>7. Ordered(wire'[conn])
    BY <2>2, <2>5, OrderedConcat, OrderedShort, One DEF LineInv, TypeOK
  <2>8. \A x : In(x, wire'[conn]) => In(x, wire[conn]) \/ In(x, <<h>>)
    BY <2>2, InOne
  <2>9. Before(wire'[conn], out')
    BY <2>3, <2>5, <2>8, BeforeOr
  <2>10. Before(wire'[conn], hand) /\ Before(wire'[conn], logs_)
    BY <2>6, <2>8, BeforeOr DEF LineInv
  <2> QED
    BY <2>1, <2>2, <2>3, <2>6, <2>7, <2>9, <2>10 DEF LineInv
<1>7. ASSUME Close
      PROVE  LineInv'
  <2>1. out' = <<>> /\ UNCHANGED <<conn, wire, hand, logs_>>
    BY <1>7 DEF Close
  <2> QED
    BY <2>1, BeforeEmpty, OrderedShort, One, LogsTypes DEF LineInv
<1>8. ASSUME NEW c \in Connections, HandleEnds(c)
      PROVE  LineInv'
  <2>1. UNCHANGED <<conn, out, hand, logs_>> /\ wire' = [wire EXCEPT ![c] = <<>>]
    BY <1>8 DEF HandleEnds
  <2>2. \A d \in Connections : wire'[d] = wire[d] \/ wire'[d] = <<>>
    BY <2>1 DEF TypeOK
  <2>3. \A d \in Connections : Ordered(wire'[d])
    BY <2>2, OrderedShort, One, LogsTypes DEF LineInv
  <2> QED
    BY <2>1, <2>2, <2>3, BeforeEmpty, Types DEF LineInv
<1>9. ASSUME NEW c \in Connections, AddLogReq(c)
      PROVE  LineInv'
  <2>1. UNCHANGED <<conn, out, hand, logs_>>
    BY <1>9 DEF AddLogReq
  <2>2. /\ wire[c] # <<>> /\ wire'[c] = Tail(wire[c])
        /\ \A d \in Connections : d # c => wire'[d] = wire[d]
        /\ \A x : In(x, wire[c]) <=> x = Head(wire[c]) \/ In(x, wire'[c])
    BY <1>9, AddMoves
  <2>3. \A d \in Connections : Ordered(wire'[d])
    BY <2>2, OrderedTail DEF LineInv, TypeOK
  <2>4. conn \in Connections /\ \A x : In(x, wire'[conn]) => In(x, wire[conn])
    BY <2>2, Types
  <2>5. \A s : Before(wire[conn], s) => Before(wire'[conn], s)
    BY <2>4 DEF Before
  <2> QED
    BY <2>1, <2>3, <2>5 DEF LineInv
<1>10. TakeLog /\ logs_ = <<>> => UNCHANGED <<conn, wire, out, hand, logs_>>
  BY DEF TakeLog
<1>11. (\E t \in Threads : Stamp(t)) \/ StartLog \/ TimerCB \/ Connected \/ UNCHANGED vars
       => UNCHANGED <<conn, wire, out, hand, logs_>>
  BY DEF Stamp, StartLog, TimerCB, Connected, vars
<1> QED
  BY <1>1, <1>2, <1>3, <1>4, <1>5, <1>6, <1>7, <1>8, <1>9, <1>10, <1>11 DEF Next

LEMMA DistinctConcat ==
  ASSUME NEW s \in Logs, NEW x, <<x>> \in Logs, Distinct(s), ~In(x, s)
  PROVE  Distinct(s \o <<x>>)
<1> DEFINE u == s \o <<x>>
<1>1. /\ Len(s) \in Nat /\ Len(u) = Len(s) + 1 /\ DOMAIN s = 1..Len(s)
      /\ DOMAIN u = 1..(Len(s) + 1) /\ u[Len(s) + 1] = x
      /\ \A i \in 1..Len(s) : u[i] = s[i]
  BY DEF Logs
<1> HIDE DEF u
<1>2. \A i \in DOMAIN u : i \in 1..Len(s) \/ i = Len(s) + 1
  BY <1>1
<1>3. \A i \in 1..Len(s) : u[i] # x
  BY <1>1 DEF In
<1>4. Distinct(u)
  BY <1>1, <1>2, <1>3 DEF Distinct
<1> QED
  BY <1>4 DEF u

LEMMA OnceStep ==
  TypeOK /\ ConnInv /\ NewInv /\ LineInv /\ OnceInv /\ [Next]_vars => OnceInv'
<1> SUFFICES ASSUME TypeOK, ConnInv, NewInv, LineInv, OnceInv, [Next]_vars PROVE OnceInv'
  OBVIOUS
<1> USE DEF client, network
<1>0. \A x : In(x, wire[conn]) => ~Away(x)
  <2>1. wire[conn] \in Logs
    BY DEF TypeOK
  <2> QED
    BY <2>1, BeforeIrreflexive DEF LineInv, Away
<1>1. ASSUME UNCHANGED <<conn, wire, table>>, \A x : Away(x)' => Away(x)
      PROVE  OnceInv'
  BY <1>1 DEF OnceInv
<1>2. ASSUME NEW t \in Threads, Push(t)
      PROVE  OnceInv'
  <2> DEFINE a == [by |-> t, nr |-> count[t]]
  <2>1. adding[t] = <<a>> /\ adding[t] # <<>>
    BY <1>2 DEF Push, NewInv
  <2>2. ~Somewhere(a)
    <3>1. a.by = t /\ a.nr = count[t] /\ count[t] \in Nat
      BY Bounds DEF TypeOK
    <3> HIDE DEF a
    <3>2. Somewhere(a) => a.nr < count[t]
      BY <2>1, <3>1, One DEF NewInv
    <3> QED
      BY <3>1, <3>2
  <2>3. UNCHANGED <<conn, wire, table>> /\ \A x : Away(x)' => Away(x) \/ x = a
    BY <1>2, <2>1, PushMoves DEF Push, Away
  <2>4. ~In(a, table) /\ \A c \in Connections : ~In(a, wire[c])
    BY <2>2 DEF Somewhere
  <2> HIDE DEF a
  <2> QED
    BY <2>3, <2>4 DEF OnceInv
<1>3. ASSUME TakeLog, logs_ # <<>>
      PROVE  OnceInv'
  <2>1. UNCHANGED <<conn, wire, table, out>>
    BY <1>3 DEF TakeLog
  <2>2. \A x : Away(x)' => Away(x)
    BY <1>3, <2>1, TakeMoves DEF Away
  <2> QED
    BY <1>1, <2>1, <2>2
<1>4. ASSUME SendLog
      PROVE  OnceInv'
  <2>1. UNCHANGED <<conn, wire, table, logs_>>
    BY <1>4 DEF SendLog
  <2>2. \A x : Away(x)' => Away(x)
    BY <1>4, <2>1, SendMoves, InEmpty DEF Away
  <2> QED
    BY <1>1, <2>1, <2>2
<1>5. ASSUME Connect
      PROVE  OnceInv'
  <2>1. UNCHANGED <<wire, out, hand, logs_, table>>
    BY <1>5 DEF Connect
  <2> QED
    BY <1>0, <2>1 DEF OnceInv, Away
<1>6. ASSUME Flush
      PROVE  OnceInv'
  <2>1. UNCHANGED <<conn, hand, logs_, table>>
    BY <1>6 DEF Flush
  <2> DEFINE h == Head(out)
  <2>2. /\ \A c \in Connections : c # conn => wire'[c] = wire[c]
        /\ \A x : In(x, wire'[conn]) <=> In(x, wire[conn]) \/ x = h
        /\ \A x : In(x, out) <=> x = h \/ In(x, out')
    BY <1>6, FlushMoves
  <2> HIDE DEF h
  <2>3. Away(h) /\ \A x : Away(x)' => Away(x)
    BY <2>1, <2>2 DEF Away
  <2>4. ~In(h, table) /\ \A c \in Connections : ~In(h, wire[c])
    BY <1>0, <2>3 DEF OnceInv
  <2>5. \A x : \A c \in Connections :
          In(x, wire'[c]) => In(x, wire[c]) \/ (x = h /\ c = conn)
    BY <2>2
  <2>6. \A x : In(x, table) => ~Away(x)' /\ \A c \in Connections : ~In(x, wire'[c])
    BY <2>3, <2>4, <2>5 DEF OnceInv
  <2>7. \A x : \A c, d \in Connections : In(x, wire'[c]) /\ In(x, wire'[d]) => c = d
    BY <2>4, <2>5 DEF OnceInv
  <2>8. \A x : \A c \in Connections : c # conn /\ In(x, wire'[c]) => ~Away(x)'
    BY <2>3, <2>5 DEF OnceInv
  <2> QED
    BY <2>1, <2>6, <2>7, <2>8 DEF OnceInv
<1>7. ASSUME Close
      PROVE  OnceInv'
  <2>1. UNCHANGED <<conn, wire, table>> /\ \A x : Away(x)' => Away(x)
    BY <1>7, InEmpty DEF Close, Away
  <2> QED
    BY <1>1, <2>1
<1>8. ASSUME NEW c \in Connections, HandleEnds(c)
      PROVE  OnceInv'
  <2>1. UNCHANGED <<conn, out, hand, logs_, table>> /\ wire' = [wire EXCEPT ![c] = <<>>]
    BY <1>8 DEF HandleEnds
  <2>2. \A x : \A d \in Connections : In(x, wire'[d]) => In(x, wire[d])
    BY <2>1, InEmpty DEF TypeOK
  <2> QED
    BY <2>1, <2>2 DEF OnceInv, Away
<1>9. ASSUME NEW c \in Connections, AddLogReq(c)
      PROVE  OnceInv'
  <2>1. UNCHANGED <<conn, out, hand, logs_>>
    BY <1>9 DEF AddLogReq
  <2> DEFINE h == Head(wire[c])
  <2>2. /\ wire[c] # <<>> /\ h \in Log /\ wire'[c] = Tail(wire[c])
        /\ \A d \in Connections : d # c => wire'[d] = wire[d]
        /\ \A x : In(x, wire[c]) <=> x = h \/ In(x, wire'[c])
        /\ table' = table \/ table' = table \o <<h>>
        /\ \A x : In(x, table') => In(x, table) \/ x = h
    BY <1>9, AddMoves
  <2>3. \A x : Away(x)' <=> Away(x)
    BY <2>1 DEF Away
  <2>4. \A x : \A d \in Connections : In(x, wire'[d]) => In(x, wire[d])
    BY <2>2
  <2>5. ~In(h, wire'[c])
    <3>1. \A y : In(y, Tail(wire[c])) /\ y.by = h.by => h.nr < y.nr
      BY <2>2, OrderedTail DEF LineInv, TypeOK
    <3>2. h.nr \in Nat
      <4>1. In(h, wire[c]) /\ wire[c] \in Logs
        BY <2>2 DEF TypeOK
      <4> QED
        BY <4>1, InType
    <3>3. ~(h.nr < h.nr)
      BY <3>2
    <3> QED
      BY <2>2, <3>1, <3>3
  <2>6. \A d \in Connections : ~In(h, wire'[d])
    BY <2>2, <2>4, <2>5 DEF OnceInv
  <2>7. ~Away(h) /\ ~In(h, table)
    BY <1>0, <2>2 DEF OnceInv
  <2>8. Distinct(table')
    <3>1. <<h>> \in Logs /\ table \in Logs
      BY <2>2, AppendOne DEF TypeOK
    <3> QED
      BY <2>2, <2>7, <3>1, DistinctConcat DEF OnceInv
  <2> HIDE DEF h
  <2>9. \A x : In(x, table') => ~Away(x) /\ \A d \in Connections : ~In(x, wire'[d])
    BY <2>2, <2>4, <2>6, <2>7 DEF OnceInv
  <2> QED
    BY <2>1, <2>3, <2>4, <2>8, <2>9 DEF OnceInv
<1>10. TakeLog /\ logs_ = <<>> => UNCHANGED <<conn, wire, out, hand, logs_, table>>
  BY DEF TakeLog
<1>11. (\E t \in Threads : Stamp(t)) \/ StartLog \/ TimerCB \/ Connected \/ UNCHANGED vars
       => UNCHANGED <<conn, wire, out, hand, logs_, table>>
  BY DEF Stamp, StartLog, TimerCB, Connected, vars
<1>12. UNCHANGED <<conn, wire, out, hand, logs_, table>> => OnceInv'
  BY DEF OnceInv, Away
<1> QED
  BY <1>2, <1>3, <1>4, <1>5, <1>6, <1>7, <1>8, <1>9, <1>10, <1>11, <1>12 DEF Next

LEMMA TableStep ==
  TypeOK /\ ConnInv /\ NewInv /\ LineInv /\ TableInv /\ [Next]_vars => TableInv'
<1> SUFFICES ASSUME TypeOK, ConnInv, NewInv, LineInv, TableInv, [Next]_vars, faults' = 0
             PROVE  /\ Ordered(table') /\ Before(table', wire'[conn'])
                    /\ Before(table', out') /\ Before(table', hand') /\ Before(table', logs_')
  BY DEF TableInv
<1> DEFINE Goal == /\ Ordered(table') /\ Before(table', wire'[conn'])
                   /\ Before(table', out') /\ Before(table', hand') /\ Before(table', logs_')
<1> USE DEF client, network
<1>0. faults = 0
  BY FaultsGrow, Types
<1>a. /\ Ordered(table) /\ Before(table, wire[conn])
      /\ Before(table, out) /\ Before(table, hand) /\ Before(table, logs_)
  BY <1>0 DEF TableInv
<1>1. ASSUME UNCHANGED <<table, conn, wire, out, hand, logs_>>
      PROVE  Goal
  BY <1>1, <1>a
<1>2. ASSUME NEW t \in Threads, Push(t)
      PROVE  Goal
  <2> DEFINE a == [by |-> t, nr |-> count[t]]
  <2>1. adding[t] = <<a>> /\ adding[t] # <<>>
    BY <1>2 DEF Push, NewInv
  <2>2. Before(table, <<a>>)
    BY <2>1, InOne DEF Before, NewInv, Somewhere
  <2>3. \A x : In(x, logs_') => In(x, logs_) \/ In(x, <<a>>)
    BY <1>2, <2>1, PushMoves, InOne
  <2> HIDE DEF a
  <2>4. UNCHANGED <<table, conn, wire, out, hand>>
    BY <1>2 DEF Push
  <2>5. Before(table, logs_')
    BY <1>a, <2>2, <2>3, OrBefore
  <2> QED
    BY <1>a, <2>4, <2>5
<1>3. ASSUME TakeLog, logs_ # <<>>
      PROVE  Goal
  <2>1. UNCHANGED <<conn, wire, table, out>>
    BY <1>3 DEF TakeLog
  <2>2. \A x : (In(x, hand') => In(x, logs_)) /\ (In(x, logs_') => In(x, logs_))
    BY <1>3, TakeMoves
  <2>3. Before(table, hand') /\ Before(table, logs_')
    BY <1>a, <2>2 DEF Before
  <2> QED
    BY <1>a, <2>1, <2>3
<1>4. ASSUME SendLog
      PROVE  Goal
  <2>1. UNCHANGED <<conn, wire, table, logs_>>
    BY <1>4 DEF SendLog
  <2>2. hand' = <<>> /\ \A x : In(x, out') => In(x, out) \/ In(x, hand)
    BY <1>4, SendMoves
  <2>3. Before(table, out')
    BY <1>a, <2>2, OrBefore
  <2> QED
    BY <1>a, <2>1, <2>2, <2>3, BeforeEmpty
<1>5. ASSUME Connect
      PROVE  Goal
  BY <1>0, <1>5, OneConnection DEF Connect
<1>6. ASSUME Flush
      PROVE  Goal
  <2>1. UNCHANGED <<conn, hand, logs_, table>>
    BY <1>6 DEF Flush
  <2>2. /\ \A x : In(x, wire'[conn]) => In(x, wire[conn]) \/ In(x, out)
        /\ \A x : In(x, out') => In(x, out)
    BY <1>6, FlushMoves
  <2>3. Before(table, wire'[conn]) /\ Before(table, out')
    BY <1>a, <2>2 DEF Before
  <2> QED
    BY <1>a, <2>1, <2>3
<1>7. ASSUME Close
      PROVE  Goal
  BY <1>0, <1>7 DEF Close
<1>8. ASSUME NEW c \in Connections, HandleEnds(c)
      PROVE  Goal
  BY <1>0, <1>8, OneConnection
<1>9. ASSUME NEW c \in Connections, AddLogReq(c)
      PROVE  Goal
  <2>1. UNCHANGED <<conn, out, hand, logs_>>
    BY <1>9 DEF AddLogReq
  <2> DEFINE h == Head(wire[c])
  <2>2. /\ wire[c] # <<>> /\ h \in Log /\ wire'[c] = Tail(wire[c])
        /\ \A x : In(x, wire[c]) <=> x = h \/ In(x, wire'[c])
        /\ table' = table \/ table' = table \o <<h>>
        /\ \A x : In(x, table') => In(x, table) \/ x = h
    BY <1>9, AddMoves
  <2>3. c = conn
    BY <1>0, <2>2, OneConnection
  <2>4. \A y : In(y, wire'[conn]) /\ y.by = h.by => h.nr < y.nr
    BY <2>2, <2>3, OrderedTail DEF LineInv, TypeOK
  <2>5. <<h>> \in Logs /\ table \in Logs
    BY <2>2, AppendOne DEF TypeOK
  <2> HIDE DEF h
  <2>6. Before(<<h>>, wire'[conn])
    BY <2>4, InOne DEF Before
  <2>7. \A x : (In(x, <<h>>) => In(x, wire[conn])) /\ (In(x, wire'[conn]) => In(x, wire[conn]))
    BY <2>2, <2>3, InOne
  <2>8. Before(table, <<h>>) /\ Before(table, wire'[conn])
    BY <1>a, <2>7 DEF Before
  <2>9. Before(<<h>>, out) /\ Before(<<h>>, hand) /\ Before(<<h>>, logs_)
    BY <2>7 DEF Before, LineInv
  <2>10. Ordered(table')
    BY <1>a, <2>2, <2>5, <2>8, OrderedConcat, OrderedShort, One
  <2>11. \A x : In(x, table') => In(x, table) \/ In(x, <<h>>)
    BY <2>2, InOne
  <2>12. /\ Before(table', wire'[conn]) /\ Before(table', out)
         /\ Before(table', hand) /\ Before(table', logs_)
    BY <1>a, <2>6, <2>8, <2>9, <2>11, BeforeOr
  <2> QED
    BY <2>1, <2>10, <2>12
<1>10. TakeLog /\ logs_ = <<>> => UNCHANGED <<table, conn, wire, out, hand, logs_>>
  BY DEF TakeLog
<1>11. (\E t \in Threads : Stamp(t)) \/ StartLog \/ TimerCB \/ Connected \/ UNCHANGED vars
       => UNCHANGED <<table, conn, wire, out, hand, logs_>>
  BY DEF Stamp, StartLog, TimerCB, Connected, vars
<1> QED
  BY <1>1, <1>2, <1>3, <1>4, <1>5, <1>6, <1>7, <1>8, <1>9, <1>10, <1>11 DEF Next
-----------------------------------------------------------------------------
LEMMA OrderInit == Init => NewInv /\ LineInv /\ OnceInv /\ TableInv
<1> SUFFICES ASSUME Init PROVE NewInv /\ LineInv /\ OnceInv /\ TableInv
  OBVIOUS
<1>1. /\ out = <<>> /\ hand = <<>> /\ logs_ = <<>> /\ table = <<>> /\ conn \in Connections
      /\ \A c \in Connections : wire[c] = <<>>
      /\ \A t \in Threads : adding[t] = <<>>
  BY Types DEF Init
<1>2. \A x : ~Somewhere(x) /\ ~Away(x)
  BY <1>1, InEmpty DEF Somewhere, Away
<1>3. Ordered(<<>>) /\ Distinct(<<>>)
  BY DEF Ordered, Distinct
<1>4. NewInv
  BY <1>1, <1>2 DEF NewInv
<1>5. LineInv
  BY <1>1, <1>3, BeforeEmpty DEF LineInv
<1>6. OnceInv
  BY <1>1, <1>3, InEmpty DEF OnceInv
<1>7. TableInv
  BY <1>1, <1>3, BeforeEmpty DEF TableInv
<1> QED
  BY <1>4, <1>5, <1>6, <1>7

\* The places, put one after the other, are in order.
LEMMA PendingOrdered ==
  ASSUME TypeOK, LineInv, NEW c \in Connections
  PROVE  Ordered(Pending(c)) /\ Pending(c) \in Logs
<1>1. wire[c] \in Logs /\ wire[conn] \in Logs /\ out \in Logs /\ hand \in Logs /\ logs_ \in Logs
      /\ <<>> \in Logs /\ Ordered(hand)
  BY LogsTypes, Types, OrderedShort DEF TypeOK
<1> DEFINE oh == out \o hand
           ohl == oh \o logs_
<1>2. oh \in Logs /\ Ordered(oh) /\ \A x : In(x, oh) => In(x, out) \/ In(x, hand)
  BY <1>1, LogsTypes, InConcat, OrderedConcat DEF LineInv
<1> HIDE DEF oh
<1>3. Before(oh, logs_) /\ Before(wire[conn], oh)
  BY <1>2, BeforeOr, OrBefore DEF LineInv
<1>4. ohl \in Logs /\ Ordered(ohl) /\ \A x : In(x, ohl) => In(x, oh) \/ In(x, logs_)
  BY <1>1, <1>2, <1>3, LogsTypes, InConcat, OrderedConcat DEF LineInv
<1>5. Pending(c) = wire[c] \o (IF c = conn THEN ohl ELSE <<>>)
  BY DEF Pending, oh
<1> HIDE DEF ohl
<1>6. CASE c = conn
  <2>1. Before(wire[conn], ohl)
    BY <1>3, <1>4, OrBefore DEF LineInv
  <2> QED
    BY <1>1, <1>4, <1>5, <1>6, <2>1, LogsTypes, OrderedConcat DEF LineInv
<1>7. CASE c # conn
  BY <1>1, <1>5, <1>7, LogsTypes, OrderedConcat, OrderedShort, One, BeforeEmpty DEF LineInv
<1> QED
  BY <1>6, <1>7

LEMMA InvariantsOrder ==
  TypeOK /\ NewInv /\ LineInv /\ OnceInv /\ TableInv => InOrder
<1> SUFFICES ASSUME TypeOK, NewInv, LineInv, OnceInv, TableInv PROVE InOrder
  OBVIOUS
<1>1. \A c \in Connections : Ordered(Pending(c)) /\ Pending(c) \in Logs
  BY PendingOrdered
<1>2. ASSUME NEW t \in Threads, NEW c \in Connections, adding[t] # <<>>
      PROVE  Ordered(Pending(c) \o adding[t])
  <2>1. adding[t] \in Logs /\ Ordered(adding[t])
    BY OrderedShort DEF TypeOK
  <2>2. \A x : In(x, Pending(c)) => Somewhere(x)
    BY InPending DEF Somewhere
  <2>3. adding[t] = <<[by |-> t, nr |-> count[t]]>>
    BY <1>2 DEF NewInv
  <2>4. Before(Pending(c), adding[t])
    BY <1>2, <2>2, <2>3, InOne DEF Before, NewInv
  <2> QED
    BY <1>1, <2>1, <2>4, OrderedConcat
<1>3. ASSUME faults = 0
      PROVE  Ordered(table \o Pending(conn))
  <2>1. conn \in Connections /\ table \in Logs /\ Ordered(table)
    BY <1>3 DEF TypeOK, TableInv
  <2>2. Before(table, Pending(conn))
    BY <1>3, <2>1, InPending DEF Before, TableInv
  <2> QED
    BY <1>1, <2>1, <2>2, OrderedConcat
<1>4. ASSUME NEW i \in DOMAIN table
      PROVE  /\ \A j \in DOMAIN table : table[i] = table[j] => i = j
             /\ \A c \in Connections : \A j \in DOMAIN Pending(c) : Pending(c)[j] # table[i]
  <2>1. In(table[i], table)
    BY <1>4 DEF In
  <2>2. \A c \in Connections : ~In(table[i], Pending(c))
    BY <2>1, InPending DEF OnceInv, Away
  <2> QED
    BY <1>4, <2>2 DEF In, OnceInv, Distinct
<1> QED
  BY <1>1, <1>2, <1>3, <1>4 DEF InOrder

\* Each thread's logs keep their order and none is inserted twice, with any
\* number of threads, logs, lost connections and failed inserts.
THEOREM InOrderHolds == Spec => []InOrder
<1> DEFINE Inv == TypeOK /\ ConnInv /\ NewInv /\ LineInv /\ OnceInv /\ TableInv
<1>1. Init => Inv
  BY TypeInit, OrderInit
<1>2. Inv /\ [Next]_vars => Inv'
  BY TypeStep, NewStep, LineStep, OnceStep, TableStep
<1>3. Inv => InOrder
  BY InvariantsOrder
<1> QED
  BY <1>1, <1>2, <1>3, PTL DEF Spec
=============================================================================
