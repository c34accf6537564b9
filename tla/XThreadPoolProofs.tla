-------------------------- MODULE XThreadPoolProofs --------------------------
(***************************************************************************)
(* The safety properties of XThreadPool, for every set of tasks, number of *)
(* threads and pipe size.                                                  *)
(***************************************************************************)
EXTENDS XThreadPool, SequenceTheorems, TLAPS

\* What the constants' assumption says of the indices of threads_.
LEMMA ThreadIndices ==
  /\ 0 \in Thread
  /\ ThreadCount \in Nat \ {0}
  /\ \A n \in 0 .. ThreadCount : n < ThreadCount => n \in Thread
  /\ \A t \in Thread : t \in -1 .. ThreadCount - 1
BY ConstantsAssumption DEF ConstantsAssumption, Thread

\* The index Dispatch computes is the next one, or 0 after the last.
LEMMA NextIndex ==
  \A l \in -1 .. ThreadCount - 1 :
    (l + 1) % ThreadCount = IF l = ThreadCount - 1 THEN 0 ELSE l + 1
<1> SUFFICES ASSUME NEW l \in -1 .. ThreadCount - 1
             PROVE  (l + 1) % ThreadCount = IF l = ThreadCount - 1 THEN 0 ELSE l + 1
  OBVIOUS
<1> DEFINE n == ThreadCount
           k == l + 1
<1>1. n \in Nat \ {0} /\ k \in 0 .. n
  BY ConstantsAssumption DEF ConstantsAssumption
<1> HIDE DEF n, k
<1>2. CASE k = n
  BY <1>1, <1>2 DEF n, k
<1>3. CASE k < n
  BY <1>1, <1>3 DEF n, k
<1> QED
  BY <1>1, <1>2, <1>3

\* Every variable keeps the type TypeOK gives it: in particular the index
\* Dispatch computes is always one of threads_.
THEOREM TypeCorrect == Spec => []TypeOK
<1>1. Init => TypeOK
  <2> SUFFICES ASSUME Init PROVE TypeOK
    OBVIOUS
  <2>1. /\ owner \in [pc : {"idle", "add", "activate"},
                      task : Tasks \cup {NoTask}, tid : Thread]
        /\ owner.pc = "idle"
    BY ThreadIndices DEF Init, Idle
  <2>2. main \in [Thread -> [pc : {"none", "loop", "pop", "init", "end"},
                             task : Tasks \cup {NoTask}]]
    BY DEF Init
  <2>3. \A t \in Thread : main[t].pc = "init" => main[t].task \in Tasks
    BY DEF Init
  <2>4. /\ tasks_ \in [Thread -> Seq(Tasks)]
        /\ assigned \in [Thread -> Seq(Tasks)]
        /\ inits \in [Thread -> Seq(Tasks)]
    BY DEF Init
  <2>5. threads_ \in 0 .. ThreadCount /\ last_thread_ \in -1 .. ThreadCount - 1
    BY ThreadIndices DEF Init
  <2> QED
    BY <2>1, <2>2, <2>3, <2>4, <2>5 DEF Init, TypeOK
<1>2. TypeOK /\ [Next]_vars => TypeOK'
  <2> SUFFICES ASSUME TypeOK, [Next]_vars
               PROVE  TypeOK'
    OBVIOUS
  <2>1. ASSUME NEW s \in SetupOutcomes, StartThread(s)
        PROVE  TypeOK'
    <3>1. s.base \in BOOLEAN /\ s.pipe \in BOOLEAN
      BY DEF SetupOutcomes
    <3>2. threads_ \in Thread /\ threads_' \in 0 .. ThreadCount
      <4>1. threads_ \in 0 .. ThreadCount
        BY DEF TypeOK
      <4>2. threads_ < ThreadCount /\ threads_' = threads_ + 1
        BY <2>1 DEF StartThread
      <4> QED
        BY <4>1, <4>2, ThreadIndices
    <3>3. base_' \in [Thread -> BOOLEAN] /\ notify_' \in [Thread -> BOOLEAN]
      BY <2>1, <3>1, <3>2 DEF StartThread, TypeOK
    <3>4. /\ main' \in [Thread -> [pc : {"none", "loop", "pop", "init", "end"},
                                   task : Tasks \cup {NoTask}]]
          /\ \A t \in Thread : main'[t].pc = "init" => main'[t].task \in Tasks
      <4>1. PICK p \in {"loop", "end"} : main' = [main EXCEPT ![threads_].pc = p]
        BY <2>1 DEF StartThread
      <4> QED
        BY <3>2, <4>1 DEF TypeOK
    <3>6. UNCHANGED <<owner, last_thread_, tasks_, pipe, taskBase, isExitAll,
                      threadExit, loopExit, assigned, inits>>
      BY <2>1 DEF StartThread, exitVars
    <3> QED
      BY <3>2, <3>3, <3>4, <3>6 DEF TypeOK
  <2>2. ASSUME NEW x \in Tasks, Dispatch(x)
        PROVE  TypeOK'
    <3>1. NextThread \in Thread
      <4>1. last_thread_ \in -1 .. ThreadCount - 1
        BY DEF TypeOK
      <4> QED
        BY <4>1, NextIndex, ConstantsAssumption
        DEF NextThread, Thread, ConstantsAssumption
    <3>2. /\ owner' \in [pc : {"idle", "add", "activate"},
                         task : Tasks \cup {NoTask}, tid : Thread]
          /\ owner'.task \in Tasks
      BY <2>2, <3>1 DEF Dispatch
    <3>3. last_thread_' \in -1 .. ThreadCount - 1
      BY <2>2, <3>1, ThreadIndices DEF Dispatch
    <3>4. assigned' \in [Thread -> Seq(Tasks)]
      BY <2>2, <3>1 DEF Dispatch, TypeOK
    <3>5. UNCHANGED <<threads_, base_, notify_, tasks_, pipe, main, taskBase,
                      isExitAll, threadExit, loopExit, inits>>
      BY <2>2 DEF Dispatch, exitVars, poolVars
    <3> QED
      BY <3>2, <3>3, <3>4, <3>5 DEF TypeOK
  <2>3. CASE AddTask
    <3>1. owner.tid \in Thread /\ owner.task \in Tasks
      BY <2>3 DEF AddTask, TypeOK
    <3>2. /\ owner' \in [pc : {"idle", "add", "activate"},
                         task : Tasks \cup {NoTask}, tid : Thread]
          /\ owner'.task \in Tasks
      BY <2>3, <3>1 DEF AddTask, TypeOK
    <3>3. tasks_' \in [Thread -> Seq(Tasks)]
      BY <2>3, <3>1 DEF AddTask, TypeOK
    <3>4. taskBase' \in [Tasks -> Thread \cup {-1}]
      BY <2>3, <3>1 DEF AddTask, TypeOK
    <3>5. UNCHANGED <<threads_, base_, notify_, last_thread_, pipe, main,
                      isExitAll, threadExit, loopExit, assigned, inits>>
      BY <2>3 DEF AddTask, exitVars, poolVars
    <3> QED
      BY <3>2, <3>3, <3>4, <3>5 DEF TypeOK
  <2>4. CASE Activate
    <3>1. /\ owner' \in [pc : {"idle", "add", "activate"},
                         task : Tasks \cup {NoTask}, tid : Thread]
          /\ owner'.pc = "idle"
      BY <2>4, ThreadIndices DEF Activate, Idle
    <3>2. pipe' \in [Thread -> Nat]
      BY <2>4 DEF Activate, TypeOK
    <3>3. UNCHANGED <<threads_, base_, notify_, last_thread_, tasks_, main,
                      taskBase, isExitAll, threadExit, loopExit, assigned, inits>>
      BY <2>4 DEF Activate, exitVars, poolVars
    <3> QED
      BY <3>1, <3>2, <3>3 DEF TypeOK
  <2>5. ASSUME NEW t \in Thread, Loop(t)
        PROVE  TypeOK'
    <3>1. PICK p \in {"end", "pop"} : main' = [main EXCEPT ![t].pc = p]
      BY <2>5 DEF Loop
    <3>2. /\ main' \in [Thread -> [pc : {"none", "loop", "pop", "init", "end"},
                                   task : Tasks \cup {NoTask}]]
          /\ \A r \in Thread : main'[r].pc = "init" => main'[r].task \in Tasks
      BY <3>1 DEF TypeOK
    <3>3. pipe' \in [Thread -> Nat]
      <4>1. pipe[t] \in Nat
        BY DEF TypeOK
      <4>2. \/ pipe' = pipe
            \/ pipe[t] > 0 /\ pipe' = [pipe EXCEPT ![t] = pipe[t] - 1]
        BY <2>5 DEF Loop
      <4>3. pipe[t] > 0 => pipe[t] - 1 \in Nat
        BY <4>1
      <4>4. pipe \in [Thread -> Nat]
        BY DEF TypeOK
      <4> QED
        BY <4>2, <4>3, <4>4
    <3>4. UNCHANGED <<owner, threads_, base_, notify_, last_thread_, tasks_,
                      taskBase, isExitAll, threadExit, loopExit, assigned, inits>>
      BY <2>5 DEF Loop, exitVars, poolVars
    <3> QED
      BY <3>2, <3>3, <3>4 DEF TypeOK
  <2>6. ASSUME NEW t \in Thread, PopTask(t)
        PROVE  TypeOK'
    <3>1. tasks_[t] \in Seq(Tasks)
      BY DEF TypeOK
    <3>2. tasks_[t] # <<>> => Head(tasks_[t]) \in Tasks /\ Tail(tasks_[t]) \in Seq(Tasks)
      BY <3>1, HeadTailProperties
    <3>3. main' \in [Thread -> [pc : {"none", "loop", "pop", "init", "end"},
                                task : Tasks \cup {NoTask}]]
      BY <2>6, <3>2 DEF PopTask, TypeOK
    <3>4. \A r \in Thread : main'[r].pc = "init" => main'[r].task \in Tasks
      BY <2>6, <3>2 DEF PopTask, TypeOK
    <3>5. tasks_' \in [Thread -> Seq(Tasks)]
      BY <2>6, <3>1, <3>2 DEF PopTask, TypeOK
    <3>6. UNCHANGED <<owner, threads_, base_, notify_, last_thread_, pipe,
                      taskBase, isExitAll, threadExit, loopExit, assigned, inits>>
      BY <2>6 DEF PopTask, exitVars, poolVars
    <3> QED
      BY <3>3, <3>4, <3>5, <3>6 DEF TypeOK
  <2>7. ASSUME NEW t \in Thread, InitTask(t)
        PROVE  TypeOK'
    <3>1. main' \in [Thread -> [pc : {"none", "loop", "pop", "init", "end"},
                                task : Tasks \cup {NoTask}]]
      BY <2>7 DEF InitTask, TypeOK
    <3>2. \A r \in Thread : main'[r].pc = "init" => main'[r].task \in Tasks
      BY <2>7 DEF InitTask, TypeOK
    <3>3. inits' \in [Thread -> Seq(Tasks)]
      BY <2>7 DEF InitTask, TypeOK
    <3>4. UNCHANGED <<owner, threads_, base_, notify_, last_thread_, tasks_, pipe,
                      taskBase, isExitAll, threadExit, loopExit, assigned>>
      BY <2>7 DEF InitTask, exitVars, poolVars
    <3> QED
      BY <3>1, <3>2, <3>3, <3>4 DEF TypeOK
  <2>8. CASE ExitAllThread
    BY <2>8 DEF ExitAllThread, poolVars, TypeOK
  <2>9. CASE UNCHANGED vars
    BY <2>9 DEF vars, TypeOK
  <2> QED
    BY <2>1, <2>2, <2>3, <2>4, <2>5, <2>6, <2>7, <2>8, <2>9 DEF Next
<1> QED
  BY <1>1, <1>2, PTL DEF Spec
-----------------------------------------------------------------------------
(* The inductive invariant.  WakeupPerTask is not inductive: it needs that a  *)
(* thread with an event_base has a pipe, so that Activate's byte reaches it,  *)
(* and that a thread StartThread is about to create has no task and no byte.  *)

Fresh(t) == /\ ~base_[t]
            /\ main[t].pc = "none"
            /\ pipe[t] = 0
            /\ tasks_[t] = <<>>

ThreadInv(t) ==
  /\ base_[t] => notify_[t]
  /\ threads_ <= t => Fresh(t)
  /\ base_[t] => Len(tasks_[t]) = Wakeups(t)

PoolInv ==
  /\ owner.pc # "idle" => threads_ = ThreadCount
  /\ \A t \in Thread : ThreadInv(t)

\* What the type invariant says of one thread and of the owner.
LEMMA ThreadTypes ==
  ASSUME TypeOK
  PROVE  /\ \A t \in Thread : /\ t \in Int /\ t < ThreadCount
                              /\ tasks_[t] \in Seq(Tasks)
                              /\ inits[t] \in Seq(Tasks)
                              /\ assigned[t] \in Seq(Tasks)
                              /\ Len(tasks_[t]) \in Nat
                              /\ pipe[t] \in Nat
                              /\ base_[t] \in BOOLEAN
                              /\ notify_[t] \in BOOLEAN
         /\ threads_ \in 0 .. ThreadCount
         /\ owner.tid \in Thread
         /\ ThreadCount \in Nat
<1>1. \A t \in Thread : /\ t \in Int /\ t < ThreadCount
  BY ConstantsAssumption DEF Thread, ConstantsAssumption
<1>2. \A t \in Thread : /\ tasks_[t] \in Seq(Tasks)
                        /\ inits[t] \in Seq(Tasks)
                        /\ assigned[t] \in Seq(Tasks)
                        /\ Len(tasks_[t]) \in Nat
  BY DEF TypeOK
<1>3. \A t \in Thread : /\ pipe[t] \in Nat
                        /\ base_[t] \in BOOLEAN
                        /\ notify_[t] \in BOOLEAN
  BY DEF TypeOK
<1>4. threads_ \in 0 .. ThreadCount /\ owner.tid \in Thread
  BY DEF TypeOK
<1> QED
  BY <1>1, <1>2, <1>3, <1>4, ThreadIndices

THEOREM PoolInvHolds == Spec => []PoolInv
<1>1. Init => PoolInv
  BY ConstantsAssumption
  DEF Init, PoolInv, ThreadInv, Fresh, Wakeups, Idle, Thread, ConstantsAssumption
<1>2. TypeOK /\ PoolInv /\ [Next]_vars => PoolInv'
  <2> SUFFICES ASSUME TypeOK, PoolInv, [Next]_vars
               PROVE  PoolInv'
    OBVIOUS
  <2>1. ASSUME NEW s \in SetupOutcomes, StartThread(s)
        PROVE  PoolInv'
    <3>1. /\ threads_ \in Thread
          /\ threads_' = threads_ + 1
          /\ owner.pc = "idle"
      BY <2>1, ThreadTypes, ThreadIndices DEF StartThread
    <3>2. UNCHANGED <<owner, tasks_, pipe>>
      BY <2>1 DEF StartThread
    <3>3. ASSUME NEW t \in Thread
          PROVE  ThreadInv(t)'
      <4>1. CASE t = threads_
        <5>1. Fresh(t)
          BY <4>1, ThreadTypes DEF PoolInv, ThreadInv
        <5>2. (base_[t])' => (notify_[t])'
          BY <2>1, <4>1 DEF StartThread, TypeOK, SetupOutcomes
        <5>3. (main[t].pc)' \in {"loop", "end"}
          BY <2>1, <4>1 DEF StartThread, TypeOK
        <5> QED
          BY <3>1, <3>2, <4>1, <5>1, <5>2, <5>3, ThreadTypes DEF ThreadInv, Fresh, Wakeups
      <4>2. CASE t # threads_
        <5>1. UNCHANGED <<base_[t], notify_[t], main[t]>>
          BY <2>1, <3>1, <4>2 DEF StartThread, TypeOK
        <5>2. threads_' <= t => threads_ <= t
          BY <3>1, ThreadTypes
        <5> QED
          BY <3>2, <5>1, <5>2 DEF PoolInv, ThreadInv, Fresh, Wakeups
      <4> QED
        BY <4>1, <4>2
    <3> QED
      BY <3>1, <3>2, <3>3 DEF PoolInv
  <2>2. ASSUME NEW x \in Tasks, Dispatch(x)
        PROVE  PoolInv'
    <3>1. /\ owner.pc = "idle" /\ owner'.pc = "add"
          /\ threads_ = ThreadCount
          /\ UNCHANGED <<threads_, base_, notify_, main, pipe, tasks_>>
      BY <2>2 DEF Dispatch, poolVars
    <3> QED
      BY <3>1 DEF PoolInv, ThreadInv, Fresh, Wakeups
  <2>3. CASE AddTask
    <3>1. /\ owner.pc = "add" /\ owner'.pc = "activate" /\ owner'.tid = owner.tid
          /\ UNCHANGED <<threads_, base_, notify_, main, pipe>>
          /\ tasks_' = [tasks_ EXCEPT ![owner.tid] = Append(tasks_[owner.tid], owner.task)]
      BY <2>3 DEF AddTask, poolVars, TypeOK
    <3>2. owner.task \in Tasks /\ threads_ = ThreadCount
      BY <3>1 DEF TypeOK, PoolInv
    <3>3. ASSUME NEW t \in Thread
          PROVE  ThreadInv(t)'
      <4>1. t < threads_
        BY <3>2, ThreadTypes
      <4>2. CASE t = owner.tid
        <5>1. Len(tasks_'[t]) = Len(tasks_[t]) + 1
          BY <3>1, <3>2, <4>2, ThreadTypes, AppendProperties DEF TypeOK
        <5> QED
          BY <3>1, <4>1, <4>2, <5>1, ThreadTypes DEF PoolInv, ThreadInv, Wakeups
      <4>3. CASE t # owner.tid
        <5>1. tasks_'[t] = tasks_[t]
          BY <3>1, <4>3 DEF TypeOK
        <5> QED
          BY <3>1, <4>1, <4>3, <5>1, ThreadTypes DEF PoolInv, ThreadInv, Wakeups
      <4> QED
        BY <4>2, <4>3
    <3> QED
      BY <3>1, <3>2, <3>3 DEF PoolInv
  <2>4. CASE Activate
    <3>1. /\ owner.pc = "activate" /\ owner'.pc = "idle"
          /\ threads_ = ThreadCount
          /\ UNCHANGED <<threads_, base_, notify_, main, tasks_>>
      BY <2>4 DEF Activate, poolVars, Idle, PoolInv
    <3>2. ASSUME NEW t \in Thread
          PROVE  ThreadInv(t)'
      <4>1. t < threads_
        BY <3>1, ThreadTypes
      <4>2. CASE t = owner.tid
        <5>1. notify_[t] => pipe'[t] = pipe[t] + 1
          BY <2>4, <4>2 DEF Activate, TypeOK
        <5> QED
          BY <3>1, <4>1, <4>2, <5>1, ThreadTypes DEF PoolInv, ThreadInv, Wakeups
      <4>3. CASE t # owner.tid
        <5>1. pipe'[t] = pipe[t]
          BY <2>4, <4>3 DEF Activate, TypeOK
        <5> QED
          BY <3>1, <4>1, <4>3, <5>1, ThreadTypes DEF PoolInv, ThreadInv, Wakeups
      <4> QED
        BY <4>2, <4>3
    <3> QED
      BY <3>1, <3>2 DEF PoolInv
  <2>5. ASSUME NEW r \in Thread, Loop(r)
        PROVE  PoolInv'
    <3>1. /\ main[r].pc = "loop"
          /\ UNCHANGED <<threads_, base_, notify_, tasks_, owner>>
      BY <2>5 DEF Loop, poolVars
    <3>2. \/ /\ main' = [main EXCEPT ![r].pc = "end"]
             /\ pipe' = pipe
          \/ /\ main' = [main EXCEPT ![r].pc = "pop"]
             /\ pipe' = [pipe EXCEPT ![r] = pipe[r] - 1]
      BY <2>5 DEF Loop
    <3>3. ASSUME NEW t \in Thread
          PROVE  ThreadInv(t)'
      <4>1. CASE t = r
        <5>1. \/ main'[t].pc = "end" /\ pipe'[t] = pipe[t]
              \/ main'[t].pc = "pop" /\ pipe'[t] = pipe[t] - 1
          BY <3>2, <4>1 DEF TypeOK
        <5> QED
          BY <3>1, <4>1, <5>1, ThreadTypes DEF PoolInv, ThreadInv, Fresh, Wakeups
      <4>2. CASE t # r
        <5>1. main'[t] = main[t] /\ pipe'[t] = pipe[t]
          BY <3>2, <4>2 DEF TypeOK
        <5> QED
          BY <3>1, <5>1 DEF PoolInv, ThreadInv, Fresh, Wakeups
      <4> QED
        BY <4>1, <4>2
    <3> QED
      BY <3>1, <3>3 DEF PoolInv
  <2>6. ASSUME NEW r \in Thread, PopTask(r)
        PROVE  PoolInv'
    <3>1. /\ main[r].pc = "pop"
          /\ UNCHANGED <<threads_, base_, notify_, pipe, owner>>
      BY <2>6 DEF PopTask, poolVars
    <3>2. ASSUME NEW t \in Thread
          PROVE  ThreadInv(t)'
      <4>1. CASE t = r
        <5>1. main'[t].pc \in {"loop", "init"}
          BY <2>6, <4>1 DEF PopTask, TypeOK
        <5>2. tasks_'[t] = IF tasks_[t] = <<>> THEN <<>> ELSE Tail(tasks_[t])
          BY <2>6, <4>1 DEF PopTask, TypeOK
        <5>3. base_[t] => tasks_[t] # <<>>
          BY <3>1, <4>1, ThreadTypes DEF PoolInv, ThreadInv, Wakeups
        <5>4. base_[t] => Len(tasks_'[t]) = Len(tasks_[t]) - 1
          BY <5>2, <5>3, ThreadTypes, HeadTailProperties
        <5> QED
          BY <3>1, <4>1, <5>1, <5>4, ThreadTypes DEF PoolInv, ThreadInv, Fresh, Wakeups
      <4>2. CASE t # r
        <5>1. main'[t] = main[t] /\ tasks_'[t] = tasks_[t]
          BY <2>6, <4>2 DEF PopTask, TypeOK
        <5> QED
          BY <3>1, <5>1 DEF PoolInv, ThreadInv, Fresh, Wakeups
      <4> QED
        BY <4>1, <4>2
    <3> QED
      BY <3>1, <3>2 DEF PoolInv
  <2>7. ASSUME NEW r \in Thread, InitTask(r)
        PROVE  PoolInv'
    <3>1. /\ main[r].pc = "init"
          /\ UNCHANGED <<threads_, base_, notify_, pipe, tasks_, owner>>
      BY <2>7 DEF InitTask, poolVars
    <3>2. ASSUME NEW t \in Thread
          PROVE  ThreadInv(t)'
      <4>1. CASE t = r
        <5>1. main'[t].pc = "loop"
          BY <2>7, <4>1 DEF InitTask, TypeOK
        <5> QED
          BY <3>1, <4>1, <5>1 DEF PoolInv, ThreadInv, Fresh, Wakeups
      <4>2. CASE t # r
        <5>1. main'[t] = main[t]
          BY <2>7, <4>2 DEF InitTask, TypeOK
        <5> QED
          BY <3>1, <5>1 DEF PoolInv, ThreadInv, Fresh, Wakeups
      <4> QED
        BY <4>1, <4>2
    <3> QED
      BY <3>1, <3>2 DEF PoolInv
  <2>8. CASE ExitAllThread
    BY <2>8 DEF ExitAllThread, poolVars, PoolInv, ThreadInv, Fresh, Wakeups
  <2>9. CASE UNCHANGED vars
    BY <2>9 DEF vars, PoolInv, ThreadInv, Fresh, Wakeups
  <2> QED
    BY <2>1, <2>2, <2>3, <2>4, <2>5, <2>6, <2>7, <2>8, <2>9 DEF Next
<1> QED
  BY <1>1, <1>2, TypeCorrect, PTL DEF Spec

\* No wake-up is lost and none is spare, between any two steps of Dispatch and
\* Notify: a running thread has exactly one wake-up on its way per queued task.
THEOREM WakeupsMatchTasks == Spec => []WakeupPerTask
<1>1. PoolInv => WakeupPerTask
  BY DEF PoolInv, ThreadInv, WakeupPerTask
<1> QED
  BY <1>1, PoolInvHolds, PTL

\* The early return of Notify on an empty list is never taken.
COROLLARY NotifyFindsTask == Spec => []PopFindsTask
<1>1. TypeOK /\ PoolInv => PopFindsTask
  BY ThreadTypes DEF PoolInv, ThreadInv, PopFindsTask, Wakeups
<1> QED
  BY <1>1, TypeCorrect, PoolInvHolds, PTL

\* One step of the round: a and b are what threads s and t have got, l is the
\* thread chosen last and n the next one.
LEMMA RoundStep ==
  ASSUME NEW c \in Nat, NEW l \in Int, -1 <= l, l <= c - 1,
         NEW n \in Int, n = IF l = c - 1 THEN 0 ELSE l + 1,
         NEW s \in Int, NEW t \in Int, 0 <= s, s <= t, t <= c - 1,
         NEW a \in Int, NEW b \in Int,
         a = IF s <= l /\ l < t THEN b + 1 ELSE b,
         NEW a2 \in Int, a2 = IF s = n THEN a + 1 ELSE a,
         NEW b2 \in Int, b2 = IF t = n THEN b + 1 ELSE b
  PROVE  a2 = IF s <= n /\ n < t THEN b2 + 1 ELSE b2
<1>1. CASE l = c - 1
  BY <1>1
<1>2. CASE l < c - 1
  BY <1>2
<1> QED
  BY <1>1, <1>2

\* A round of Dispatch over the threads: no index is skipped and none comes
\* twice, also where the round wraps.
THEOREM RoundRobinHolds == Spec => []RoundRobin
<1>1. Init => RoundRobin
  BY ThreadIndices DEF Init, RoundRobin, Thread
<1>2. TypeOK /\ RoundRobin /\ [Next]_vars => RoundRobin'
  <2> SUFFICES ASSUME TypeOK, RoundRobin, [Next]_vars
               PROVE  RoundRobin'
    OBVIOUS
  <2>1. ASSUME NEW x \in Tasks, Dispatch(x)
        PROVE  RoundRobin'
    <3> DEFINE n == NextThread
    <3>1. /\ last_thread_ \in -1 .. ThreadCount - 1
          /\ n = IF last_thread_ = ThreadCount - 1 THEN 0 ELSE last_thread_ + 1
      BY NextIndex DEF TypeOK, NextThread
    <3>2. last_thread_' = n /\ assigned' = [assigned EXCEPT ![n] = Append(@, x)]
      BY <2>1 DEF Dispatch
    <3> HIDE DEF n
    <3>3. ASSUME NEW t \in Thread
          PROVE  /\ Len(assigned[t]) \in Nat
                 /\ Len(assigned'[t]) = IF t = n THEN Len(assigned[t]) + 1
                                                 ELSE Len(assigned[t])
      <4>1. assigned[t] \in Seq(Tasks) /\ assigned \in [Thread -> Seq(Tasks)]
        BY DEF TypeOK
      <4>2. assigned'[t] = IF t = n THEN Append(assigned[t], x) ELSE assigned[t]
        BY <3>2, <4>1
      <4> QED
        BY <4>1, <4>2, AppendProperties, LenProperties
    <3>4. ASSUME NEW s \in Thread, NEW t \in Thread, s <= t
          PROVE  Len(assigned'[s]) =
                   IF s <= n /\ n < t THEN Len(assigned'[t]) + 1
                                      ELSE Len(assigned'[t])
      <4>1. Len(assigned[s]) =
              IF s <= last_thread_ /\ last_thread_ < t
              THEN Len(assigned[t]) + 1 ELSE Len(assigned[t])
        BY <3>4 DEF RoundRobin
      <4>2. /\ ThreadCount \in Nat
            /\ last_thread_ \in Int /\ -1 <= last_thread_
            /\ last_thread_ <= ThreadCount - 1
            /\ n \in Int
        BY <3>1, ThreadIndices
      <4>3. s \in Int /\ t \in Int /\ 0 <= s /\ t <= ThreadCount - 1
        BY <4>2 DEF Thread
      <4> DEFINE a == Len(assigned[s])
                 b == Len(assigned[t])
                 a2 == Len(assigned'[s])
                 b2 == Len(assigned'[t])
      <4>4. /\ a \in Int /\ b \in Int /\ a2 \in Int /\ b2 \in Int
            /\ a2 = IF s = n THEN a + 1 ELSE a
            /\ b2 = IF t = n THEN b + 1 ELSE b
        BY <3>3
      <4>5. a = IF s <= last_thread_ /\ last_thread_ < t THEN b + 1 ELSE b
        BY <4>1
      <4> HIDE DEF a, b, a2, b2
      <4>6. a2 = IF s <= n /\ n < t THEN b2 + 1 ELSE b2
        BY <3>1, <3>4, <4>2, <4>3, <4>4, <4>5, RoundStep
      <4> QED
        BY <4>6 DEF a2, b2
    <3> QED
      BY <3>2, <3>4 DEF RoundRobin
  <2>2. ASSUME UNCHANGED <<assigned, last_thread_>>
        PROVE  RoundRobin'
    BY <2>2 DEF RoundRobin
  <2> QED
    BY <2>1, <2>2 DEF Next, StartThread, AddTask, Activate, Loop, PopTask, InitTask,
                      ExitAllThread, vars
<1> QED
  BY <1>1, <1>2, TypeCorrect, PTL DEF Spec
-----------------------------------------------------------------------------
\* Moving a task from the end of one queue to the end of the next, from the
\* head of a queue into the hand, and out of the hand, leaves their concatenation
\* as it was.
LEMMA AppendAtEnd ==
  ASSUME NEW S, NEW a \in Seq(S), NEW b \in Seq(S), NEW c \in Seq(S), NEW e \in S
  PROVE  a \o (b \o (c \o <<e>>)) = Append(a \o (b \o (c \o <<>>)), e)
<1>1. <<e>> \in Seq(S) /\ c \o <<e>> \in Seq(S) /\ b \o c \in Seq(S)
  BY ConcatProperties
<1>2. b \o (c \o <<e>>) = (b \o c) \o <<e>>
  BY <1>1, ConcatAssociative
<1>3. a \o ((b \o c) \o <<e>>) = (a \o (b \o c)) \o <<e>>
  BY <1>1, ConcatAssociative
<1>4. a \o (b \o c) \in Seq(S) /\ c \o <<>> = c
  BY <1>1, ConcatProperties, ConcatEmptySeq
<1> QED
  BY <1>2, <1>3, <1>4, AppendIsConcat

LEMMA HeadInHand ==
  ASSUME NEW S, NEW s \in Seq(S), NEW r \in Seq(S), s # <<>>
  PROVE  <<Head(s)>> \o (Tail(s) \o r) = <<>> \o (s \o r)
<1>1. Head(s) \in S /\ Tail(s) \in Seq(S) /\ <<Head(s)>> \in Seq(S)
  BY HeadTailProperties
<1>2. <<Head(s)>> \o Tail(s) = s
  <2>1. /\ Len(Tail(s)) = Len(s) - 1
        /\ \A i \in 1 .. Len(Tail(s)) : Tail(s)[i] = s[i + 1]
    BY HeadTailProperties
  <2>2. Len(s) \in Nat \ {0} /\ Head(s) = s[1]
    BY EmptySeq
  <2>3. <<Head(s)>> \o Tail(s) \in Seq(S)
    BY <1>1, ConcatProperties
  <2>4. Len(<<Head(s)>> \o Tail(s)) = Len(s)
    BY <1>1, <2>1, <2>2, ConcatProperties
  <2>5. ASSUME NEW i \in 1 .. Len(s)
        PROVE  (<<Head(s)>> \o Tail(s))[i] = s[i]
    <3>1. (<<Head(s)>> \o Tail(s))[i] = IF i <= 1 THEN <<Head(s)>>[i]
                                                  ELSE Tail(s)[i - 1]
      BY <1>1, <2>1, <2>2, ConcatProperties
    <3> QED
      BY <2>1, <2>2, <3>1
  <2> QED
    BY <2>3, <2>4, <2>5, SeqEqual
<1>3. s \o r \in Seq(S) /\ <<>> \o (s \o r) = s \o r
  BY ConcatProperties, ConcatEmptySeq
<1> QED
  BY <1>1, <1>2, <1>3, ConcatAssociative

LEMMA OutOfHand ==
  ASSUME NEW S, NEW a \in Seq(S), NEW x \in S, NEW r \in Seq(S)
  PROVE  Append(a, x) \o (<<>> \o r) = a \o (<<x>> \o r)
<1>1. Append(a, x) = a \o <<x>>
  BY AppendIsConcat
<1>2. <<>> \o r = r
  BY ConcatEmptySeq
<1> DEFINE h == <<x>>
<1>3. h \in Seq(S)
  OBVIOUS
<1> HIDE DEF h
<1>4. (a \o h) \o r = a \o (h \o r)
  BY <1>3, ConcatAssociative
<1> QED
  BY <1>1, <1>2, <1>4 DEF h

\* The types of what FifoExactlyOnce concatenates.
LEMMA QueueTypes ==
  ASSUME TypeOK, NEW t \in Thread
  PROVE  /\ inits[t] \in Seq(Tasks) /\ InHand(t) \in Seq(Tasks)
         /\ tasks_[t] \in Seq(Tasks) /\ InTransit(t) \in Seq(Tasks)
         /\ assigned[t] \in Seq(Tasks)
<1>1. InHand(t) \in Seq(Tasks)
  BY DEF InHand, TypeOK
<1>2. InTransit(t) \in Seq(Tasks)
  BY DEF InTransit, TypeOK
<1> QED
  BY <1>1, <1>2, ThreadTypes

\* What one thread has initialised, holds, has queued and is being given is
\* always exactly what Dispatch assigned to it, in that order.
THEOREM FifoExactlyOnceHolds == Spec => []FifoExactlyOnce
<1> DEFINE Q(t) == inits[t] \o (InHand(t) \o (tasks_[t] \o InTransit(t)))
<1>1. Init => FifoExactlyOnce
  BY DEF Init, Idle, FifoExactlyOnce, InHand, InTransit
<1>2. TypeOK /\ TypeOK' /\ PoolInv /\ FifoExactlyOnce /\ [Next]_vars
        => FifoExactlyOnce'
  <2> SUFFICES ASSUME TypeOK, TypeOK', PoolInv, FifoExactlyOnce, [Next]_vars,
                      NEW t \in Thread
               PROVE  Q(t)' = assigned'[t]
    BY DEF FifoExactlyOnce
  <2> HIDE DEF Q
  <2>0. Q(t) = assigned[t]
    BY DEF FifoExactlyOnce, Q
  <2>1. ASSUME NEW s \in SetupOutcomes, StartThread(s)
        PROVE  Q(t)' = assigned'[t]
    <3>1. UNCHANGED <<inits, tasks_, owner, assigned>>
      BY <2>1 DEF StartThread
    <3>2. ASSUME t = threads_ PROVE UNCHANGED InHand(t)
      <4>1. main[t].pc = "none"
        BY <3>2, ThreadTypes DEF PoolInv, ThreadInv, Fresh
      <4>2. main'[t].pc \in {"loop", "end"}
        BY <2>1, <3>2 DEF StartThread, TypeOK
      <4> QED
        BY <4>1, <4>2 DEF InHand
    <3>3. ASSUME t # threads_ PROVE UNCHANGED InHand(t)
      <4>1. main'[t] = main[t]
        BY <2>1, <3>3 DEF StartThread, TypeOK
      <4> QED
        BY <4>1 DEF InHand
    <3>4. (InHand(t))' = InHand(t)
      BY <3>2, <3>3
    <3> QED
      BY <2>0, <3>1, <3>4 DEF Q, InTransit
  <2>2. ASSUME NEW x \in Tasks, Dispatch(x)
        PROVE  Q(t)' = assigned'[t]
    <3>1. /\ UNCHANGED <<inits, tasks_, main>>
          /\ owner.pc = "idle" /\ owner'.pc = "add"
          /\ owner'.task = x /\ owner'.tid = NextThread
      BY <2>2 DEF Dispatch
    <3>2. InTransit(t) = <<>> /\ UNCHANGED InHand(t)
      BY <3>1 DEF InTransit, InHand
    <3>3. CASE t = NextThread
      <4>1. (InTransit(t))' = <<x>>
        BY <3>1, <3>3 DEF InTransit
      <4>2. assigned'[t] = Append(assigned[t], x)
        BY <2>2, <3>3 DEF Dispatch, TypeOK
      <4>3. inits[t] \o (InHand(t) \o (tasks_[t] \o <<x>>))
              = Append(inits[t] \o (InHand(t) \o (tasks_[t] \o <<>>)), x)
        <5> DEFINE a == inits[t]
                   b == InHand(t)
                   c == tasks_[t]
        <5>1. a \in Seq(Tasks) /\ b \in Seq(Tasks) /\ c \in Seq(Tasks)
          BY QueueTypes
        <5>2. x \in Tasks
          BY <2>2
        <5> HIDE DEF a, b, c
        <5>3. a \o (b \o (c \o <<x>>)) = Append(a \o (b \o (c \o <<>>)), x)
          BY <5>1, <5>2, AppendAtEnd, SMTT(30)
        <5> QED
          BY <5>3 DEF a, b, c
      <4> QED
        BY <2>0, <3>1, <3>2, <4>1, <4>2, <4>3 DEF Q
    <3>4. CASE t # NextThread
      <4>1. (InTransit(t))' = <<>>
        BY <3>1, <3>4 DEF InTransit
      <4>2. assigned'[t] = assigned[t]
        BY <2>2, <3>4 DEF Dispatch, TypeOK
      <4> QED
        BY <2>0, <3>1, <3>2, <4>1, <4>2 DEF Q
    <3> QED
      BY <3>3, <3>4
  <2>3. CASE AddTask
    <3>1. /\ UNCHANGED <<inits, main, assigned>>
          /\ owner.pc = "add" /\ owner'.pc = "activate"
          /\ tasks_' = [tasks_ EXCEPT ![owner.tid] = Append(@, owner.task)]
      BY <2>3 DEF AddTask, TypeOK
    <3>2. (InTransit(t))' = <<>> /\ UNCHANGED InHand(t)
      BY <3>1 DEF InTransit, InHand
    <3>3. CASE t = owner.tid
      <4>1. InTransit(t) = <<owner.task>> /\ owner.task \in Tasks
        BY <3>1, <3>3 DEF InTransit, TypeOK
      <4>2. tasks_'[t] = Append(tasks_[t], owner.task)
        BY <3>1, <3>3 DEF TypeOK
      <4>3. tasks_'[t] \o <<>> = tasks_[t] \o <<owner.task>>
        BY <4>1, <4>2, ThreadTypes, AppendIsConcat, AppendProperties, ConcatEmptySeq
      <4> QED
        BY <2>0, <3>1, <3>2, <4>1, <4>3 DEF Q
    <3>4. CASE t # owner.tid
      <4>1. InTransit(t) = <<>> /\ tasks_'[t] = tasks_[t]
        BY <3>1, <3>4 DEF InTransit, TypeOK
      <4> QED
        BY <2>0, <3>1, <3>2, <4>1 DEF Q
    <3> QED
      BY <3>3, <3>4
  <2>4. CASE Activate
    <3>1. /\ UNCHANGED <<inits, main, assigned, tasks_>>
          /\ owner.pc = "activate" /\ owner'.pc = "idle"
      BY <2>4 DEF Activate, Idle
    <3> QED
      BY <2>0, <3>1 DEF Q, InHand, InTransit
  <2>5. ASSUME NEW r \in Thread, Loop(r)
        PROVE  Q(t)' = assigned'[t]
    <3>1. UNCHANGED <<inits, tasks_, owner, assigned>>
      BY <2>5 DEF Loop
    <3>2. \/ main' = [main EXCEPT ![r].pc = "end"]
          \/ main' = [main EXCEPT ![r].pc = "pop"]
      BY <2>5 DEF Loop
    <3>3. UNCHANGED InHand(t)
      <4>1. ASSUME t = r PROVE main[t].pc = "loop" /\ main'[t].pc \in {"end", "pop"}
        BY <2>5, <3>2, <4>1 DEF Loop, TypeOK
      <4>2. ASSUME t # r PROVE main'[t] = main[t]
        BY <3>2, <4>2 DEF TypeOK
      <4> QED
        BY <4>1, <4>2 DEF InHand
    <3> QED
      BY <2>0, <3>1, <3>3 DEF Q, InTransit
  <2>6. ASSUME NEW r \in Thread, PopTask(r)
        PROVE  Q(t)' = assigned'[t]
    <3>1. UNCHANGED <<inits, owner, assigned>>
      BY <2>6 DEF PopTask
    <3>2. UNCHANGED InTransit(t)
      BY <3>1 DEF InTransit
    <3>3. CASE t = r /\ tasks_[t] # <<>>
      <4>1. InHand(t) = <<>>
        BY <2>6, <3>3 DEF PopTask, InHand
      <4>2. main'[t] = [pc |-> "init", task |-> Head(tasks_[t])]
        BY <2>6, <3>3 DEF PopTask, TypeOK
      <4>3. (InHand(t))' = <<Head(tasks_[t])>>
        BY <4>2 DEF InHand
      <4>4. tasks_'[t] = Tail(tasks_[t])
        BY <2>6, <3>3 DEF PopTask, TypeOK
      <4>5. <<Head(tasks_[t])>> \o (Tail(tasks_[t]) \o InTransit(t))
              = <<>> \o (tasks_[t] \o InTransit(t))
        BY <3>3, QueueTypes, HeadInHand
      <4> QED
        BY <2>0, <3>1, <3>2, <4>1, <4>3, <4>4, <4>5 DEF Q
    <3>4. CASE t = r /\ tasks_[t] = <<>>
      <4>1. main[t].pc = "pop" /\ main'[t].pc = "loop" /\ tasks_'[t] = tasks_[t]
        BY <2>6, <3>4 DEF PopTask, TypeOK
      <4>2. UNCHANGED InHand(t)
        BY <4>1 DEF InHand
      <4> QED
        BY <2>0, <3>1, <3>2, <4>1, <4>2 DEF Q
    <3>5. CASE t # r
      <4>1. main'[t] = main[t] /\ tasks_'[t] = tasks_[t]
        BY <2>6, <3>5 DEF PopTask, TypeOK
      <4>2. UNCHANGED InHand(t)
        BY <4>1 DEF InHand
      <4> QED
        BY <2>0, <3>1, <3>2, <4>1, <4>2 DEF Q
    <3> QED
      BY <3>3, <3>4, <3>5
  <2>7. ASSUME NEW r \in Thread, InitTask(r)
        PROVE  Q(t)' = assigned'[t]
    <3>1. UNCHANGED <<tasks_, owner, assigned>>
      BY <2>7 DEF InitTask
    <3>2. UNCHANGED InTransit(t)
      BY <3>1 DEF InTransit
    <3>3. CASE t = r
      <4> DEFINE rest == tasks_[t] \o InTransit(t)
                 x == main[t].task
      <4>1. main[t].pc = "init" /\ main'[t].pc = "loop" /\ x \in Tasks
        BY <2>7, <3>3 DEF InitTask, TypeOK
      <4>2. InHand(t) = <<x>> /\ (InHand(t))' = <<>>
        BY <4>1 DEF InHand
      <4>3. inits'[t] = Append(inits[t], x)
        BY <2>7, <3>3 DEF InitTask, TypeOK
      <4>4. rest \in Seq(Tasks)
        BY QueueTypes, ConcatProperties
      <4> HIDE DEF x, rest
      <4>5. Append(inits[t], x) \o (<<>> \o rest) = inits[t] \o (<<x>> \o rest)
        <5> DEFINE a == inits[t]
        <5>1. a \in Seq(Tasks)
          BY QueueTypes
        <5> HIDE DEF a
        <5>2. Append(a, x) \o (<<>> \o rest) = a \o (<<x>> \o rest)
          BY <4>1, <4>4, <5>1, OutOfHand
        <5> QED
          BY <5>2 DEF a
      <4> QED
        BY <2>0, <3>1, <3>2, <4>2, <4>3, <4>5 DEF Q, rest
    <3>4. CASE t # r
      <4>1. main'[t] = main[t] /\ inits'[t] = inits[t]
        BY <2>7, <3>4 DEF InitTask, TypeOK
      <4>2. UNCHANGED InHand(t)
        BY <4>1 DEF InHand
      <4> QED
        BY <2>0, <3>1, <3>2, <4>1, <4>2 DEF Q
    <3> QED
      BY <3>3, <3>4
  <2>8. CASE ExitAllThread
    BY <2>0, <2>8 DEF ExitAllThread, Q, InHand, InTransit
  <2>9. CASE UNCHANGED vars
    BY <2>0, <2>9 DEF vars, Q, InHand, InTransit
  <2> QED
    BY <2>1, <2>2, <2>3, <2>4, <2>5, <2>6, <2>7, <2>8, <2>9 DEF Next
<1> QED
  BY <1>1, <1>2, TypeCorrect, PoolInvHolds, PTL DEF Spec
=============================================================================
