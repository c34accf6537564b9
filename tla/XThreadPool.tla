----------------------------- MODULE XThreadPool -----------------------------
(***************************************************************************)
(* One CXThreadPool with its CXThreads (src/xplatform/xthread_pool.cpp and *)
(* xthread.cpp).  A single owner thread creates the pool and then calls    *)
(* Dispatch (the listening thread of an XService, or the thread that calls *)
(* XServiceClient::StartConnect).  Every pool thread has a task list under *)
(* a mutex and a pipe; Dispatch appends a task to the list and then writes *)
(* one byte to the pipe, and each byte wakes the thread once, which pops   *)
(* one task and calls its Init().  Nothing else connects the two: a byte   *)
(* too few and a task sleeps for ever.                                     *)
(***************************************************************************)
EXTENDS Integers, Sequences, FiniteSets

CONSTANTS
  Tasks,        \* the XTask objects given to Dispatch, each of them once
  ThreadCount,  \* the argument of XThreadPool::Init
  PipeSize,     \* the bytes a pipe holds before write() blocks (65536 on Linux)
  NoTask        \* the null XTask pointer

ASSUME ConstantsAssumption ==
  /\ ThreadCount \in Nat \ {0}
  /\ PipeSize \in Nat \ {0}
  /\ NoTask \notin Tasks

Thread == 0 .. ThreadCount - 1      \* the indices of threads_

VARIABLES
  owner,        \* where the owner thread is: [pc, task, tid]
  threads_,     \* the number of threads created so far: the length of threads_
  last_thread_, \* the thread Dispatch chose last, -1 before the first
  base_,        \* base_[t]: Setup created the event_base of t
  notify_,      \* notify_[t]: Setup created the pipe of t (notify_send_fd_)
  tasks_,       \* tasks_[t]: the task list of t
  pipe,         \* pipe[t]: the bytes written to the pipe of t and not yet read
  main,         \* where thread t is: [pc, task]
  taskBase,     \* taskBase[x]: the thread whose event_base set_base gave to x
  isExitAll,    \* the static is_exit_all
  threadExit,   \* threadExit[t]: XThread::is_exit_, the member Exit() assigns
  loopExit,     \* loopExit[t]: CXThread::is_exit_, the member Main() tests
  assigned,     \* history: assigned[t], the tasks Dispatch chose t for
  inits         \* history: inits[t], the tasks whose Init() t has called

vars == <<owner, threads_, last_thread_, base_, notify_, tasks_, pipe, main,
          taskBase, isExitAll, threadExit, loopExit, assigned, inits>>
exitVars == <<isExitAll, threadExit, loopExit>>
poolVars == <<threads_, base_, notify_>>

Idle == [pc |-> "idle", task |-> NoTask, tid |-> 0]

Init ==
  /\ owner = Idle
  /\ threads_ = 0
  /\ last_thread_ = -1
  /\ base_ = [t \in Thread |-> FALSE]
  /\ notify_ = [t \in Thread |-> FALSE]
  /\ tasks_ = [t \in Thread |-> <<>>]
  /\ pipe = [t \in Thread |-> 0]
  /\ main = [t \in Thread |-> [pc |-> "none", task |-> NoTask]]
  /\ taskBase = [x \in Tasks |-> -1]
  /\ isExitAll = FALSE
  /\ threadExit = [t \in Thread |-> FALSE]
  /\ loopExit = [t \in Thread |-> FALSE]
  /\ assigned = [t \in Thread |-> <<>>]
  /\ inits = [t \in Thread |-> <<>>]
-----------------------------------------------------------------------------
(* Creating the pool: one round of the loop in CXThreadPool::Init.          *)

\* XThread::Start ignores what Setup returns.  pipe() can fail, and creating
\* the event_base can fail after it; in both cases Main returns at once and
\* the thread still joins threads_.
SetupOutcomes ==
  {s \in [base : BOOLEAN, pipe : BOOLEAN] : s.base => s.pipe}

StartThread(s) ==
  LET t == threads_ IN
  /\ owner.pc = "idle"
  /\ t < ThreadCount
  /\ base_' = [base_ EXCEPT ![t] = s.base]
  /\ notify_' = [notify_ EXCEPT ![t] = s.pipe]
  /\ main' = [main EXCEPT ![t].pc = IF s.base THEN "loop" ELSE "end"]
  /\ threads_' = threads_ + 1
  /\ UNCHANGED <<owner, last_thread_, tasks_, pipe, taskBase, exitVars,
                 assigned, inits>>
-----------------------------------------------------------------------------
(* CXThreadPool::Dispatch, by the owner thread, in its three steps.         *)

\* Mutants: the index is not wrapped; the round starts at the second thread.
NextThreadNoWrap == last_thread_ + 1
NextThreadSkip == (last_thread_ + 2) % ThreadCount
NextThread == (last_thread_ + 1) % ThreadCount

Handed(t) == {assigned[t][i] : i \in 1 .. Len(assigned[t])}

Dispatch(x) ==
  /\ owner.pc = "idle"
  /\ threads_ = ThreadCount
  /\ \A t \in Thread : x \notin Handed(t)
  /\ last_thread_' = NextThread
  /\ owner' = [pc |-> "add", task |-> x, tid |-> NextThread]
  /\ assigned' = [assigned EXCEPT ![NextThread] = Append(@, x)]
  /\ UNCHANGED <<poolVars, tasks_, pipe, main, taskBase, exitVars, inits>>

\* Mutant: the byte is saved when the list already holds a task.
AddTaskSkipWake ==
  LET t == owner.tid IN
  /\ owner.pc = "add"
  /\ taskBase' = [taskBase EXCEPT ![owner.task] = t]
  /\ tasks_' = [tasks_ EXCEPT ![t] = Append(@, owner.task)]
  /\ owner' = IF tasks_[t] = <<>> THEN [owner EXCEPT !.pc = "activate"] ELSE Idle
  /\ UNCHANGED <<poolVars, last_thread_, pipe, main, exitVars, assigned, inits>>

\* CXThread::AddTask
AddTask ==
  LET t == owner.tid IN
  /\ owner.pc = "add"
  /\ taskBase' = [taskBase EXCEPT ![owner.task] = t]
  /\ tasks_' = [tasks_ EXCEPT ![t] = Append(@, owner.task)]
  /\ owner' = [owner EXCEPT !.pc = "activate"]
  /\ UNCHANGED <<poolVars, last_thread_, pipe, main, exitVars, assigned, inits>>

\* CXThread::Activate.  Without a pipe notify_send_fd_ is still 0 and the
\* byte goes to standard input's descriptor.
Activate ==
  LET t == owner.tid IN
  /\ owner.pc = "activate"
  /\ notify_[t] => pipe[t] < PipeSize       \* write() blocks on a full pipe
  /\ pipe' = IF notify_[t] THEN [pipe EXCEPT ![t] = @ + 1] ELSE pipe
  /\ owner' = Idle
  /\ UNCHANGED <<poolVars, last_thread_, tasks_, main, taskBase, exitVars,
                 assigned, inits>>
-----------------------------------------------------------------------------
(* CXThread::Main and CXThread::Notify, on pool thread t.                   *)

\* Mutant: the byte is looked at and left in the pipe.
LoopPeek(t) ==
  /\ main[t].pc = "loop"
  /\ loopExit[t] \/ pipe[t] > 0
  /\ main' = [main EXCEPT ![t].pc = IF loopExit[t] THEN "end" ELSE "pop"]
  /\ UNCHANGED <<owner, poolVars, last_thread_, tasks_, pipe, taskBase, exitVars,
                 assigned, inits>>

\* One turn of the loop in Main: the exit test, then one byte of the pipe.
Loop(t) ==
  /\ main[t].pc = "loop"
  /\ loopExit[t] \/ pipe[t] > 0
  /\ IF loopExit[t]
     THEN /\ main' = [main EXCEPT ![t].pc = "end"]
          /\ UNCHANGED pipe
     ELSE /\ main' = [main EXCEPT ![t].pc = "pop"]
          /\ pipe' = [pipe EXCEPT ![t] = @ - 1]
  /\ UNCHANGED <<owner, poolVars, last_thread_, tasks_, taskBase, exitVars,
                 assigned, inits>>

\* Mutant: the task stays at the head of the list after front().
PopTaskKeep(t) ==
  /\ main[t].pc = "pop"
  /\ main' = [main EXCEPT ![t] = IF tasks_[t] = <<>>
                                 THEN [pc |-> "loop", task |-> NoTask]
                                 ELSE [pc |-> "init", task |-> Head(tasks_[t])]]
  /\ UNCHANGED <<owner, poolVars, last_thread_, tasks_, pipe, taskBase, exitVars,
                 assigned, inits>>

\* Mutant: the list used as a stack.
PopTaskBack(t) ==
  /\ main[t].pc = "pop"
  /\ LET n == Len(tasks_[t]) IN
       /\ main' = [main EXCEPT ![t] = IF n = 0
                                      THEN [pc |-> "loop", task |-> NoTask]
                                      ELSE [pc |-> "init", task |-> tasks_[t][n]]]
       /\ tasks_' = [tasks_ EXCEPT ![t] = SubSeq(@, 1, n - 1)]
  /\ UNCHANGED <<owner, poolVars, last_thread_, pipe, taskBase, exitVars,
                 assigned, inits>>

\* front and pop_front under tasks_mutex_, or the early return on an empty list
PopTask(t) ==
  /\ main[t].pc = "pop"
  /\ main' = [main EXCEPT ![t] = IF tasks_[t] = <<>>
                                 THEN [pc |-> "loop", task |-> NoTask]
                                 ELSE [pc |-> "init", task |-> Head(tasks_[t])]]
  /\ tasks_' = [tasks_ EXCEPT ![t] = IF @ = <<>> THEN @ ELSE Tail(@)]
  /\ UNCHANGED <<owner, poolVars, last_thread_, pipe, taskBase, exitVars,
                 assigned, inits>>

\* task->Init(), after the mutex was released
InitTask(t) ==
  /\ main[t].pc = "init"
  /\ inits' = [inits EXCEPT ![t] = Append(@, main[t].task)]
  /\ main' = [main EXCEPT ![t] = [pc |-> "loop", task |-> NoTask]]
  /\ UNCHANGED <<owner, poolVars, last_thread_, tasks_, pipe, taskBase, exitVars,
                 assigned>>
-----------------------------------------------------------------------------
\* XThreadPool::ExitAllThread, by any thread once the pool exists.  Exit()
\* assigns the is_exit_ of XThread; CXThread declares an is_exit_ of its own,
\* which nothing assigns and which Main tests.
ExitAllThread ==
  /\ threads_ = ThreadCount
  /\ ~isExitAll
  /\ isExitAll' = TRUE
  /\ threadExit' = [t \in Thread |-> TRUE]
  /\ UNCHANGED <<owner, poolVars, last_thread_, tasks_, pipe, main, taskBase,
                 loopExit, assigned, inits>>

Next ==
  \/ \E s \in SetupOutcomes : StartThread(s)
  \/ \E x \in Tasks : Dispatch(x)
  \/ AddTask
  \/ Activate
  \/ \E t \in Thread : Loop(t) \/ PopTask(t) \/ InitTask(t)
  \/ ExitAllThread

\* A Dispatch that began runs on, and the pool threads are scheduled.  Nobody
\* has to call Dispatch or ExitAllThread.
Fairness ==
  /\ WF_vars(AddTask)
  /\ WF_vars(Activate)
  /\ \A t \in Thread : WF_vars(Loop(t) \/ PopTask(t) \/ InitTask(t))

Spec == Init /\ [][Next]_vars
FairSpec == Spec /\ Fairness
-----------------------------------------------------------------------------
TypeOK ==
  /\ owner \in [pc : {"idle", "add", "activate"}, task : Tasks \cup {NoTask},
                tid : Thread]
  /\ owner.pc # "idle" => owner.task \in Tasks
  /\ threads_ \in 0 .. ThreadCount
  /\ last_thread_ \in -1 .. ThreadCount - 1
  /\ base_ \in [Thread -> BOOLEAN]
  /\ notify_ \in [Thread -> BOOLEAN]
  /\ tasks_ \in [Thread -> Seq(Tasks)]
  /\ pipe \in [Thread -> Nat]
  /\ main \in [Thread -> [pc : {"none", "loop", "pop", "init", "end"},
                          task : Tasks \cup {NoTask}]]
  /\ \A t \in Thread : main[t].pc = "init" => main[t].task \in Tasks
  /\ taskBase \in [Tasks -> Thread \cup {-1}]
  /\ isExitAll \in BOOLEAN
  /\ threadExit \in [Thread -> BOOLEAN]
  /\ loopExit \in [Thread -> BOOLEAN]
  /\ assigned \in [Thread -> Seq(Tasks)]
  /\ inits \in [Thread -> Seq(Tasks)]

\* The wake-ups on their way to thread t: bytes in its pipe, the byte it has
\* read and not yet acted on, the byte Dispatch is about to write.
Wakeups(t) ==
  pipe[t] + (IF main[t].pc = "pop" THEN 1 ELSE 0)
          + (IF owner.pc = "activate" /\ owner.tid = t THEN 1 ELSE 0)

\* No wake-up is lost and none is spare: for a thread that runs, the tasks
\* in its list and the wake-ups on their way to it are equally many, between
\* any two steps of Dispatch and Notify.
WakeupPerTask ==
  \A t \in Thread : base_[t] => Len(tasks_[t]) = Wakeups(t)

\* Notify never takes its early return on an empty list: the byte it read
\* always had a task behind it.
PopFindsTask ==
  \A t \in Thread : base_[t] /\ main[t].pc = "pop" => tasks_[t] # <<>>

InTransit(t) ==
  IF owner.pc = "add" /\ owner.tid = t THEN <<owner.task>> ELSE <<>>
InHand(t) == IF main[t].pc = "init" THEN <<main[t].task>> ELSE <<>>

\* Each thread handles the tasks Dispatch chose it for first in, first out and
\* exactly once: those it has initialised, the one in its hand, those queued
\* and the one being added are, in this order, all it was ever assigned.
FifoExactlyOnce ==
  \A t \in Thread :
    inits[t] \o (InHand(t) \o (tasks_[t] \o InTransit(t))) = assigned[t]

\* Dispatch is fair round robin: the threads up to last_thread_ have got one
\* task more than those after it, so no two threads differ by more than one.
RoundRobin ==
  \A s, t \in Thread : s <= t =>
    Len(assigned[s]) =
      IF s <= last_thread_ /\ last_thread_ < t THEN Len(assigned[t]) + 1
                                               ELSE Len(assigned[t])

\* Every task dispatched to a thread whose Setup succeeded is initialised.
DispatchedIsInitialised ==
  \A x \in Tasks, t \in Thread :
    (x \in Handed(t) /\ base_[t]) ~> (\E i \in 1 .. Len(inits[t]) : inits[t][i] = x)

\* A Dispatch to a thread whose Setup succeeded returns, though its write to
\* the pipe can block: the thread always drains the pipe in the end.
DispatchReturns ==
  \A t \in Thread :
    (owner.pc # "idle" /\ owner.tid = t /\ base_[t]) ~> (owner.pc = "idle")
=============================================================================
