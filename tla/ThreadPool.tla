----------------------------- MODULE ThreadPool -----------------------------
(***************************************************************************)
(* cc::ThreadPool (cocos/base/ThreadPool.cpp): worker threads that take    *)
(* tasks from one queue and sleep on a condition variable when it is       *)
(* empty.  The cocos thread pushes and stops tasks; a cached pool grows    *)
(* when no thread is idle and shrinks when too many are.                   *)
(*                                                                         *)
(* The queue has a mutex of its own, so that each push and pop is one      *)
(* step.  _mutex guards the condition variable and nothing else: the idle  *)
(* count, the idle flags, the abort flags and _isDone are read and written *)
(* without it.                                                             *)
(***************************************************************************)
EXTENDS Integers, Sequences, FiniteSets, SequencesExt, FiniteSetsExt

CONSTANTS
  MinThreads,  (* _minThreadNum                                     *)
  MaxThreads,  (* _maxThreadNum                                     *)
  ShrinkStep,  (* _shrinkStep                                       *)
  StretchStep, (* _stretchStep                                      *)
  FixedSize,   (* _isFixedSize                                      *)
  Types,       (* the types of tasks                                *)
  MaxTasks,    (* bound: tasks pushed in a behaviour                *)
  MaxCalls     (* bound: calls that are not of pushTask or stop()   *)

Tids == 1..MaxThreads
NoTask == 0    (* tasks are numbered from 1 as they are pushed  *)
NoOwner == 0

VARIABLES
  taskQueue,      (* _taskQueue                                              *)
  typeOf,         (* the type of each task pushed                            *)
  isDone,         (* _isDone                                                 *)
  idleThreadNum,  (* _idleThreadNum                                          *)
  idleFlags,      (* _idleFlags                                              *)
  abortFlags,     (* _abortFlags                                             *)
  initedFlags,    (* _initedFlags                                            *)
  mutex,          (* the owner of _mutex                                     *)
  worker,         (* where each thread is in its function; "exited" when over *)
  notified,       (* the sleeping threads a notification has woken           *)
  task,           (* the task each thread holds                              *)
  op,             (* where the cocos thread is in a call of the pool         *)
  toJoin,         (* threadIDsToJoin, or the threads stop() has not joined   *)
  scan,           (* how many idle flags tryShrinkPool has looked at         *)
  pushes,         (* tryShrinkPool was called by pushTask                    *)
  stopping,       (* the types of tasks that are being stopped               *)
  kept,           (* notStopTasks                                            *)
  calls,          (* how many calls were made that MaxCalls bounds           *)
  done,           (* history: the tasks that ran                             *)
  dropped,        (* history: the tasks removed without running              *)
  silent          (* history: tasks were put back without a notification, and *)
                  (* the queue has not been empty since                       *)

poolVars ==
  <<taskQueue, typeOf, isDone, idleThreadNum, idleFlags, abortFlags, initedFlags,
    mutex, worker, notified, task, op, toJoin, scan, pushes, stopping, kept, calls,
    done, dropped, silent>>

mainVars    == <<op, toJoin, scan, pushes, stopping, kept, calls>>
historyVars == <<done, dropped, silent>>
flagVars    == <<isDone, abortFlags, initedFlags>>

initedThreadNum == Cardinality({t \in Tids : initedFlags[t]})

\* The constructor and init(): the first MinThreads threads are started.
Init ==
  /\ taskQueue = << >>
  /\ typeOf = << >>
  /\ isDone = FALSE
  /\ idleThreadNum = 0
  /\ idleFlags = [t \in Tids |-> FALSE]
  /\ abortFlags = [t \in Tids |-> t > MinThreads]
  /\ initedFlags = [t \in Tids |-> t <= MinThreads]
  /\ mutex = NoOwner
  /\ worker = [t \in Tids |-> IF t <= MinThreads THEN "pop" ELSE "exited"]
  /\ notified = {}
  /\ task = [t \in Tids |-> NoTask]
  /\ op = "none"
  /\ toJoin = {}
  /\ scan = 0
  /\ pushes = FALSE
  /\ stopping = {}
  /\ kept = << >>
  /\ calls = 0
  /\ done = {}
  /\ dropped = {}
  /\ silent = FALSE

Lock(t) == mutex = NoOwner /\ mutex' = t
Unlock  == mutex' = NoOwner

Goto(t, pc) == worker' = [worker EXCEPT ![t] = pc]

\* Mutant: pop() forgets to take the task out of the queue.
AllAgain(q) == q

\* What a pop leaves in the queue.
Rest(q) == Tail(q)

\* pop(): one step under the queue's own mutex.
Pop(t) ==
  IF taskQueue = << >>
  THEN UNCHANGED <<taskQueue, task, silent>>
  ELSE /\ taskQueue' = Rest(taskQueue)
       /\ task' = [task EXCEPT ![t] = Head(taskQueue)]
       /\ silent' = (silent /\ Len(taskQueue) > 1)

-----------------------------------------------------------------------------
(***************************************************************************)
(* The function of a thread (setThread).                                   *)
(***************************************************************************)
PopFirst(t) ==
  /\ worker[t] = "pop"
  /\ Pop(t)
  /\ Goto(t, IF taskQueue = << >> THEN "lock" ELSE "run")
  /\ UNCHANGED <<typeOf, idleThreadNum, idleFlags, mutex, notified, flagVars, mainVars, done, dropped>>

\* Mutant: a thread leaves after its task when the pool is to stop.
AfterTaskUnlessDone(t) == IF abortFlags[t] \/ isDone THEN "exited" ELSE "pop"

\* What a thread does when its task is over.
AfterTask(t) == IF abortFlags[t] THEN "exited" ELSE "pop"

\* (*task.callback)(tid), the test of the abort flag and the next pop.
RunTask(t) ==
  /\ worker[t] = "run"
  /\ done' = done \cup {task[t]}
  /\ task' = [task EXCEPT ![t] = NoTask]
  /\ Goto(t, AfterTask(t))
  /\ UNCHANGED <<taskQueue, typeOf, idleThreadNum, idleFlags, mutex, notified, flagVars, mainVars, dropped, silent>>

LockToWait(t) ==
  /\ worker[t] = "lock"
  /\ Lock(t)
  /\ idleThreadNum' = idleThreadNum + 1
  /\ Goto(t, "flag")
  /\ UNCHANGED <<taskQueue, typeOf, idleFlags, notified, task, flagVars, mainVars, historyVars>>

SetIdleFlag(t) ==
  /\ worker[t] = "flag"
  /\ idleFlags' = [idleFlags EXCEPT ![t] = TRUE]
  /\ Goto(t, "test")
  /\ UNCHANGED <<taskQueue, typeOf, idleThreadNum, mutex, notified, task, flagVars, mainVars, historyVars>>

\* The predicate of the wait: first the pop ...
TestPop(t) ==
  /\ worker[t] = "test"
  /\ Pop(t)
  /\ Goto(t, IF taskQueue = << >> THEN "testFlags" ELSE "leave")
  /\ UNCHANGED <<typeOf, idleThreadNum, idleFlags, mutex, notified, flagVars, mainVars, done, dropped>>

\* Mutant: the predicate forgets the abort flag.
WakesForDone(t) == isDone

\* ... then _isDone || abort.
WakesForFlags(t) == isDone \/ abortFlags[t]

\* A thread that has nothing to do falls asleep as it releases the mutex.
TestFlags(t) ==
  /\ worker[t] = "testFlags"
  /\ IF WakesForFlags(t)
     THEN Goto(t, "leave") /\ UNCHANGED mutex
     ELSE Goto(t, "asleep") /\ Unlock
  /\ UNCHANGED <<taskQueue, typeOf, idleThreadNum, idleFlags, notified, task, flagVars, mainVars, historyVars>>

\* A notified thread gets the mutex again and tests the predicate.
Wake(t) ==
  /\ worker[t] = "asleep" /\ t \in notified
  /\ Lock(t)
  /\ notified' = notified \ {t}
  /\ Goto(t, "test")
  /\ UNCHANGED <<taskQueue, typeOf, idleThreadNum, idleFlags, task, flagVars, mainVars, historyVars>>

\* The wait is over, still under the mutex: first the flag, then the count.
ClearIdleFlag(t) ==
  /\ worker[t] = "leave"
  /\ idleFlags' = [idleFlags EXCEPT ![t] = FALSE]
  /\ Goto(t, "count")
  /\ UNCHANGED <<taskQueue, typeOf, idleThreadNum, mutex, notified, task, flagVars, mainVars, historyVars>>

\* Mutant: a thread that leaves with a task still counts as idle.
LessIdleIfOver(t) == IF task[t] = NoTask THEN idleThreadNum - 1 ELSE idleThreadNum

\* The number of idle threads without this one.
LessIdle(t) == idleThreadNum - 1

LeaveWait(t) ==
  /\ worker[t] = "count"
  /\ idleThreadNum' = LessIdle(t)
  /\ Unlock
  /\ Goto(t, IF task[t] = NoTask THEN "exited" ELSE "run")
  /\ UNCHANGED <<taskQueue, typeOf, idleFlags, notified, task, flagVars, mainVars, historyVars>>

Work(t) ==
  \/ PopFirst(t) \/ RunTask(t) \/ LockToWait(t) \/ SetIdleFlag(t) \/ TestPop(t)
  \/ TestFlags(t) \/ Wake(t) \/ ClearIdleFlag(t) \/ LeaveWait(t)

-----------------------------------------------------------------------------
(***************************************************************************)
(* pushTask, tryShrinkPool and stretchPool, on the cocos thread.           *)
(***************************************************************************)
workerVars == <<idleThreadNum, idleFlags, task>>

MayPush == op = "none" /\ Len(typeOf) < MaxTasks

\* idleNum > _minThreadNum
TooManyIdle == idleThreadNum > MinThreads

\* The pool has enough threads, or may not change their number; when it is time to
\* shrink depends on the clock.
PushAtOnce ==
  /\ MayPush
  /\ FixedSize \/ idleThreadNum > 0
  /\ op' = "push"
  /\ UNCHANGED <<taskQueue, typeOf, mutex, worker, notified, toJoin, scan, pushes, stopping, kept, calls, workerVars, flagVars, historyVars>>

PushShrinks ==
  /\ MayPush
  /\ ~FixedSize /\ TooManyIdle /\ taskQueue = << >>
  /\ pushes' = TRUE
  /\ op' = "scan"
  /\ UNCHANGED <<taskQueue, typeOf, mutex, worker, notified, toJoin, scan, stopping, kept, calls, workerVars, flagVars, historyVars>>

\* tryShrinkPool may be called by itself, on a cached pool.
TryShrinkPool ==
  /\ op = "none" /\ calls < MaxCalls
  /\ ~FixedSize
  /\ calls' = calls + 1
  /\ pushes' = FALSE
  /\ op' = "scan"
  /\ UNCHANGED <<taskQueue, typeOf, mutex, worker, notified, toJoin, scan, stopping, kept, workerVars, flagVars, historyVars>>

\* stretchPool: the first threads that are not running are started.
PushStretches ==
  /\ MayPush
  /\ ~FixedSize /\ idleThreadNum = 0
  /\ LET free  == {t \in Tids : ~initedFlags[t]}
         new   == {t \in free : Cardinality({u \in free : u < t}) < StretchStep}
     IN  /\ abortFlags' = [t \in Tids |-> abortFlags[t] /\ t \notin new]
         /\ initedFlags' = [t \in Tids |-> initedFlags[t] \/ t \in new]
         /\ worker' = [t \in Tids |-> IF t \in new THEN "pop" ELSE worker[t]]
  /\ op' = "push"
  /\ UNCHANGED <<taskQueue, typeOf, isDone, mutex, notified, toJoin, scan, pushes, stopping, kept, calls, workerVars, historyVars>>

\* Mutant: the number of threads to join forgets the minimum.
StepOnly == ShrinkStep

\* maxThreadNumToJoin
MaxToJoin == Min({initedThreadNum - MinThreads, ShrinkStep})

\* The loop of tryShrinkPool, one idle flag at a time: an idle thread is told to abort.
ScanFlag ==
  /\ op = "scan"
  /\ IF Cardinality(toJoin) >= MaxToJoin \/ scan = MaxThreads
     THEN op' = "notifyShrunk" /\ scan' = 0 /\ UNCHANGED <<abortFlags, toJoin>>
     ELSE /\ scan' = scan + 1
          /\ IF idleFlags[scan + 1]
             THEN /\ abortFlags' = [abortFlags EXCEPT ![scan + 1] = TRUE]
                  /\ toJoin' = toJoin \cup {scan + 1}
             ELSE UNCHANGED <<abortFlags, toJoin>>
          /\ UNCHANGED op
  /\ UNCHANGED <<taskQueue, typeOf, isDone, initedFlags, mutex, worker, notified, pushes, stopping, kept, calls, workerVars, historyVars>>

Sleeping == {t \in Tids : worker[t] = "asleep"}

\* _cv.notify_all() under the mutex, in tryShrinkPool and in stop().
NotifyAll ==
  /\ op \in {"notifyShrunk", "notifyDone"}
  /\ mutex = NoOwner
  /\ notified' = Sleeping
  /\ op' = IF op = "notifyShrunk" THEN "joinShrunk" ELSE "joinDone"
  /\ UNCHANGED <<taskQueue, typeOf, mutex, worker, toJoin, scan, pushes, stopping, kept, calls, workerVars, flagVars, historyVars>>

\* join() of the first thread that is left, when its function is over.
Join(t) ==
  /\ op \in {"joinShrunk", "joinDone"}
  /\ t \in toJoin /\ \A u \in toJoin : t <= u
  /\ worker[t] = "exited"
  /\ toJoin' = toJoin \ {t}
  /\ initedFlags' = [initedFlags EXCEPT ![t] = FALSE]
  /\ UNCHANGED <<taskQueue, typeOf, isDone, abortFlags, mutex, worker, notified, op, scan, pushes, stopping, kept, calls, workerVars, historyVars>>

JoinedAll ==
  /\ op \in {"joinShrunk", "joinDone"}
  /\ toJoin = {}
  /\ op' = IF op = "joinDone" THEN "empty" ELSE IF pushes THEN "push" ELSE "none"
  /\ UNCHANGED <<taskQueue, typeOf, mutex, worker, notified, toJoin, scan, pushes, stopping, kept, calls, workerVars, flagVars, historyVars>>

PushTask ==
  /\ op = "push"
  /\ taskQueue' = Append(taskQueue, Len(typeOf) + 1)
  /\ \E type \in Types : typeOf' = Append(typeOf, type)
  /\ op' = "notify"
  /\ UNCHANGED <<mutex, worker, notified, toJoin, scan, pushes, stopping, kept, calls, workerVars, flagVars, historyVars>>

\* Mutant: the notification is sent only when the queue was empty.
WakeOneIfIdle == IF Len(taskQueue) > 1 THEN {} ELSE Sleeping \ notified

\* The threads a notification can wake.
WakeOne == Sleeping \ notified

\* _cv.notify_one() under the mutex.
NotifyOne ==
  /\ op = "notify"
  /\ mutex = NoOwner
  /\ IF WakeOne = {}
     THEN UNCHANGED notified
     ELSE \E t \in WakeOne : notified' = notified \cup {t}
  /\ op' = "none"
  /\ UNCHANGED <<taskQueue, typeOf, mutex, worker, toJoin, scan, pushes, stopping, kept, calls, workerVars, flagVars, historyVars>>

-----------------------------------------------------------------------------
(***************************************************************************)
(* stopAllTasks, stopTasksByType, and stop() in the destructor.            *)
(***************************************************************************)
\* stopAllTasks stops every type.
StopTasks(types) ==
  /\ op = "none" /\ calls < MaxCalls
  /\ calls' = calls + 1
  /\ stopping' = types
  /\ op' = "stopTasks"
  /\ UNCHANGED <<taskQueue, typeOf, mutex, worker, notified, toJoin, scan, pushes, kept, workerVars, flagVars, historyVars>>

\* One pop: a task of the type is deleted, another one is put aside.
StopOne ==
  /\ op = "stopTasks" /\ taskQueue # << >>
  /\ LET t == Head(taskQueue)
     IN  IF typeOf[t] \in stopping
         THEN dropped' = dropped \cup {t} /\ UNCHANGED kept
         ELSE kept' = Append(kept, t) /\ UNCHANGED dropped
  /\ taskQueue' = Tail(taskQueue)
  /\ UNCHANGED <<typeOf, mutex, worker, notified, op, toJoin, scan, pushes, stopping, calls, workerVars, flagVars, done, silent>>

StoppedAll ==
  /\ op = "stopTasks" /\ taskQueue = << >>
  /\ op' = "putBack"
  /\ UNCHANGED <<taskQueue, typeOf, mutex, worker, notified, toJoin, scan, pushes, stopping, kept, calls, workerVars, flagVars, historyVars>>

\* Mutant: only the first task that was put aside is pushed again.
NextKeptOnly(k) == << >>

NextKept(k) == Tail(k)

\* The tasks that were put aside are pushed again, and no thread is notified.
PutBack ==
  /\ op = "putBack"
  /\ IF kept = << >>
     THEN op' = "none" /\ UNCHANGED <<taskQueue, kept, silent>>
     ELSE /\ taskQueue' = Append(taskQueue, Head(kept))
          /\ kept' = NextKept(kept)
          /\ silent' = TRUE
          /\ UNCHANGED op
  /\ UNCHANGED <<typeOf, mutex, worker, notified, toJoin, scan, pushes, stopping, calls, workerVars, flagVars, done, dropped>>

Stop ==
  /\ op = "none"
  /\ isDone' = TRUE
  /\ toJoin' = {t \in Tids : initedFlags[t]}
  /\ op' = "notifyDone"
  /\ UNCHANGED <<taskQueue, typeOf, abortFlags, initedFlags, mutex, worker, notified, scan, pushes, stopping, kept, calls, workerVars, historyVars>>

\* stopAllTasks() after the threads are joined.
EmptyQueue ==
  /\ op = "empty"
  /\ dropped' = dropped \cup ToSet(taskQueue)
  /\ taskQueue' = << >>
  /\ op' = "destroyed"
  /\ UNCHANGED <<typeOf, mutex, worker, notified, toJoin, scan, pushes, stopping, kept, calls, workerVars, flagVars, done, silent>>

Destroyed == op = "destroyed" /\ UNCHANGED poolVars

-----------------------------------------------------------------------------
\* A call that has begun goes on by itself.
Continue ==
  \/ ScanFlag \/ NotifyAll \/ (\E t \in Tids : Join(t)) \/ JoinedAll
  \/ PushTask \/ NotifyOne \/ StopOne \/ StoppedAll \/ PutBack \/ EmptyQueue

Call ==
  \/ PushAtOnce \/ PushShrinks \/ PushStretches \/ TryShrinkPool \/ Stop
  \/ \E types \in {Types} \cup {{type} : type \in Types} : StopTasks(types)

Next == (\E t \in Tids : Work(t)) \/ Continue \/ Call \/ Destroyed

Spec == Init /\ [][Next]_poolVars

\* Threads are scheduled, tasks end, and so do the calls of the cocos thread.  Nothing
\* keeps _mutex for more than a few steps.
Fairness ==
  /\ \A t \in Tids : WF_poolVars(Work(t))
  /\ WF_poolVars(Continue)

FairSpec == Spec /\ Fairness

-----------------------------------------------------------------------------
(***************************************************************************)
(* Properties.                                                             *)
(***************************************************************************)
\* Every variable has its type; the owner of the mutex is the thread inside.
TypeOK ==
  /\ taskQueue \in Seq(1..MaxTasks) /\ kept \in Seq(1..MaxTasks)
  /\ typeOf \in Seq(Types) /\ Len(typeOf) <= MaxTasks
  /\ isDone \in BOOLEAN /\ silent \in BOOLEAN /\ pushes \in BOOLEAN
  /\ idleThreadNum = Cardinality({t \in Tids :
       worker[t] \in {"flag", "test", "testFlags", "asleep", "leave", "count"}})
  /\ {idleFlags, abortFlags, initedFlags} \subseteq [Tids -> BOOLEAN]
  /\ mutex \in Tids \cup {NoOwner}
  /\ \A t \in Tids : mutex = t <=> worker[t] \in {"flag", "test", "testFlags", "leave", "count"}
  /\ worker \in [Tids -> {"pop", "run", "lock", "flag", "test", "testFlags", "asleep", "leave",
                           "count", "exited"}]
  /\ notified \subseteq Sleeping /\ toJoin \subseteq Tids
  /\ task \in [Tids -> 0..MaxTasks]
  /\ op \in {"none", "scan", "notifyShrunk", "notifyDone", "joinShrunk", "joinDone", "push",
             "notify", "stopTasks", "putBack", "empty", "destroyed"}
  /\ scan \in 0..MaxThreads /\ stopping \subseteq Types /\ calls \in 0..MaxCalls
  /\ done \cup dropped \subseteq 1..MaxTasks

\* The threads that look into the queue before they sleep.
Looking == {t \in Tids : worker[t] \in {"pop", "lock", "flag", "test"}} \cup notified

\* No task waits for a busy thread while another one sleeps: between the calls, either
\* every sleeping thread is being woken or each task in the queue has a thread that will
\* look for one.  Only what stopTasksByType puts back is left without.
EveryTaskHasAThread ==
  op # "notify" /\ ~silent =>
    Sleeping \subseteq notified \/ Len(taskQueue) <= Cardinality(Looking)

\* A cached pool shrinks without losing a thread: while the pool is not being stopped it
\* keeps its minimum, and a thread is over or told to abort only when the cocos thread is
\* about to join it, though tryShrinkPool reads flags that change under it.
NoThreadIsLost ==
  ~isDone =>
    /\ initedThreadNum \in MinThreads..MaxThreads
    /\ \A t \in Tids : initedFlags[t] => t \in toJoin \/ (worker[t] # "exited" /\ ~abortFlags[t])
    /\ \A t \in Tids : ~initedFlags[t] => worker[t] = "exited"

\* The destructor waits for the queue: when every thread is joined, no task is left to
\* delete, each one has run or was stopped.  (A task put back in silence may be left: a
\* thread that found the queue empty meanwhile sees _isDone next, and is over.)
DestructorWaits ==
  op \in {"empty", "destroyed"} /\ ~silent =>
    taskQueue = << >> /\ (op = "empty" => done \cup dropped = 1..Len(typeOf))

\* The tasks, seen as TaskService sees them: one that was put aside still waits, and a
\* thread that has taken a task runs it.
Service == INSTANCE TaskService WITH
  submitted <- Len(typeOf),
  waiting   <- ToSet(taskQueue) \cup ToSet(kept),
  running   <- {task[t] : t \in Tids} \ {NoTask},
  finished  <- done

ImplementsService == Service!Spec

\* Every task that is pushed runs or is stopped, unless it is put back in silence: again
\* and again, nothing is left to do.
TasksHandled == silent \/ done \cup dropped = 1..Len(typeOf)
=============================================================================
