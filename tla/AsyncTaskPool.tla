---------------------------- MODULE AsyncTaskPool ----------------------------
(***************************************************************************)
(* cc::AsyncTaskPool (extensions/assets-manager/AsyncTaskPool.h): one      *)
(* thread for each type of task.  The thread runs the tasks of its queue   *)
(* one by one and has the callback of each performed by the scheduler, in  *)
(* the cocos thread, which is also the thread that enqueues tasks, stops   *)
(* them and destroys the pool.                                             *)
(*                                                                         *)
(* Whatever touches the queues of a type holds its _queueMutex, so that    *)
(* each critical section is one step; the notifications come after the     *)
(* unlock and are steps of their own.  The scheduler's queue is the one    *)
(* CocosThreadCalls describes and FunctionQueue implements.                *)
(***************************************************************************)
EXTENDS Integers, Sequences

CONSTANTS
  NumTypes,    (* TASK_MAX_TYPE                               *)
  MaxEnqueued, (* bound: tasks enqueued in a behaviour        *)
  MaxClears    (* bound: calls of stopTasks                   *)

TaskTypes == 1..NumTypes

\* Tasks are numbered as they are enqueued; a callback has the number of the task it was
\* enqueued with.
NoEntry == [task |-> 0, callback |-> 0]

VARIABLES
  stop,        (* _stop of each type                                       *)
  tasks,       (* _tasks                                                   *)
  callbacks,   (* _taskCallBacks                                           *)
  thread,      (* where the thread of each type is                         *)
  holding,     (* the task and the callback it has taken                   *)
  caller,      (* where the cocos thread is in a call of the pool          *)
  callType,    (* the type this call is about                              *)
  enqueued,    (* how many tasks were enqueued                             *)
  clears,      (* how many calls of stopTasks were made                    *)
  ran,         (* history: the tasks that ran                              *)
  cleared,     (* history: the tasks that were removed from a queue        *)
  toCall,      (* history: the callback each function posted will call     *)
  posted, pending, performed  (* the scheduler's queue: see CocosThreadCalls *)

Calls == INSTANCE CocosThreadCalls

callVars  == <<posted, pending, performed, toCall>>
asyncVars ==
  <<stop, tasks, callbacks, thread, holding, caller, callType, enqueued, clears,
    ran, cleared, callVars>>

Init ==
  /\ stop = [k \in TaskTypes |-> FALSE]
  /\ tasks = [k \in TaskTypes |-> << >>]
  /\ callbacks = [k \in TaskTypes |-> << >>]
  /\ thread = [k \in TaskTypes |-> "test"]
  /\ holding = [k \in TaskTypes |-> NoEntry]
  /\ caller = "none"
  /\ callType = 0
  /\ enqueued = 0
  /\ clears = 0
  /\ ran = {}
  /\ cleared = {}
  /\ toCall = << >>
  /\ Calls!Init

-----------------------------------------------------------------------------
(***************************************************************************)
(* The thread of a type.                                                   *)
(***************************************************************************)
At(k, pc) == thread[k] = pc
Goto(k, pc) == thread' = [thread EXCEPT ![k] = pc]

\* Mutant: the callback is posted without waiting for the task.
PostsFirst == "post"

\* What follows the unlock.
RunsFirst == "run"

\* The predicate of the wait holds, and there is a task: the task and the callback at
\* the front are taken.
TakeTask(k) ==
  /\ At(k, "test") /\ tasks[k] # << >>
  /\ holding' = [holding EXCEPT ![k] = [task |-> Head(tasks[k]), callback |-> Head(callbacks[k])]]
  /\ tasks' = [tasks EXCEPT ![k] = Tail(@)]
  /\ callbacks' = [callbacks EXCEPT ![k] = Tail(@)]
  /\ Goto(k, RunsFirst)
  /\ UNCHANGED <<stop, caller, callType, enqueued, clears, ran, cleared, callVars>>

\* There is none: the thread is over if it is to stop, and sleeps otherwise.
LeaveOrSleep(k) ==
  /\ At(k, "test") /\ tasks[k] = << >>
  /\ Goto(k, IF stop[k] THEN "exited" ELSE "asleep")
  /\ UNCHANGED <<stop, tasks, callbacks, holding, caller, callType, enqueued, clears, ran, cleared, callVars>>

\* Mutant: a thread that is to stop posts no callback.
PostsUnlessStopped(k) == IF stop[k] THEN "test" ELSE "post"

\* What follows a task.
PostsAfter(k) == "post"

RunTask(k) ==
  /\ At(k, "run")
  /\ ran' = ran \cup {holding[k].task}
  /\ Goto(k, PostsAfter(k))
  /\ UNCHANGED <<stop, tasks, callbacks, holding, caller, callType, enqueued, clears, cleared, callVars>>

\* performFunctionInCocosThread with the callback that was taken.
PostCallback(k) ==
  /\ At(k, "post")
  /\ Calls!Post
  /\ toCall' = Append(toCall, holding[k].callback)
  /\ holding' = [holding EXCEPT ![k] = NoEntry]
  /\ Goto(k, "test")
  /\ UNCHANGED <<stop, tasks, callbacks, caller, callType, enqueued, clears, ran, cleared>>

Thread(k) == TakeTask(k) \/ LeaveOrSleep(k) \/ RunTask(k) \/ PostCallback(k)

-----------------------------------------------------------------------------
(***************************************************************************)
(* The cocos thread.                                                       *)
(***************************************************************************)
\* A function of the scheduler's queue calls its callback.  The callback may call the
\* pool before the next function is performed.
PerformCallback ==
  /\ caller \in {"none", "destroyed"}
  /\ Calls!Perform
  /\ UNCHANGED <<stop, tasks, callbacks, thread, holding, caller, callType, enqueued, clears, ran, cleared, toCall>>

\* Both queues get their entry in one critical section ...
Enqueue(k) ==
  /\ caller = "none" /\ enqueued < MaxEnqueued
  /\ ~stop[k]
  /\ enqueued' = enqueued + 1
  /\ tasks' = [tasks EXCEPT ![k] = Append(@, enqueued + 1)]
  /\ callbacks' = [callbacks EXCEPT ![k] = Append(@, enqueued + 1)]
  /\ caller' = "notify" /\ callType' = k
  /\ UNCHANGED <<stop, thread, holding, clears, ran, cleared, callVars>>

Woken(k) == IF At(k, "asleep") THEN "test" ELSE thread[k]

\* ... and the thread of the type is notified after it.
Notify ==
  /\ caller = "notify"
  /\ thread' = [thread EXCEPT ![callType] = Woken(callType)]
  /\ caller' = "none"
  /\ UNCHANGED <<stop, tasks, callbacks, holding, callType, enqueued, clears, ran, cleared, callVars>>

\* Mutant: the callbacks of the tasks that are cleared stay.
ClearedTasksOnly(q, k) == q

\* What clearing the queues of a type leaves of its callbacks.
ClearedCallbacks(q, k) == [q EXCEPT ![k] = << >>]

ClearQueues(k) ==
  /\ cleared' = cleared \cup {tasks[k][i] : i \in 1..Len(tasks[k])}
  /\ tasks' = [tasks EXCEPT ![k] = << >>]
  /\ callbacks' = ClearedCallbacks(callbacks, k)

\* stopTasks: the task that runs is not stopped, and its callback will be called.
StopTasks(k) ==
  /\ caller = "none" /\ clears < MaxClears
  /\ clears' = clears + 1
  /\ ClearQueues(k)
  /\ UNCHANGED <<stop, thread, holding, caller, callType, enqueued, ran, callVars>>

\* destroyInstance: the types are destroyed from the last to the first.  A thread is told
\* to stop and its queues are cleared ...
DestroyType ==
  /\ caller \in {"none", "destroyNext"}
  /\ LET k == IF caller = "none" THEN NumTypes ELSE callType - 1
     IN  /\ stop' = [stop EXCEPT ![k] = TRUE]
         /\ ClearQueues(k)
         /\ callType' = k
  /\ caller' = "notifyAll"
  /\ UNCHANGED <<thread, holding, enqueued, clears, ran, callVars>>

NotifyAll ==
  /\ caller = "notifyAll"
  /\ thread' = [thread EXCEPT ![callType] = Woken(callType)]
  /\ caller' = "join"
  /\ UNCHANGED <<stop, tasks, callbacks, holding, callType, enqueued, clears, ran, cleared, callVars>>

\* ... and its thread is joined: the task it runs ends, and its callback is posted.
JoinThread ==
  /\ caller = "join" /\ At(callType, "exited")
  /\ caller' = IF callType = 1 THEN "destroyed" ELSE "destroyNext"
  /\ UNCHANGED <<stop, tasks, callbacks, thread, holding, callType, enqueued, clears, ran, cleared, callVars>>

Over == caller = "destroyed" /\ pending = << >> /\ UNCHANGED asyncVars

-----------------------------------------------------------------------------
Continue ==
  \/ Notify \/ NotifyAll \/ JoinThread \/ PerformCallback
  \/ caller = "destroyNext" /\ DestroyType

Next ==
  \/ \E k \in TaskTypes : Thread(k) \/ Enqueue(k) \/ StopTasks(k)
  \/ Notify \/ DestroyType \/ NotifyAll \/ JoinThread \/ PerformCallback
  \/ Over

Spec == Init /\ [][Next]_asyncVars

\* Tasks end, threads are scheduled, the calls of the cocos thread return and the
\* scheduler goes on with its frames.
FairSpec ==
  /\ Spec
  /\ \A k \in TaskTypes : WF_asyncVars(Thread(k))
  /\ WF_asyncVars(Continue)

-----------------------------------------------------------------------------
(***************************************************************************)
(* Properties.                                                             *)
(***************************************************************************)
\* Every variable has its type.
TypeOK ==
  /\ stop \in [TaskTypes -> BOOLEAN]
  /\ tasks \in [TaskTypes -> Seq(Nat)] /\ callbacks \in [TaskTypes -> Seq(Nat)]
  /\ thread \in [TaskTypes -> {"test", "asleep", "run", "post", "exited"}]
  /\ holding \in [TaskTypes -> [task : Nat, callback : Nat]]
  /\ caller \in {"none", "notify", "notifyAll", "join", "destroyNext", "destroyed"}
  /\ callType \in 0..NumTypes
  /\ enqueued \in Nat /\ clears \in Nat
  /\ ran \subseteq Nat /\ cleared \subseteq Nat
  /\ toCall \in Seq(Nat)
  /\ posted \in Nat /\ pending \in Seq(Nat) /\ performed \in Seq(Nat)

\* The two queues stay in step through enqueue, stopTasks and the destructor: a thread
\* never has the callback of another task.
QueuesInStep ==
  /\ tasks = callbacks
  /\ \A k \in TaskTypes : holding[k].task = holding[k].callback

\* A callback that is called, or is about to be, is that of a task that ran and was not
\* stopped, and no callback is called twice.
CalledTasksRan ==
  /\ \A i \in 1..Len(toCall) : toCall[i] \in ran \ cleared
  /\ \A i, j \in 1..Len(toCall) : toCall[i] = toCall[j] => i = j

\* The tasks, seen as TaskService sees them.
Service == INSTANCE TaskService WITH
  submitted <- enqueued,
  waiting   <- UNION {{tasks[k][i] : i \in 1..Len(tasks[k])} : k \in TaskTypes},
  running   <- {holding[k].task : k \in {j \in TaskTypes : At(j, "run")}},
  finished  <- ran

ImplementsService == Service!Spec

\* Again and again each task that was enqueued is stopped before it runs, or its callback is
\* called in the cocos thread.
TasksCalledBack ==
  1..enqueued = cleared \cup {toCall[performed[i]] : i \in 1..Len(performed)}
=============================================================================
