------------------------------- MODULE MCPools -------------------------------
(***************************************************************************)
(* Three components that run functions for other threads, for TLC: the     *)
(* queue of the scheduler, ThreadPool and AsyncTaskPool.  They share no    *)
(* state, so that a behaviour is about one of them, `part`, and the states *)
(* of the others are not multiplied with it.                               *)
(***************************************************************************)
EXTENDS FunctionQueue

CONSTANTS
  MinThreads, MaxThreads, ShrinkStep, StretchStep, FixedSize, Types, MaxTasks, MaxCalls,
  NumTypes, MaxEnqueued, MaxClears

VARIABLES
  part,
  taskQueue, typeOf, isDone, idleThreadNum, idleFlags, abortFlags, initedFlags, mutex, worker,
  notified, task, op, toJoin, scan, pushes, stopping, kept, calls, done, dropped, silent,
  stop, tasks, callbacks, thread, holding, caller, callType, enqueued, clears, ran, cleared,
  toCall, asyncPosted, asyncPending, asyncPerformed

Pool  == INSTANCE ThreadPool
Async == INSTANCE AsyncTaskPool WITH
  posted <- asyncPosted, pending <- asyncPending, performed <- asyncPerformed

poolVars ==
  <<taskQueue, typeOf, isDone, idleThreadNum, idleFlags, abortFlags, initedFlags, mutex, worker,
    notified, task, op, toJoin, scan, pushes, stopping, kept, calls, done, dropped, silent>>
asyncVars ==
  <<stop, tasks, callbacks, thread, holding, caller, callType, enqueued, clears, ran, cleared,
    toCall, asyncPosted, asyncPending, asyncPerformed>>

allVars == <<part, vars, poolVars, asyncVars>>

PoolsInit ==
  /\ part \in {"queue", "pool", "async"}
  /\ Init /\ Pool!Init /\ Async!Init

QueueStep(A) == part = "queue" /\ A /\ UNCHANGED <<part, poolVars, asyncVars>>
PoolStep(A)  == part = "pool"  /\ A /\ UNCHANGED <<part, vars, asyncVars>>
AsyncStep(A) == part = "async" /\ A /\ UNCHANGED <<part, vars, poolVars>>

PoolsNext == QueueStep(Next) \/ PoolStep(Pool!Next) \/ AsyncStep(Async!Next)

\* The fairness of each component, for its own part.
PoolsSpec ==
  /\ PoolsInit /\ [][PoolsNext]_allVars
  /\ SF_allVars(QueueStep(Update))
  /\ \A t \in Threads : WF_allVars(QueueStep(Leave(t)))
  /\ \A t \in Pool!Tids : WF_allVars(PoolStep(Pool!Work(t)))
  /\ WF_allVars(PoolStep(Pool!Continue))
  /\ \A k \in Async!TaskTypes : WF_allVars(AsyncStep(Async!Thread(k)))
  /\ WF_allVars(AsyncStep(Async!Continue))

-----------------------------------------------------------------------------
(***************************************************************************)
(* The properties of the pools, under their names; those of FunctionQueue  *)
(* are there by EXTENDS.                                                   *)
(***************************************************************************)
\* Every variable of the pools has its type.
PoolsTypeOK == Pool!TypeOK /\ Async!TypeOK

\* ThreadPool: no thread is left asleep over a task.
EveryTaskHasAThread == Pool!EveryTaskHasAThread

\* ThreadPool: no thread is lost, and the destructor joins the last when all is done.
NoThreadIsLost == Pool!NoThreadIsLost /\ Pool!DestructorWaits

\* AsyncTaskPool: the two queues stay in step, and no callback but that of a task that ran
\* is called.
QueuesInStep == Async!QueuesInStep /\ Async!CalledTasksRan

\* Every function that is posted is performed or removed, every task handed to ThreadPool
\* is run or dropped, and one handed to AsyncTaskPool is called back unless it was stopped.
\* (Each behaviour is of one of them, and nothing is pending in the others.)
EverythingIsHandled == []<>(FunctionsHandled /\ Pool!TasksHandled /\ Async!TasksCalledBack)

\* Both pools implement TaskService.
ImplementsService == Pool!ImplementsService /\ Async!ImplementsService
=============================================================================
