-------------------------- MODULE ThreadPool_proofs --------------------------
(***************************************************************************)
(* Proofs about ThreadPool, for any numbers of threads, of tasks and of    *)
(* calls.  The inductive invariant is built in layers, each proved under   *)
(* those before it: what the variables hold (ShapeInv), which threads run  *)
(* (FlagsInv), where each task is (TasksInv) and who will look for a task  *)
(* that waits (WakeInv).                                                   *)
(***************************************************************************)
EXTENDS ThreadPool, TLAPS, SequenceTheorems, FiniteSetTheorems

\* init() raises _maxThreadNum to _minThreadNum, and setShrinkStep takes positive steps only.
PoolSizes ==
  /\ MinThreads \in Nat /\ MaxThreads \in Nat /\ MinThreads <= MaxThreads
  /\ ShrinkStep \in Nat /\ MaxTasks \in Nat /\ MaxCalls \in Nat

-----------------------------------------------------------------------------
(***************************************************************************)
(* What the variables hold: the parts of TypeOK, the room for the task     *)
(* that is pushed, and which threads have a task.                          *)
(***************************************************************************)
Outside == {"pop", "run", "lock", "exited"}
Owning  == {"flag", "test", "testFlags", "leave", "count"}
Idle    == Owning \cup {"asleep"}
Pcs     == Outside \cup Idle

Ops == {"none", "scan", "notifyShrunk", "notifyDone", "joinShrunk", "joinDone", "push",
        "notify", "stopTasks", "putBack", "empty", "destroyed"}

Waiters == {t \in Tids : worker[t] \in Idle}

ThreadTypes ==
  /\ idleFlags \in [Tids -> BOOLEAN]
  /\ abortFlags \in [Tids -> BOOLEAN]
  /\ initedFlags \in [Tids -> BOOLEAN]
  /\ worker \in [Tids -> Pcs]
  /\ task \in [Tids -> 0..MaxTasks]
  /\ notified \subseteq Sleeping
  /\ toJoin \subseteq Tids

IdleCounted == idleThreadNum = Cardinality(Waiters)

MutexHeld ==
  /\ mutex \in Tids \cup {NoOwner}
  /\ \A t \in Tids : mutex = t <=> worker[t] \in Owning

CallTypes ==
  /\ isDone \in BOOLEAN /\ silent \in BOOLEAN /\ pushes \in BOOLEAN
  /\ op \in Ops
  /\ scan \in 0..MaxThreads /\ stopping \subseteq Types /\ calls \in 0..MaxCalls

QueueTypes ==
  /\ taskQueue \in Seq(1..MaxTasks) /\ kept \in Seq(1..MaxTasks)
  /\ typeOf \in Seq(Types) /\ Len(typeOf) <= MaxTasks
  /\ done \subseteq 1..MaxTasks /\ dropped \subseteq 1..MaxTasks

\* A call that will push a task was made when there was room for it.
RoomToPush ==
  op = "push" \/ (pushes /\ op \in {"scan", "notifyShrunk", "joinShrunk"}) =>
    Len(typeOf) < MaxTasks

\* A thread that runs a task has one, and one that looks for a task has none.
TaskInHand ==
  \A t \in Tids :
    /\ worker[t] = "run" => task[t] # NoTask
    /\ worker[t] \in Pcs \ {"run", "leave", "count"} => task[t] = NoTask

NotStarted == \A t \in Tids : ~initedFlags[t] => worker[t] = "exited"

ShapeInv ==
  /\ ThreadTypes /\ IdleCounted /\ MutexHeld /\ CallTypes /\ QueueTypes
  /\ RoomToPush /\ TaskInHand /\ NotStarted

-----------------------------------------------------------------------------
(***************************************************************************)
(* Which threads run.                                                      *)
(***************************************************************************)
Inited == {t \in Tids : initedFlags[t]}

\* A flag says idle from when the thread has set it until it clears it.
IdleFlagsAreFresh ==
  \A t \in Tids : idleFlags[t] => worker[t] \in {"test", "testFlags", "asleep", "leave"}

\* The thread's function is over, or will be without another task.
Over(t) == worker[t] = "exited" \/ (worker[t] \in {"leave", "count"} /\ task[t] = NoTask)

OverIfTold == \A t \in Tids : Over(t) => isDone \/ abortFlags[t]

\* The threads that were told to abort are those tryShrinkPool will join, and they are
\* no more than the pool can spare.
JoinedIfTold ==
  ~isDone =>
    /\ \A t \in Tids : initedFlags[t] /\ abortFlags[t] <=> t \in toJoin
    /\ MinThreads + Cardinality(toJoin) <= Cardinality(Inited)

JoinsInCalls ==
  /\ toJoin # {} => op \in {"scan", "notifyShrunk", "joinShrunk", "notifyDone", "joinDone"}
  /\ isDone <=> op \in {"notifyDone", "joinDone", "empty", "destroyed"}

FlagsInv == IdleFlagsAreFresh /\ OverIfTold /\ JoinedIfTold /\ JoinsInCalls

-----------------------------------------------------------------------------
(***************************************************************************)
(* Where each task is: in the queue, put aside, in the hand of a thread,   *)
(* done or dropped.                                                        *)
(***************************************************************************)
Injective(s) == \A i, j \in 1..Len(s) : s[i] = s[j] => i = j

Waiting == ToSet(taskQueue) \cup ToSet(kept)
Running == {task[t] : t \in Tids} \ {NoTask}

QueuesApart ==
  /\ Injective(taskQueue) /\ Injective(kept)
  /\ ToSet(taskQueue) \cap ToSet(kept) = {}
  /\ kept # << >> => op \in {"stopTasks", "putBack"}

HandsApart ==
  \A t, u \in Tids : task[t] # NoTask /\ task[t] = task[u] => t = u

\* Each task that was pushed is in one place.
OnePlace ==
  /\ Waiting \cup Running \cup done \cup dropped = 1..Len(typeOf)
  /\ Waiting \cap Running = {}
  /\ (Waiting \cup Running) \cap (done \cup dropped) = {}
  /\ done \cap dropped = {}

TasksInv == QueuesApart /\ HandsApart /\ OnePlace

-----------------------------------------------------------------------------
(***************************************************************************)
(* Who will look for a task that waits.                                    *)
(***************************************************************************)
\* The notification that pushTask is about to send.
Due == IF op = "notify" THEN 1 ELSE 0

EnoughLook ==
  ~silent /\ ~(Sleeping \subseteq notified) => Len(taskQueue) <= Cardinality(Looking) + Due

\* A thread that has found the queue empty and still has the mutex: a task that was pushed
\* since is the one of the notification that waits for the mutex.
NoneMissed ==
  ~silent /\ (\E t \in Tids : worker[t] = "testFlags") => Len(taskQueue) <= Due

\* When the pool stops with tasks in the queue, a thread is left, and each one will look.
SomeLeft ==
  isDone =>
    /\ Inited = toJoin
    /\ \A t \in toJoin : ~abortFlags[t]
    /\ ~silent /\ taskQueue # << >> => toJoin # {} /\ \A t \in toJoin : ~Over(t)

WakeInv == EnoughLook /\ NoneMissed

-----------------------------------------------------------------------------
(***************************************************************************)
(* The shape of the state.                                                 *)
(***************************************************************************)
\* ShapeInv says all that TypeOK says.
LEMMA ShapeIsTyped == ASSUME PoolSizes, ShapeInv PROVE TypeOK
<1>1. {idleFlags, abortFlags, initedFlags} \subseteq [Tids -> BOOLEAN]
  BY DEF ShapeInv, ThreadTypes
<1>2. /\ worker \in [Tids -> {"pop", "run", "lock", "flag", "test", "testFlags", "asleep", "leave",
                              "count", "exited"}]
      /\ notified \subseteq Sleeping /\ toJoin \subseteq Tids
      /\ task \in [Tids -> 0..MaxTasks]
  BY DEF ShapeInv, ThreadTypes, Pcs, Outside, Owning, Idle
<1>3. idleThreadNum = Cardinality({t \in Tids :
        worker[t] \in {"flag", "test", "testFlags", "asleep", "leave", "count"}})
  <2>1. {t \in Tids : worker[t] \in {"flag", "test", "testFlags", "asleep", "leave", "count"}}
          = Waiters
    BY DEF Waiters, Idle, Owning
  <2>2. QED
    BY <2>1 DEF ShapeInv, IdleCounted
<1>4. /\ mutex \in Tids \cup {NoOwner}
      /\ \A t \in Tids : mutex = t <=> worker[t] \in {"flag", "test", "testFlags", "leave", "count"}
  BY DEF ShapeInv, MutexHeld, Owning
<1>5. QED
  BY <1>1, <1>2, <1>3, <1>4 DEF TypeOK, ShapeInv, CallTypes, QueueTypes, Ops

\* A thread that moves is the only one that moves.
LEMMA Moved ==
  ASSUME ThreadTypes, NEW t \in Tids, NEW pc \in Pcs, Goto(t, pc)
  PROVE  /\ worker' \in [Tids -> Pcs] /\ worker'[t] = pc
         /\ \A u \in Tids : u # t => worker'[u] = worker[u]
BY DEF ThreadTypes, Goto

\* The count of the threads that wait follows a thread that moves.
LEMMA CountFollows ==
  ASSUME PoolSizes, ThreadTypes, IdleCounted, NEW t \in Tids, NEW pc \in Pcs, Goto(t, pc),
         \/ /\ worker[t] \in Idle <=> pc \in Idle
            /\ idleThreadNum' = idleThreadNum
         \/ /\ worker[t] \notin Idle /\ pc \in Idle
            /\ idleThreadNum' = idleThreadNum + 1
         \/ /\ worker[t] \in Idle /\ pc \notin Idle
            /\ idleThreadNum' = idleThreadNum - 1
  PROVE  IdleCounted'
<1>1. /\ worker' \in [Tids -> Pcs] /\ worker'[t] = pc
      /\ \A u \in Tids : u # t => worker'[u] = worker[u]
  BY Moved
<1>2. IsFiniteSet(Waiters)
  <2>1. IsFiniteSet(Tids)
    BY FS_Interval DEF Tids, PoolSizes
  <2>2. Waiters \subseteq Tids
    BY DEF Waiters
  <2>3. QED
    BY <2>1, <2>2, FS_Subset
<1>3. Cardinality(Waiters) \in Nat
  BY <1>2, FS_CardinalityType
<1>4. CASE (worker[t] \in Idle <=> pc \in Idle) /\ idleThreadNum' = idleThreadNum
  <2>1. Waiters' = Waiters
    BY <1>1, <1>4 DEF Waiters
  <2>2. QED
    BY <1>4, <2>1 DEF IdleCounted
<1>5. CASE worker[t] \notin Idle /\ pc \in Idle /\ idleThreadNum' = idleThreadNum + 1
  <2>1. Waiters' = Waiters \cup {t} /\ t \notin Waiters
    BY <1>1, <1>5 DEF Waiters
  <2>2. Cardinality(Waiters \cup {t}) = Cardinality(Waiters) + 1
    BY <1>2, <2>1, FS_AddElement
  <2>3. QED
    BY <1>5, <2>1, <2>2 DEF IdleCounted
<1>6. CASE worker[t] \in Idle /\ pc \notin Idle /\ idleThreadNum' = idleThreadNum - 1
  <2>1. Waiters' = Waiters \ {t} /\ t \in Waiters
    BY <1>1, <1>6 DEF Waiters
  <2>2. Cardinality(Waiters \ {t}) = Cardinality(Waiters) - 1
    BY <1>2, <2>1, FS_RemoveElement
  <2>3. QED
    BY <1>6, <2>1, <2>2 DEF IdleCounted
<1>7. QED
  BY <1>4, <1>5, <1>6

\* The mutex belongs to the thread that is inside, whoever moves.
LEMMA MutexFollows ==
  ASSUME PoolSizes, ThreadTypes, MutexHeld, NEW t \in Tids, NEW pc \in Pcs, Goto(t, pc),
         \/ /\ worker[t] \in Owning <=> pc \in Owning
            /\ mutex' = mutex
         \/ worker[t] \notin Owning /\ pc \in Owning /\ Lock(t)
         \/ worker[t] \in Owning /\ pc \notin Owning /\ Unlock
  PROVE  MutexHeld'
<1>1. /\ worker' \in [Tids -> Pcs] /\ worker'[t] = pc
      /\ \A u \in Tids : u # t => worker'[u] = worker[u]
  BY Moved
<1>2. NoOwner \notin Tids
  BY DEF NoOwner, Tids, PoolSizes
<1>3. CASE (worker[t] \in Owning <=> pc \in Owning) /\ mutex' = mutex
  BY <1>1, <1>3 DEF MutexHeld
<1>4. CASE worker[t] \notin Owning /\ pc \in Owning /\ Lock(t)
  BY <1>1, <1>2, <1>4 DEF MutexHeld, Lock
<1>5. CASE worker[t] \in Owning /\ pc \notin Owning /\ Unlock
  BY <1>1, <1>2, <1>5 DEF MutexHeld, Unlock
<1>6. QED
  BY <1>3, <1>4, <1>5

\* What the step of a thread has to keep.
LEMMA ThreadKeepsShape ==
  ASSUME PoolSizes, ShapeInv, NEW t \in Tids, NEW pc \in Pcs, Goto(t, pc),
         worker[t] # "exited",
         idleFlags' \in [Tids -> BOOLEAN],
         task' \in [Tids -> 0..MaxTasks],
         \A u \in Tids : u # t => task'[u] = task[u],
         pc = "run" => task'[t] # NoTask,
         pc \in Pcs \ {"run", "leave", "count"} => task'[t] = NoTask,
         notified' \subseteq notified, worker[t] = "asleep" => t \notin notified',
         \/ /\ worker[t] \in Idle <=> pc \in Idle
            /\ idleThreadNum' = idleThreadNum
         \/ /\ worker[t] \notin Idle /\ pc \in Idle
            /\ idleThreadNum' = idleThreadNum + 1
         \/ /\ worker[t] \in Idle /\ pc \notin Idle
            /\ idleThreadNum' = idleThreadNum - 1,
         \/ /\ worker[t] \in Owning <=> pc \in Owning
            /\ mutex' = mutex
         \/ worker[t] \notin Owning /\ pc \in Owning /\ Lock(t)
         \/ worker[t] \in Owning /\ pc \notin Owning /\ Unlock,
         QueueTypes', silent' \in BOOLEAN,
         UNCHANGED <<typeOf, flagVars, mainVars>>
  PROVE  ShapeInv'
<1>1. ThreadTypes /\ IdleCounted /\ MutexHeld /\ CallTypes /\ RoomToPush /\ TaskInHand /\ NotStarted
  BY DEF ShapeInv
<1>2. UNCHANGED <<typeOf, isDone, abortFlags, initedFlags, op, toJoin, scan, pushes, stopping,
                  kept, calls>>
  BY DEF flagVars, mainVars
<1>3. /\ worker' \in [Tids -> Pcs] /\ worker'[t] = pc
      /\ \A u \in Tids : u # t => worker'[u] = worker[u]
  BY <1>1, Moved
<1>4. notified' \subseteq Sleeping'
  BY <1>1, <1>3 DEF ThreadTypes, Sleeping
<1>5. ThreadTypes'
  BY <1>1, <1>2, <1>3, <1>4 DEF ThreadTypes
<1>6. IdleCounted'
  BY <1>1, CountFollows
<1>7. MutexHeld'
  BY <1>1, MutexFollows
<1>8. CallTypes' /\ RoomToPush'
  BY <1>1, <1>2 DEF CallTypes, RoomToPush
<1>9. TaskInHand'
  BY <1>1, <1>3 DEF TaskInHand
<1>10. NotStarted'
  BY <1>1, <1>2, <1>3 DEF NotStarted
<1>11. QED
  BY <1>5, <1>6, <1>7, <1>8, <1>9, <1>10 DEF ShapeInv

\* A pop takes the task at the head of the queue, when there is one.
LEMMA PopTypes ==
  ASSUME PoolSizes, ShapeInv, NEW t \in Tids, task[t] = NoTask, Pop(t)
  PROVE  /\ taskQueue' \in Seq(1..MaxTasks)
         /\ task' \in [Tids -> 0..MaxTasks]
         /\ \A u \in Tids : u # t => task'[u] = task[u]
         /\ silent' \in BOOLEAN
         /\ taskQueue = << >> => task'[t] = NoTask
         /\ taskQueue # << >> => task'[t] # NoTask
<1>1. /\ taskQueue \in Seq(1..MaxTasks) /\ task \in [Tids -> 0..MaxTasks]
      /\ silent \in BOOLEAN
  BY DEF ShapeInv, QueueTypes, ThreadTypes, CallTypes
<1>2. CASE taskQueue = << >>
  BY <1>1, <1>2 DEF Pop
<1>3. CASE taskQueue # << >>
  <2>1. /\ taskQueue' = Tail(taskQueue)
        /\ task' = [task EXCEPT ![t] = Head(taskQueue)]
        /\ silent' \in BOOLEAN
    BY <1>1, <1>3 DEF Pop, Rest
  <2>2. Tail(taskQueue) \in Seq(1..MaxTasks) /\ Head(taskQueue) \in 1..MaxTasks
    BY <1>1, <1>3, HeadTailProperties
  <2>3. Head(taskQueue) \in 0..MaxTasks /\ Head(taskQueue) # NoTask
    BY <2>2 DEF NoTask, PoolSizes
  <2>4. QED
    BY <1>1, <1>3, <2>1, <2>2, <2>3
<1>4. QED
  BY <1>2, <1>3

LEMMA PopFirstShape ==
  ASSUME PoolSizes, ShapeInv, NEW t \in Tids, PopFirst(t) PROVE ShapeInv'
<1>1. worker[t] = "pop" /\ Pop(t)
  BY DEF PopFirst
<1>2. UNCHANGED <<typeOf, idleThreadNum, idleFlags, mutex, notified, flagVars, mainVars, done, dropped>>
  BY DEF PopFirst
<1>3. task[t] = NoTask
  BY <1>1 DEF ShapeInv, TaskInHand, Pcs, Outside
<1>4. QueueTypes'
  BY <1>1, <1>2, <1>3, PopTypes DEF ShapeInv, QueueTypes, mainVars
<1>5. idleFlags' \in [Tids -> BOOLEAN]
  BY <1>2 DEF ShapeInv, ThreadTypes
<1>6. CASE taskQueue = << >>
  <2>1. Goto(t, "lock")
    BY <1>6 DEF PopFirst
  <2>2. task'[t] = NoTask
    BY <1>1, <1>3, <1>6, PopTypes
  <2>3. QED
    BY <1>1, <1>2, <1>3, <1>4, <1>5, <2>1, <2>2, PopTypes, ThreadKeepsShape
       DEF Pcs, Outside, Idle, Owning
<1>7. CASE taskQueue # << >>
  <2>1. Goto(t, "run")
    BY <1>7 DEF PopFirst
  <2>2. task'[t] # NoTask
    BY <1>1, <1>3, <1>7, PopTypes
  <2>3. QED
    BY <1>1, <1>2, <1>3, <1>4, <1>5, <2>1, <2>2, PopTypes, ThreadKeepsShape
       DEF Pcs, Outside, Idle, Owning
<1>8. QED
  BY <1>6, <1>7

LEMMA RunTaskShape ==
  ASSUME PoolSizes, ShapeInv, NEW t \in Tids, RunTask(t) PROVE ShapeInv'
<1>1. PICK pc \in {"exited", "pop"} : Goto(t, pc)
  BY DEF RunTask, AfterTask
<1>2. /\ worker[t] = "run"
      /\ done' = done \cup {task[t]}
      /\ task' = [task EXCEPT ![t] = NoTask]
      /\ UNCHANGED <<taskQueue, typeOf, idleThreadNum, idleFlags, mutex, notified, flagVars,
                     mainVars, dropped, silent>>
  BY DEF RunTask
<1>3. task \in [Tids -> 0..MaxTasks] /\ task[t] # NoTask
  BY <1>2 DEF ShapeInv, ThreadTypes, TaskInHand
<1>4. task[t] \in 1..MaxTasks /\ NoTask \in 0..MaxTasks
  BY <1>3 DEF NoTask, PoolSizes
<1>5. QueueTypes'
  BY <1>2, <1>4 DEF ShapeInv, QueueTypes, mainVars
<1>6. idleFlags' \in [Tids -> BOOLEAN] /\ silent' \in BOOLEAN
  BY <1>2 DEF ShapeInv, ThreadTypes, CallTypes
<1>7. task' \in [Tids -> 0..MaxTasks] /\ task'[t] = NoTask
      /\ \A u \in Tids : u # t => task'[u] = task[u]
  BY <1>2, <1>3, <1>4
<1>8. QED
  BY <1>1, <1>2, <1>5, <1>6, <1>7, ThreadKeepsShape DEF Pcs, Outside, Idle, Owning

\* A step that leaves the queues alone keeps their types.
LEMMA QueueTypesStay ==
  ASSUME ShapeInv, UNCHANGED <<taskQueue, typeOf, mainVars, historyVars>>
  PROVE  QueueTypes' /\ silent' \in BOOLEAN
BY DEF ShapeInv, QueueTypes, CallTypes, mainVars, historyVars

LEMMA LockToWaitShape ==
  ASSUME PoolSizes, ShapeInv, NEW t \in Tids, LockToWait(t) PROVE ShapeInv'
<1>1. /\ worker[t] = "lock" /\ Lock(t) /\ Goto(t, "flag")
      /\ idleThreadNum' = idleThreadNum + 1
      /\ UNCHANGED <<taskQueue, typeOf, idleFlags, notified, task, flagVars, mainVars, historyVars>>
  BY DEF LockToWait
<1>2. idleFlags' \in [Tids -> BOOLEAN] /\ task' \in [Tids -> 0..MaxTasks] /\ task[t] = NoTask
  BY <1>1 DEF ShapeInv, ThreadTypes, TaskInHand, Pcs, Outside
<1>3. QueueTypes' /\ silent' \in BOOLEAN
  BY <1>1, QueueTypesStay
<1>4. QED
  BY <1>1, <1>2, <1>3, ThreadKeepsShape DEF Pcs, Outside, Idle, Owning

LEMMA SetIdleFlagShape ==
  ASSUME PoolSizes, ShapeInv, NEW t \in Tids, SetIdleFlag(t) PROVE ShapeInv'
<1>1. /\ worker[t] = "flag" /\ Goto(t, "test")
      /\ idleFlags' = [idleFlags EXCEPT ![t] = TRUE]
      /\ UNCHANGED <<taskQueue, typeOf, idleThreadNum, mutex, notified, task, flagVars, mainVars, historyVars>>
  BY DEF SetIdleFlag
<1>2. idleFlags' \in [Tids -> BOOLEAN] /\ task' \in [Tids -> 0..MaxTasks] /\ task[t] = NoTask
  BY <1>1 DEF ShapeInv, ThreadTypes, TaskInHand, Pcs, Owning, Idle
<1>3. QueueTypes' /\ silent' \in BOOLEAN
  BY <1>1, QueueTypesStay
<1>4. QED
  BY <1>1, <1>2, <1>3, ThreadKeepsShape DEF Pcs, Outside, Idle, Owning

LEMMA TestPopShape ==
  ASSUME PoolSizes, ShapeInv, NEW t \in Tids, TestPop(t) PROVE ShapeInv'
<1>1. worker[t] = "test" /\ Pop(t)
  BY DEF TestPop
<1>2. UNCHANGED <<typeOf, idleThreadNum, idleFlags, mutex, notified, flagVars, mainVars, done, dropped>>
  BY DEF TestPop
<1>3. task[t] = NoTask
  BY <1>1 DEF ShapeInv, TaskInHand, Pcs, Idle, Owning
<1>4. QueueTypes'
  BY <1>1, <1>2, <1>3, PopTypes DEF ShapeInv, QueueTypes, mainVars
<1>5. idleFlags' \in [Tids -> BOOLEAN]
  BY <1>2 DEF ShapeInv, ThreadTypes
<1>6. CASE taskQueue = << >>
  <2>1. Goto(t, "testFlags")
    BY <1>6 DEF TestPop
  <2>2. task'[t] = NoTask
    BY <1>1, <1>3, <1>6, PopTypes
  <2>3. QED
    BY <1>1, <1>2, <1>3, <1>4, <1>5, <2>1, <2>2, PopTypes, ThreadKeepsShape
       DEF Pcs, Outside, Idle, Owning
<1>7. CASE taskQueue # << >>
  <2>1. Goto(t, "leave")
    BY <1>7 DEF TestPop
  <2>2. QED
    BY <1>1, <1>2, <1>3, <1>4, <1>5, <2>1, PopTypes, ThreadKeepsShape
       DEF Pcs, Outside, Idle, Owning
<1>8. QED
  BY <1>6, <1>7

LEMMA TestFlagsShape ==
  ASSUME PoolSizes, ShapeInv, NEW t \in Tids, TestFlags(t) PROVE ShapeInv'
<1>1. /\ worker[t] = "testFlags"
      /\ UNCHANGED <<taskQueue, typeOf, idleThreadNum, idleFlags, notified, task, flagVars, mainVars, historyVars>>
  BY DEF TestFlags
<1>2. idleFlags' \in [Tids -> BOOLEAN] /\ task' \in [Tids -> 0..MaxTasks] /\ task[t] = NoTask
  BY <1>1 DEF ShapeInv, ThreadTypes, TaskInHand, Pcs, Owning, Idle
<1>3. QueueTypes' /\ silent' \in BOOLEAN
  BY <1>1, QueueTypesStay
<1>4. CASE Goto(t, "leave") /\ mutex' = mutex
  BY <1>1, <1>2, <1>3, <1>4, ThreadKeepsShape DEF Pcs, Outside, Idle, Owning
<1>5. CASE Goto(t, "asleep") /\ Unlock
  BY <1>1, <1>2, <1>3, <1>5, ThreadKeepsShape DEF Pcs, Outside, Idle, Owning
<1>6. QED
  BY <1>4, <1>5 DEF TestFlags

LEMMA WakeShape ==
  ASSUME PoolSizes, ShapeInv, NEW t \in Tids, Wake(t) PROVE ShapeInv'
<1>1. /\ worker[t] = "asleep" /\ Lock(t) /\ Goto(t, "test")
      /\ notified' = notified \ {t}
      /\ UNCHANGED <<taskQueue, typeOf, idleThreadNum, idleFlags, task, flagVars, mainVars, historyVars>>
  BY DEF Wake
<1>2. idleFlags' \in [Tids -> BOOLEAN] /\ task' \in [Tids -> 0..MaxTasks] /\ task[t] = NoTask
  BY <1>1 DEF ShapeInv, ThreadTypes, TaskInHand, Pcs, Owning, Idle
<1>3. QueueTypes' /\ silent' \in BOOLEAN
  BY <1>1, QueueTypesStay
<1>4. QED
  BY <1>1, <1>2, <1>3, ThreadKeepsShape DEF Pcs, Outside, Idle, Owning

LEMMA ClearIdleFlagShape ==
  ASSUME PoolSizes, ShapeInv, NEW t \in Tids, ClearIdleFlag(t) PROVE ShapeInv'
<1>1. /\ worker[t] = "leave" /\ Goto(t, "count")
      /\ idleFlags' = [idleFlags EXCEPT ![t] = FALSE]
      /\ UNCHANGED <<taskQueue, typeOf, idleThreadNum, mutex, notified, task, flagVars, mainVars, historyVars>>
  BY DEF ClearIdleFlag
<1>2. idleFlags' \in [Tids -> BOOLEAN] /\ task' \in [Tids -> 0..MaxTasks]
  BY <1>1 DEF ShapeInv, ThreadTypes
<1>3. QueueTypes' /\ silent' \in BOOLEAN
  BY <1>1, QueueTypesStay
<1>4. QED
  BY <1>1, <1>2, <1>3, ThreadKeepsShape DEF Pcs, Outside, Idle, Owning

LEMMA LeaveWaitShape ==
  ASSUME PoolSizes, ShapeInv, NEW t \in Tids, LeaveWait(t) PROVE ShapeInv'
<1>1. /\ worker[t] = "count" /\ Unlock
      /\ idleThreadNum' = idleThreadNum - 1
      /\ UNCHANGED <<taskQueue, typeOf, idleFlags, notified, task, flagVars, mainVars, historyVars>>
  BY DEF LeaveWait, LessIdle
<1>2. idleFlags' \in [Tids -> BOOLEAN] /\ task' \in [Tids -> 0..MaxTasks]
  BY <1>1 DEF ShapeInv, ThreadTypes
<1>3. QueueTypes' /\ silent' \in BOOLEAN
  BY <1>1, QueueTypesStay
<1>4. CASE task[t] = NoTask
  <2>1. Goto(t, "exited")
    BY <1>4 DEF LeaveWait
  <2>2. QED
    BY <1>1, <1>2, <1>3, <1>4, <2>1, ThreadKeepsShape DEF Pcs, Outside, Idle, Owning
<1>5. CASE task[t] # NoTask
  <2>1. Goto(t, "run")
    BY <1>5 DEF LeaveWait
  <2>2. QED
    BY <1>1, <1>2, <1>3, <1>5, <2>1, ThreadKeepsShape DEF Pcs, Outside, Idle, Owning
<1>6. QED
  BY <1>4, <1>5

LEMMA WorkShape == ASSUME PoolSizes, ShapeInv, NEW t \in Tids, Work(t) PROVE ShapeInv'
BY PopFirstShape, RunTaskShape, LockToWaitShape, SetIdleFlagShape, TestPopShape, TestFlagsShape,
   WakeShape, ClearIdleFlagShape, LeaveWaitShape DEF Work

\* What a step of the cocos thread has to keep.
LEMMA CallKeepsShape ==
  ASSUME PoolSizes, ShapeInv,
         UNCHANGED <<worker, task, idleFlags, idleThreadNum, mutex>>,
         abortFlags' \in [Tids -> BOOLEAN], initedFlags' \in [Tids -> BOOLEAN],
         notified' \subseteq Sleeping, toJoin' \subseteq Tids,
         CallTypes', QueueTypes', RoomToPush', NotStarted'
  PROVE  ShapeInv'
<1>1. ThreadTypes /\ IdleCounted /\ MutexHeld /\ TaskInHand
  BY DEF ShapeInv
<1>2. ThreadTypes'
  BY <1>1 DEF ThreadTypes, Sleeping
<1>3. IdleCounted' /\ MutexHeld' /\ TaskInHand'
  BY <1>1 DEF IdleCounted, Waiters, MutexHeld, TaskInHand
<1>4. QED
  BY <1>2, <1>3 DEF ShapeInv

\* A step of the cocos thread that leaves the queues and the flags alone.
LEMMA QuietKeepsShape ==
  ASSUME PoolSizes, ShapeInv,
         UNCHANGED <<worker, task, idleFlags, idleThreadNum, mutex, abortFlags, initedFlags,
                     taskQueue, typeOf, kept, done, dropped, silent>>,
         notified' \subseteq Sleeping, toJoin' \subseteq Tids,
         isDone' \in BOOLEAN, pushes' \in BOOLEAN, op' \in Ops, scan' \in 0..MaxThreads,
         stopping' \subseteq Types, calls' \in 0..MaxCalls, RoomToPush'
  PROVE  ShapeInv'
<1>1. ThreadTypes /\ CallTypes /\ QueueTypes /\ NotStarted
  BY DEF ShapeInv
<1>2. CallTypes'
  BY <1>1 DEF CallTypes
<1>3. QueueTypes' /\ NotStarted'
  BY <1>1 DEF QueueTypes, NotStarted
<1>4. abortFlags' \in [Tids -> BOOLEAN] /\ initedFlags' \in [Tids -> BOOLEAN]
  BY <1>1 DEF ThreadTypes
<1>5. QED
  BY <1>2, <1>3, <1>4, CallKeepsShape

\* What ShapeInv says of the variables of the calls.
LEMMA CallShape ==
  ASSUME ShapeInv
  PROVE  /\ notified \subseteq Sleeping /\ toJoin \subseteq Tids
         /\ isDone \in BOOLEAN /\ silent \in BOOLEAN /\ pushes \in BOOLEAN /\ op \in Ops
         /\ scan \in 0..MaxThreads /\ stopping \subseteq Types /\ calls \in 0..MaxCalls
         /\ Len(typeOf) \in Nat /\ Len(typeOf) <= MaxTasks
BY DEF ShapeInv, ThreadTypes, CallTypes, QueueTypes

LEMMA PushAtOnceShape == ASSUME PoolSizes, ShapeInv, PushAtOnce PROVE ShapeInv'
<1>1. /\ op' = "push" /\ Len(typeOf) < MaxTasks
      /\ UNCHANGED <<taskQueue, typeOf, mutex, worker, notified, toJoin, scan, pushes, stopping,
                     kept, calls, workerVars, flagVars, historyVars>>
  BY DEF PushAtOnce, MayPush
<1>2. RoomToPush' /\ op' \in Ops
  BY <1>1 DEF RoomToPush, Ops
<1>3. QED
  BY <1>1, <1>2, CallShape, QuietKeepsShape DEF workerVars, flagVars, historyVars

LEMMA PushShrinksShape == ASSUME PoolSizes, ShapeInv, PushShrinks PROVE ShapeInv'
<1>1. /\ op' = "scan" /\ pushes' = TRUE /\ Len(typeOf) < MaxTasks
      /\ UNCHANGED <<taskQueue, typeOf, mutex, worker, notified, toJoin, scan, stopping,
                     kept, calls, workerVars, flagVars, historyVars>>
  BY DEF PushShrinks, MayPush
<1>2. RoomToPush' /\ op' \in Ops /\ pushes' \in BOOLEAN
  BY <1>1 DEF RoomToPush, Ops
<1>3. QED
  BY <1>1, <1>2, CallShape, QuietKeepsShape DEF workerVars, flagVars, historyVars

LEMMA TryShrinkPoolShape == ASSUME PoolSizes, ShapeInv, TryShrinkPool PROVE ShapeInv'
<1>1. /\ op' = "scan" /\ pushes' = FALSE /\ calls < MaxCalls /\ calls' = calls + 1
      /\ UNCHANGED <<taskQueue, typeOf, mutex, worker, notified, toJoin, scan, stopping,
                     kept, workerVars, flagVars, historyVars>>
  BY DEF TryShrinkPool
<1>2. RoomToPush' /\ op' \in Ops /\ pushes' \in BOOLEAN
  BY <1>1 DEF RoomToPush, Ops
<1>3. calls' \in 0..MaxCalls
  BY <1>1, CallShape DEF PoolSizes
<1>4. QED
  BY <1>1, <1>2, <1>3, CallShape, QuietKeepsShape DEF workerVars, flagVars, historyVars

\* stretchPool starts threads that were over.
LEMMA Stretched ==
  ASSUME ShapeInv, PushStretches
  PROVE  /\ \A t \in Tids : worker'[t] = worker[t] \/ (worker[t] = "exited" /\ worker'[t] = "pop")
         /\ \A t \in Tids : \/ /\ initedFlags'[t] = initedFlags[t] /\ abortFlags'[t] = abortFlags[t]
                               /\ worker'[t] = worker[t]
                            \/ /\ ~initedFlags[t] /\ initedFlags'[t] /\ ~abortFlags'[t]
                               /\ worker'[t] = "pop"
         /\ worker' \in [Tids -> Pcs]
         /\ abortFlags' \in [Tids -> BOOLEAN] /\ initedFlags' \in [Tids -> BOOLEAN]
<1> DEFINE free == {t \in Tids : ~initedFlags[t]}
           new  == {t \in free : Cardinality({u \in free : u < t}) < StretchStep}
<1>1. PICK n \in SUBSET free :
        /\ abortFlags' = [t \in Tids |-> abortFlags[t] /\ t \notin n]
        /\ initedFlags' = [t \in Tids |-> initedFlags[t] \/ t \in n]
        /\ worker' = [t \in Tids |-> IF t \in n THEN "pop" ELSE worker[t]]
  <2>1. new \in SUBSET free
    OBVIOUS
  <2>2. QED
    BY <2>1 DEF PushStretches
<1>2. ThreadTypes /\ NotStarted
  BY DEF ShapeInv
<1>3. \A t \in n : ~initedFlags[t] /\ worker[t] = "exited"
  BY <1>2 DEF NotStarted
<1>4. worker' \in [Tids -> Pcs]
  BY <1>1, <1>2 DEF ThreadTypes, Pcs, Outside
<1>5. abortFlags' \in [Tids -> BOOLEAN] /\ initedFlags' \in [Tids -> BOOLEAN]
  BY <1>1
<1>6. ASSUME NEW t \in Tids
      PROVE  \/ /\ initedFlags'[t] = initedFlags[t] /\ abortFlags'[t] = abortFlags[t]
                /\ worker'[t] = worker[t]
             \/ /\ ~initedFlags[t] /\ initedFlags'[t] /\ ~abortFlags'[t]
                /\ worker'[t] = "pop"
  <2>1. initedFlags[t] \in BOOLEAN /\ abortFlags[t] \in BOOLEAN
    BY <1>2 DEF ThreadTypes
  <2>2. CASE t \in n
    BY <1>1, <1>3, <2>2
  <2>3. CASE t \notin n
    BY <1>1, <2>1, <2>3
  <2>4. QED
    BY <2>2, <2>3
<1>7. QED
  BY <1>1, <1>3, <1>4, <1>5, <1>6

LEMMA PushStretchesShape == ASSUME PoolSizes, ShapeInv, PushStretches PROVE ShapeInv'
<1>1. /\ op' = "push" /\ Len(typeOf) < MaxTasks
      /\ UNCHANGED <<taskQueue, typeOf, isDone, mutex, notified, toJoin, scan, pushes, stopping,
                     kept, calls, workerVars, historyVars>>
  BY DEF PushStretches, MayPush
<1>2. ThreadTypes /\ IdleCounted /\ MutexHeld /\ CallTypes /\ QueueTypes /\ TaskInHand /\ NotStarted
  BY DEF ShapeInv
<1>3. ThreadTypes'
  <2>1. Sleeping' = Sleeping
    BY Stretched DEF Sleeping
  <2>2. QED
    BY <1>1, <1>2, <2>1, Stretched DEF ThreadTypes, workerVars
<1>4. IdleCounted'
  <2>1. Waiters' = Waiters
    BY Stretched DEF Waiters, Idle, Owning
  <2>2. QED
    BY <1>1, <1>2, <2>1 DEF IdleCounted, workerVars
<1>5. MutexHeld'
  BY <1>1, <1>2, Stretched DEF MutexHeld, Owning
<1>6. CallTypes' /\ QueueTypes' /\ RoomToPush'
  BY <1>1, <1>2 DEF CallTypes, QueueTypes, RoomToPush, Ops, historyVars
<1>7. TaskInHand'
  BY <1>1, <1>2, Stretched DEF TaskInHand, workerVars, Pcs, Outside
<1>8. NotStarted'
  BY <1>2, Stretched DEF NotStarted
<1>9. QED
  BY <1>3, <1>4, <1>5, <1>6, <1>7, <1>8 DEF ShapeInv

LEMMA ScanFlagShape == ASSUME PoolSizes, ShapeInv, ScanFlag PROVE ShapeInv'
<1>1. /\ op = "scan"
      /\ UNCHANGED <<taskQueue, typeOf, isDone, initedFlags, mutex, worker, notified, pushes,
                     stopping, kept, calls, workerVars, historyVars>>
  BY DEF ScanFlag
<1>2. ThreadTypes /\ CallTypes /\ QueueTypes /\ RoomToPush /\ NotStarted
  BY DEF ShapeInv
<1>3. QueueTypes' /\ NotStarted' /\ initedFlags' \in [Tids -> BOOLEAN] /\ notified' \subseteq Sleeping
  BY <1>1, <1>2 DEF QueueTypes, NotStarted, ThreadTypes, historyVars
<1>4. /\ op' \in {"scan", "notifyShrunk"} /\ scan' \in 0..MaxThreads
      /\ abortFlags' \in [Tids -> BOOLEAN] /\ toJoin' \subseteq Tids
  <2>1. abortFlags \in [Tids -> BOOLEAN] /\ toJoin \subseteq Tids /\ scan \in 0..MaxThreads
    BY <1>2 DEF ThreadTypes, CallTypes
  <2>2. CASE Cardinality(toJoin) >= MaxToJoin \/ scan = MaxThreads
    <3>1. op' = "notifyShrunk" /\ scan' = 0 /\ abortFlags' = abortFlags /\ toJoin' = toJoin
      BY <2>2 DEF ScanFlag
    <3>2. QED
      BY <2>1, <3>1 DEF PoolSizes
  <2>3. CASE ~(Cardinality(toJoin) >= MaxToJoin \/ scan = MaxThreads)
    <3>1. /\ scan' = scan + 1 /\ op' = op
          /\ \/ abortFlags' = abortFlags /\ toJoin' = toJoin
             \/ /\ abortFlags' = [abortFlags EXCEPT ![scan + 1] = TRUE]
                /\ toJoin' = toJoin \cup {scan + 1}
      BY <2>3 DEF ScanFlag
    <3>2. scan + 1 \in 0..MaxThreads /\ scan + 1 \in Tids
      BY <2>1, <2>3 DEF PoolSizes, Tids
    <3>3. QED
      BY <1>1, <2>1, <3>1, <3>2
  <2>4. QED
    BY <2>2, <2>3
<1>5. CallTypes'
  BY <1>1, <1>2, <1>4 DEF CallTypes, Ops, historyVars
<1>6. RoomToPush'
  BY <1>1, <1>2, <1>4 DEF RoomToPush
<1>7. QED
  BY <1>1, <1>3, <1>4, <1>5, <1>6, CallKeepsShape DEF workerVars

LEMMA NotifyAllShape == ASSUME PoolSizes, ShapeInv, NotifyAll PROVE ShapeInv'
<1>1. /\ op \in {"notifyShrunk", "notifyDone"} /\ notified' = Sleeping
      /\ op' = IF op = "notifyShrunk" THEN "joinShrunk" ELSE "joinDone"
      /\ UNCHANGED <<taskQueue, typeOf, mutex, worker, toJoin, scan, pushes, stopping, kept,
                     calls, workerVars, flagVars, historyVars>>
  BY DEF NotifyAll
<1>2. op' \in Ops
  BY <1>1 DEF Ops
<1>3. RoomToPush'
  BY <1>1 DEF RoomToPush, ShapeInv
<1>4. QED
  BY <1>1, <1>2, <1>3, CallShape, QuietKeepsShape DEF workerVars, flagVars, historyVars

LEMMA JoinShape == ASSUME PoolSizes, ShapeInv, NEW t \in Tids, Join(t) PROVE ShapeInv'
<1>1. /\ worker[t] = "exited" /\ toJoin' = toJoin \ {t}
      /\ initedFlags' = [initedFlags EXCEPT ![t] = FALSE]
      /\ UNCHANGED <<taskQueue, typeOf, isDone, abortFlags, mutex, worker, notified, op, scan,
                     pushes, stopping, kept, calls, workerVars, historyVars>>
  BY DEF Join
<1>2. ThreadTypes /\ CallTypes /\ QueueTypes /\ RoomToPush /\ NotStarted
  BY DEF ShapeInv
<1>3. CallTypes' /\ QueueTypes' /\ RoomToPush'
  BY <1>1, <1>2 DEF CallTypes, QueueTypes, RoomToPush, historyVars
<1>4. abortFlags' \in [Tids -> BOOLEAN] /\ initedFlags' \in [Tids -> BOOLEAN]
      /\ toJoin' \subseteq Tids /\ notified' \subseteq Sleeping
  BY <1>1, <1>2 DEF ThreadTypes
<1>5. NotStarted'
  BY <1>1, <1>2 DEF NotStarted, ThreadTypes
<1>6. QED
  BY <1>1, <1>3, <1>4, <1>5, CallKeepsShape DEF workerVars

LEMMA JoinedAllShape == ASSUME PoolSizes, ShapeInv, JoinedAll PROVE ShapeInv'
<1>1. /\ op \in {"joinShrunk", "joinDone"}
      /\ op' = IF op = "joinDone" THEN "empty" ELSE IF pushes THEN "push" ELSE "none"
      /\ UNCHANGED <<taskQueue, typeOf, mutex, worker, notified, toJoin, scan, pushes, stopping,
                     kept, calls, workerVars, flagVars, historyVars>>
  BY DEF JoinedAll
<1>2. op' \in Ops
  BY <1>1 DEF Ops
<1>3. RoomToPush'
  BY <1>1 DEF RoomToPush, ShapeInv
<1>4. QED
  BY <1>1, <1>2, <1>3, CallShape, QuietKeepsShape DEF workerVars, flagVars, historyVars

LEMMA PushTaskShape == ASSUME PoolSizes, ShapeInv, PushTask PROVE ShapeInv'
<1>1. /\ op = "push" /\ op' = "notify" /\ taskQueue' = Append(taskQueue, Len(typeOf) + 1)
      /\ UNCHANGED <<mutex, worker, notified, toJoin, scan, pushes, stopping, kept, calls,
                     workerVars, flagVars, historyVars>>
  BY DEF PushTask
<1>2. PICK type \in Types : typeOf' = Append(typeOf, type)
  BY DEF PushTask
<1>3. ThreadTypes /\ CallTypes /\ QueueTypes /\ RoomToPush /\ NotStarted
  BY DEF ShapeInv
<1>4. typeOf \in Seq(Types) /\ taskQueue \in Seq(1..MaxTasks) /\ Len(typeOf) < MaxTasks
      /\ Len(typeOf) \in Nat
  BY <1>1, <1>3 DEF QueueTypes, RoomToPush
<1>5. typeOf' \in Seq(Types) /\ Len(typeOf') = Len(typeOf) + 1
  BY <1>2, <1>4, AppendProperties
<1>6. taskQueue' \in Seq(1..MaxTasks)
  <2>1. Len(typeOf) + 1 \in 1..MaxTasks
    BY <1>4 DEF PoolSizes
  <2>2. QED
    BY <1>1, <1>4, <2>1, AppendProperties
<1>7. QueueTypes'
  BY <1>1, <1>3, <1>4, <1>5, <1>6 DEF QueueTypes, PoolSizes, historyVars
<1>8. CallTypes' /\ NotStarted' /\ RoomToPush'
  BY <1>1, <1>3 DEF CallTypes, NotStarted, RoomToPush, Ops, flagVars, historyVars
<1>9. abortFlags' \in [Tids -> BOOLEAN] /\ initedFlags' \in [Tids -> BOOLEAN]
      /\ toJoin' \subseteq Tids /\ notified' \subseteq Sleeping
  BY <1>1, <1>3 DEF ThreadTypes, flagVars
<1>10. QED
  BY <1>1, <1>7, <1>8, <1>9, CallKeepsShape DEF workerVars

LEMMA NotifyOneShape == ASSUME PoolSizes, ShapeInv, NotifyOne PROVE ShapeInv'
<1>1. /\ op' = "none"
      /\ notified' = notified \/ (\E t \in WakeOne : notified' = notified \cup {t})
      /\ UNCHANGED <<taskQueue, typeOf, mutex, worker, toJoin, scan, pushes, stopping, kept,
                     calls, workerVars, flagVars, historyVars>>
  BY DEF NotifyOne
<1>2. notified' \subseteq Sleeping
  BY <1>1, CallShape DEF WakeOne
<1>3. op' \in Ops /\ RoomToPush'
  BY <1>1 DEF Ops, RoomToPush
<1>4. QED
  BY <1>1, <1>2, <1>3, CallShape, QuietKeepsShape DEF workerVars, flagVars, historyVars

LEMMA StopTasksShape ==
  ASSUME PoolSizes, ShapeInv, NEW types \in SUBSET Types, StopTasks(types) PROVE ShapeInv'
<1>1. /\ op' = "stopTasks" /\ stopping' = types /\ calls < MaxCalls /\ calls' = calls + 1
      /\ UNCHANGED <<taskQueue, typeOf, mutex, worker, notified, toJoin, scan, pushes, kept,
                     workerVars, flagVars, historyVars>>
  BY DEF StopTasks
<1>2. op' \in Ops /\ RoomToPush' /\ stopping' \subseteq Types
  BY <1>1 DEF Ops, RoomToPush
<1>3. calls' \in 0..MaxCalls
  BY <1>1, CallShape DEF PoolSizes
<1>4. QED
  BY <1>1, <1>2, <1>3, CallShape, QuietKeepsShape DEF workerVars, flagVars, historyVars

LEMMA StopOneShape == ASSUME PoolSizes, ShapeInv, StopOne PROVE ShapeInv'
<1>1. /\ taskQueue # << >> /\ taskQueue' = Tail(taskQueue)
      /\ \/ dropped' = dropped \cup {Head(taskQueue)} /\ kept' = kept
         \/ dropped' = dropped /\ kept' = Append(kept, Head(taskQueue))
      /\ UNCHANGED <<typeOf, mutex, worker, notified, op, toJoin, scan, pushes, stopping, calls,
                     workerVars, flagVars, done, silent>>
  BY DEF StopOne
<1>2. ThreadTypes /\ CallTypes /\ QueueTypes /\ RoomToPush /\ NotStarted
  BY DEF ShapeInv
<1>3. taskQueue \in Seq(1..MaxTasks) /\ kept \in Seq(1..MaxTasks) /\ dropped \subseteq 1..MaxTasks
  BY <1>2 DEF QueueTypes
<1>4. Tail(taskQueue) \in Seq(1..MaxTasks) /\ Head(taskQueue) \in 1..MaxTasks
  BY <1>1, <1>3, HeadTailProperties
<1>5. Append(kept, Head(taskQueue)) \in Seq(1..MaxTasks)
  BY <1>3, <1>4, AppendProperties
<1>6. QueueTypes'
  BY <1>1, <1>2, <1>3, <1>4, <1>5 DEF QueueTypes
<1>7. CallTypes' /\ NotStarted' /\ RoomToPush'
  BY <1>1, <1>2 DEF CallTypes, NotStarted, RoomToPush, flagVars
<1>8. abortFlags' \in [Tids -> BOOLEAN] /\ initedFlags' \in [Tids -> BOOLEAN]
      /\ toJoin' \subseteq Tids /\ notified' \subseteq Sleeping
  BY <1>1, <1>2 DEF ThreadTypes, flagVars
<1>9. QED
  BY <1>1, <1>6, <1>7, <1>8, CallKeepsShape DEF workerVars

LEMMA StoppedAllShape == ASSUME PoolSizes, ShapeInv, StoppedAll PROVE ShapeInv'
<1>1. /\ op' = "putBack"
      /\ UNCHANGED <<taskQueue, typeOf, mutex, worker, notified, toJoin, scan, pushes, stopping,
                     kept, calls, workerVars, flagVars, historyVars>>
  BY DEF StoppedAll
<1>2. op' \in Ops /\ RoomToPush'
  BY <1>1 DEF Ops, RoomToPush
<1>3. QED
  BY <1>1, <1>2, CallShape, QuietKeepsShape DEF workerVars, flagVars, historyVars

LEMMA PutBackShape == ASSUME PoolSizes, ShapeInv, PutBack PROVE ShapeInv'
<1>1. /\ op = "putBack"
      /\ UNCHANGED <<typeOf, mutex, worker, notified, toJoin, scan, pushes, stopping, calls,
                     workerVars, flagVars, done, dropped>>
  BY DEF PutBack
<1>2. ThreadTypes /\ CallTypes /\ QueueTypes /\ RoomToPush /\ NotStarted
  BY DEF ShapeInv
<1>3. taskQueue \in Seq(1..MaxTasks) /\ kept \in Seq(1..MaxTasks)
  BY <1>2 DEF QueueTypes
<1>4. /\ taskQueue' \in Seq(1..MaxTasks) /\ kept' \in Seq(1..MaxTasks)
      /\ silent' \in BOOLEAN /\ op' \in {"putBack", "none"}
  <2>1. CASE kept = << >>
    BY <1>1, <1>2, <1>3, <2>1 DEF PutBack, CallTypes
  <2>2. CASE kept # << >>
    <3>1. /\ taskQueue' = Append(taskQueue, Head(kept)) /\ kept' = Tail(kept)
          /\ silent' = TRUE /\ op' = op
      BY <2>2 DEF PutBack, NextKept
    <3>2. Tail(kept) \in Seq(1..MaxTasks) /\ Head(kept) \in 1..MaxTasks
      BY <1>3, <2>2, HeadTailProperties
    <3>3. Append(taskQueue, Head(kept)) \in Seq(1..MaxTasks)
      BY <1>3, <3>2, AppendProperties
    <3>4. QED
      BY <1>1, <3>1, <3>2, <3>3
  <2>3. QED
    BY <2>1, <2>2
<1>5. QueueTypes'
  BY <1>1, <1>2, <1>4 DEF QueueTypes
<1>6. CallTypes' /\ NotStarted' /\ RoomToPush'
  BY <1>1, <1>2, <1>4 DEF CallTypes, NotStarted, RoomToPush, Ops, flagVars
<1>7. abortFlags' \in [Tids -> BOOLEAN] /\ initedFlags' \in [Tids -> BOOLEAN]
      /\ toJoin' \subseteq Tids /\ notified' \subseteq Sleeping
  BY <1>1, <1>2 DEF ThreadTypes, flagVars
<1>8. QED
  BY <1>1, <1>5, <1>6, <1>7, CallKeepsShape DEF workerVars

LEMMA StopShape == ASSUME PoolSizes, ShapeInv, Stop PROVE ShapeInv'
<1>1. /\ isDone' = TRUE /\ toJoin' = {t \in Tids : initedFlags[t]} /\ op' = "notifyDone"
      /\ UNCHANGED <<taskQueue, typeOf, abortFlags, initedFlags, mutex, worker, notified, scan,
                     pushes, stopping, kept, calls, workerVars, historyVars>>
  BY DEF Stop
<1>2. op' \in Ops /\ RoomToPush' /\ isDone' \in BOOLEAN /\ toJoin' \subseteq Tids
  BY <1>1 DEF Ops, RoomToPush
<1>3. QED
  BY <1>1, <1>2, CallShape, QuietKeepsShape DEF workerVars, historyVars

\* What a sequence holds.
LEMMA HeldBySeq ==
  ASSUME NEW S, NEW s \in Seq(S)
  PROVE  ToSet(s) \subseteq S /\ ToSet(s) = {s[i] : i \in 1..Len(s)} /\ Len(s) \in Nat
BY ElementOfSeq, LenProperties DEF ToSet

LEMMA EmptyQueueShape == ASSUME PoolSizes, ShapeInv, EmptyQueue PROVE ShapeInv'
<1>1. /\ op' = "destroyed" /\ taskQueue' = << >>
      /\ dropped' = dropped \cup ToSet(taskQueue)
      /\ UNCHANGED <<typeOf, mutex, worker, notified, toJoin, scan, pushes, stopping, kept,
                     calls, workerVars, flagVars, done, silent>>
  BY DEF EmptyQueue
<1>2. ThreadTypes /\ CallTypes /\ QueueTypes /\ RoomToPush /\ NotStarted
  BY DEF ShapeInv
<1>3. ToSet(taskQueue) \subseteq 1..MaxTasks
  BY <1>2, HeldBySeq DEF QueueTypes
<1>4. taskQueue' \in Seq(1..MaxTasks)
  BY <1>1
<1>5. QueueTypes'
  BY <1>1, <1>2, <1>3, <1>4 DEF QueueTypes
<1>6. CallTypes' /\ NotStarted' /\ RoomToPush'
  BY <1>1, <1>2 DEF CallTypes, NotStarted, RoomToPush, Ops, flagVars
<1>7. abortFlags' \in [Tids -> BOOLEAN] /\ initedFlags' \in [Tids -> BOOLEAN]
      /\ toJoin' \subseteq Tids /\ notified' \subseteq Sleeping
  BY <1>1, <1>2 DEF ThreadTypes, flagVars
<1>8. QED
  BY <1>1, <1>5, <1>6, <1>7, CallKeepsShape DEF workerVars

\* A step that changes nothing.
LEMMA StutterShape == ASSUME ShapeInv, UNCHANGED poolVars PROVE ShapeInv'
BY DEF ShapeInv, ThreadTypes, IdleCounted, Waiters, MutexHeld, CallTypes, QueueTypes, RoomToPush,
       TaskInHand, NotStarted, Sleeping, poolVars

\* The steps of the pool.
LEMMA StepCases ==
  ASSUME Next
  PROVE  \/ \E t \in Tids : Work(t)
         \/ ScanFlag \/ NotifyAll \/ (\E t \in Tids : Join(t)) \/ JoinedAll
         \/ PushTask \/ NotifyOne \/ StopOne \/ StoppedAll \/ PutBack \/ EmptyQueue
         \/ PushAtOnce \/ PushShrinks \/ PushStretches \/ TryShrinkPool \/ Stop
         \/ \E types \in SUBSET Types : StopTasks(types)
         \/ UNCHANGED poolVars
<1>1. {Types} \cup {{type} : type \in Types} \subseteq SUBSET Types
  OBVIOUS
<1>2. QED
  BY <1>1 DEF Next, Continue, Call, Destroyed

LEMMA NextShape == ASSUME PoolSizes, ShapeInv, [Next]_poolVars PROVE ShapeInv'
BY StepCases, WorkShape, ScanFlagShape, NotifyAllShape, JoinShape, JoinedAllShape, PushTaskShape,
   NotifyOneShape, StopOneShape, StoppedAllShape, PutBackShape, EmptyQueueShape, PushAtOnceShape,
   PushShrinksShape, PushStretchesShape, TryShrinkPoolShape, StopShape, StopTasksShape,
   StutterShape

\* Initially the first threads look for a task.
LEMMA InitShape == ASSUME PoolSizes, Init PROVE ShapeInv
<1>1. ThreadTypes
  BY DEF Init, ThreadTypes, Pcs, Outside, Sleeping, NoTask, PoolSizes
<1>2. Waiters = {}
  BY DEF Init, Waiters, Idle, Owning
<1>3. IdleCounted
  BY <1>2, FS_EmptySet DEF Init, IdleCounted
<1>4. MutexHeld
  BY DEF Init, MutexHeld, Owning, NoOwner, Tids, PoolSizes
<1>5. CallTypes
  <2>1. isDone \in BOOLEAN /\ silent \in BOOLEAN /\ pushes \in BOOLEAN
    BY DEF Init
  <2>2. op \in Ops
    BY DEF Init, Ops
  <2>3. scan \in 0..MaxThreads /\ stopping \subseteq Types /\ calls \in 0..MaxCalls
    BY DEF Init, PoolSizes
  <2>4. QED
    BY <2>1, <2>2, <2>3 DEF CallTypes
<1>6. << >> \in Seq(1..MaxTasks) /\ << >> \in Seq(Types) /\ Len(<< >>) = 0
  OBVIOUS
<1>7. QueueTypes
  BY <1>6 DEF Init, QueueTypes, PoolSizes
<1>8. RoomToPush /\ TaskInHand /\ NotStarted
  BY DEF Init, RoomToPush, TaskInHand, NotStarted, Pcs, Outside
<1>9. QED
  BY <1>1, <1>3, <1>4, <1>5, <1>7, <1>8 DEF ShapeInv

\* What the variables hold, for any numbers of threads, of tasks and of calls.
THEOREM Shape == ASSUME PoolSizes PROVE Spec => []ShapeInv
<1>1. Init => ShapeInv
  BY InitShape
<1>2. ShapeInv /\ [Next]_poolVars => ShapeInv'
  BY NextShape
<1>3. QED
  BY <1>1, <1>2, PTL DEF Spec

\* Each variable has its type, the count of the idle threads is that of the threads that
\* wait, and the mutex is owned by the thread inside.
THEOREM TypesHold == ASSUME PoolSizes PROVE Spec => []TypeOK
<1>1. ShapeInv => TypeOK
  BY ShapeIsTyped
<1>2. QED
  BY <1>1, Shape, PTL

-----------------------------------------------------------------------------
(***************************************************************************)
(* The threads that run.                                                   *)
(***************************************************************************)
\* What the step of a thread has to keep.
LEMMA ThreadKeepsFlags ==
  ASSUME ShapeInv, FlagsInv, NEW t \in Tids, NEW pc \in Pcs, Goto(t, pc),
         UNCHANGED <<flagVars, mainVars>>,
         \A u \in Tids : u # t => task'[u] = task[u] /\ idleFlags'[u] = idleFlags[u],
         idleFlags'[t] => pc \in {"test", "testFlags", "asleep", "leave"},
         pc = "exited" \/ (pc \in {"leave", "count"} /\ task'[t] = NoTask) =>
           isDone \/ abortFlags[t]
  PROVE  FlagsInv'
<1>1. /\ worker'[t] = pc
      /\ \A u \in Tids : u # t => worker'[u] = worker[u]
  BY Moved DEF ShapeInv
<1>2. UNCHANGED <<isDone, abortFlags, initedFlags, toJoin, op>>
  BY DEF flagVars, mainVars
<1>3. IdleFlagsAreFresh'
  BY <1>1 DEF FlagsInv, IdleFlagsAreFresh
<1>4. OverIfTold'
  BY <1>1, <1>2 DEF FlagsInv, OverIfTold, Over
<1>5. JoinedIfTold' /\ JoinsInCalls'
  BY <1>2 DEF FlagsInv, JoinedIfTold, JoinsInCalls, Inited
<1>6. QED
  BY <1>3, <1>4, <1>5 DEF FlagsInv

LEMMA WorkFlags == ASSUME PoolSizes, ShapeInv, FlagsInv, NEW t \in Tids, Work(t) PROVE FlagsInv'
<1>1. ThreadTypes /\ TaskInHand /\ IdleFlagsAreFresh /\ OverIfTold
  BY DEF ShapeInv, FlagsInv
<1>2. CASE PopFirst(t)
  <2>1. PICK pc \in {"lock", "run"} : Goto(t, pc)
    BY <1>2 DEF PopFirst
  <2>2. /\ worker[t] = "pop" /\ Pop(t)
        /\ UNCHANGED <<idleFlags, flagVars, mainVars>>
    BY <1>2 DEF PopFirst
  <2>3. task[t] = NoTask /\ ~idleFlags[t]
    BY <1>1, <2>2 DEF TaskInHand, IdleFlagsAreFresh, ThreadTypes, Pcs, Outside
  <2>4. \A u \in Tids : u # t => task'[u] = task[u]
    BY <2>2, <2>3, PopTypes
  <2>5. QED
    BY <2>1, <2>2, <2>3, <2>4, ThreadKeepsFlags DEF Pcs, Outside
<1>3. CASE RunTask(t)
  <2>1. /\ worker[t] = "run" /\ Goto(t, IF abortFlags[t] THEN "exited" ELSE "pop")
        /\ task' = [task EXCEPT ![t] = NoTask]
        /\ UNCHANGED <<idleFlags, flagVars, mainVars>>
    BY <1>3 DEF RunTask, AfterTask
  <2>2. ~idleFlags[t]
    BY <1>1, <2>1 DEF IdleFlagsAreFresh, ThreadTypes
  <2>3. \A u \in Tids : u # t => task'[u] = task[u]
    BY <1>1, <2>1 DEF ThreadTypes
  <2>4. CASE abortFlags[t]
    <3>1. Goto(t, "exited")
      BY <2>1, <2>4
    <3>2. QED
      BY <2>1, <2>2, <2>3, <2>4, <3>1, ThreadKeepsFlags DEF Pcs, Outside
  <2>5. CASE ~abortFlags[t]
    <3>1. Goto(t, "pop")
      BY <2>1, <2>5
    <3>2. QED
      BY <2>1, <2>2, <2>3, <3>1, ThreadKeepsFlags DEF Pcs, Outside
  <2>6. QED
    BY <2>4, <2>5
<1>4. CASE LockToWait(t)
  <2>1. worker[t] = "lock" /\ Goto(t, "flag") /\ UNCHANGED <<idleFlags, task, flagVars, mainVars>>
    BY <1>4 DEF LockToWait
  <2>2. ~idleFlags[t]
    BY <1>1, <2>1 DEF IdleFlagsAreFresh, ThreadTypes
  <2>3. QED
    BY <2>1, <2>2, ThreadKeepsFlags DEF Pcs, Idle, Owning
<1>5. CASE SetIdleFlag(t)
  <2>1. /\ Goto(t, "test") /\ UNCHANGED <<task, flagVars, mainVars>>
        /\ idleFlags' = [idleFlags EXCEPT ![t] = TRUE]
    BY <1>5 DEF SetIdleFlag
  <2>2. \A u \in Tids : u # t => idleFlags'[u] = idleFlags[u]
    BY <1>1, <2>1 DEF ThreadTypes
  <2>3. QED
    BY <2>1, <2>2, ThreadKeepsFlags DEF Pcs, Idle, Owning
<1>6. CASE TestPop(t)
  <2>1. /\ worker[t] = "test" /\ Pop(t)
        /\ Goto(t, IF taskQueue = << >> THEN "testFlags" ELSE "leave")
        /\ UNCHANGED <<idleFlags, flagVars, mainVars>>
    BY <1>6 DEF TestPop
  <2>2. task[t] = NoTask
    BY <1>1, <2>1 DEF TaskInHand, Pcs, Idle, Owning
  <2>3. /\ \A u \in Tids : u # t => task'[u] = task[u]
        /\ taskQueue # << >> => task'[t] # NoTask
    BY <2>1, <2>2, PopTypes
  <2>4. CASE taskQueue = << >>
    <3>1. Goto(t, "testFlags")
      BY <2>1, <2>4
    <3>2. QED
      BY <2>1, <2>3, <3>1, ThreadKeepsFlags DEF Pcs, Idle, Owning
  <2>5. CASE taskQueue # << >>
    <3>1. Goto(t, "leave")
      BY <2>1, <2>5
    <3>2. QED
      BY <2>1, <2>3, <2>5, <3>1, ThreadKeepsFlags DEF Pcs, Idle, Owning
  <2>6. QED
    BY <2>4, <2>5
<1>7. CASE TestFlags(t)
  <2>1. /\ UNCHANGED <<idleFlags, task, flagVars, mainVars>>
        /\ \/ (isDone \/ abortFlags[t]) /\ Goto(t, "leave")
           \/ Goto(t, "asleep")
    BY <1>7 DEF TestFlags, WakesForFlags
  <2>2. CASE (isDone \/ abortFlags[t]) /\ Goto(t, "leave")
    BY <2>1, <2>2, ThreadKeepsFlags DEF Pcs, Idle, Owning
  <2>3. CASE Goto(t, "asleep")
    BY <2>1, <2>3, ThreadKeepsFlags DEF Pcs, Idle, Owning
  <2>4. QED
    BY <2>1, <2>2, <2>3
<1>8. CASE Wake(t)
  <2>1. Goto(t, "test") /\ UNCHANGED <<idleFlags, task, flagVars, mainVars>>
    BY <1>8 DEF Wake
  <2>2. QED
    BY <2>1, ThreadKeepsFlags DEF Pcs, Idle, Owning
<1>9. CASE ClearIdleFlag(t)
  <2>1. /\ worker[t] = "leave" /\ Goto(t, "count") /\ UNCHANGED <<task, flagVars, mainVars>>
        /\ idleFlags' = [idleFlags EXCEPT ![t] = FALSE]
    BY <1>9 DEF ClearIdleFlag
  <2>2. ~idleFlags'[t] /\ \A u \in Tids : u # t => idleFlags'[u] = idleFlags[u]
    BY <1>1, <2>1 DEF ThreadTypes
  <2>3. task[t] = NoTask => isDone \/ abortFlags[t]
    BY <1>1, <2>1 DEF OverIfTold, Over
  <2>4. QED
    BY <2>1, <2>2, <2>3, ThreadKeepsFlags DEF Pcs, Idle, Owning
<1>10. CASE LeaveWait(t)
  <2>1. /\ worker[t] = "count" /\ UNCHANGED <<idleFlags, task, flagVars, mainVars>>
        /\ Goto(t, IF task[t] = NoTask THEN "exited" ELSE "run")
    BY <1>10 DEF LeaveWait
  <2>2. ~idleFlags[t]
    BY <1>1, <2>1 DEF IdleFlagsAreFresh, ThreadTypes
  <2>3. CASE task[t] = NoTask
    <3>1. Goto(t, "exited") /\ (isDone \/ abortFlags[t])
      BY <1>1, <2>1, <2>3 DEF OverIfTold, Over
    <3>2. QED
      BY <2>1, <2>2, <3>1, ThreadKeepsFlags DEF Pcs, Outside
  <2>4. CASE task[t] # NoTask
    <3>1. Goto(t, "run")
      BY <2>1, <2>4
    <3>2. QED
      BY <2>1, <2>2, <3>1, ThreadKeepsFlags DEF Pcs, Outside
  <2>5. QED
    BY <2>3, <2>4
<1>11. QED
  BY <1>2, <1>3, <1>4, <1>5, <1>6, <1>7, <1>8, <1>9, <1>10 DEF Work

\* A step of the cocos thread that leaves the flags alone.
LEMMA QuietKeepsFlags ==
  ASSUME FlagsInv, UNCHANGED <<worker, task, idleFlags, isDone, abortFlags, initedFlags, toJoin>>,
         JoinsInCalls'
  PROVE  FlagsInv'
BY DEF FlagsInv, IdleFlagsAreFresh, OverIfTold, Over, JoinedIfTold, Inited

LEMMA MinOfTwo ==
  ASSUME NEW a \in Int, NEW b \in Int PROVE Min({a, b}) \in Int /\ Min({a, b}) <= a
<1>1. \E x \in {a, b} : \A y \in {a, b} : x <= y
  <2>1. CASE a <= b
    BY <2>1
  <2>2. CASE b <= a
    BY <2>2
  <2>3. QED
    BY <2>1, <2>2
<1>2. Min({a, b}) \in {a, b} /\ \A y \in {a, b} : Min({a, b}) <= y
  BY <1>1 DEF Min
<1>3. QED
  BY <1>2

\* There are finitely many threads.
LEMMA ThreadsFinite ==
  ASSUME PoolSizes, NEW S \in SUBSET Tids
  PROVE  IsFiniteSet(S) /\ Cardinality(S) \in Nat /\ Cardinality(S) <= MaxThreads
<1>1. IsFiniteSet(Tids) /\ Cardinality(Tids) = MaxThreads
  <2>1. 1 \in Int /\ MaxThreads \in Int
    BY DEF PoolSizes
  <2>2. IsFiniteSet(1..MaxThreads)
        /\ Cardinality(1..MaxThreads) = IF 1 > MaxThreads THEN 0 ELSE MaxThreads - 1 + 1
    BY <2>1, FS_Interval
  <2>3. QED
    BY <2>2 DEF Tids, PoolSizes
<1>2. IsFiniteSet(S) /\ Cardinality(S) <= Cardinality(Tids)
  BY <1>1, FS_Subset
<1>3. QED
  BY <1>1, <1>2, FS_CardinalityType

LEMMA PushAtOnceFlags == ASSUME FlagsInv, PushAtOnce PROVE FlagsInv'
<1>1. /\ op = "none" /\ op' = "push"
      /\ UNCHANGED <<worker, task, idleFlags, isDone, abortFlags, initedFlags, toJoin>>
  BY DEF PushAtOnce, MayPush, workerVars, flagVars
<1>2. QED
  BY <1>1, QuietKeepsFlags DEF FlagsInv, JoinsInCalls

LEMMA PushShrinksFlags == ASSUME FlagsInv, PushShrinks PROVE FlagsInv'
<1>1. /\ op = "none" /\ op' = "scan"
      /\ UNCHANGED <<worker, task, idleFlags, isDone, abortFlags, initedFlags, toJoin>>
  BY DEF PushShrinks, MayPush, workerVars, flagVars
<1>2. QED
  BY <1>1, QuietKeepsFlags DEF FlagsInv, JoinsInCalls

LEMMA TryShrinkPoolFlags == ASSUME FlagsInv, TryShrinkPool PROVE FlagsInv'
<1>1. /\ op = "none" /\ op' = "scan"
      /\ UNCHANGED <<worker, task, idleFlags, isDone, abortFlags, initedFlags, toJoin>>
  BY DEF TryShrinkPool, workerVars, flagVars
<1>2. QED
  BY <1>1, QuietKeepsFlags DEF FlagsInv, JoinsInCalls

LEMMA PushStretchesFlags == ASSUME PoolSizes, ShapeInv, FlagsInv, PushStretches PROVE FlagsInv'
<1>1. /\ op = "none" /\ op' = "push" /\ UNCHANGED <<task, idleFlags, isDone, toJoin>>
  BY DEF PushStretches, MayPush, workerVars
<1>2. IdleFlagsAreFresh /\ OverIfTold /\ JoinedIfTold /\ JoinsInCalls
  BY DEF FlagsInv
<1>3. toJoin = {} /\ ~isDone
  BY <1>1, <1>2 DEF JoinsInCalls
<1>4. IdleFlagsAreFresh'
  BY <1>1, <1>2, Stretched DEF IdleFlagsAreFresh
<1>5. OverIfTold'
  BY <1>1, <1>2, Stretched DEF OverIfTold, Over
<1>6. JoinedIfTold'
  <2>1. \A t \in Tids : initedFlags'[t] /\ abortFlags'[t] <=> t \in toJoin'
    BY <1>1, <1>2, <1>3, Stretched DEF JoinedIfTold
  <2>2. Inited \subseteq Inited' /\ Inited' \subseteq Tids
    BY Stretched DEF Inited
  <2>3. IsFiniteSet(Inited') /\ Cardinality(Inited') \in Nat
    BY <2>2, ThreadsFinite
  <2>4. Cardinality(Inited) <= Cardinality(Inited') /\ Cardinality(Inited) \in Nat
    BY <2>2, <2>3, FS_Subset, FS_CardinalityType
  <2>5. MinThreads + Cardinality(toJoin) <= Cardinality(Inited)
    BY <1>2, <1>3 DEF JoinedIfTold
  <2>6. Cardinality(toJoin) = 0
    BY <1>3, FS_EmptySet
  <2>7. MinThreads + Cardinality(toJoin') <= Cardinality(Inited')
    BY <1>1, <2>3, <2>4, <2>5, <2>6 DEF PoolSizes
  <2>8. QED
    BY <2>1, <2>7 DEF JoinedIfTold
<1>7. JoinsInCalls'
  BY <1>1, <1>2 DEF JoinsInCalls
<1>8. QED
  BY <1>4, <1>5, <1>6, <1>7 DEF FlagsInv

LEMMA ScanFlagFlags == ASSUME PoolSizes, ShapeInv, FlagsInv, ScanFlag PROVE FlagsInv'
<1>1. /\ op = "scan" /\ UNCHANGED <<isDone, initedFlags, worker, task, idleFlags>>
  BY DEF ScanFlag, workerVars
<1>2. IdleFlagsAreFresh /\ OverIfTold /\ JoinedIfTold /\ JoinsInCalls /\ ThreadTypes /\ NotStarted
  BY DEF FlagsInv, ShapeInv
<1>3. ~isDone
  BY <1>1, <1>2 DEF JoinsInCalls
<1>4. op' \in {"scan", "notifyShrunk"}
  BY <1>1 DEF ScanFlag
<1>5. JoinsInCalls'
  BY <1>1, <1>3, <1>4 DEF JoinsInCalls
<1>6. CASE abortFlags' = abortFlags /\ toJoin' = toJoin
  BY <1>1, <1>5, <1>6, QuietKeepsFlags
<1>7. CASE ~(abortFlags' = abortFlags /\ toJoin' = toJoin)
  <2>1. /\ ~(Cardinality(toJoin) >= MaxToJoin) /\ scan # MaxThreads
        /\ idleFlags[scan + 1]
        /\ abortFlags' = [abortFlags EXCEPT ![scan + 1] = TRUE]
        /\ toJoin' = toJoin \cup {scan + 1}
    BY <1>7 DEF ScanFlag
  <2>2. PICK t \in Tids : t = scan + 1
    BY <2>1 DEF ShapeInv, CallTypes, Tids, PoolSizes
  <2>3. worker[t] \in {"test", "testFlags", "asleep", "leave"}
    BY <1>2, <2>1, <2>2 DEF IdleFlagsAreFresh
  <2>4. initedFlags[t]
    BY <1>2, <2>3 DEF NotStarted
  <2>5. abortFlags'[t] /\ \A u \in Tids : u # t => abortFlags'[u] = abortFlags[u]
    BY <1>2, <2>1, <2>2 DEF ThreadTypes
  <2>6. OverIfTold'
    BY <1>1, <1>2, <2>5 DEF OverIfTold, Over
  <2>7. \A u \in Tids : initedFlags'[u] /\ abortFlags'[u] <=> u \in toJoin'
    BY <1>1, <1>2, <1>3, <2>1, <2>2, <2>4, <2>5 DEF JoinedIfTold
  <2>8. /\ IsFiniteSet(toJoin) /\ Cardinality(toJoin) \in Nat /\ Cardinality(Inited) \in Nat
    BY <1>2, ThreadsFinite DEF ThreadTypes, Inited
  <2>9. PICK n \in Int : n = MaxToJoin /\ n <= Cardinality(Inited) - MinThreads
    <3>1. Cardinality(Inited) - MinThreads \in Int /\ ShrinkStep \in Int
      BY <2>8 DEF PoolSizes
    <3>2. QED
      BY <3>1, MinOfTwo DEF MaxToJoin, initedThreadNum, Inited
  <2>10. Cardinality(toJoin \cup {t}) <= Cardinality(toJoin) + 1
         /\ Cardinality(toJoin \cup {t}) \in Nat
    <3>1. CASE t \in toJoin
      <4>1. toJoin \cup {t} = toJoin
        BY <3>1
      <4>2. QED
        BY <2>8, <4>1
    <3>2. CASE t \notin toJoin
      <4>1. Cardinality(toJoin \cup {t}) = Cardinality(toJoin) + 1
        BY <2>8, <3>2, FS_AddElement
      <4>2. QED
        BY <2>8, <4>1
    <3>3. QED
      BY <3>1, <3>2
  <2>11. MinThreads + Cardinality(toJoin \cup {t}) <= Cardinality(Inited)
    <3>1. ~(Cardinality(toJoin) >= n)
      BY <2>1, <2>9
    <3>2. QED
      BY <2>8, <2>9, <2>10, <3>1 DEF PoolSizes
  <2>12. Inited' = Inited /\ toJoin' = toJoin \cup {t}
    BY <1>1, <2>1, <2>2 DEF Inited
  <2>13. JoinedIfTold'
    BY <2>7, <2>11, <2>12 DEF JoinedIfTold
  <2>14. IdleFlagsAreFresh'
    BY <1>1, <1>2 DEF IdleFlagsAreFresh
  <2>15. QED
    BY <1>5, <2>6, <2>13, <2>14 DEF FlagsInv
<1>8. QED
  BY <1>6, <1>7

LEMMA NotifyAllFlags == ASSUME FlagsInv, NotifyAll PROVE FlagsInv'
<1>1. /\ \/ op = "notifyShrunk" /\ op' = "joinShrunk"
         \/ op = "notifyDone" /\ op' = "joinDone"
      /\ UNCHANGED <<worker, task, idleFlags, isDone, abortFlags, initedFlags, toJoin>>
  BY DEF NotifyAll, workerVars, flagVars
<1>2. QED
  BY <1>1, QuietKeepsFlags DEF FlagsInv, JoinsInCalls

LEMMA JoinFlags == ASSUME PoolSizes, ShapeInv, FlagsInv, NEW t \in Tids, Join(t) PROVE FlagsInv'
<1>1. /\ op \in {"joinShrunk", "joinDone"} /\ t \in toJoin
      /\ toJoin' = toJoin \ {t}
      /\ initedFlags' = [initedFlags EXCEPT ![t] = FALSE]
      /\ UNCHANGED <<isDone, abortFlags, op, worker, task, idleFlags>>
  BY DEF Join, workerVars
<1>2. IdleFlagsAreFresh /\ OverIfTold /\ JoinedIfTold /\ JoinsInCalls /\ ThreadTypes
  BY DEF FlagsInv, ShapeInv
<1>3. IdleFlagsAreFresh' /\ OverIfTold'
  BY <1>1, <1>2 DEF IdleFlagsAreFresh, OverIfTold, Over
<1>4. JoinsInCalls'
  BY <1>1, <1>2 DEF JoinsInCalls
<1>5. ASSUME ~isDone
      PROVE  /\ \A u \in Tids : initedFlags'[u] /\ abortFlags'[u] <=> u \in toJoin'
             /\ MinThreads + Cardinality(toJoin') <= Cardinality(Inited')
  <2>1. ~initedFlags'[t] /\ \A u \in Tids : u # t => initedFlags'[u] = initedFlags[u]
    BY <1>1, <1>2 DEF ThreadTypes
  <2>2. \A u \in Tids : initedFlags'[u] /\ abortFlags'[u] <=> u \in toJoin'
    BY <1>1, <1>2, <1>5, <2>1 DEF JoinedIfTold
  <2>3. t \in Inited /\ Inited' = Inited \ {t}
    BY <1>1, <1>2, <1>5, <2>1 DEF JoinedIfTold, Inited
  <2>4. /\ IsFiniteSet(toJoin) /\ Cardinality(toJoin) \in Nat
        /\ IsFiniteSet(Inited) /\ Cardinality(Inited) \in Nat
    BY <1>2, ThreadsFinite DEF ThreadTypes, Inited
  <2>5. Cardinality(toJoin \ {t}) = Cardinality(toJoin) - 1
    BY <1>1, <2>4, FS_RemoveElement
  <2>6. Cardinality(Inited \ {t}) = Cardinality(Inited) - 1
    BY <2>3, <2>4, FS_RemoveElement
  <2>7. MinThreads + Cardinality(toJoin) <= Cardinality(Inited)
    BY <1>2, <1>5 DEF JoinedIfTold
  <2>8. MinThreads + Cardinality(toJoin') <= Cardinality(Inited')
    BY <1>1, <2>3, <2>4, <2>5, <2>6, <2>7 DEF PoolSizes
  <2>9. QED
    BY <2>2, <2>8
<1>6. JoinedIfTold'
  BY <1>1, <1>5 DEF JoinedIfTold
<1>7. QED
  BY <1>3, <1>4, <1>6 DEF FlagsInv

LEMMA JoinedAllFlags == ASSUME FlagsInv, JoinedAll PROVE FlagsInv'
<1>1. /\ toJoin = {}
      /\ \/ op = "joinDone" /\ op' = "empty"
         \/ op = "joinShrunk" /\ op' \in {"push", "none"}
      /\ UNCHANGED <<worker, task, idleFlags, isDone, abortFlags, initedFlags, toJoin>>
  BY DEF JoinedAll, workerVars, flagVars
<1>2. QED
  BY <1>1, QuietKeepsFlags DEF FlagsInv, JoinsInCalls

LEMMA PushTaskFlags == ASSUME FlagsInv, PushTask PROVE FlagsInv'
<1>1. /\ op = "push" /\ op' = "notify"
      /\ UNCHANGED <<worker, task, idleFlags, isDone, abortFlags, initedFlags, toJoin>>
  BY DEF PushTask, workerVars, flagVars
<1>2. QED
  BY <1>1, QuietKeepsFlags DEF FlagsInv, JoinsInCalls

LEMMA NotifyOneFlags == ASSUME FlagsInv, NotifyOne PROVE FlagsInv'
<1>1. /\ op = "notify" /\ op' = "none"
      /\ UNCHANGED <<worker, task, idleFlags, isDone, abortFlags, initedFlags, toJoin>>
  BY DEF NotifyOne, workerVars, flagVars
<1>2. QED
  BY <1>1, QuietKeepsFlags DEF FlagsInv, JoinsInCalls

\* stopAllTasks and stopTasksByType touch no thread.
LEMMA StopTasksFlags ==
  ASSUME FlagsInv, (\E types \in SUBSET Types : StopTasks(types)) \/ StopOne \/ StoppedAll \/ PutBack
  PROVE  FlagsInv'
<1>1. /\ op \in {"none", "stopTasks", "putBack"} /\ op' \in {"none", "stopTasks", "putBack"}
      /\ UNCHANGED <<worker, task, idleFlags, isDone, abortFlags, initedFlags, toJoin>>
  BY DEF StopTasks, StopOne, StoppedAll, PutBack, workerVars, flagVars
<1>2. QED
  BY <1>1, QuietKeepsFlags DEF FlagsInv, JoinsInCalls

LEMMA StopFlags == ASSUME FlagsInv, Stop PROVE FlagsInv'
<1>1. /\ isDone' = TRUE /\ op' = "notifyDone"
      /\ UNCHANGED <<worker, task, idleFlags>>
  BY DEF Stop, workerVars
<1>2. QED
  BY <1>1 DEF FlagsInv, IdleFlagsAreFresh, OverIfTold, JoinedIfTold, JoinsInCalls

LEMMA EmptyQueueFlags == ASSUME FlagsInv, EmptyQueue PROVE FlagsInv'
<1>1. /\ op = "empty" /\ op' = "destroyed"
      /\ UNCHANGED <<worker, task, idleFlags, isDone, abortFlags, initedFlags, toJoin>>
  BY DEF EmptyQueue, workerVars, flagVars
<1>2. QED
  BY <1>1, QuietKeepsFlags DEF FlagsInv, JoinsInCalls

LEMMA StutterFlags == ASSUME FlagsInv, UNCHANGED poolVars PROVE FlagsInv'
<1>1. UNCHANGED <<worker, task, idleFlags, isDone, abortFlags, initedFlags, toJoin, op>>
  BY DEF poolVars
<1>2. QED
  BY <1>1, QuietKeepsFlags DEF FlagsInv, JoinsInCalls

LEMMA NextFlags == ASSUME PoolSizes, ShapeInv, FlagsInv, [Next]_poolVars PROVE FlagsInv'
BY StepCases, WorkFlags, ScanFlagFlags, NotifyAllFlags, JoinFlags, JoinedAllFlags, PushTaskFlags,
   NotifyOneFlags, StopTasksFlags, EmptyQueueFlags, PushAtOnceFlags, PushShrinksFlags,
   PushStretchesFlags, TryShrinkPoolFlags, StopFlags, StutterFlags

LEMMA InitFlags == ASSUME PoolSizes, Init PROVE FlagsInv
<1>1. IdleFlagsAreFresh /\ JoinsInCalls
  BY DEF Init, IdleFlagsAreFresh, JoinsInCalls
<1>2. \A t \in Tids : t \in Int /\ (initedFlags[t] <=> t <= MinThreads)
                     /\ (abortFlags[t] <=> t > MinThreads)
                     /\ worker[t] = IF t <= MinThreads THEN "pop" ELSE "exited"
  <2>1. TAKE t \in Tids
  <2>2. t \in Int
    BY DEF Tids, PoolSizes
  <2>3. initedFlags[t] = (t <= MinThreads)
    BY DEF Init
  <2>4. abortFlags[t] = (t > MinThreads)
    BY DEF Init
  <2>5. worker[t] = IF t <= MinThreads THEN "pop" ELSE "exited"
    BY DEF Init
  <2>6. QED
    BY <2>2, <2>3, <2>4, <2>5
<1>3. OverIfTold /\ \A t \in Tids : initedFlags[t] /\ abortFlags[t] <=> t \in toJoin
  <2>1. toJoin = {}
    BY DEF Init
  <2>2. QED
    BY <1>2, <2>1 DEF OverIfTold, Over, PoolSizes
<1>4. Inited = 1..MinThreads
  <2>1. 1..MinThreads = {t \in Tids : t <= MinThreads}
    BY DEF Tids, PoolSizes
  <2>2. QED
    BY <1>2, <2>1 DEF Inited
<1>5. Cardinality(1..MinThreads) = MinThreads
  <2>1. 1 \in Int /\ MinThreads \in Int
    BY DEF PoolSizes
  <2>2. Cardinality(1..MinThreads) = IF 1 > MinThreads THEN 0 ELSE MinThreads - 1 + 1
    BY <2>1, FS_Interval
  <2>3. QED
    BY <2>2 DEF PoolSizes
<1>6. Cardinality(toJoin) = 0
  BY FS_EmptySet DEF Init
<1>7. MinThreads + Cardinality(toJoin) <= Cardinality(Inited)
  BY <1>4, <1>5, <1>6 DEF PoolSizes
<1>8. JoinedIfTold
  BY <1>3, <1>7 DEF JoinedIfTold
<1>9. QED
  BY <1>1, <1>3, <1>8 DEF FlagsInv

\* Which threads run and which were told to abort: the flags that tryShrinkPool reads without
\* the mutex are those of threads that wait.
THEOREM Flags == ASSUME PoolSizes PROVE Spec => [](ShapeInv /\ FlagsInv)
<1>1. Init => FlagsInv
  BY InitFlags
<1>2. ShapeInv /\ FlagsInv /\ [Next]_poolVars => FlagsInv'
  BY NextFlags
<1>3. QED
  BY <1>1, <1>2, Shape, PTL DEF Spec

LEMMA FlagsLoseNone == ASSUME PoolSizes, ShapeInv, FlagsInv PROVE NoThreadIsLost
<1>1. SUFFICES ASSUME ~isDone
               PROVE  /\ initedThreadNum \in MinThreads..MaxThreads
                      /\ \A t \in Tids :
                           initedFlags[t] => t \in toJoin \/ (worker[t] # "exited" /\ ~abortFlags[t])
                      /\ \A t \in Tids : ~initedFlags[t] => worker[t] = "exited"
  BY DEF NoThreadIsLost
<1>2. initedThreadNum \in MinThreads..MaxThreads
  <2>1. toJoin \in SUBSET Tids /\ Inited \in SUBSET Tids
    BY DEF ShapeInv, ThreadTypes, Inited
  <2>2. /\ Cardinality(toJoin) \in Nat
        /\ Cardinality(Inited) \in Nat /\ Cardinality(Inited) <= MaxThreads
    BY <2>1, ThreadsFinite
  <2>3. MinThreads + Cardinality(toJoin) <= Cardinality(Inited)
    BY <1>1 DEF FlagsInv, JoinedIfTold
  <2>4. initedThreadNum = Cardinality(Inited)
    BY DEF initedThreadNum, Inited
  <2>5. QED
    BY <2>2, <2>3, <2>4 DEF PoolSizes
<1>3. ASSUME NEW t \in Tids, initedFlags[t], t \notin toJoin
      PROVE  worker[t] # "exited" /\ ~abortFlags[t]
  <2>1. ~abortFlags[t]
    BY <1>1, <1>3 DEF FlagsInv, JoinedIfTold
  <2>2. ~Over(t)
    BY <1>1, <2>1 DEF FlagsInv, OverIfTold
  <2>3. QED
    BY <2>1, <2>2 DEF Over
<1>4. QED
  BY <1>2, <1>3 DEF ShapeInv, NotStarted

\* A cached pool shrinks without losing a thread: while it is not being stopped it keeps its
\* minimum, and a thread is over or told to abort only when the cocos thread is about to
\* join it, though tryShrinkPool reads flags that change under it.
THEOREM ThreadsAreKept == ASSUME PoolSizes PROVE Spec => []NoThreadIsLost
<1>1. ShapeInv /\ FlagsInv => NoThreadIsLost
  BY FlagsLoseNone
<1>2. QED
  BY <1>1, Flags, PTL

-----------------------------------------------------------------------------
(***************************************************************************)
(* The tasks.                                                              *)
(***************************************************************************)
\* Taking the first element of a queue removes it from what the queue holds, if it is
\* there once.
LEMMA HeldByTail ==
  ASSUME NEW S, NEW s \in Seq(S), s # << >>, Injective(s)
  PROVE  /\ Head(s) \in ToSet(s) /\ Injective(Tail(s))
         /\ ToSet(Tail(s)) = ToSet(s) \ {Head(s)}
<1>1. /\ Tail(s) \in Seq(S) /\ Len(Tail(s)) = Len(s) - 1 /\ Head(s) = s[1]
      /\ Len(s) \in Nat /\ Len(s) >= 1
      /\ \A i \in 1..Len(Tail(s)) : Tail(s)[i] = s[i + 1]
  BY HeadTailProperties, EmptySeq, LenProperties
<1>2. /\ ToSet(s) = {s[i] : i \in 1..Len(s)}
      /\ ToSet(Tail(s)) = {Tail(s)[i] : i \in 1..Len(Tail(s))}
  BY <1>1, HeldBySeq
<1>3. Head(s) \in ToSet(s)
  BY <1>1, <1>2
<1>4. Injective(Tail(s))
  <2>1. SUFFICES ASSUME NEW i \in 1..Len(Tail(s)), NEW j \in 1..Len(Tail(s)),
                        Tail(s)[i] = Tail(s)[j]
                 PROVE  i = j
    BY DEF Injective
  <2>2. i + 1 \in 1..Len(s) /\ j + 1 \in 1..Len(s) /\ s[i + 1] = s[j + 1]
    BY <1>1, <2>1
  <2>3. i + 1 = j + 1
    BY <2>2 DEF Injective
  <2>4. QED
    BY <2>3
<1>5. ASSUME NEW x \in ToSet(Tail(s)) PROVE x \in ToSet(s) \ {Head(s)}
  <2>1. PICK i \in 1..Len(Tail(s)) : x = Tail(s)[i]
    BY <1>2
  <2>2. i + 1 \in 1..Len(s) /\ 1 \in 1..Len(s) /\ x = s[i + 1] /\ i + 1 # 1
    BY <1>1, <2>1
  <2>3. s[i + 1] # s[1]
    BY <2>2 DEF Injective
  <2>4. QED
    BY <1>1, <1>2, <2>2, <2>3
<1>6. ASSUME NEW x \in ToSet(s) \ {Head(s)} PROVE x \in ToSet(Tail(s))
  <2>1. PICK i \in 1..Len(s) : x = s[i]
    BY <1>2
  <2>2. i # 1
    BY <1>1, <1>6, <2>1
  <2>3. i - 1 \in 1..Len(Tail(s)) /\ Tail(s)[i - 1] = s[(i - 1) + 1] /\ (i - 1) + 1 = i
    BY <1>1, <2>2
  <2>4. QED
    BY <1>2, <2>1, <2>3
<1>7. QED
  BY <1>3, <1>4, <1>5, <1>6

\* A new element at the end of a queue is there once.
LEMMA HeldByAppend ==
  ASSUME NEW S, NEW s \in Seq(S), NEW e \in S
  PROVE  /\ ToSet(Append(s, e)) = ToSet(s) \cup {e}
         /\ Injective(s) /\ e \notin ToSet(s) => Injective(Append(s, e))
<1>1. /\ Append(s, e) \in Seq(S) /\ Len(Append(s, e)) = Len(s) + 1 /\ Len(s) \in Nat
      /\ Append(s, e)[Len(s) + 1] = e
      /\ \A i \in 1..Len(s) : Append(s, e)[i] = s[i]
  BY AppendProperties, LenProperties
<1>2. /\ ToSet(s) = {s[i] : i \in 1..Len(s)}
      /\ ToSet(Append(s, e)) = {Append(s, e)[i] : i \in 1..Len(Append(s, e))}
  BY <1>1, HeldBySeq
<1>3. 1..Len(Append(s, e)) = (1..Len(s)) \cup {Len(s) + 1}
  BY <1>1
<1>4. ToSet(Append(s, e)) = ToSet(s) \cup {e}
  BY <1>1, <1>2, <1>3
<1>5. ASSUME Injective(s), e \notin ToSet(s) PROVE Injective(Append(s, e))
  <2>1. SUFFICES ASSUME NEW i \in 1..Len(Append(s, e)), NEW j \in 1..Len(Append(s, e)),
                        Append(s, e)[i] = Append(s, e)[j]
                 PROVE  i = j
    BY DEF Injective
  <2>2. \A m \in 1..Len(s) : s[m] # e
    BY <1>2, <1>5
  <2>3. QED
    BY <1>1, <1>3, <1>5, <2>1, <2>2 DEF Injective
<1>6. QED
  BY <1>4, <1>5

LEMMA EmptyHoldsNone == ToSet(<< >>) = {} /\ Injective(<< >>) /\ Len(<< >>) = 0
BY DEF ToSet, Injective

\* A thread takes a task that no thread has.
LEMMA HandTakes ==
  ASSUME NEW t \in Tids, task \in [Tids -> 0..MaxTasks], task[t] = NoTask,
         NEW x \in 0..MaxTasks, x # NoTask, x \notin Running, HandsApart,
         task' = [task EXCEPT ![t] = x]
  PROVE  Running' = Running \cup {x} /\ HandsApart'
<1>1. task'[t] = x /\ \A u \in Tids : u # t => task'[u] = task[u]
  OBVIOUS
<1>2. Running' = Running \cup {x}
  BY <1>1 DEF Running
<1>3. \A u \in Tids : task[u] # x
  BY DEF Running
<1>4. HandsApart'
  BY <1>1, <1>3 DEF HandsApart
<1>5. QED
  BY <1>2, <1>4

\* A thread is done with its task.
LEMMA HandGives ==
  ASSUME NEW t \in Tids, task \in [Tids -> 0..MaxTasks], task[t] # NoTask, HandsApart,
         task' = [task EXCEPT ![t] = NoTask]
  PROVE  task[t] \in Running /\ Running' = Running \ {task[t]} /\ HandsApart'
<1>1. task'[t] = NoTask /\ \A u \in Tids : u # t => task'[u] = task[u]
  OBVIOUS
<1>2. \A u \in Tids : u # t => task[u] # task[t]
  BY DEF HandsApart
<1>3. Running' = Running \ {task[t]}
  BY <1>1, <1>2 DEF Running
<1>4. HandsApart'
  BY <1>1 DEF HandsApart
<1>5. QED
  BY <1>3, <1>4 DEF Running

\* What a step does to the tasks, in the terms of TaskService; a task that no longer waits
\* or runs is done or dropped.
Submits ==
  /\ Len(typeOf)' = Len(typeOf) + 1 /\ Waiting' = Waiting \cup {Len(typeOf) + 1}
  /\ UNCHANGED <<Running, done, dropped>>

Starts ==
  /\ \E t \in Waiting : Waiting' = Waiting \ {t} /\ Running' = Running \cup {t}
  /\ UNCHANGED <<Len(typeOf), done, dropped>>

Finishes ==
  /\ \E t \in Running : Running' = Running \ {t} /\ done' = done \cup {t}
  /\ UNCHANGED <<Len(typeOf), Waiting, dropped>>

Drops ==
  /\ Waiting' \subseteq Waiting /\ dropped' = dropped \cup (Waiting \ Waiting')
  /\ UNCHANGED <<Len(typeOf), Running, done>>

Serves == Submits \/ Starts \/ Finishes \/ Drops

\* Such a step keeps each task in one place.
LEMMA ServesKeepsPlaces ==
  ASSUME PoolSizes, ShapeInv, OnePlace, Serves PROVE OnePlace'
<1>1. Len(typeOf) \in Nat
  BY DEF ShapeInv, QueueTypes
<1>2. CASE Submits
  <2>1. 1..(Len(typeOf) + 1) = (1..Len(typeOf)) \cup {Len(typeOf) + 1}
        /\ Len(typeOf) + 1 \notin 1..Len(typeOf)
    BY <1>1
  <2>2. QED
    BY <1>2, <2>1 DEF Submits, OnePlace
<1>3. CASE Starts
  BY <1>3 DEF Starts, OnePlace
<1>4. CASE Finishes
  BY <1>4 DEF Finishes, OnePlace
<1>5. CASE Drops
  BY <1>5 DEF Drops, OnePlace
<1>6. QED
  BY <1>2, <1>3, <1>4, <1>5 DEF Serves

\* A step that leaves the tasks alone.
LEMMA QuietKeepsTasks ==
  ASSUME PoolSizes, ShapeInv, TasksInv,
         UNCHANGED <<taskQueue, kept, task, typeOf, done, dropped>>,
         kept # << >> => op' \in {"stopTasks", "putBack"}
  PROVE  TasksInv' /\ Drops
<1>1. Waiting' = Waiting /\ Running' = Running
  BY DEF Waiting, Running
<1>2. Drops
  BY <1>1 DEF Drops
<1>3. QueuesApart' /\ HandsApart' /\ OnePlace'
  BY <1>1 DEF TasksInv, QueuesApart, HandsApart, OnePlace
<1>4. QED
  BY <1>2, <1>3 DEF TasksInv

\* A thread that pops starts the first task, if there is one.
LEMMA PopTasks ==
  ASSUME PoolSizes, ShapeInv, TasksInv, NEW t \in Tids, task[t] = NoTask, Pop(t),
         UNCHANGED <<typeOf, mainVars, done, dropped>>
  PROVE  TasksInv' /\ (Starts \/ Drops)
<1>1. UNCHANGED <<kept, op>>
  BY DEF mainVars
<1>2. CASE taskQueue = << >>
  BY <1>1, <1>2, QuietKeepsTasks DEF Pop, TasksInv, QueuesApart
<1>3. CASE taskQueue # << >>
  <2>1. taskQueue' = Tail(taskQueue) /\ task' = [task EXCEPT ![t] = Head(taskQueue)]
    BY <1>3 DEF Pop, Rest
  <2>2. taskQueue \in Seq(1..MaxTasks) /\ task \in [Tids -> 0..MaxTasks]
    BY DEF ShapeInv, QueueTypes, ThreadTypes
  <2>3. QueuesApart /\ HandsApart /\ OnePlace
    BY DEF TasksInv
  <2>4. /\ Head(taskQueue) \in ToSet(taskQueue) /\ Injective(Tail(taskQueue))
        /\ ToSet(Tail(taskQueue)) = ToSet(taskQueue) \ {Head(taskQueue)}
    BY <1>3, <2>2, <2>3, HeldByTail DEF QueuesApart
  <2>5. PICK h \in 1..MaxTasks : h = Head(taskQueue)
    BY <1>3, <2>2, HeadTailProperties
  <2>6. h \in Waiting /\ Waiting' = Waiting \ {h}
    <3>1. h \notin ToSet(kept)
      BY <2>3, <2>4, <2>5 DEF QueuesApart
    <3>2. QED
      BY <1>1, <2>1, <2>4, <2>5, <3>1 DEF Waiting
  <2>7. h \in 0..MaxTasks /\ h # NoTask /\ h \notin Running
    BY <2>3, <2>6 DEF NoTask, PoolSizes, OnePlace
  <2>8. Running' = Running \cup {h} /\ HandsApart'
    BY <2>1, <2>2, <2>3, <2>5, <2>7, HandTakes
  <2>9. Starts
    BY <2>6, <2>8 DEF Starts
  <2>10. OnePlace'
    BY <2>3, <2>9, ServesKeepsPlaces DEF Serves
  <2>11. QueuesApart'
    BY <1>1, <2>1, <2>3, <2>4 DEF QueuesApart
  <2>12. QED
    BY <2>8, <2>9, <2>10, <2>11 DEF TasksInv
<1>4. QED
  BY <1>2, <1>3

LEMMA WorkTasks ==
  ASSUME PoolSizes, ShapeInv, TasksInv, NEW t \in Tids, Work(t) PROVE TasksInv' /\ Serves
<1>1. CASE PopFirst(t)
  <2>1. worker[t] = "pop" /\ Pop(t) /\ UNCHANGED <<typeOf, mainVars, done, dropped>>
    BY <1>1 DEF PopFirst
  <2>2. task[t] = NoTask
    BY <2>1 DEF ShapeInv, TaskInHand, Pcs, Outside
  <2>3. QED
    BY <2>1, <2>2, PopTasks DEF Serves
<1>2. CASE TestPop(t)
  <2>1. worker[t] = "test" /\ Pop(t) /\ UNCHANGED <<typeOf, mainVars, done, dropped>>
    BY <1>2 DEF TestPop
  <2>2. task[t] = NoTask
    BY <2>1 DEF ShapeInv, TaskInHand, Pcs, Idle, Owning
  <2>3. QED
    BY <2>1, <2>2, PopTasks DEF Serves
<1>3. CASE RunTask(t)
  <2>1. /\ worker[t] = "run" /\ done' = done \cup {task[t]}
        /\ task' = [task EXCEPT ![t] = NoTask]
        /\ UNCHANGED <<taskQueue, typeOf, dropped, kept, op>>
    BY <1>3 DEF RunTask, mainVars
  <2>2. QueuesApart /\ HandsApart /\ OnePlace /\ task \in [Tids -> 0..MaxTasks] /\ task[t] # NoTask
    BY <2>1 DEF TasksInv, ShapeInv, ThreadTypes, TaskInHand
  <2>3. task[t] \in Running /\ Running' = Running \ {task[t]} /\ HandsApart'
    BY <2>1, <2>2, HandGives
  <2>4. Waiting' = Waiting /\ QueuesApart'
    BY <2>1, <2>2 DEF Waiting, QueuesApart
  <2>5. Finishes
    BY <2>1, <2>3, <2>4 DEF Finishes
  <2>6. OnePlace'
    BY <2>2, <2>5, ServesKeepsPlaces DEF Serves
  <2>7. QED
    BY <2>3, <2>4, <2>5, <2>6 DEF TasksInv, Serves
<1>4. ASSUME LockToWait(t) \/ SetIdleFlag(t) \/ TestFlags(t) \/ Wake(t) \/ ClearIdleFlag(t) \/ LeaveWait(t)
      PROVE  TasksInv' /\ Serves
  <2>1. UNCHANGED <<taskQueue, kept, task, typeOf, done, dropped, op>>
    BY <1>4 DEF LockToWait, SetIdleFlag, TestFlags, Wake, ClearIdleFlag, LeaveWait, mainVars, historyVars
  <2>2. QED
    BY <2>1, QuietKeepsTasks DEF Serves, TasksInv, QueuesApart
<1>5. QED
  BY <1>1, <1>2, <1>3, <1>4 DEF Work

LEMMA PushTaskTasks == ASSUME PoolSizes, ShapeInv, TasksInv, PushTask PROVE TasksInv' /\ Submits
<1>1. /\ op = "push" /\ taskQueue' = Append(taskQueue, Len(typeOf) + 1)
      /\ UNCHANGED <<kept, task, done, dropped>>
  BY DEF PushTask, workerVars, historyVars
<1>2. PICK type \in Types : typeOf' = Append(typeOf, type)
  BY DEF PushTask
<1>3. QueuesApart /\ HandsApart /\ OnePlace /\ RoomToPush
  BY DEF TasksInv, ShapeInv
<1>4. /\ typeOf \in Seq(Types) /\ taskQueue \in Seq(1..MaxTasks) /\ Len(typeOf) \in Nat
      /\ Len(typeOf) < MaxTasks
  BY <1>1, <1>3 DEF ShapeInv, QueueTypes, RoomToPush
<1>5. Len(typeOf') = Len(typeOf) + 1
  BY <1>2, <1>4, AppendProperties
<1>6. PICK n \in 1..MaxTasks : n = Len(typeOf) + 1
  BY <1>4 DEF PoolSizes
<1>7. n \notin Waiting
  <2>1. n \notin 1..Len(typeOf)
    BY <1>4, <1>6
  <2>2. QED
    BY <1>3, <2>1 DEF OnePlace
<1>8. kept = << >> /\ ToSet(kept) = {}
  BY <1>1, <1>3, EmptyHoldsNone DEF QueuesApart
<1>9. ToSet(taskQueue') = ToSet(taskQueue) \cup {n} /\ Injective(taskQueue')
  <2>1. n \notin ToSet(taskQueue)
    BY <1>7 DEF Waiting
  <2>2. QED
    BY <1>1, <1>3, <1>4, <1>6, <2>1, HeldByAppend DEF QueuesApart
<1>10. QueuesApart'
  BY <1>1, <1>3, <1>8, <1>9 DEF QueuesApart
<1>11. Waiting' = Waiting \cup {n} /\ Running' = Running
  BY <1>1, <1>9 DEF Waiting, Running
<1>12. Submits
  BY <1>1, <1>5, <1>6, <1>11 DEF Submits
<1>13. OnePlace'
  BY <1>3, <1>12, ServesKeepsPlaces DEF Serves
<1>14. HandsApart'
  BY <1>1, <1>3 DEF HandsApart
<1>15. QED
  BY <1>10, <1>12, <1>13, <1>14 DEF TasksInv

LEMMA StopOneTasks == ASSUME PoolSizes, ShapeInv, TasksInv, StopOne PROVE TasksInv' /\ Drops
<1>1. /\ op = "stopTasks" /\ taskQueue # << >> /\ taskQueue' = Tail(taskQueue)
      /\ \/ dropped' = dropped \cup {Head(taskQueue)} /\ kept' = kept
         \/ dropped' = dropped /\ kept' = Append(kept, Head(taskQueue))
      /\ UNCHANGED <<op, task, typeOf, done>>
  BY DEF StopOne, workerVars
<1>2. QueuesApart /\ HandsApart /\ OnePlace
  BY DEF TasksInv
<1>3. taskQueue \in Seq(1..MaxTasks) /\ kept \in Seq(1..MaxTasks)
  BY DEF ShapeInv, QueueTypes
<1>4. /\ Head(taskQueue) \in ToSet(taskQueue) /\ Injective(Tail(taskQueue))
      /\ ToSet(Tail(taskQueue)) = ToSet(taskQueue) \ {Head(taskQueue)}
  BY <1>1, <1>2, <1>3, HeldByTail DEF QueuesApart
<1>5. PICK h \in 1..MaxTasks : h = Head(taskQueue)
  BY <1>1, <1>3, HeadTailProperties
<1>6. h \in ToSet(taskQueue) /\ h \notin ToSet(kept)
  BY <1>2, <1>4, <1>5 DEF QueuesApart
<1>7. ToSet(taskQueue') = ToSet(taskQueue) \ {h} /\ Injective(taskQueue')
  BY <1>1, <1>4, <1>5
<1>8. Running' = Running /\ HandsApart'
  BY <1>1, <1>2 DEF Running, HandsApart
<1>9. CASE dropped' = dropped \cup {Head(taskQueue)} /\ kept' = kept
  <2>1. QueuesApart'
    BY <1>1, <1>2, <1>7, <1>9 DEF QueuesApart
  <2>2. Waiting' = Waiting \ {h} /\ h \in Waiting
    BY <1>6, <1>7, <1>9 DEF Waiting
  <2>3. Drops
    BY <1>1, <1>5, <1>8, <1>9, <2>2 DEF Drops
  <2>4. OnePlace'
    BY <1>2, <2>3, ServesKeepsPlaces DEF Serves
  <2>5. QED
    BY <1>8, <2>1, <2>3, <2>4 DEF TasksInv
<1>10. CASE dropped' = dropped /\ kept' = Append(kept, Head(taskQueue))
  <2>1. ToSet(kept') = ToSet(kept) \cup {h} /\ Injective(kept')
    <3>1. Injective(kept)
      BY <1>2 DEF QueuesApart
    <3>2. /\ ToSet(Append(kept, h)) = ToSet(kept) \cup {h}
          /\ Injective(kept) /\ h \notin ToSet(kept) => Injective(Append(kept, h))
      BY <1>3, HeldByAppend
    <3>3. QED
      BY <1>5, <1>6, <1>10, <3>1, <3>2
  <2>2. QueuesApart'
    BY <1>1, <1>2, <1>6, <1>7, <2>1 DEF QueuesApart
  <2>3. Waiting' = Waiting
    BY <1>6, <1>7, <2>1 DEF Waiting
  <2>4. Drops
    BY <1>1, <1>8, <1>10, <2>3 DEF Drops
  <2>5. OnePlace'
    BY <1>2, <2>4, ServesKeepsPlaces DEF Serves
  <2>6. QED
    BY <1>8, <2>2, <2>4, <2>5 DEF TasksInv
<1>11. QED
  BY <1>1, <1>9, <1>10

LEMMA PutBackTasks == ASSUME PoolSizes, ShapeInv, TasksInv, PutBack PROVE TasksInv' /\ Drops
<1>1. op = "putBack" /\ UNCHANGED <<typeOf, task, done, dropped>>
  BY DEF PutBack, workerVars
<1>2. QueuesApart /\ HandsApart /\ OnePlace
  BY DEF TasksInv
<1>3. taskQueue \in Seq(1..MaxTasks) /\ kept \in Seq(1..MaxTasks)
  BY DEF ShapeInv, QueueTypes
<1>4. CASE kept = << >>
  <2>1. UNCHANGED <<taskQueue, kept>>
    BY <1>4 DEF PutBack
  <2>2. QED
    BY <1>1, <1>4, <2>1, QuietKeepsTasks
<1>5. CASE kept # << >>
  <2>1. /\ taskQueue' = Append(taskQueue, Head(kept)) /\ kept' = Tail(kept) /\ op' = op
    BY <1>5 DEF PutBack, NextKept
  <2>2. /\ Head(kept) \in ToSet(kept) /\ Injective(Tail(kept))
        /\ ToSet(Tail(kept)) = ToSet(kept) \ {Head(kept)}
    BY <1>2, <1>3, <1>5, HeldByTail DEF QueuesApart
  <2>3. PICK h \in 1..MaxTasks : h = Head(kept)
    BY <1>3, <1>5, HeadTailProperties
  <2>4. h \in ToSet(kept) /\ h \notin ToSet(taskQueue)
    BY <1>2, <2>2, <2>3 DEF QueuesApart
  <2>5. ToSet(taskQueue') = ToSet(taskQueue) \cup {h} /\ Injective(taskQueue')
    <3>1. Injective(taskQueue)
      BY <1>2 DEF QueuesApart
    <3>2. /\ ToSet(Append(taskQueue, h)) = ToSet(taskQueue) \cup {h}
          /\ Injective(taskQueue) /\ h \notin ToSet(taskQueue) => Injective(Append(taskQueue, h))
      BY <1>3, HeldByAppend
    <3>3. QED
      BY <2>1, <2>3, <2>4, <3>1, <3>2
  <2>6. ToSet(kept') = ToSet(kept) \ {h} /\ Injective(kept')
    BY <2>1, <2>2, <2>3
  <2>7. QueuesApart'
    BY <1>1, <1>2, <2>1, <2>4, <2>5, <2>6 DEF QueuesApart
  <2>8. Waiting' = Waiting /\ Running' = Running /\ HandsApart'
    BY <1>1, <1>2, <2>4, <2>5, <2>6 DEF Waiting, Running, HandsApart
  <2>9. Drops
    BY <1>1, <2>8 DEF Drops
  <2>10. OnePlace'
    BY <1>2, <2>9, ServesKeepsPlaces DEF Serves
  <2>11. QED
    BY <2>7, <2>8, <2>9, <2>10 DEF TasksInv
<1>6. QED
  BY <1>4, <1>5

LEMMA EmptyQueueTasks == ASSUME PoolSizes, ShapeInv, TasksInv, EmptyQueue PROVE TasksInv' /\ Drops
<1>1. /\ op = "empty" /\ taskQueue' = << >> /\ dropped' = dropped \cup ToSet(taskQueue)
      /\ UNCHANGED <<kept, task, typeOf, done>>
  BY DEF EmptyQueue, workerVars
<1>2. QueuesApart /\ HandsApart /\ OnePlace
  BY DEF TasksInv
<1>3. kept = << >> /\ ToSet(kept) = {}
  BY <1>1, <1>2, EmptyHoldsNone DEF QueuesApart
<1>4. ToSet(taskQueue') = {} /\ Injective(taskQueue')
  BY <1>1, EmptyHoldsNone
<1>5. QueuesApart'
  BY <1>1, <1>2, <1>3, <1>4 DEF QueuesApart
<1>6. Waiting = ToSet(taskQueue) /\ Waiting' = {} /\ Running' = Running /\ HandsApart'
  BY <1>1, <1>2, <1>3, <1>4 DEF Waiting, Running, HandsApart
<1>7. Drops
  BY <1>1, <1>6 DEF Drops
<1>8. OnePlace'
  BY <1>2, <1>7, ServesKeepsPlaces DEF Serves
<1>9. QED
  BY <1>5, <1>6, <1>7, <1>8 DEF TasksInv

\* The other steps of the cocos thread.
LEMMA CallTasks ==
  ASSUME PoolSizes, ShapeInv, TasksInv,
         \/ ScanFlag \/ NotifyAll \/ (\E t \in Tids : Join(t)) \/ JoinedAll \/ NotifyOne \/ StoppedAll
         \/ PushAtOnce \/ PushShrinks \/ PushStretches \/ TryShrinkPool \/ Stop
         \/ (\E types \in SUBSET Types : StopTasks(types)) \/ UNCHANGED poolVars
  PROVE  TasksInv' /\ Drops
<1>1. UNCHANGED <<taskQueue, kept, task, typeOf, done, dropped>>
  BY DEF ScanFlag, NotifyAll, Join, JoinedAll, NotifyOne, StoppedAll, PushAtOnce, PushShrinks,
         PushStretches, TryShrinkPool, Stop, StopTasks, workerVars, historyVars, poolVars
<1>2. op = "stopTasks" => op' \in {"stopTasks", "putBack"}
  BY DEF ScanFlag, NotifyAll, Join, JoinedAll, NotifyOne, StoppedAll, PushAtOnce, PushShrinks,
         PushStretches, TryShrinkPool, Stop, StopTasks, MayPush, poolVars
<1>3. op = "putBack" => op' = "putBack"
  BY DEF ScanFlag, NotifyAll, Join, JoinedAll, NotifyOne, StoppedAll, PushAtOnce, PushShrinks,
         PushStretches, TryShrinkPool, Stop, StopTasks, MayPush, poolVars
<1>4. QED
  BY <1>1, <1>2, <1>3, QuietKeepsTasks DEF TasksInv, QueuesApart

LEMMA NextTasks ==
  ASSUME PoolSizes, ShapeInv, TasksInv, [Next]_poolVars PROVE TasksInv' /\ Serves
BY StepCases, WorkTasks, PushTaskTasks, StopOneTasks, PutBackTasks, EmptyQueueTasks, CallTasks
   DEF Serves

LEMMA InitTasks == ASSUME PoolSizes, Init PROVE TasksInv
<1>1. taskQueue = << >> /\ kept = << >> /\ typeOf = << >> /\ done = {} /\ dropped = {}
      /\ \A t \in Tids : task[t] = NoTask
  BY DEF Init
<1>2. QueuesApart
  BY <1>1, EmptyHoldsNone DEF QueuesApart
<1>3. Waiting = {} /\ Running = {}
  BY <1>1, EmptyHoldsNone DEF Waiting, Running
<1>4. 1..Len(typeOf) = {}
  BY <1>1
<1>5. QED
  BY <1>1, <1>2, <1>3, <1>4 DEF TasksInv, HandsApart, OnePlace

\* Each task that was pushed is in one place: it waits, is in the hand of one thread, ran or
\* was dropped.
THEOREM TasksPlaced == ASSUME PoolSizes PROVE Spec => [](ShapeInv /\ TasksInv)
<1>1. Init => TasksInv
  BY InitTasks
<1>2. ShapeInv /\ TasksInv /\ [Next]_poolVars => TasksInv'
  BY NextTasks
<1>3. QED
  BY <1>1, <1>2, Shape, PTL DEF Spec

\* What is left of a step when the history of the dropped tasks is forgotten.
LEMMA ServesAsService ==
  ASSUME Serves
  PROVE  [Service!Next]_<<Len(typeOf), ToSet(taskQueue) \cup ToSet(kept),
                          {task[t] : t \in Tids} \ {NoTask}, done>>
<1>1. CASE Submits
  BY <1>1 DEF Submits, Waiting, Running, Service!Next, Service!Submit
<1>2. CASE Starts
  BY <1>2 DEF Starts, Waiting, Running, Service!Next, Service!Start
<1>3. CASE Finishes
  BY <1>3 DEF Finishes, Waiting, Running, Service!Next, Service!Finish
<1>4. CASE Drops
  BY <1>4 DEF Drops, Waiting, Running, Service!Next, Service!Drop
<1>5. QED
  BY <1>1, <1>2, <1>3, <1>4 DEF Serves

\* ThreadPool implements TaskService: a task waits, runs once and is over, or is dropped
\* while it waits, whatever threads start, take, run and leave meanwhile.
THEOREM PoolImplementsService == ASSUME PoolSizes PROVE Spec => ImplementsService
<1>1. Init => Service!Init
  <2>1. SUFFICES ASSUME Init PROVE Service!Init
    OBVIOUS
  <2>2. taskQueue = << >> /\ kept = << >> /\ typeOf = << >> /\ done = {}
        /\ \A t \in Tids : task[t] = NoTask
    BY <2>1 DEF Init
  <2>3. QED
    BY <2>2, EmptyHoldsNone DEF Service!Init
<1>2. ShapeInv /\ TasksInv /\ [Next]_poolVars =>
        [Service!Next]_<<Len(typeOf), ToSet(taskQueue) \cup ToSet(kept),
                         {task[t] : t \in Tids} \ {NoTask}, done>>
  BY NextTasks, ServesAsService
<1>3. QED
  BY <1>1, <1>2, TasksPlaced, PTL DEF Spec, ImplementsService, Service!Spec

-----------------------------------------------------------------------------
(***************************************************************************)
(* Who will look for a task that waits.                                    *)
(***************************************************************************)
\* What is compared: the threads that look and the tasks of the queue.
LEMMA LookersFinite ==
  ASSUME PoolSizes, ShapeInv
  PROVE  /\ Looking \subseteq Tids /\ IsFiniteSet(Looking) /\ Cardinality(Looking) \in Nat
         /\ Len(taskQueue) \in Nat /\ Due \in {0, 1}
<1>1. Looking \subseteq Tids
  BY DEF ShapeInv, ThreadTypes, Looking, Sleeping
<1>2. QED
  BY <1>1, ThreadsFinite DEF ShapeInv, QueueTypes, Due

LEMMA LookersFiniteNext ==
  ASSUME PoolSizes, ShapeInv'
  PROVE  /\ Looking' \subseteq Tids /\ IsFiniteSet(Looking') /\ Cardinality(Looking') \in Nat
         /\ Len(taskQueue') \in Nat /\ Due' \in {0, 1}
<1>1. Looking' \subseteq Tids
  BY DEF ShapeInv, ThreadTypes, Looking, Sleeping
<1>2. QED
  BY <1>1, ThreadsFinite DEF ShapeInv, QueueTypes, Due

\* Fewer tasks, no fewer threads that look, none more that sleeps unnoticed, and none more
\* that has found the queue empty.
LEMMA QuietKeepsWake ==
  ASSUME PoolSizes, ShapeInv, ShapeInv', WakeInv,
         ~silent' => ~silent \/ Len(taskQueue') = 0, Len(taskQueue') <= Len(taskQueue),
         Looking \subseteq Looking', Due' = Due,
         Sleeping \subseteq notified => Sleeping' \subseteq notified',
         (\E t \in Tids : worker'[t] = "testFlags") => (\E t \in Tids : worker[t] = "testFlags")
  PROVE  WakeInv'
<1>1. /\ Looking' \subseteq Tids /\ IsFiniteSet(Looking') /\ Cardinality(Looking') \in Nat
      /\ Len(taskQueue') \in Nat /\ Due' \in {0, 1}
  BY LookersFiniteNext
<1>2. Cardinality(Looking) <= Cardinality(Looking') /\ Cardinality(Looking) \in Nat
  BY <1>1, FS_Subset, LookersFinite
<1>3. Len(taskQueue) \in Nat /\ Due \in {0, 1}
  BY LookersFinite
<1>4. EnoughLook'
  BY <1>1, <1>2, <1>3 DEF WakeInv, EnoughLook
<1>5. NoneMissed'
  BY <1>1, <1>3 DEF WakeInv, NoneMissed
<1>6. QED
  BY <1>4, <1>5 DEF WakeInv

\* Nobody misses a task when there is none.
LEMMA EmptyKeepsWake == ASSUME PoolSizes, ShapeInv', taskQueue' = << >> PROVE WakeInv'
<1>1. Len(taskQueue') = 0 /\ Cardinality(Looking') \in Nat /\ Due' \in {0, 1}
  BY LookersFiniteNext
<1>2. QED
  BY <1>1 DEF WakeInv, EnoughLook, NoneMissed

\* A thread that looks takes a task.
LEMMA TakeKeepsWake ==
  ASSUME PoolSizes, ShapeInv, ShapeInv', WakeInv, NEW t \in Looking, Looking' = Looking \ {t},
         taskQueue # << >>, taskQueue' = Tail(taskQueue),
         ~silent' => ~silent \/ ~(Len(taskQueue) > 1), Due' = Due,
         Sleeping \subseteq notified => Sleeping' \subseteq notified',
         (\E u \in Tids : worker'[u] = "testFlags") => (\E u \in Tids : worker[u] = "testFlags")
  PROVE  WakeInv'
<1>1. /\ IsFiniteSet(Looking) /\ Cardinality(Looking) \in Nat
      /\ Len(taskQueue) \in Nat /\ Due \in {0, 1}
  BY LookersFinite
<1>2. Len(taskQueue') = Len(taskQueue) - 1 /\ Len(taskQueue) >= 1
  BY HeadTailProperties, EmptySeq, <1>1 DEF ShapeInv, QueueTypes
<1>3. Cardinality(Looking') = Cardinality(Looking) - 1
  BY <1>1, FS_RemoveElement
<1>4. ~silent' => ~silent \/ Len(taskQueue') = 0
  BY <1>1, <1>2
<1>5. Cardinality(Looking') \in Nat /\ Due' \in {0, 1}
  BY LookersFiniteNext
<1>6. EnoughLook'
  BY <1>1, <1>2, <1>3, <1>4, <1>5 DEF WakeInv, EnoughLook
<1>7. NoneMissed'
  BY <1>1, <1>2, <1>4, <1>5 DEF WakeInv, NoneMissed
<1>8. QED
  BY <1>6, <1>7 DEF WakeInv

\* What a thread that moves does to the sets of threads.
LEMMA SetsFollow ==
  ASSUME ThreadTypes, NEW t \in Tids, NEW pc \in Pcs, Goto(t, pc)
  PROVE  /\ Sleeping' = IF pc = "asleep" THEN Sleeping \cup {t} ELSE Sleeping \ {t}
         /\ Looking' = (IF pc \in {"pop", "lock", "flag", "test"}
                        THEN {u \in Tids : worker[u] \in {"pop", "lock", "flag", "test"}} \cup {t}
                        ELSE {u \in Tids : worker[u] \in {"pop", "lock", "flag", "test"}} \ {t})
                       \cup notified'
<1>1. /\ worker'[t] = pc
      /\ \A u \in Tids : u # t => worker'[u] = worker[u]
  BY Moved
<1>2. Sleeping' = IF pc = "asleep" THEN Sleeping \cup {t} ELSE Sleeping \ {t}
  BY <1>1 DEF Sleeping
<1>3. CASE pc \in {"pop", "lock", "flag", "test"}
  BY <1>1, <1>2, <1>3 DEF Looking
<1>4. CASE pc \notin {"pop", "lock", "flag", "test"}
  BY <1>1, <1>2, <1>4 DEF Looking
<1>5. QED
  BY <1>2, <1>3, <1>4

LEMMA WorkWake ==
  ASSUME PoolSizes, ShapeInv, WakeInv, NEW t \in Tids, Work(t) PROVE WakeInv'
<1>1. ShapeInv' /\ ThreadTypes /\ notified \subseteq Sleeping
  BY WorkShape DEF ShapeInv, ThreadTypes
<1>2. ASSUME NEW pc \in Pcs, Goto(t, pc), pc # "testFlags"
      PROVE  (\E u \in Tids : worker'[u] = "testFlags") => (\E u \in Tids : worker[u] = "testFlags")
  BY <1>1, <1>2, Moved
<1>3. Len(taskQueue) \in Nat /\ Due \in {0, 1} /\ Cardinality(Looking) \in Nat
  BY LookersFinite
<1>4. ASSUME NEW pc \in {"run", "leave"}, worker[t] \in {"pop", "test"}, taskQueue # << >>,
             Goto(t, pc), Pop(t), UNCHANGED <<notified, op>>
      PROVE  WakeInv'
  <2>1. pc \in Pcs /\ pc # "testFlags" /\ pc # "asleep" /\ pc \notin {"pop", "lock", "flag", "test"}
    BY DEF Pcs, Outside, Idle, Owning
  <2>2. Goto(t, pc) /\ worker[t] # "asleep"
    BY <1>4
  <2>3. t \in Looking /\ Looking' = Looking \ {t} /\ Sleeping' = Sleeping
    BY <1>1, <1>4, <2>1, <2>2, SetsFollow DEF Looking, Sleeping
  <2>4. /\ taskQueue' = Tail(taskQueue)
        /\ ~silent' => ~silent \/ ~(Len(taskQueue) > 1)
    BY <1>4 DEF Pop, Rest
  <2>5. Due' = Due
    BY <1>4 DEF Due
  <2>6. (\E u \in Tids : worker'[u] = "testFlags") => (\E u \in Tids : worker[u] = "testFlags")
    BY <1>2, <2>1, <2>2
  <2>7. QED
    BY <1>1, <1>4, <2>3, <2>4, <2>5, <2>6, TakeKeepsWake
<1>5. CASE PopFirst(t)
  <2>1. CASE taskQueue = << >>
    BY <1>1, <1>5, <2>1, EmptyKeepsWake DEF PopFirst, Pop
  <2>2. CASE taskQueue # << >>
    <3>1. worker[t] = "pop" /\ Goto(t, "run") /\ Pop(t) /\ UNCHANGED <<notified, op>>
      BY <1>5, <2>2 DEF PopFirst, mainVars
    <3>2. QED
      BY <1>4, <2>2, <3>1
  <2>3. QED
    BY <2>1, <2>2
<1>6. CASE TestPop(t)
  <2>1. CASE taskQueue = << >>
    BY <1>1, <1>6, <2>1, EmptyKeepsWake DEF TestPop, Pop
  <2>2. CASE taskQueue # << >>
    <3>1. worker[t] = "test" /\ Goto(t, "leave") /\ Pop(t) /\ UNCHANGED <<notified, op>>
      BY <1>6, <2>2 DEF TestPop, mainVars
    <3>2. QED
      BY <1>4, <2>2, <3>1
  <2>3. QED
    BY <2>1, <2>2
<1>7. ASSUME NEW pc \in Pcs, Goto(t, pc), UNCHANGED <<taskQueue, silent, op>>, pc # "testFlags",
             Looking \subseteq Looking', Sleeping \subseteq notified => Sleeping' \subseteq notified'
      PROVE  WakeInv'
  <2>1. Due' = Due /\ Len(taskQueue') <= Len(taskQueue) /\ (~silent' => ~silent)
    BY <1>3, <1>7 DEF Due
  <2>2. QED
    BY <1>1, <1>2, <1>7, <2>1, QuietKeepsWake
<1>8. CASE RunTask(t)
  <2>1. PICK pc \in {"exited", "pop"} : Goto(t, pc)
    BY <1>8 DEF RunTask, AfterTask
  <2>2. worker[t] = "run" /\ UNCHANGED <<taskQueue, silent, op, notified>>
    BY <1>8 DEF RunTask, mainVars
  <2>3. pc \in Pcs /\ pc # "testFlags" /\ pc # "asleep"
    BY <2>1 DEF Pcs, Outside
  <2>4. Looking \subseteq Looking' /\ Sleeping' \subseteq Sleeping
    BY <1>1, <2>1, <2>2, <2>3, SetsFollow DEF Looking
  <2>5. QED
    BY <1>7, <2>1, <2>2, <2>3, <2>4
<1>9. ASSUME LockToWait(t) \/ SetIdleFlag(t)
      PROVE  WakeInv'
  <2>1. PICK pc \in {"flag", "test"} : Goto(t, pc)
    BY <1>9 DEF LockToWait, SetIdleFlag
  <2>2. UNCHANGED <<taskQueue, silent, op, notified>>
    BY <1>9 DEF LockToWait, SetIdleFlag, mainVars, historyVars
  <2>3. pc \in Pcs /\ pc # "testFlags" /\ pc # "asleep"
    BY <2>1 DEF Pcs, Idle, Owning
  <2>4. Looking \subseteq Looking' /\ Sleeping' \subseteq Sleeping
    BY <1>1, <2>1, <2>2, <2>3, SetsFollow DEF Looking
  <2>5. QED
    BY <1>7, <2>1, <2>2, <2>3, <2>4
<1>10. CASE TestFlags(t)
  <2>1. worker[t] = "testFlags" /\ UNCHANGED <<taskQueue, silent, op, notified>>
    BY <1>10 DEF TestFlags, mainVars, historyVars
  <2>2. "leave" \in Pcs /\ "asleep" \in Pcs
    BY DEF Pcs, Idle, Owning
  <2>3. CASE Goto(t, "leave")
    <3>1. Looking \subseteq Looking' /\ Sleeping' \subseteq Sleeping
      BY <1>1, <2>1, <2>2, <2>3, SetsFollow DEF Looking
    <3>2. QED
      BY <1>7, <2>1, <2>2, <2>3, <3>1
  <2>4. CASE Goto(t, "asleep")
    <3>1. ~silent => Len(taskQueue) <= Due
      BY <2>1 DEF WakeInv, NoneMissed
    <3>2. Due' = Due /\ taskQueue' = taskQueue /\ silent' = silent /\ Cardinality(Looking') \in Nat
      BY <1>1, <2>1, LookersFiniteNext DEF Due
    <3>3. EnoughLook' /\ NoneMissed'
      BY <1>3, <3>1, <3>2 DEF EnoughLook, NoneMissed
    <3>4. QED
      BY <3>3 DEF WakeInv
  <2>5. QED
    BY <1>10, <2>3, <2>4 DEF TestFlags
<1>11. CASE Wake(t)
  <2>1. /\ worker[t] = "asleep" /\ t \in notified /\ notified' = notified \ {t} /\ Goto(t, "test")
        /\ UNCHANGED <<taskQueue, silent, op>>
    BY <1>11 DEF Wake, mainVars, historyVars
  <2>2. "test" \in Pcs
    BY DEF Pcs, Idle, Owning
  <2>3. Looking \subseteq Looking' /\ Sleeping' = Sleeping \ {t}
    BY <1>1, <2>1, <2>2, SetsFollow DEF Looking
  <2>4. QED
    BY <1>7, <2>1, <2>2, <2>3
<1>12. ASSUME ClearIdleFlag(t) \/ LeaveWait(t)
       PROVE  WakeInv'
  <2>1. PICK pc \in {"count", "run", "exited"} : Goto(t, pc)
    BY <1>12 DEF ClearIdleFlag, LeaveWait
  <2>2. worker[t] \in {"leave", "count"} /\ UNCHANGED <<taskQueue, silent, op, notified>>
    BY <1>12 DEF ClearIdleFlag, LeaveWait, mainVars, historyVars
  <2>3. pc \in Pcs /\ pc # "testFlags" /\ pc # "asleep"
    BY <2>1 DEF Pcs, Idle, Owning, Outside
  <2>4. Looking \subseteq Looking' /\ Sleeping' \subseteq Sleeping
    BY <1>1, <2>1, <2>2, <2>3, SetsFollow DEF Looking
  <2>5. QED
    BY <1>7, <2>1, <2>2, <2>3, <2>4
<1>13. QED
  BY <1>5, <1>6, <1>8, <1>9, <1>10, <1>11, <1>12 DEF Work

LEMMA PushTaskWake == ASSUME PoolSizes, ShapeInv, WakeInv, PushTask PROVE WakeInv'
<1>1. /\ op = "push" /\ op' = "notify" /\ taskQueue' = Append(taskQueue, Len(typeOf) + 1)
      /\ UNCHANGED <<worker, notified, silent>>
  BY DEF PushTask, historyVars
<1>2. Len(taskQueue) \in Nat /\ Cardinality(Looking) \in Nat
  BY LookersFinite
<1>3. Len(taskQueue') = Len(taskQueue) + 1
  <2>1. taskQueue \in Seq(1..MaxTasks) /\ Len(typeOf) + 1 \in 1..MaxTasks
    BY <1>1 DEF ShapeInv, QueueTypes, RoomToPush, PoolSizes
  <2>2. QED
    BY <1>1, <2>1, AppendProperties
<1>4. Looking' = Looking /\ Sleeping' = Sleeping
  BY <1>1 DEF Looking, Sleeping
<1>5. Due = 0 /\ Due' = 1
  BY <1>1 DEF Due
<1>6. EnoughLook'
  BY <1>1, <1>2, <1>3, <1>4, <1>5 DEF WakeInv, EnoughLook
<1>7. NoneMissed'
  BY <1>1, <1>2, <1>3, <1>5 DEF WakeInv, NoneMissed
<1>8. QED
  BY <1>6, <1>7 DEF WakeInv

\* The notification needs the mutex, and so comes when no thread is between its test of the
\* queue and its sleep.
LEMMA NotifyOneWake == ASSUME PoolSizes, ShapeInv, WakeInv, NotifyOne PROVE WakeInv'
<1>1. /\ op = "notify" /\ mutex = NoOwner /\ op' = "none"
      /\ \/ Sleeping \subseteq notified /\ notified' = notified
         \/ \E t \in Sleeping \ notified : notified' = notified \cup {t}
      /\ UNCHANGED <<taskQueue, worker, silent>>
  BY DEF NotifyOne, WakeOne, historyVars
<1>2. /\ Len(taskQueue) \in Nat /\ Cardinality(Looking) \in Nat /\ IsFiniteSet(Looking)
  BY LookersFinite
<1>3. Due = 1 /\ Due' = 0 /\ Sleeping' = Sleeping
  BY <1>1 DEF Due, Sleeping
<1>4. ASSUME NEW t \in Tids PROVE worker'[t] # "testFlags"
  <2>1. mutex # t
    BY <1>1 DEF Tids, NoOwner, PoolSizes
  <2>2. QED
    BY <1>1, <2>1 DEF ShapeInv, MutexHeld, Owning
<1>5. NoneMissed'
  BY <1>4 DEF NoneMissed
<1>6. CASE Sleeping \subseteq notified /\ notified' = notified
  BY <1>3, <1>5, <1>6 DEF WakeInv, EnoughLook
<1>7. CASE \E t \in Sleeping \ notified : notified' = notified \cup {t}
  <2>1. PICK t \in Sleeping \ notified : notified' = notified \cup {t}
    BY <1>7
  <2>2. t \notin Looking /\ Looking' = Looking \cup {t}
    BY <1>1, <2>1 DEF Looking, Sleeping
  <2>3. Cardinality(Looking \cup {t}) = Cardinality(Looking) + 1
    BY <1>2, <2>2, FS_AddElement
  <2>4. ~silent => Len(taskQueue) <= Cardinality(Looking) + 1
    BY <1>3, <2>1 DEF WakeInv, EnoughLook
  <2>5. EnoughLook'
    BY <1>1, <1>2, <1>3, <2>2, <2>3, <2>4 DEF EnoughLook
  <2>6. QED
    BY <1>5, <2>5 DEF WakeInv
<1>8. QED
  BY <1>1, <1>6, <1>7

\* A step of the cocos thread that moves no thread, pushes no task and notifies none.
LEMMA CallKeepsWake ==
  ASSUME PoolSizes, ShapeInv, ShapeInv', WakeInv, UNCHANGED <<worker, silent>>,
         notified' = notified \/ notified' = Sleeping,
         taskQueue' = taskQueue \/ (taskQueue' = Tail(taskQueue) /\ taskQueue # << >>),
         op = op' \/ (op # "notify" /\ op' # "notify")
  PROVE  WakeInv'
<1>1. Sleeping' = Sleeping /\ notified \subseteq Sleeping
  BY DEF Sleeping, ShapeInv, ThreadTypes
<1>2. Looking \subseteq Looking'
  BY <1>1 DEF Looking
<1>3. Sleeping \subseteq notified => Sleeping' \subseteq notified'
  BY <1>1
<1>4. Len(taskQueue') <= Len(taskQueue)
  <2>1. CASE taskQueue' = taskQueue
    BY <2>1, LookersFinite
  <2>2. CASE taskQueue' = Tail(taskQueue) /\ taskQueue # << >>
    <3>1. Len(Tail(taskQueue)) = Len(taskQueue) - 1 /\ Len(taskQueue) \in Nat
      BY <2>2, HeadTailProperties, LookersFinite DEF ShapeInv, QueueTypes
    <3>2. Len(taskQueue') = Len(Tail(taskQueue))
      BY <2>2
    <3>3. QED
      BY <3>1, <3>2
  <2>3. QED
    BY <2>1, <2>2
<1>5. Due' = Due
  BY DEF Due
<1>6. QED
  BY <1>2, <1>3, <1>4, <1>5, QuietKeepsWake

LEMMA PushStretchesWake == ASSUME PoolSizes, ShapeInv, WakeInv, PushStretches PROVE WakeInv'
<1>1. op = "none" /\ op' = "push" /\ UNCHANGED <<notified, taskQueue, silent>>
  BY DEF PushStretches, MayPush, historyVars
<1>2. ShapeInv'
  BY PushStretchesShape
<1>3. Sleeping' = Sleeping /\ Looking \subseteq Looking'
  BY <1>1, Stretched DEF Sleeping, Looking
<1>4. (\E t \in Tids : worker'[t] = "testFlags") => (\E t \in Tids : worker[t] = "testFlags")
  BY Stretched
<1>5. Due' = Due /\ Len(taskQueue') <= Len(taskQueue)
  BY <1>1, LookersFinite DEF Due
<1>6. QED
  BY <1>1, <1>2, <1>3, <1>4, <1>5, QuietKeepsWake

LEMMA PutBackWake == ASSUME PoolSizes, ShapeInv, WakeInv, PutBack PROVE WakeInv'
<1>1. ShapeInv'
  BY PutBackShape
<1>2. CASE kept = << >>
  <2>1. op = "putBack" /\ op' = "none" /\ UNCHANGED <<worker, silent, notified, taskQueue>>
    BY <1>2 DEF PutBack
  <2>2. op # "notify" /\ op' # "notify"
    BY <2>1
  <2>3. taskQueue' = taskQueue /\ notified' = notified /\ worker' = worker /\ silent' = silent
    BY <2>1
  <2>4. QED
    BY <1>1, <2>2, <2>3, CallKeepsWake
<1>3. CASE kept # << >>
  <2>1. silent' = TRUE
    BY <1>3 DEF PutBack
  <2>2. QED
    BY <2>1 DEF WakeInv, EnoughLook, NoneMissed
<1>4. QED
  BY <1>2, <1>3

LEMMA EmptyQueueWake == ASSUME PoolSizes, ShapeInv, EmptyQueue PROVE WakeInv'
<1>1. ShapeInv' /\ taskQueue' = << >>
  BY EmptyQueueShape DEF EmptyQueue
<1>2. QED
  BY <1>1, EmptyKeepsWake

\* The other steps of the cocos thread.
LEMMA CallWake ==
  ASSUME PoolSizes, ShapeInv, ShapeInv', WakeInv,
         \/ ScanFlag \/ NotifyAll \/ (\E t \in Tids : Join(t)) \/ JoinedAll \/ StopOne \/ StoppedAll
         \/ PushAtOnce \/ PushShrinks \/ TryShrinkPool \/ Stop
         \/ (\E types \in SUBSET Types : StopTasks(types)) \/ UNCHANGED poolVars
  PROVE  WakeInv'
<1>1. UNCHANGED <<worker, silent>>
  BY DEF ScanFlag, NotifyAll, Join, JoinedAll, StopOne, StoppedAll, PushAtOnce, PushShrinks,
         TryShrinkPool, Stop, StopTasks, historyVars, poolVars
<1>2. notified' = notified \/ notified' = Sleeping
  BY DEF ScanFlag, NotifyAll, Join, JoinedAll, StopOne, StoppedAll, PushAtOnce, PushShrinks,
         TryShrinkPool, Stop, StopTasks, poolVars
<1>3. taskQueue' = taskQueue \/ (taskQueue' = Tail(taskQueue) /\ taskQueue # << >>)
  <2>1. CASE StopOne
    BY <2>1 DEF StopOne
  <2>2. CASE ~StopOne
    <3>1. taskQueue' = taskQueue
      BY <2>2 DEF ScanFlag, NotifyAll, Join, JoinedAll, StoppedAll, PushAtOnce, PushShrinks,
                  TryShrinkPool, Stop, StopTasks, poolVars
    <3>2. QED
      BY <3>1
  <2>3. QED
    BY <2>1, <2>2
<1>4. op = op' \/ (op # "notify" /\ op' # "notify")
  BY DEF ScanFlag, NotifyAll, Join, JoinedAll, StopOne, StoppedAll, PushAtOnce, PushShrinks,
         TryShrinkPool, Stop, StopTasks, MayPush, poolVars
<1>5. QED
  BY <1>1, <1>2, <1>3, <1>4, CallKeepsWake

LEMMA NextWake == ASSUME PoolSizes, ShapeInv, WakeInv, [Next]_poolVars PROVE WakeInv'
<1>1. ShapeInv'
  BY NextShape
<1>2. QED
  BY <1>1, StepCases, WorkWake, PushTaskWake, NotifyOneWake, PushStretchesWake, PutBackWake,
     EmptyQueueWake, CallWake

LEMMA InitWake == ASSUME PoolSizes, Init PROVE WakeInv
<1>1. Sleeping = {} /\ \A t \in Tids : worker[t] # "testFlags"
  BY DEF Init, Sleeping
<1>2. QED
  BY <1>1 DEF WakeInv, EnoughLook, NoneMissed

\* Unless every sleeping thread is notified, each task that waits has a thread that will look
\* for it or a notification on its way.
THEOREM Woken == ASSUME PoolSizes PROVE Spec => [](ShapeInv /\ WakeInv)
<1>1. Init => WakeInv
  BY InitWake
<1>2. ShapeInv /\ WakeInv /\ [Next]_poolVars => WakeInv'
  BY NextWake
<1>3. QED
  BY <1>1, <1>2, Shape, PTL DEF Spec

\* No task waits for a busy thread while another one sleeps: between the calls, either every
\* sleeping thread is being woken or each task of the queue has a thread that will look for
\* one.  Only what stopTasksByType puts back is left without.
THEOREM TasksHaveThreads == ASSUME PoolSizes PROVE Spec => []EveryTaskHasAThread
<1>1. ShapeInv /\ WakeInv => EveryTaskHasAThread
  <2>1. SUFFICES ASSUME ShapeInv, WakeInv PROVE EveryTaskHasAThread
    OBVIOUS
  <2>2. Cardinality(Looking) \in Nat /\ Len(taskQueue) \in Nat
    BY <2>1, LookersFinite
  <2>3. op # "notify" => Due = 0
    BY DEF Due
  <2>4. QED
    BY <2>1, <2>2, <2>3 DEF WakeInv, EnoughLook, EveryTaskHasAThread
<1>2. QED
  BY <1>1, Woken, PTL

-----------------------------------------------------------------------------
(***************************************************************************)
(* The destructor.  A pool that may shrink to no thread at all can be left *)
(* with a task and no thread (tryShrinkPool joins the last just before     *)
(* pushTask pushes), so that the minimum is at least one here, as it is    *)
(* for every pool the engine creates.                                      *)
(***************************************************************************)
\* The step of a thread while the pool stops.
LEMMA ThreadKeepsSome ==
  ASSUME ShapeInv, SomeLeft, NEW t \in Tids, NEW pc \in Pcs, Goto(t, pc),
         UNCHANGED <<flagVars, mainVars>>,
         \A u \in Tids : u # t => task'[u] = task[u],
         ~silent' => ~silent \/ taskQueue' = << >>,
         taskQueue = << >> => taskQueue' = << >>,
         isDone /\ t \in toJoin /\ ~silent /\ taskQueue # << >> /\ ~Over(t) =>
           ~(pc = "exited" \/ (pc \in {"leave", "count"} /\ task'[t] = NoTask))
  PROVE  SomeLeft'
<1>1. /\ worker'[t] = pc
      /\ \A u \in Tids : u # t => worker'[u] = worker[u]
  BY Moved DEF ShapeInv
<1>2. UNCHANGED <<isDone, abortFlags, initedFlags, toJoin>>
  BY DEF flagVars, mainVars
<1>3. toJoin \subseteq Tids
  BY DEF ShapeInv, ThreadTypes
<1>4. ASSUME isDone', ~silent', taskQueue' # << >>
      PROVE  toJoin' # {} /\ \A u \in toJoin' : ~Over(u)'
  <2>1. isDone /\ ~silent /\ taskQueue # << >>
    BY <1>2, <1>4
  <2>2. toJoin # {} /\ \A u \in toJoin : ~Over(u)
    BY <2>1 DEF SomeLeft
  <2>3. ASSUME NEW u \in toJoin' PROVE ~Over(u)'
    <3>1. u \in toJoin /\ u \in Tids /\ ~Over(u)
      BY <1>2, <1>3, <2>2, <2>3
    <3>2. CASE u = t
      BY <1>1, <2>1, <3>1, <3>2 DEF Over
    <3>3. CASE u # t
      BY <1>1, <3>1, <3>3 DEF Over
    <3>4. QED
      BY <3>2, <3>3
  <2>4. QED
    BY <1>2, <2>2, <2>3
<1>5. Inited' = Inited
  BY <1>2 DEF Inited
<1>6. QED
  BY <1>2, <1>4, <1>5 DEF SomeLeft

LEMMA WorkSome ==
  ASSUME PoolSizes, ShapeInv, FlagsInv, WakeInv, SomeLeft, NEW t \in Tids, Work(t)
  PROVE  SomeLeft'
<1>1. ThreadTypes /\ TaskInHand
  BY DEF ShapeInv
<1>2. ASSUME Pop(t), task[t] = NoTask
      PROVE  /\ \A u \in Tids : u # t => task'[u] = task[u]
             /\ ~silent' => ~silent \/ taskQueue' = << >>
             /\ taskQueue = << >> => taskQueue' = << >>
             /\ taskQueue # << >> => task'[t] # NoTask
  <2>1. /\ \A u \in Tids : u # t => task'[u] = task[u]
        /\ taskQueue # << >> => task'[t] # NoTask
    BY <1>2, PopTypes
  <2>2. CASE taskQueue = << >>
    BY <1>2, <2>1, <2>2 DEF Pop
  <2>3. CASE taskQueue # << >>
    <3>1. /\ taskQueue' = Tail(taskQueue)
          /\ ~silent' => ~silent \/ ~(Len(taskQueue) > 1)
      BY <1>2, <2>3 DEF Pop, Rest
    <3>2. /\ Tail(taskQueue) \in Seq(1..MaxTasks) /\ Len(Tail(taskQueue)) = Len(taskQueue) - 1
          /\ Len(taskQueue) \in Nat /\ Len(taskQueue) # 0
      BY <2>3, HeadTailProperties, EmptySeq, LookersFinite DEF ShapeInv, QueueTypes
    <3>3. ~(Len(taskQueue) > 1) => Tail(taskQueue) = << >>
      BY <3>2, EmptySeq
    <3>4. QED
      BY <2>1, <2>3, <3>1, <3>3
  <2>4. QED
    BY <2>2, <2>3
<1>3. CASE PopFirst(t)
  <2>1. PICK pc \in {"lock", "run"} : Goto(t, pc)
    BY <1>3 DEF PopFirst
  <2>2. worker[t] = "pop" /\ Pop(t) /\ UNCHANGED <<flagVars, mainVars>>
    BY <1>3 DEF PopFirst
  <2>3. task[t] = NoTask
    BY <1>1, <2>2 DEF TaskInHand, Pcs, Outside
  <2>4. QED
    BY <1>2, <2>1, <2>2, <2>3, ThreadKeepsSome DEF Pcs, Outside
<1>4. CASE TestPop(t)
  <2>1. /\ worker[t] = "test" /\ Pop(t) /\ UNCHANGED <<flagVars, mainVars>>
        /\ Goto(t, IF taskQueue = << >> THEN "testFlags" ELSE "leave")
    BY <1>4 DEF TestPop
  <2>2. task[t] = NoTask
    BY <1>1, <2>1 DEF TaskInHand, Pcs, Idle, Owning
  <2>3. CASE taskQueue = << >>
    <3>1. Goto(t, "testFlags")
      BY <2>1, <2>3
    <3>2. QED
      BY <1>2, <2>1, <2>2, <2>3, <3>1, ThreadKeepsSome DEF Pcs, Idle, Owning
  <2>4. CASE taskQueue # << >>
    <3>1. Goto(t, "leave")
      BY <2>1, <2>4
    <3>2. QED
      BY <1>2, <2>1, <2>2, <2>4, <3>1, ThreadKeepsSome DEF Pcs, Idle, Owning
  <2>5. QED
    BY <2>3, <2>4
<1>5. CASE RunTask(t)
  <2>1. /\ Goto(t, IF abortFlags[t] THEN "exited" ELSE "pop")
        /\ task' = [task EXCEPT ![t] = NoTask]
        /\ UNCHANGED <<taskQueue, silent, flagVars, mainVars>>
    BY <1>5 DEF RunTask, AfterTask
  <2>2. \A u \in Tids : u # t => task'[u] = task[u]
    BY <1>1, <2>1 DEF ThreadTypes
  <2>3. CASE abortFlags[t]
    <3>1. Goto(t, "exited") /\ ~(isDone /\ t \in toJoin)
      BY <2>1, <2>3 DEF SomeLeft
    <3>2. QED
      BY <2>1, <2>2, <3>1, ThreadKeepsSome DEF Pcs, Outside
  <2>4. CASE ~abortFlags[t]
    <3>1. Goto(t, "pop")
      BY <2>1, <2>4
    <3>2. QED
      BY <2>1, <2>2, <3>1, ThreadKeepsSome DEF Pcs, Outside
  <2>5. QED
    BY <2>3, <2>4
<1>6. CASE TestFlags(t)
  <2>1. worker[t] = "testFlags" /\ UNCHANGED <<taskQueue, silent, task, flagVars, mainVars>>
    BY <1>6 DEF TestFlags, historyVars
  <2>2. ~(isDone /\ ~silent /\ taskQueue # << >>)
    <3>1. ~silent => Len(taskQueue) <= Due
      BY <2>1 DEF WakeInv, NoneMissed
    <3>2. isDone => Due = 0
      BY DEF FlagsInv, JoinsInCalls, Due
    <3>3. Len(taskQueue) \in Nat /\ (Len(taskQueue) = 0 => taskQueue = << >>)
      BY EmptySeq, LookersFinite DEF ShapeInv, QueueTypes
    <3>4. QED
      BY <3>1, <3>2, <3>3
  <2>3. PICK pc \in {"leave", "asleep"} : Goto(t, pc)
    BY <1>6 DEF TestFlags
  <2>4. QED
    BY <2>1, <2>2, <2>3, ThreadKeepsSome DEF Pcs, Idle, Owning
<1>7. ASSUME LockToWait(t) \/ SetIdleFlag(t) \/ Wake(t)
      PROVE  SomeLeft'
  <2>1. PICK pc \in {"flag", "test"} : Goto(t, pc)
    BY <1>7 DEF LockToWait, SetIdleFlag, Wake
  <2>2. UNCHANGED <<taskQueue, silent, task, flagVars, mainVars>>
    BY <1>7 DEF LockToWait, SetIdleFlag, Wake, historyVars
  <2>3. QED
    BY <2>1, <2>2, ThreadKeepsSome DEF Pcs, Idle, Owning
<1>8. CASE ClearIdleFlag(t)
  <2>1. /\ worker[t] = "leave" /\ Goto(t, "count")
        /\ UNCHANGED <<taskQueue, silent, task, flagVars, mainVars>>
    BY <1>8 DEF ClearIdleFlag, historyVars
  <2>2. ~Over(t) => task[t] # NoTask
    BY <2>1 DEF Over
  <2>3. QED
    BY <2>1, <2>2, ThreadKeepsSome DEF Pcs, Idle, Owning
<1>9. CASE LeaveWait(t)
  <2>1. /\ worker[t] = "count" /\ Goto(t, IF task[t] = NoTask THEN "exited" ELSE "run")
        /\ UNCHANGED <<taskQueue, silent, task, flagVars, mainVars>>
    BY <1>9 DEF LeaveWait, historyVars
  <2>2. CASE task[t] = NoTask
    <3>1. Goto(t, "exited") /\ Over(t)
      BY <2>1, <2>2 DEF Over
    <3>2. QED
      BY <2>1, <3>1, ThreadKeepsSome DEF Pcs, Outside
  <2>3. CASE task[t] # NoTask
    <3>1. Goto(t, "run")
      BY <2>1, <2>3
    <3>2. QED
      BY <2>1, <3>1, ThreadKeepsSome DEF Pcs, Outside
  <2>4. QED
    BY <2>2, <2>3
<1>10. QED
  BY <1>3, <1>4, <1>5, <1>6, <1>7, <1>8, <1>9 DEF Work

\* The pool stops with all the threads it has, and none of them was told to abort.
LEMMA StopSome ==
  ASSUME PoolSizes, MinThreads > 0, ShapeInv, FlagsInv, Stop PROVE SomeLeft'
<1>1. /\ op = "none" /\ toJoin' = Inited
      /\ UNCHANGED <<taskQueue, abortFlags, initedFlags, worker, task, silent>>
  BY DEF Stop, Inited, workerVars, historyVars
<1>2. OverIfTold /\ JoinedIfTold /\ ~isDone /\ toJoin = {}
  BY <1>1 DEF FlagsInv, JoinsInCalls
<1>3. \A t \in Inited : t \in Tids /\ ~abortFlags[t]
  BY <1>2 DEF JoinedIfTold, Inited
<1>4. \A t \in Inited : ~Over(t)
  BY <1>2, <1>3 DEF OverIfTold
<1>5. Inited # {}
  <2>1. MinThreads + Cardinality(toJoin) <= Cardinality(Inited)
    BY <1>2 DEF JoinedIfTold
  <2>2. Cardinality(toJoin) = 0 /\ Cardinality({}) = 0
    BY <1>2, FS_EmptySet
  <2>3. Cardinality(Inited) # 0
    BY <2>1, <2>2 DEF PoolSizes
  <2>4. QED
    BY <2>2, <2>3
<1>6. Inited' = Inited /\ \A t \in Inited : Over(t)' <=> Over(t)
  BY <1>1 DEF Inited, Over
<1>7. QED
  BY <1>1, <1>3, <1>4, <1>5, <1>6 DEF SomeLeft

LEMMA JoinSome == ASSUME ShapeInv, SomeLeft, NEW t \in Tids, Join(t) PROVE SomeLeft'
<1>1. /\ t \in toJoin /\ worker[t] = "exited" /\ toJoin' = toJoin \ {t}
      /\ initedFlags' = [initedFlags EXCEPT ![t] = FALSE]
      /\ UNCHANGED <<taskQueue, isDone, abortFlags, worker, task, silent>>
  BY DEF Join, workerVars, historyVars
<1>2. Over(t)
  BY <1>1 DEF Over
<1>3. isDone => silent \/ taskQueue = << >>
  BY <1>1, <1>2 DEF SomeLeft
<1>4. Inited' = Inited \ {t}
  BY <1>1 DEF Inited, ShapeInv, ThreadTypes
<1>5. QED
  BY <1>1, <1>3, <1>4 DEF SomeLeft

\* Steps that leave the threads and the queue alone, or empty the queue.
LEMMA QuietKeepsSome ==
  ASSUME SomeLeft, UNCHANGED <<worker, task, isDone, abortFlags, initedFlags, toJoin, silent>>,
         taskQueue' = taskQueue \/ taskQueue' = << >>
  PROVE  SomeLeft'
<1>1. Inited' = Inited /\ \A t \in toJoin : Over(t)' <=> Over(t)
  BY DEF Inited, Over
<1>2. QED
  BY <1>1 DEF SomeLeft

LEMMA CallSome ==
  ASSUME PoolSizes, MinThreads > 0, ShapeInv, FlagsInv, FlagsInv', SomeLeft,
         \/ ScanFlag \/ NotifyAll \/ (\E t \in Tids : Join(t)) \/ JoinedAll
         \/ PushTask \/ NotifyOne \/ StopOne \/ StoppedAll \/ PutBack \/ EmptyQueue
         \/ PushAtOnce \/ PushShrinks \/ PushStretches \/ TryShrinkPool \/ Stop
         \/ (\E types \in SUBSET Types : StopTasks(types)) \/ UNCHANGED poolVars
  PROVE  SomeLeft'
<1>1. CASE Stop
  BY <1>1, StopSome
<1>2. CASE \E t \in Tids : Join(t)
  BY <1>2, JoinSome
<1>3. CASE NotifyAll \/ JoinedAll \/ EmptyQueue \/ UNCHANGED poolVars
  <2>1. /\ UNCHANGED <<worker, task, isDone, abortFlags, initedFlags, toJoin, silent>>
        /\ taskQueue' = taskQueue \/ taskQueue' = << >>
    BY <1>3 DEF NotifyAll, JoinedAll, EmptyQueue, workerVars, flagVars, historyVars, poolVars
  <2>2. QED
    BY <2>1, QuietKeepsSome
<1>4. CASE \/ ScanFlag \/ PushTask \/ NotifyOne \/ StopOne \/ StoppedAll \/ PutBack
           \/ PushAtOnce \/ PushShrinks \/ PushStretches \/ TryShrinkPool
           \/ (\E types \in SUBSET Types : StopTasks(types))
  <2>1. op \notin {"notifyDone", "joinDone", "empty", "destroyed"} /\ isDone' = isDone
    BY <1>4 DEF ScanFlag, PushTask, NotifyOne, StopOne, StoppedAll, PutBack, PushAtOnce, PushShrinks,
                PushStretches, TryShrinkPool, StopTasks, MayPush, flagVars
  <2>2. ~isDone'
    BY <2>1 DEF FlagsInv, JoinsInCalls
  <2>3. QED
    BY <2>2 DEF SomeLeft
<1>5. QED
  BY <1>1, <1>2, <1>3, <1>4

LEMMA NextSome ==
  ASSUME PoolSizes, MinThreads > 0, ShapeInv, FlagsInv, WakeInv, SomeLeft, [Next]_poolVars
  PROVE  SomeLeft'
<1>1. FlagsInv'
  BY NextFlags
<1>2. QED
  BY <1>1, StepCases, WorkSome, CallSome

\* When the pool stops with tasks in the queue, a thread is left to join, and none of those
\* left is over.
THEOREM SomeThreadIsLeft == ASSUME PoolSizes, MinThreads > 0 PROVE Spec => []SomeLeft
<1>1. Init => SomeLeft
  BY DEF Init, SomeLeft
<1>2. ShapeInv /\ FlagsInv /\ WakeInv /\ SomeLeft /\ [Next]_poolVars => SomeLeft'
  BY NextSome
<1>3. QED
  BY <1>1, <1>2, Flags, Woken, PTL DEF Spec

LEMMA AllDoneAtTheEnd ==
  ASSUME PoolSizes, ShapeInv, FlagsInv, TasksInv, SomeLeft PROVE DestructorWaits
<1>1. SUFFICES ASSUME op \in {"empty", "destroyed"}, ~silent
               PROVE  /\ taskQueue = << >>
                      /\ op = "empty" => done \cup dropped = 1..Len(typeOf)
  BY DEF DestructorWaits
<1>2. isDone /\ toJoin = {}
  BY <1>1 DEF FlagsInv, JoinsInCalls
<1>3. taskQueue = << >> /\ Inited = {}
  BY <1>1, <1>2 DEF SomeLeft
<1>4. \A t \in Tids : worker[t] = "exited"
  BY <1>3 DEF Inited, ShapeInv, NotStarted
<1>5. \A t \in Tids : task[t] = NoTask
  BY <1>4 DEF ShapeInv, TaskInHand, Pcs, Outside
<1>6. kept = << >>
  BY <1>1 DEF TasksInv, QueuesApart
<1>7. Waiting = {} /\ Running = {}
  BY <1>3, <1>5, <1>6, EmptyHoldsNone DEF Waiting, Running
<1>8. QED
  BY <1>3, <1>7 DEF TasksInv, OnePlace

\* The destructor waits for the queue: when every thread of the pool is joined, no task is
\* left to delete, each one has run or was stopped.
THEOREM DestructorWaitsForTasks ==
  ASSUME PoolSizes, MinThreads > 0 PROVE Spec => []DestructorWaits
<1>1. ShapeInv /\ FlagsInv /\ TasksInv /\ SomeLeft => DestructorWaits
  BY AllDoneAtTheEnd
<1>2. QED
  BY <1>1, Flags, TasksPlaced, SomeThreadIsLeft, PTL
=============================================================================
