--------------------------- MODULE MCDownloads_proofs ---------------------------
(***************************************************************************)
(* Proofs about Downloader, for any tasks, paths and sizes of files, any   *)
(* bound on the tasks in process and any number of crashes.                *)
(*                                                                         *)
(* A task moves from one place to the next: it is fresh, requested, in     *)
(* process, in the hands of the worker, finished, fetched and reported.    *)
(* The two threads move it under different mutexes, and a failed multi     *)
(* handle, the end of the worker and a crash leave it where it is or       *)
(* destroy it.  The invariant says that the places exclude each other.     *)
(*                                                                         *)
(* A second invariant is about the temporary files: what the worker knows  *)
(* of a file is what is in it, and a task that ends without an error has   *)
(* the whole file.  It needs that no two tasks write one file.             *)
(***************************************************************************)
EXTENDS MCDownloads, TLAPS, SequenceTheorems, FiniteSetTheorems

-----------------------------------------------------------------------------
(***************************************************************************)
(* The inductive invariant.                                                *)
(***************************************************************************)
InSeq(t, seq) == \E i \in 1..Len(seq) : seq[i] = t

Once(seq) == \A i, j \in 1..Len(seq) : seq[i] = seq[j] => i = j

\* The task is fetched and will be reported.
Fetched(t) == \E i \in 1..Len(tasks) : i > at /\ tasks[i] = t

InHand(t) == worker = "finish" /\ wrapper = t

Reported(t) == result[t] # "none"

\* There is a worker while the thread is joinable; it outlives a downloader that is
\* destroyed, and only that one.
WorkerInv ==
  /\ alive /\ ~thread => worker = "gone"
  /\ creating => alive
  /\ coTaskMap \subseteq processSet

\* What _onSchedule has gone through is reported, and it leaves nothing behind.
ScheduleInv ==
  /\ main = "idle" => tasks = << >>
  /\ \A i \in 1..Len(tasks) : i <= at => Reported(tasks[i])

OnceInv == Once(requestQueue) /\ Once(finishedQueue) /\ Once(tasks)

FreshInv ==
  \A t \in fresh :
    /\ ~InSeq(t, requestQueue) /\ ~InSeq(t, finishedQueue) /\ ~Fetched(t)
    /\ t \notin processSet /\ ~InHand(t) /\ ~Reported(t)

\* No task is in two places.
Apart(t) ==
  /\ InSeq(t, requestQueue) =>
       ~InSeq(t, finishedQueue) /\ ~Fetched(t) /\ t \notin processSet /\ ~InHand(t) /\ ~Reported(t)
  /\ InSeq(t, finishedQueue) => ~Fetched(t) /\ t \notin processSet /\ ~InHand(t) /\ ~Reported(t)
  /\ Fetched(t) => t \notin processSet /\ ~InHand(t) /\ ~Reported(t)
  /\ t \in processSet => ~InHand(t) /\ ~Reported(t)
  /\ InHand(t) => ~Reported(t)

\* The task is somewhere.
Somewhere(t) ==
  \/ InSeq(t, requestQueue) \/ InSeq(t, finishedQueue) \/ Fetched(t)
  \/ t \in processSet \/ InHand(t) \/ Reported(t)

ApartInv == \A t \in Tasks : Apart(t)

PlaceInv == alive => \A t \in Live : Somewhere(t)

DlInv ==
  TypeOK /\ WorkerInv /\ ScheduleInv /\ OnceInv /\ FreshInv /\ ApartInv /\ PlaceInv

-----------------------------------------------------------------------------
(***************************************************************************)
(* Queues.                                                                 *)
(***************************************************************************)
\* A queue that grows has the new task behind the others.
LEMMA Grown ==
  ASSUME NEW q \in Seq(Tasks), NEW u \in Tasks
  PROVE  /\ Append(q, u) \in Seq(Tasks)
         /\ \A t : InSeq(t, Append(q, u)) <=> InSeq(t, q) \/ t = u
         /\ Once(q) /\ ~InSeq(u, q) => Once(Append(q, u))
<1> DEFINE n == Len(q)
           r == Append(q, u)
<1>1. /\ r \in Seq(Tasks) /\ Len(r) = n + 1 /\ n \in Nat
      /\ \A i \in 1..n : r[i] = q[i]
      /\ r[n + 1] = u
  BY AppendProperties
<1>2. (\A i \in 1..(n + 1) : i \in 1..n \/ i = n + 1) /\ (\A i \in 1..n : i \in 1..(n + 1)) /\ n + 1 \in 1..(n + 1)
  BY <1>1
<1> HIDE DEF r
<1>3. \A t : InSeq(t, r) <=> InSeq(t, q) \/ t = u
  <2>1. \A t : InSeq(t, r) <=> \E i \in 1..(n + 1) : r[i] = t
    BY <1>1 DEF InSeq
  <2>2. QED
    BY <1>1, <1>2, <2>1 DEF InSeq
<1>4. Once(q) /\ ~InSeq(u, q) => Once(r)
  <2>1. Once(r) <=> \A i, j \in 1..(n + 1) : r[i] = r[j] => i = j
    BY <1>1 DEF Once
  <2>2. QED
    BY <1>1, <1>2, <2>1 DEF InSeq, Once
<1>5. QED
  BY <1>1, <1>3, <1>4 DEF r

\* A queue that loses its first task has it no more.
LEMMA Shrunk ==
  ASSUME NEW q \in Seq(Tasks), q # << >>
  PROVE  /\ Tail(q) \in Seq(Tasks) /\ Head(q) \in Tasks
         /\ \A t : InSeq(t, q) <=> InSeq(t, Tail(q)) \/ t = Head(q)
         /\ Once(q) => Once(Tail(q)) /\ ~InSeq(Head(q), Tail(q))
<1> DEFINE n == Len(q)
           r == Tail(q)
<1>1. /\ r \in Seq(Tasks) /\ Len(r) = n - 1 /\ n \in Nat /\ 1 \in 1..n
      /\ \A i \in 1..(n - 1) : r[i] = q[i + 1]
  OBVIOUS
<1>2. Head(q) = q[1]
  OBVIOUS
<1>3. Head(q) \in Tasks
  BY <1>1, <1>2, ElementOfSeq
<1>4. /\ \A i \in 1..(n - 1) : i + 1 \in 1..n /\ i + 1 # 1
      /\ \A i \in 1..n : i = 1 \/ (i - 1 \in 1..(n - 1) /\ (i - 1) + 1 = i)
      /\ \A i, j \in 1..(n - 1) : i + 1 = j + 1 => i = j
  BY <1>1
<1> HIDE DEF r
<1>5. \A t : InSeq(t, r) <=> \E i \in 1..(n - 1) : q[i + 1] = t
  BY <1>1 DEF InSeq
<1>6. \A t : InSeq(t, q) <=> InSeq(t, r) \/ t = Head(q)
  <2>1. ASSUME NEW t, InSeq(t, q) PROVE InSeq(t, r) \/ t = Head(q)
    <3>1. PICK i \in 1..n : q[i] = t
      BY <2>1 DEF InSeq
    <3>2. CASE i = 1
      BY <1>2, <3>1, <3>2
    <3>3. CASE i # 1
      <4>1. i - 1 \in 1..(n - 1) /\ q[(i - 1) + 1] = t
        BY <1>4, <3>1, <3>3
      <4>2. QED
        BY <1>5, <4>1
    <3>4. QED
      BY <3>2, <3>3
  <2>2. \A t : InSeq(t, r) => InSeq(t, q)
    BY <1>4, <1>5 DEF InSeq
  <2>3. InSeq(Head(q), q)
    BY <1>1, <1>2 DEF InSeq
  <2>4. QED
    BY <2>1, <2>2, <2>3
<1>7. Once(q) => Once(r) /\ ~InSeq(Head(q), r)
  <2>1. Once(r) <=> \A i, j \in 1..(n - 1) : q[i + 1] = q[j + 1] => i = j
    BY <1>1 DEF Once
  <2>2. QED
    BY <1>1, <1>2, <1>4, <1>5, <2>1 DEF Once
<1>8. QED
  BY <1>1, <1>3, <1>6, <1>7 DEF r

LEMMA EmptyQueue == (\A t : ~InSeq(t, << >>)) /\ Once(<< >>) /\ << >> \in Seq(Tasks)
BY DEF InSeq, Once

-----------------------------------------------------------------------------
(***************************************************************************)
(* What a step leaves alone.                                               *)
(***************************************************************************)
\* The destructor of a task that is dropped is run once, and destroys nothing else.
LEMMA DestroyEffect ==
  ASSUME TypeOK, NEW thisThread \in {"main", "worker"}, DestroyUnreferenced(thisThread)
  PROVE  /\ destroyed' \in [Tasks -> {"no", "main", "worker", "crash"}]
         /\ storagePathSet' \subseteq Paths /\ fp' \in [Tasks -> Tasks \cup {NoFile}]
         /\ \A t \in Tasks : destroyed'[t] = "no" => destroyed[t] = "no"
<1> DEFINE dropped == Referenced \ Referenced'
<1>1. /\ destroyed' = [t \in Tasks |-> IF t \in dropped THEN thisThread ELSE destroyed[t]]
      /\ storagePathSet' = storagePathSet \ {Storage[t] : t \in dropped}
      /\ fp' = [t \in Tasks |-> IF t \in dropped THEN NoFile ELSE fp[t]]
  BY DEF DestroyUnreferenced
<1>2. /\ destroyed \in [Tasks -> {"no", "main", "worker", "crash"}] /\ storagePathSet \subseteq Paths
      /\ fp \in [Tasks -> Tasks \cup {NoFile}]
  BY DEF TypeOK
<1> HIDE DEF dropped
<1>3. QED
  BY <1>1, <1>2

\* A task that stays where it is keeps its place to itself.
SamePlace(t) ==
  /\ InSeq(t, requestQueue)' <=> InSeq(t, requestQueue)
  /\ InSeq(t, finishedQueue)' <=> InSeq(t, finishedQueue)
  /\ Fetched(t)' <=> Fetched(t)
  /\ t \in processSet' <=> t \in processSet
  /\ InHand(t)' <=> InHand(t)
  /\ Reported(t)' <=> Reported(t)

\* A step that moves at most the task u, which is not fresh, and destroys no others than
\* those that are dropped.
LEMMA MoveStep ==
  ASSUME DlInv, TypeOK', WorkerInv', ScheduleInv', OnceInv', NEW u,
         \A t \in Tasks : t # u => SamePlace(t),
         u \in Tasks => Apart(u)' /\ Somewhere(u)',
         u \notin fresh', fresh' \subseteq fresh, u \in Tasks => fresh \ {u} \subseteq fresh',
         u \notin Tasks => fresh' = fresh,
         alive' => alive,
         \A t \in Tasks : destroyed'[t] = "no" => destroyed[t] = "no"
  PROVE  DlInv'
<1>1. TypeOK /\ FreshInv /\ ApartInv /\ PlaceInv
  BY DEF DlInv
<1>2. fresh \subseteq Tasks
  BY <1>1 DEF TypeOK
<1>3. FreshInv'
  BY <1>1, <1>2 DEF FreshInv, SamePlace
<1>4. ApartInv'
  <2>1. ASSUME NEW t \in Tasks, t # u PROVE Apart(t)'
    BY <1>1, <2>1 DEF ApartInv, Apart, SamePlace
  <2>2. QED
    BY <2>1 DEF ApartInv
<1>5. PlaceInv'
  <2>1. ASSUME alive', NEW t \in Live', t # u PROVE Somewhere(t)'
    <3>1. t \in Tasks /\ t \notin fresh' /\ destroyed'[t] = "no"
      BY DEF Live
    <3>2. t \in Live
      BY <2>1, <3>1 DEF Live
    <3>3. Somewhere(t)
      BY <1>1, <2>1, <3>2 DEF PlaceInv
    <3>4. QED
      BY <2>1, <3>1, <3>3 DEF Somewhere, SamePlace
  <2>2. \A t \in Live' : t \in Tasks
    BY DEF Live
  <2>3. QED
    BY <2>1, <2>2 DEF PlaceInv
<1>6. QED
  BY <1>3, <1>4, <1>5 DEF DlInv

\* A step in which no task moves.
LEMMA StillStep ==
  ASSUME DlInv, TypeOK', WorkerInv',
         UNCHANGED <<requestQueue, finishedQueue, processSet, tasks, at, result, fresh>>,
         \A t \in Tasks : InHand(t)' <=> InHand(t), main' = "idle" => main = "idle", alive' => alive,
         \A t \in Tasks : destroyed'[t] = "no" => destroyed[t] = "no"
  PROVE  DlInv'
<1>1. ScheduleInv /\ OnceInv /\ TypeOK
  BY DEF DlInv
<1>2. ScheduleInv'
  BY <1>1 DEF ScheduleInv, Reported
<1>3. OnceInv'
  BY <1>1 DEF OnceInv, Once
<1>4. \A t \in Tasks : SamePlace(t)
  BY DEF SamePlace, InSeq, Fetched, Reported
<1>5. NoTask \notin Tasks /\ NoTask \notin fresh'
  BY <1>1, NullAssumption DEF TypeOK
<1>6. QED
  BY <1>2, <1>3, <1>4, <1>5, MoveStep

\* A step after which fewer tasks have places, and none needs one.
LEMMA LeaveStep ==
  ASSUME DlInv, TypeOK', WorkerInv', ScheduleInv', OnceInv', fresh' = fresh,
         \A t \in Tasks : InSeq(t, requestQueue)' => InSeq(t, requestQueue),
         \A t \in Tasks : InSeq(t, finishedQueue)' => InSeq(t, finishedQueue),
         \A t \in Tasks : Fetched(t)' => Fetched(t),
         processSet' \subseteq processSet,
         \A t \in Tasks : InHand(t)' => InHand(t),
         result' = result,
         alive' => Live' = {}
  PROVE  DlInv'
<1>1. TypeOK /\ FreshInv /\ ApartInv
  BY DEF DlInv
<1>2. fresh \subseteq Tasks
  BY <1>1 DEF TypeOK
<1>3. FreshInv'
  BY <1>1, <1>2 DEF FreshInv, Reported
<1>4. ApartInv'
  BY <1>1 DEF ApartInv, Apart, Reported
<1>5. PlaceInv'
  BY DEF PlaceInv
<1>6. QED
  BY <1>3, <1>4, <1>5 DEF DlInv

-----------------------------------------------------------------------------
(***************************************************************************)
(* The main thread.                                                        *)
(***************************************************************************)
LEMMA InitHolds == Init => DlInv
<1> SUFFICES ASSUME Init PROVE DlInv
  OBVIOUS
<1>1. TypeOK
  <2>1. \A t \in Tasks : << >> \in Seq(1..Size)
    OBVIOUS
  <2>2. data \in [Tasks -> Seq(1..Size)]
    BY <2>1 DEF Init
  <2>3. at \in 0..Len(tasks) /\ crashes \in 0..MaxCrashes
    BY SizeAssumption DEF Init
  <2>4. requestQueue \in Seq(Tasks) /\ finishedQueue \in Seq(Tasks) /\ tasks \in Seq(Tasks)
    BY DEF Init
  <2>5. /\ co \in [Tasks -> [err : BOOLEAN, header : BOOLEAN, received : Nat]]
        /\ destroyed \in [Tasks -> {"no", "main", "worker", "crash"}]
        /\ result \in [Tasks -> {"none", "ok", "error"}]
        /\ fp \in [Tasks -> Tasks \cup {NoFile}]
        /\ temp \in [Paths -> Tasks \cup {NoFile}] /\ final \in [Paths -> Tasks \cup {NoFile}]
    BY DEF Init, NewCoTask
  <2>6. QED
    BY <2>2, <2>3, <2>4, <2>5 DEF TypeOK, Init
<1>2. WorkerInv /\ ScheduleInv /\ OnceInv
  BY DEF Init, WorkerInv, ScheduleInv, OnceInv, Once
<1>3. \A t \in Tasks : /\ ~InSeq(t, requestQueue) /\ ~InSeq(t, finishedQueue) /\ ~Fetched(t)
                       /\ t \notin processSet /\ ~InHand(t) /\ ~Reported(t)
  BY EmptyQueue DEF Init, InSeq, Fetched, InHand, Reported
<1>4. FreshInv /\ ApartInv
  BY <1>3 DEF FreshInv, ApartInv, Apart, Init
<1>5. PlaceInv
  BY DEF PlaceInv, Live, Init
<1>6. QED
  BY <1>1, <1>2, <1>4, <1>5 DEF DlInv

LEMMA RunKeeps == ASSUME DlInv, Run PROVE DlInv'
<1>1. TypeOK /\ WorkerInv
  BY DEF DlInv
<1>2. worker' = "check" \/ worker' = worker
  BY DEF Run
<1>3. UNCHANGED <<requestQueue, finishedQueue, processSet, tasks, at, result, fresh, destroyed,
                 main, alive, wrapper, coTaskMap>>
  BY DEF Run, queueVars, taskVars
<1>4. worker' # worker => worker = "gone" /\ worker' = "check"
  BY <1>1 DEF Run, WorkerInv, TypeOK
<1>5. TypeOK'
  BY <1>1, <1>4 DEF TypeOK, Run, queueVars, taskVars, fileVars, PausedAfterResume
<1>6. WorkerInv'
  BY <1>1 DEF WorkerInv, Run, queueVars
<1>7. \A t \in Tasks : InHand(t)' <=> InHand(t)
  BY <1>3, <1>4 DEF InHand
<1>8. QED
  BY <1>3, <1>5, <1>6, <1>7, StillStep

LEMMA ReleaseKeeps == ASSUME DlInv, NEW t \in Tasks, Release(t) PROVE DlInv'
<1>1. TypeOK /\ WorkerInv
  BY DEF DlInv
<1>2. UNCHANGED <<requestQueue, finishedQueue, processSet, tasks, at, result, fresh, thread, creating,
                 worker, main, alive, wrapper, coTaskMap>>
  BY DEF Release, queueVars
<1>3. DestroyUnreferenced("main")
  BY DEF Release
<1>4. /\ destroyed' \in [Tasks -> {"no", "main", "worker", "crash"}]
      /\ storagePathSet' \subseteq Paths /\ fp' \in [Tasks -> Tasks \cup {NoFile}]
      /\ \A u \in Tasks : destroyed'[u] = "no" => destroyed[u] = "no"
  BY <1>1, <1>3, DestroyEffect
<1>5. TypeOK'
  BY <1>1, <1>4 DEF TypeOK, Release, queueVars
<1>6. WorkerInv'
  BY <1>1, <1>2 DEF WorkerInv
<1>7. \A u \in Tasks : InHand(u)' <=> InHand(u)
  BY <1>2 DEF InHand
<1>8. QED
  BY <1>2, <1>4, <1>5, <1>6, <1>7, StillStep

LEMMA DestroyKeeps == ASSUME DlInv, Destroy PROVE DlInv'
<1>1. TypeOK /\ WorkerInv /\ ScheduleInv /\ OnceInv
  BY DEF DlInv
<1>2. /\ UNCHANGED <<tasks, at, result, fresh, creating, worker, main, wrapper, coTaskMap>>
      /\ ~thread' /\ ~alive' /\ ~creating
  BY DEF Destroy
<1>3. DestroyUnreferenced("main")
  BY DEF Destroy
<1>4. /\ destroyed' \in [Tasks -> {"no", "main", "worker", "crash"}]
      /\ storagePathSet' \subseteq Paths /\ fp' \in [Tasks -> Tasks \cup {NoFile}]
  BY <1>1, <1>3, DestroyEffect
<1>5. /\ requestQueue' = requestQueue \/ requestQueue' = << >>
      /\ finishedQueue' = finishedQueue \/ finishedQueue' = << >>
      /\ processSet' = processSet \/ (processSet' = {} /\ worker = "gone")
  BY DEF Destroy, queueVars
<1>6. TypeOK'
  BY <1>1, <1>4, <1>5, EmptyQueue DEF TypeOK, Destroy
<1>7. WorkerInv'
  BY <1>1, <1>2, <1>5 DEF WorkerInv, TypeOK
<1>8. ScheduleInv'
  BY <1>1, <1>2 DEF ScheduleInv, Reported
<1>9. OnceInv'
  BY <1>1, <1>2, <1>5, EmptyQueue DEF OnceInv
<1>10. \A t \in Tasks : InSeq(t, requestQueue)' => InSeq(t, requestQueue)
  BY <1>5, EmptyQueue DEF InSeq
<1>11. \A t \in Tasks : InSeq(t, finishedQueue)' => InSeq(t, finishedQueue)
  BY <1>5, EmptyQueue DEF InSeq
<1>12. \A t \in Tasks : (Fetched(t)' => Fetched(t)) /\ (InHand(t)' => InHand(t))
  BY <1>2 DEF Fetched, InHand
<1>13. processSet' \subseteq processSet
  BY <1>5
<1>14. QED
  BY <1>2, <1>6, <1>7, <1>8, <1>9, <1>10, <1>11, <1>12, <1>13, LeaveStep

\* _onSchedule takes the whole finished queue: each task in it is fetched then.
LEMMA GetFinishedTasksKeeps == ASSUME DlInv, GetFinishedTasks PROVE DlInv'
<1>1. TypeOK /\ WorkerInv /\ ScheduleInv /\ OnceInv /\ FreshInv /\ ApartInv /\ PlaceInv
  BY DEF DlInv
<1>2. /\ tasks' = finishedQueue /\ at' = 0 /\ finishedQueue' = << >> /\ main' = "fetched"
      /\ main = "idle"
      /\ UNCHANGED <<requestQueue, processSet, thread, worker, coTaskMap, wrapper, creating, alive,
                     fresh, destroyed, result>>
  BY DEF GetFinishedTasks, workerVars, taskVars
<1>3. finishedQueue \in Seq(Tasks) /\ Len(finishedQueue) \in Nat
  BY <1>1 DEF TypeOK
<1>4. TypeOK'
  <2>1. at' \in 0..Len(tasks')
    BY <1>2, <1>3
  <2>2. QED
    BY <1>1, <2>1, EmptyQueue DEF TypeOK, GetFinishedTasks, workerVars, fileVars, taskVars
<1>5. WorkerInv'
  BY <1>1, <1>2 DEF WorkerInv
<1>6. ScheduleInv'
  BY <1>2, <1>3 DEF ScheduleInv
<1>7. OnceInv'
  BY <1>1, <1>2, EmptyQueue DEF OnceInv
<1>8. \A t \in Tasks : ~Fetched(t)
  BY <1>1, <1>2 DEF ScheduleInv, Fetched
<1>9. \A t \in Tasks : Fetched(t)' <=> InSeq(t, finishedQueue)
  BY <1>2, <1>3 DEF Fetched, InSeq
<1>10. \A t \in Tasks : ~InSeq(t, finishedQueue)'
  BY <1>2, EmptyQueue DEF InSeq
<1>11. \A t \in Tasks : /\ InSeq(t, requestQueue)' <=> InSeq(t, requestQueue)
                        /\ InHand(t)' <=> InHand(t)
                        /\ Reported(t)' <=> Reported(t)
                        /\ t \in processSet' <=> t \in processSet
  BY <1>2 DEF InSeq, InHand, Reported
<1>12. FreshInv'
  <2>1. fresh \subseteq Tasks /\ fresh' = fresh
    BY <1>1, <1>2 DEF TypeOK
  <2>2. QED
    BY <1>1, <1>9, <1>10, <1>11, <2>1 DEF FreshInv
<1>13. ApartInv'
  BY <1>1, <1>8, <1>9, <1>10, <1>11 DEF ApartInv, Apart
<1>14. PlaceInv'
  <2>1. alive' = alive /\ Live' = Live /\ \A t \in Live : t \in Tasks
    BY <1>2 DEF Live
  <2>2. QED
    BY <1>1, <1>8, <1>9, <1>11, <2>1 DEF PlaceInv, Somewhere
<1>15. QED
  BY <1>4, <1>5, <1>6, <1>7, <1>12, <1>13, <1>14 DEF DlInv

LEMMA PauseIfStoppedKeeps == ASSUME DlInv, PauseIfStopped PROVE DlInv'
<1>1. TypeOK /\ WorkerInv
  BY DEF DlInv
<1>2. /\ UNCHANGED <<requestQueue, finishedQueue, processSet, tasks, at, result, fresh, thread, creating,
                     worker, alive, wrapper, coTaskMap, destroyed>>
      /\ main' = "report"
  BY DEF PauseIfStopped, queueVars, workerVars, taskVars
<1>3. missed' \subseteq Tasks
  <2>1. ToSet(finishedQueue) \subseteq Tasks
    <3>1. finishedQueue \in Seq(Tasks)
      BY <1>1 DEF TypeOK
    <3>2. \A i \in 1..Len(finishedQueue) : finishedQueue[i] \in Tasks
      BY <3>1, ElementOfSeq
    <3>3. QED
      BY <3>1, <3>2 DEF ToSet
  <2>2. QED
    BY <1>1, <2>1 DEF PauseIfStopped, TypeOK
<1>4. paused' \in BOOLEAN
  BY <1>1 DEF PauseIfStopped, TypeOK
<1>5. TypeOK'
  BY <1>1, <1>3, <1>4 DEF TypeOK, PauseIfStopped, queueVars, workerVars, taskVars, fileVars
<1>6. WorkerInv'
  BY <1>1, <1>2 DEF WorkerInv
<1>7. \A u \in Tasks : InHand(u)' <=> InHand(u)
  BY <1>2 DEF InHand
<1>8. QED
  BY <1>2, <1>5, <1>6, <1>7, StillStep

\* _onSchedule returns when all it fetched is reported.
LEMMA EndScheduleKeeps == ASSUME DlInv, EndSchedule PROVE DlInv'
<1>1. TypeOK /\ WorkerInv /\ ScheduleInv /\ OnceInv
  BY DEF DlInv
<1>2. /\ UNCHANGED <<requestQueue, finishedQueue, processSet, result, fresh, thread, creating,
                     worker, alive, wrapper, coTaskMap>>
      /\ tasks' = << >> /\ at' = 0 /\ at = Len(tasks)
  BY DEF EndSchedule, queueVars
<1>3. DestroyUnreferenced("main")
  BY DEF EndSchedule
<1>4. /\ destroyed' \in [Tasks -> {"no", "main", "worker", "crash"}]
      /\ storagePathSet' \subseteq Paths /\ fp' \in [Tasks -> Tasks \cup {NoFile}]
      /\ \A u \in Tasks : destroyed'[u] = "no" => destroyed[u] = "no"
  BY <1>1, <1>3, DestroyEffect
<1>5. TypeOK'
  <2>1. at' \in 0..Len(tasks') /\ tasks' \in Seq(Tasks)
    BY <1>2, EmptyQueue
  <2>2. QED
    BY <1>1, <1>4, <2>1 DEF TypeOK, EndSchedule, queueVars
<1>6. WorkerInv'
  BY <1>1, <1>2 DEF WorkerInv
<1>7. ScheduleInv' /\ OnceInv'
  BY <1>1, <1>2, EmptyQueue DEF ScheduleInv, OnceInv, Once
<1>8. \A t \in Tasks : ~Fetched(t) /\ ~Fetched(t)'
  BY <1>1, <1>2 DEF Fetched, TypeOK
<1>9. \A t \in Tasks : SamePlace(t)
  BY <1>2, <1>8 DEF SamePlace, InSeq, InHand, Reported
<1>10. NoTask \notin Tasks /\ NoTask \notin fresh'
  BY <1>1, <1>2, NullAssumption DEF TypeOK
<1>11. QED
  BY <1>2, <1>4, <1>5, <1>6, <1>7, <1>9, <1>10, MoveStep

\* createCoTask takes a task that is in no place to the request queue, or to the finished
\* queue when it failed.
LEMMA CreateCoTaskTypes == ASSUME TypeOK, NEW t \in Tasks, CreateCoTask(t) PROVE TypeOK'
<1>1. PICK opened \in BOOLEAN :
        /\ Storage[t] = NoPath => ~opened
        /\ IF Storage[t] = NoPath
           THEN UNCHANGED <<storagePathSet, fp, temp>>
           ELSE OpenFile(t, opened)
        /\ AddTask(t, InitFails(t, opened))
        /\ co' = [co EXCEPT ![t].err = InitFails(t, opened)]
  BY DEF CreateCoTask
<1>2. storagePathSet' \subseteq Paths /\ fp' \in [Tasks -> Tasks \cup {NoFile}]
      /\ temp' \in [Paths -> Tasks \cup {NoFile}]
  <2>1. CASE Storage[t] = NoPath
    BY <1>1, <2>1 DEF TypeOK
  <2>2. CASE Storage[t] # NoPath
    <3>1. Storage[t] \in Paths
      BY <2>2, StorageAssumption
    <3>2. OpenFile(t, opened)
      BY <1>1, <2>2
    <3>3. /\ storagePathSet \subseteq Paths
          /\ fp \in [Tasks -> Tasks \cup {NoFile}]
          /\ temp \in [Paths -> Tasks \cup {NoFile}]
      BY DEF TypeOK
    <3>4. PICK f \in Tasks \cup {NoFile} :
            f = IF temp[Storage[t]] = NoFile THEN t ELSE temp[Storage[t]]
      BY <3>1, <3>3
    <3>5. /\ storagePathSet' \in {storagePathSet, storagePathSet \cup {Storage[t]}}
          /\ fp' = fp \/ fp' = [fp EXCEPT ![t] = f]
          /\ temp' = temp \/ temp' = [temp EXCEPT ![Storage[t]] = f]
      BY <3>2, <3>4 DEF OpenFile
    <3>6. storagePathSet' \subseteq Paths
      BY <3>1, <3>3, <3>5
    <3>7. fp' \in [Tasks -> Tasks \cup {NoFile}]
      BY <3>3, <3>4, <3>5
    <3>8. temp' \in [Paths -> Tasks \cup {NoFile}]
      BY <3>1, <3>3, <3>4, <3>5
    <3>9. QED
      BY <3>6, <3>7, <3>8
  <2>3. QED
    BY <2>1, <2>2
<1>3. co' \in [Tasks -> [err : BOOLEAN, header : BOOLEAN, received : Nat]]
  <2>1. InitFails(t, opened) \in BOOLEAN
    BY DEF InitFails
  <2>2. co' = [co EXCEPT ![t] = [co[t] EXCEPT !.err = InitFails(t, opened)]]
    BY <1>1
  <2>3. QED
    BY <2>1, <2>2 DEF TypeOK
<1>4. /\ requestQueue' = requestQueue \/ requestQueue' = Append(requestQueue, t)
      /\ finishedQueue' = finishedQueue \/ finishedQueue' = Append(finishedQueue, t)
  BY <1>1 DEF AddTask
<1>5. requestQueue' \in Seq(Tasks) /\ finishedQueue' \in Seq(Tasks)
  <2>1. requestQueue \in Seq(Tasks) /\ finishedQueue \in Seq(Tasks)
    BY DEF TypeOK
  <2>2. Append(requestQueue, t) \in Seq(Tasks)
    BY <2>1, Grown
  <2>3. Append(finishedQueue, t) \in Seq(Tasks)
    BY <2>1, Grown
  <2>4. QED
    BY <1>4, <2>1, <2>2, <2>3
<1>6. QED
  BY <1>2, <1>3, <1>5 DEF TypeOK, CreateCoTask, workerVars

LEMMA CreateCoTaskKeeps == ASSUME DlInv, NEW t \in Tasks, CreateCoTask(t) PROVE DlInv'
<1>1. TypeOK /\ WorkerInv /\ ScheduleInv /\ OnceInv /\ FreshInv /\ ApartInv
  BY DEF DlInv
<1>2. TypeOK'
  BY <1>1, CreateCoTaskTypes
<1>3. PICK failed \in BOOLEAN : AddTask(t, failed)
  <2>1. \A opened : InitFails(t, opened) \in BOOLEAN
    BY DEF InitFails
  <2>2. QED
    BY <2>1 DEF CreateCoTask
<1>4. /\ requestQueue' = IF failed THEN requestQueue ELSE Append(requestQueue, t)
      /\ finishedQueue' = IF failed THEN Append(finishedQueue, t) ELSE finishedQueue
  BY <1>3 DEF AddTask, Requested
<1>5. /\ UNCHANGED <<processSet, thread, worker, coTaskMap, wrapper, main, tasks, at, alive, destroyed,
                     result>>
      /\ t \in fresh /\ fresh' = fresh \ {t} /\ alive
  BY DEF CreateCoTask, workerVars
<1>6. /\ ~InSeq(t, requestQueue) /\ ~InSeq(t, finishedQueue) /\ ~Fetched(t)
      /\ t \notin processSet /\ ~InHand(t) /\ ~Reported(t)
  BY <1>1, <1>5 DEF FreshInv
<1>7. WorkerInv'
  BY <1>1, <1>5 DEF WorkerInv
<1>8. ScheduleInv'
  BY <1>1, <1>5 DEF ScheduleInv, Reported
<1>9. \A u \in Tasks : /\ Fetched(u)' <=> Fetched(u)
                       /\ u \in processSet' <=> u \in processSet
                       /\ InHand(u)' <=> InHand(u)
                       /\ Reported(u)' <=> Reported(u)
  BY <1>5 DEF Fetched, InHand, Reported
<1>10. requestQueue \in Seq(Tasks) /\ finishedQueue \in Seq(Tasks)
  BY <1>1 DEF TypeOK
<1>11. /\ \A u \in Tasks : InSeq(u, requestQueue)' <=> InSeq(u, requestQueue) \/ (~failed /\ u = t)
       /\ Once(requestQueue)'
  <2>1. CASE failed
    BY <1>1, <1>4, <2>1 DEF InSeq, OnceInv, Once
  <2>2. CASE ~failed
    <3>1. requestQueue' = Append(requestQueue, t)
      BY <1>4, <2>2
    <3>2. \A u : InSeq(u, requestQueue') <=> InSeq(u, requestQueue) \/ u = t
      BY <1>10, <3>1, Grown
    <3>3. Once(requestQueue')
      BY <1>1, <1>6, <1>10, <3>1, Grown DEF OnceInv
    <3>4. QED
      BY <2>2, <3>2, <3>3 DEF InSeq
  <2>3. QED
    BY <2>1, <2>2
<1>12. /\ \A u \in Tasks : InSeq(u, finishedQueue)' <=> InSeq(u, finishedQueue) \/ (failed /\ u = t)
       /\ Once(finishedQueue)'
  <2>1. CASE ~failed
    BY <1>1, <1>4, <2>1 DEF InSeq, OnceInv, Once
  <2>2. CASE failed
    <3>1. finishedQueue' = Append(finishedQueue, t)
      BY <1>4, <2>2
    <3>2. \A u : InSeq(u, finishedQueue') <=> InSeq(u, finishedQueue) \/ u = t
      BY <1>10, <3>1, Grown
    <3>3. Once(finishedQueue')
      BY <1>1, <1>6, <1>10, <3>1, Grown DEF OnceInv
    <3>4. QED
      BY <2>2, <3>2, <3>3 DEF InSeq
  <2>3. QED
    BY <2>1, <2>2
<1>13. OnceInv'
  BY <1>1, <1>5, <1>11, <1>12 DEF OnceInv
<1>14. \A u \in Tasks : u # t => SamePlace(u)
  BY <1>9, <1>11, <1>12 DEF SamePlace
<1>15. Apart(t)' /\ Somewhere(t)'
  BY <1>6, <1>9, <1>11, <1>12 DEF Apart, Somewhere
<1>16. t \notin fresh' /\ fresh' \subseteq fresh /\ fresh \ {t} \subseteq fresh'
  BY <1>5
<1>17. QED
  BY <1>2, <1>5, <1>7, <1>8, <1>13, <1>14, <1>15, <1>16, MoveStep

-----------------------------------------------------------------------------
(***************************************************************************)
(* Reports.                                                                *)
(***************************************************************************)
LEMMA ReportTypes ==
  ASSUME TypeOK, Report
  PROVE  TypeOK' /\ tasks[at + 1] \in Tasks /\ at + 1 \in 1..Len(tasks)
         /\ result'[tasks[at + 1]] # "none"
         /\ \A u \in Tasks : u # tasks[at + 1] => result'[u] = result[u]
<1> DEFINE t == tasks[at + 1]
<1>1. tasks \in Seq(Tasks) /\ at \in Nat /\ at < Len(tasks) /\ Len(tasks) \in Nat
  BY DEF TypeOK, Report
<1>2. at + 1 \in 1..Len(tasks) /\ at + 1 \in 0..Len(tasks)
  BY <1>1
<1>3. t \in Tasks
  BY <1>1, <1>2, ElementOfSeq
<1>4. PICK failed \in BOOLEAN :
        /\ CloseFile(t, failed)
        /\ co' = [co EXCEPT ![t].err = @ \/ failed]
        /\ result' = [result EXCEPT ![t] = IF co'[t].err THEN "error" ELSE "ok"]
  BY DEF Report
<1> HIDE DEF t
<1>5. co' \in [Tasks -> [err : BOOLEAN, header : BOOLEAN, received : Nat]]
  <2>1. PICK e \in BOOLEAN : e = (co[t].err \/ failed)
    BY <1>3 DEF TypeOK
  <2>2. co' = [co EXCEPT ![t] = [co[t] EXCEPT !.err = e]]
    BY <1>4, <2>1
  <2>3. co[t] \in [err : BOOLEAN, header : BOOLEAN, received : Nat]
    BY <1>3 DEF TypeOK
  <2>4. [co[t] EXCEPT !.err = e] \in [err : BOOLEAN, header : BOOLEAN, received : Nat]
    BY <2>3
  <2>5. QED
    BY <1>3, <2>2, <2>4 DEF TypeOK
<1>6. /\ result' \in [Tasks -> {"none", "ok", "error"}] /\ result'[t] # "none"
      /\ \A u \in Tasks : u # t => result'[u] = result[u]
  BY <1>3, <1>4 DEF TypeOK
<1>7. /\ fp' \in [Tasks -> Tasks \cup {NoFile}] /\ storagePathSet' \subseteq Paths
      /\ temp' \in [Paths -> Tasks \cup {NoFile}] /\ final' \in [Paths -> Tasks \cup {NoFile}]
  <2>1. fp' = [fp EXCEPT ![t] = NoFile]
    BY <1>4 DEF CloseFile
  <2>2. \/ UNCHANGED <<temp, final, storagePathSet>>
        \/ Renamed(Storage[t])
        \/ NotRenamed(Storage[t])
    BY <1>4 DEF CloseFile, OldFileNotRemoved
  <2>3. fp' \in [Tasks -> Tasks \cup {NoFile}]
    BY <2>1 DEF TypeOK
  <2>4. storagePathSet' \subseteq Paths
    BY <2>2 DEF TypeOK, Renamed, NotRenamed
  <2>5. temp' \in [Paths -> Tasks \cup {NoFile}]
    BY <2>2 DEF TypeOK, Renamed, NotRenamed
  <2>6. final' \in [Paths -> Tasks \cup {NoFile}]
    <3>1. CASE final' = final
      BY <3>1 DEF TypeOK
    <3>2. CASE Renamed(Storage[t])
      BY <3>2 DEF TypeOK, Renamed
    <3>3. CASE NotRenamed(Storage[t])
      BY <3>3 DEF TypeOK, NotRenamed
    <3>4. QED
      BY <2>2, <3>1, <3>2, <3>3
  <2>7. QED
    BY <2>3, <2>4, <2>5, <2>6
<1>8. TypeOK'
  BY <1>2, <1>5, <1>6, <1>7 DEF TypeOK, Report, queueVars, workerVars
<1>9. QED
  BY <1>2, <1>3, <1>6, <1>8 DEF t

LEMMA ReportKeeps == ASSUME DlInv, Report PROVE DlInv'
<1>1. TypeOK /\ WorkerInv /\ ScheduleInv /\ OnceInv /\ FreshInv /\ ApartInv
  BY DEF DlInv
<1>2. PICK t \in Tasks : t = tasks[at + 1]
  BY <1>1, ReportTypes
<1>3. TypeOK' /\ at + 1 \in 1..Len(tasks) /\ Reported(t)'
      /\ \A u \in Tasks : u # t => (Reported(u)' <=> Reported(u))
  BY <1>1, <1>2, ReportTypes DEF Reported
<1>4. /\ UNCHANGED <<requestQueue, finishedQueue, processSet, thread, worker, coTaskMap, wrapper, main,
                     creating, tasks, alive, fresh, destroyed>>
      /\ at' = at + 1 /\ at \in Nat /\ Len(tasks) \in Nat /\ tasks \in Seq(Tasks) /\ main = "report"
  BY <1>1 DEF Report, queueVars, workerVars, TypeOK
<1>5. WorkerInv' /\ OnceInv'
  BY <1>1, <1>4 DEF WorkerInv, OnceInv, Once
<1>6. ScheduleInv'
  <2>1. ASSUME NEW i \in 1..Len(tasks), i <= at + 1 PROVE Reported(tasks[i])'
    <3>1. tasks' = tasks
      BY <1>4
    <3>2. CASE i = at + 1
      BY <1>2, <1>3, <3>1, <3>2 DEF Reported
    <3>3. CASE i # at + 1
      <4>1. i <= at
        BY <1>4, <2>1, <3>3
      <4>2. Reported(tasks[i]) /\ tasks[i] \in Tasks
        BY <1>1, <1>4, <4>1, ElementOfSeq DEF ScheduleInv
      <4>3. PICK u \in Tasks : u = tasks[i]
        BY <4>2
      <4>4. Reported(u)'
        BY <1>3, <4>2, <4>3
      <4>5. QED
        BY <3>1, <4>3, <4>4 DEF Reported
    <3>4. QED
      BY <3>2, <3>3
  <2>2. QED
    BY <1>4, <2>1 DEF ScheduleInv
<1>7. \A u \in Tasks : u # t => (Fetched(u)' <=> Fetched(u))
  <2>1. \A i \in 1..Len(tasks) : i > at <=> i > at + 1 \/ i = at + 1
    BY <1>4
  <2>2. QED
    BY <1>2, <1>4, <2>1 DEF Fetched
<1>8. Fetched(t) /\ ~Fetched(t)'
  <2>1. Fetched(t)
    BY <1>2, <1>3, <1>4 DEF Fetched
  <2>2. \A i \in 1..Len(tasks) : tasks[i] = t => i = at + 1
    BY <1>1, <1>2, <1>3 DEF OnceInv, Once
  <2>3. QED
    BY <1>4, <2>1, <2>2 DEF Fetched
<1>9. \A u \in Tasks : /\ InSeq(u, requestQueue)' <=> InSeq(u, requestQueue)
                       /\ InSeq(u, finishedQueue)' <=> InSeq(u, finishedQueue)
                       /\ u \in processSet' <=> u \in processSet
                       /\ InHand(u)' <=> InHand(u)
  BY <1>4 DEF InSeq, InHand
<1>10. \A u \in Tasks : u # t => SamePlace(u)
  BY <1>3, <1>7, <1>9 DEF SamePlace
<1>11. Apart(t)
  BY <1>1 DEF ApartInv
<1>12. Apart(t)' /\ Somewhere(t)'
  BY <1>3, <1>8, <1>9, <1>11 DEF Apart, Somewhere
<1>13. t \notin fresh' /\ fresh' = fresh
  BY <1>1, <1>4, <1>8 DEF FreshInv
<1>14. QED
  BY <1>3, <1>4, <1>5, <1>6, <1>10, <1>12, <1>13, MoveStep

-----------------------------------------------------------------------------
(***************************************************************************)
(* The worker.                                                             *)
(***************************************************************************)
\* A step of the worker that only goes on to another place of its loop.
LEMMA WorkerGoesOn ==
  ASSUME DlInv, worker \in {"check", "perform", "request"}, worker' \in {"check", "perform", "request", "leave"},
         UNCHANGED <<queueVars, thread, coTaskMap, wrapper, mainVars, fileVars, taskVars, missed,
                     crashes>>
  PROVE  DlInv'
<1>1. TypeOK /\ WorkerInv
  BY DEF DlInv
<1>2. UNCHANGED <<requestQueue, finishedQueue, processSet, tasks, at, result, fresh, destroyed, main,
                  alive, creating, thread, wrapper, coTaskMap>>
  BY DEF queueVars, mainVars, taskVars
<1>3. TypeOK'
  BY <1>1 DEF TypeOK, queueVars, mainVars, taskVars, fileVars
<1>4. WorkerInv'
  BY <1>1, <1>2 DEF WorkerInv
<1>5. \A u \in Tasks : InHand(u)' <=> InHand(u)
  BY DEF InHand
<1>6. QED
  BY <1>2, <1>3, <1>4, <1>5, StillStep

LEMMA CheckStoppedKeeps == ASSUME DlInv, CheckStopped PROVE DlInv'
BY WorkerGoesOn DEF CheckStopped

LEMMA MultiFailsKeeps == ASSUME DlInv, MultiFails PROVE DlInv'
BY WorkerGoesOn DEF MultiFails

LEMMA EnterRequestsKeeps == ASSUME DlInv, EnterRequests PROVE DlInv'
BY WorkerGoesOn DEF EnterRequests, AfterIteration

LEMMA NoRequestKeeps == ASSUME DlInv, NoRequest PROVE DlInv'
BY WorkerGoesOn DEF NoRequest, AfterIteration

LEMMA ReceiveKeeps == ASSUME DlInv, NEW t \in Tasks, Receive(t) PROVE DlInv'
<1>1. TypeOK /\ WorkerInv
  BY DEF DlInv
<1>2. UNCHANGED <<requestQueue, finishedQueue, processSet, tasks, at, result, fresh, destroyed, main,
                  worker, alive, creating, thread, wrapper, coTaskMap>>
  BY DEF Receive, queueVars, mainVars, workerVars
<1>3. /\ co[t] \in [err : BOOLEAN, header : BOOLEAN, received : Nat] /\ co[t].received < Size
      /\ co' = [co EXCEPT ![t].received = @ + 1]
      /\ data' = IF fp[t] = NoFile THEN data ELSE [data EXCEPT ![fp[t]] = Append(@, co[t].received + 1)]
  BY <1>1 DEF Receive, TypeOK
<1>4. PICK n \in Nat : n = co[t].received + 1
  BY <1>3
<1>5. n \in 1..Size
  BY <1>3, <1>4, SizeAssumption
<1>6. co' \in [Tasks -> [err : BOOLEAN, header : BOOLEAN, received : Nat]]
  <2>1. co' = [co EXCEPT ![t] = [co[t] EXCEPT !.received = n]]
    BY <1>3, <1>4
  <2>2. [co[t] EXCEPT !.received = n] \in [err : BOOLEAN, header : BOOLEAN, received : Nat]
    BY <1>3
  <2>3. QED
    BY <1>1, <2>1, <2>2 DEF TypeOK
<1>7. data' \in [Tasks -> Seq(1..Size)]
  <2>1. CASE fp[t] = NoFile
    BY <1>1, <1>3, <2>1 DEF TypeOK
  <2>2. CASE fp[t] # NoFile
    <3>1. fp[t] \in Tasks
      BY <1>1, <2>2 DEF TypeOK
    <3>2. data[fp[t]] \in Seq(1..Size)
      BY <1>1, <3>1 DEF TypeOK
    <3>3. Append(data[fp[t]], n) \in Seq(1..Size)
      BY <1>5, <3>2, AppendProperties
    <3>4. data' = [data EXCEPT ![fp[t]] = Append(data[fp[t]], n)]
      BY <1>3, <1>4, <2>2
    <3>5. QED
      BY <1>1, <3>1, <3>3, <3>4 DEF TypeOK
  <2>3. QED
    BY <2>1, <2>2
<1>8. TypeOK'
  BY <1>1, <1>6, <1>7 DEF TypeOK, Receive, queueVars, mainVars, workerVars
<1>9. WorkerInv'
  BY <1>1, <1>2 DEF WorkerInv
<1>10. \A u \in Tasks : InHand(u)' <=> InHand(u)
  BY <1>2 DEF InHand
<1>11. QED
  BY <1>2, <1>8, <1>9, <1>10, StillStep

\* A task that is over passes from the set to the hands of the worker.
LEMMA FinishKeeps ==
  ASSUME DlInv, NEW t \in Tasks, worker = "perform", t \in coTaskMap, Finish(t),
         co' \in [Tasks -> [err : BOOLEAN, header : BOOLEAN, received : Nat]]
  PROVE  DlInv'
<1>1. TypeOK /\ WorkerInv /\ ScheduleInv /\ OnceInv /\ FreshInv /\ ApartInv
  BY DEF DlInv
<1>2. /\ UNCHANGED <<requestQueue, finishedQueue, thread, main, creating, tasks, at, alive, fresh,
                     destroyed, result>>
      /\ worker' = "finish" /\ wrapper' = t /\ coTaskMap' = coTaskMap \ {t}
      /\ processSet' = processSet \ {t}
  BY DEF Finish, mainVars, Unprocessed
<1>3. TypeOK'
  <2>1. wrapper' # NoTask /\ wrapper' \in Tasks
    BY <1>2, NullAssumption
  <2>2. QED
    BY <1>1, <1>2, <2>1 DEF TypeOK, Finish, mainVars, fileVars
<1>4. WorkerInv' /\ t \in processSet
  BY <1>1, <1>2 DEF WorkerInv
<1>5. ScheduleInv' /\ OnceInv'
  BY <1>1, <1>2 DEF ScheduleInv, Reported, OnceInv, Once
<1>6. \A u \in Tasks : /\ InSeq(u, requestQueue)' <=> InSeq(u, requestQueue)
                       /\ InSeq(u, finishedQueue)' <=> InSeq(u, finishedQueue)
                       /\ Fetched(u)' <=> Fetched(u)
                       /\ Reported(u)' <=> Reported(u)
  BY <1>2 DEF InSeq, Fetched, Reported
<1>7. \A u \in Tasks : ~InHand(u) /\ (InHand(u)' <=> u = t)
  BY <1>2 DEF InHand
<1>8. \A u \in Tasks : u # t => SamePlace(u)
  BY <1>2, <1>6, <1>7 DEF SamePlace
<1>9. Apart(t)
  BY <1>1 DEF ApartInv
<1>10. t \notin processSet'
  BY <1>2
<1>11. Apart(t)' /\ Somewhere(t)'
  BY <1>4, <1>6, <1>7, <1>9, <1>10 DEF Apart, Somewhere
<1>12. t \notin fresh' /\ fresh' = fresh
  BY <1>1, <1>2, <1>4 DEF FreshInv
<1>13. QED
  BY <1>2, <1>3, <1>4, <1>5, <1>8, <1>11, <1>12, MoveStep

LEMMA TransferFailsKeeps == ASSUME DlInv, NEW t \in Tasks, TransferFails(t) PROVE DlInv'
<1>1. TypeOK /\ worker = "perform" /\ t \in coTaskMap /\ Finish(t) /\ co' = [co EXCEPT ![t].err = TRUE]
  BY DEF DlInv, TransferFails
<1>2. co[t] \in [err : BOOLEAN, header : BOOLEAN, received : Nat]
  BY <1>1 DEF TypeOK
<1>3. [co[t] EXCEPT !.err = TRUE] \in [err : BOOLEAN, header : BOOLEAN, received : Nat]
  BY <1>2
<1>4. co' = [co EXCEPT ![t] = [co[t] EXCEPT !.err = TRUE]]
  BY <1>1
<1>5. co' \in [Tasks -> [err : BOOLEAN, header : BOOLEAN, received : Nat]]
  BY <1>1, <1>3, <1>4 DEF TypeOK
<1>6. QED
  BY <1>1, <1>5, FinishKeeps

LEMMA ContentDoneKeeps == ASSUME DlInv, NEW t \in Tasks, ContentDone(t) PROVE DlInv'
<1>1. worker = "perform" /\ t \in coTaskMap /\ Finish(t)
  BY DEF ContentDone
<1>2. co' \in [Tasks -> [err : BOOLEAN, header : BOOLEAN, received : Nat]]
  BY DEF ContentDone, DlInv, TypeOK
<1>3. QED
  BY <1>1, <1>2, FinishKeeps

LEMMA HeaderDoneKeeps == ASSUME DlInv, NEW t \in Tasks, HeaderDone(t) PROVE DlInv'
<1>1. TypeOK /\ WorkerInv /\ worker = "perform" /\ t \in coTaskMap
  BY DEF DlInv, HeaderDone
<1>2. PICK size \in Nat, ranges \in BOOLEAN, odd \in BOOLEAN :
        /\ co' = [co EXCEPT ![t] = [err      |-> @.err \/ odd,
                                    header   |-> TRUE,
                                    received |-> ReceivedBefore(size, ranges)]]
        /\ \/ Finish(t)
           \/ UNCHANGED <<queueVars, workerVars, mainVars, fileVars, held, fresh, destroyed, result,
                          missed, crashes>>
  <2>1. PICK ranges \in Ranges, odd \in BOOLEAN :
          LET p    == Storage[t]
              size == IF p = NoPath THEN 0 ELSE Len(Contents(temp[p]))
          IN  /\ co' = [co EXCEPT ![t] = [err      |-> @.err \/ odd,
                                          header   |-> TRUE,
                                          received |-> ReceivedBefore(size, ranges)]]
              /\ \/ Finish(t)
                 \/ UNCHANGED <<queueVars, workerVars, mainVars, fileVars, held, fresh, destroyed,
                                result, missed, crashes>>
    BY DEF HeaderDone
  <2>2. ranges \in BOOLEAN
    BY RangesAssumption
  <2>3. (IF Storage[t] = NoPath THEN 0 ELSE Len(Contents(temp[Storage[t]]))) \in Nat
    <3>1. CASE Storage[t] = NoPath
      BY <3>1
    <3>2. CASE Storage[t] # NoPath
      <4>1. Storage[t] \in Paths
        BY <3>2, StorageAssumption
      <4>2. temp[Storage[t]] \in Tasks \cup {NoFile}
        BY <1>1, <4>1 DEF TypeOK
      <4>3. Contents(temp[Storage[t]]) \in Seq(1..Size)
        <5>1. << >> \in Seq(1..Size)
          OBVIOUS
        <5>2. \A f \in Tasks : data[f] \in Seq(1..Size)
          BY <1>1 DEF TypeOK
        <5>3. CASE temp[Storage[t]] = NoFile
          BY <5>1, <5>3 DEF Contents
        <5>4. CASE temp[Storage[t]] # NoFile
          BY <4>2, <5>2, <5>4 DEF Contents
        <5>5. QED
          BY <5>3, <5>4
      <4>4. Len(Contents(temp[Storage[t]])) \in Nat
        BY <4>3
      <4>5. QED
        BY <3>2, <4>4
    <3>3. QED
      BY <3>1, <3>2
  <2>4. QED
    BY <2>1, <2>2, <2>3
<1>3. co' \in [Tasks -> [err : BOOLEAN, header : BOOLEAN, received : Nat]]
  <2>1. co[t] \in [err : BOOLEAN, header : BOOLEAN, received : Nat]
    BY <1>1 DEF TypeOK
  <2>2. PICK e \in BOOLEAN : e = (co[t].err \/ odd)
    BY <2>1
  <2>3. PICK n \in Nat : n = ReceivedBefore(size, ranges)
    BY DEF ReceivedBefore
  <2>4. co' = [co EXCEPT ![t] = [err |-> e, header |-> TRUE, received |-> n]]
    BY <1>2, <2>2, <2>3
  <2>5. [err |-> e, header |-> TRUE, received |-> n] \in [err : BOOLEAN, header : BOOLEAN, received : Nat]
    OBVIOUS
  <2>6. QED
    BY <1>1, <2>4, <2>5 DEF TypeOK
<1>4. CASE Finish(t)
  BY <1>1, <1>3, <1>4, FinishKeeps
<1>5. CASE UNCHANGED <<queueVars, workerVars, mainVars, fileVars, held, fresh, destroyed, result,
                       missed, crashes>>
  <2>1. UNCHANGED <<requestQueue, finishedQueue, processSet, tasks, at, result, fresh, destroyed, main,
                    worker, alive, creating, thread, wrapper, coTaskMap>>
    BY <1>5 DEF queueVars, mainVars, workerVars
  <2>2. TypeOK'
    BY <1>1, <1>3, <1>5 DEF TypeOK, queueVars, mainVars, workerVars, fileVars
  <2>3. WorkerInv'
    BY <1>1, <2>1 DEF WorkerInv
  <2>4. \A u \in Tasks : InHand(u)' <=> InHand(u)
    BY <2>1 DEF InHand
  <2>5. QED
    BY <2>1, <2>2, <2>3, <2>4, StillStep
<1>6. QED
  BY <1>2, <1>4, <1>5

LEMMA PushFinishedKeeps == ASSUME DlInv, PushFinished PROVE DlInv'
<1>1. TypeOK /\ WorkerInv /\ ScheduleInv /\ OnceInv /\ FreshInv /\ ApartInv
  BY DEF DlInv
<1>2. /\ UNCHANGED <<requestQueue, processSet, thread, main, creating, tasks, at, alive, fresh,
                     destroyed, result, coTaskMap, wrapper>>
      /\ worker = "finish" /\ worker' = "release" /\ finishedQueue' = Append(finishedQueue, wrapper)
  BY DEF PushFinished, mainVars, taskVars
<1>3. wrapper \in Tasks /\ finishedQueue \in Seq(Tasks)
  BY <1>1, <1>2 DEF TypeOK
<1>4. PICK t \in Tasks : t = wrapper
  BY <1>3
<1>5. InHand(t) /\ Apart(t)
  BY <1>1, <1>2, <1>4 DEF InHand, ApartInv
<1>6. ~InSeq(t, finishedQueue)
  BY <1>5 DEF Apart
<1>7. /\ finishedQueue' \in Seq(Tasks) /\ Once(finishedQueue')
      /\ \A u : InSeq(u, finishedQueue') <=> InSeq(u, finishedQueue) \/ u = t
  <2>1. /\ Append(finishedQueue, t) \in Seq(Tasks)
        /\ \A u : InSeq(u, Append(finishedQueue, t)) <=> InSeq(u, finishedQueue) \/ u = t
        /\ Once(finishedQueue) /\ ~InSeq(t, finishedQueue) => Once(Append(finishedQueue, t))
    BY <1>3, Grown
  <2>2. QED
    BY <1>1, <1>2, <1>4, <1>6, <2>1 DEF OnceInv
<1>8. TypeOK'
  BY <1>1, <1>2, <1>7 DEF TypeOK, PushFinished, mainVars, taskVars, fileVars
<1>9. WorkerInv'
  BY <1>1, <1>2 DEF WorkerInv
<1>10. ScheduleInv'
  BY <1>1, <1>2 DEF ScheduleInv, Reported
<1>11. OnceInv'
  BY <1>1, <1>2, <1>7 DEF OnceInv
<1>12. \A u \in Tasks : /\ InSeq(u, requestQueue)' <=> InSeq(u, requestQueue)
                        /\ InSeq(u, finishedQueue)' <=> InSeq(u, finishedQueue) \/ u = t
                        /\ Fetched(u)' <=> Fetched(u)
                        /\ u \in processSet' <=> u \in processSet
                        /\ Reported(u)' <=> Reported(u)
                        /\ ~InHand(u)'
                        /\ InHand(u) <=> u = t
  BY <1>2, <1>4, <1>7 DEF InSeq, Fetched, Reported, InHand
<1>13. \A u \in Tasks : u # t => SamePlace(u)
  BY <1>12 DEF SamePlace
<1>14. Apart(t)' /\ Somewhere(t)'
  BY <1>5, <1>12 DEF Apart, Somewhere
<1>15. t \notin fresh' /\ fresh' = fresh
  BY <1>1, <1>2, <1>5 DEF FreshInv
<1>16. QED
  BY <1>2, <1>8, <1>9, <1>10, <1>11, <1>13, <1>14, <1>15, MoveStep

LEMMA ReleaseWrapperKeeps == ASSUME DlInv, ReleaseWrapper PROVE DlInv'
<1>1. TypeOK /\ WorkerInv
  BY DEF DlInv
<1>2. /\ UNCHANGED <<requestQueue, finishedQueue, processSet, tasks, at, result, fresh, thread, creating,
                     main, alive, coTaskMap>>
      /\ worker = "release" /\ worker' = "perform" /\ wrapper' = NoTask
  BY DEF ReleaseWrapper, queueVars
<1>3. DestroyUnreferenced("worker")
  BY DEF ReleaseWrapper
<1>4. /\ destroyed' \in [Tasks -> {"no", "main", "worker", "crash"}]
      /\ storagePathSet' \subseteq Paths /\ fp' \in [Tasks -> Tasks \cup {NoFile}]
      /\ \A u \in Tasks : destroyed'[u] = "no" => destroyed[u] = "no"
  BY <1>1, <1>3, DestroyEffect
<1>5. TypeOK'
  BY <1>1, <1>4 DEF TypeOK, ReleaseWrapper, queueVars
<1>6. WorkerInv'
  BY <1>1, <1>2 DEF WorkerInv
<1>7. \A u \in Tasks : InHand(u)' <=> InHand(u)
  BY <1>2 DEF InHand
<1>8. QED
  BY <1>2, <1>4, <1>5, <1>6, <1>7, StillStep

\* The first request goes to the set, or to the finished queue when it cannot be started.
LEMMA TakeRequestKeeps == ASSUME DlInv, TakeRequest PROVE DlInv'
<1>1. TypeOK /\ WorkerInv /\ ScheduleInv /\ OnceInv /\ FreshInv /\ ApartInv
  BY DEF DlInv
<1>2. /\ UNCHANGED <<thread, worker, wrapper, main, creating, tasks, at, alive, fresh, destroyed, result>>
      /\ worker = "request" /\ requestQueue # << >> /\ requestQueue' = Tail(requestQueue)
  BY DEF TakeRequest, mainVars
<1>3. requestQueue \in Seq(Tasks) /\ finishedQueue \in Seq(Tasks)
  BY <1>1 DEF TypeOK
<1>4. /\ Tail(requestQueue) \in Seq(Tasks) /\ Head(requestQueue) \in Tasks
      /\ \A u : InSeq(u, requestQueue) <=> InSeq(u, Tail(requestQueue)) \/ u = Head(requestQueue)
      /\ Once(requestQueue) => Once(Tail(requestQueue)) /\ ~InSeq(Head(requestQueue), Tail(requestQueue))
  BY <1>2, <1>3, Shrunk
<1>5. PICK t \in Tasks : t = Head(requestQueue)
  BY <1>4
<1>6. /\ requestQueue' \in Seq(Tasks) /\ Once(requestQueue') /\ ~InSeq(t, requestQueue')
      /\ \A u : InSeq(u, requestQueue) <=> InSeq(u, requestQueue') \/ u = t
  BY <1>1, <1>2, <1>4, <1>5 DEF OnceInv
<1>7. InSeq(t, requestQueue) /\ Apart(t)
  BY <1>1, <1>6 DEF ApartInv
<1>8. /\ ~InSeq(t, finishedQueue) /\ ~Fetched(t) /\ t \notin processSet /\ ~InHand(t) /\ ~Reported(t)
  BY <1>7 DEF Apart
<1>9. t \notin fresh' /\ fresh' = fresh
  BY <1>1, <1>2, <1>7 DEF FreshInv
<1>10. \A u \in Tasks : /\ u # t => (InSeq(u, requestQueue)' <=> InSeq(u, requestQueue))
                        /\ Fetched(u)' <=> Fetched(u)
                        /\ Reported(u)' <=> Reported(u)
                        /\ InHand(u)' <=> InHand(u)
  BY <1>2, <1>6 DEF InSeq, Fetched, Reported, InHand
<1>11. ~InSeq(t, requestQueue)'
  BY <1>6 DEF InSeq
<1>12. ScheduleInv'
  BY <1>1, <1>2 DEF ScheduleInv, Reported
<1>13. co' \in [Tasks -> [err : BOOLEAN, header : BOOLEAN, received : Nat]]
  <2>1. /\ NewCoTask \in [err : BOOLEAN, header : BOOLEAN, received : Nat]
        /\ [NewCoTask EXCEPT !.err = TRUE] \in [err : BOOLEAN, header : BOOLEAN, received : Nat]
    BY DEF NewCoTask
  <2>2. \/ co' = [co EXCEPT ![t] = NewCoTask]
        \/ co' = [co EXCEPT ![t] = [NewCoTask EXCEPT !.err = TRUE]]
    BY <1>5 DEF TakeRequest
  <2>3. QED
    BY <1>1, <2>1, <2>2 DEF TypeOK
<1>14. CASE coTaskMap' = coTaskMap \cup {t} /\ processSet' = processSet \cup {t} /\ finishedQueue' = finishedQueue
  <2>1. TypeOK'
    BY <1>1, <1>2, <1>6, <1>13, <1>14 DEF TypeOK, TakeRequest, mainVars, fileVars
  <2>2. WorkerInv'
    BY <1>1, <1>2, <1>14 DEF WorkerInv
  <2>3. OnceInv'
    BY <1>1, <1>2, <1>6, <1>14 DEF OnceInv, Once
  <2>4. /\ \A u \in Tasks : InSeq(u, finishedQueue)' <=> InSeq(u, finishedQueue)
        /\ \A u \in Tasks : u # t => (u \in processSet' <=> u \in processSet)
        /\ t \in processSet'
    BY <1>14 DEF InSeq
  <2>5. \A u \in Tasks : u # t => SamePlace(u)
    BY <1>10, <2>4 DEF SamePlace
  <2>6. Apart(t)' /\ Somewhere(t)'
    BY <1>8, <1>10, <1>11, <2>4 DEF Apart, Somewhere
  <2>7. QED
    BY <1>2, <1>9, <1>12, <2>1, <2>2, <2>3, <2>5, <2>6, MoveStep
<1>15. CASE finishedQueue' = Append(finishedQueue, t) /\ coTaskMap' = coTaskMap /\ processSet' = processSet
  <2>1. /\ Append(finishedQueue, t) \in Seq(Tasks)
        /\ \A u : InSeq(u, Append(finishedQueue, t)) <=> InSeq(u, finishedQueue) \/ u = t
        /\ Once(finishedQueue) /\ ~InSeq(t, finishedQueue) => Once(Append(finishedQueue, t))
    BY <1>3, Grown
  <2>2. /\ finishedQueue' \in Seq(Tasks) /\ Once(finishedQueue')
        /\ \A u : InSeq(u, finishedQueue') <=> InSeq(u, finishedQueue) \/ u = t
    BY <1>1, <1>8, <1>15, <2>1 DEF OnceInv
  <2>3. TypeOK'
    BY <1>1, <1>2, <1>6, <1>13, <1>15, <2>2 DEF TypeOK, TakeRequest, mainVars, fileVars
  <2>4. WorkerInv'
    BY <1>1, <1>2, <1>15 DEF WorkerInv
  <2>5. OnceInv'
    BY <1>1, <1>2, <1>6, <2>2 DEF OnceInv, Once
  <2>6. /\ \A u \in Tasks : InSeq(u, finishedQueue)' <=> InSeq(u, finishedQueue) \/ u = t
        /\ \A u \in Tasks : u \in processSet' <=> u \in processSet
    BY <1>15, <2>2 DEF InSeq
  <2>7. \A u \in Tasks : u # t => SamePlace(u)
    BY <1>10, <2>6 DEF SamePlace
  <2>8. Apart(t)' /\ Somewhere(t)'
    BY <1>8, <1>10, <1>11, <2>6 DEF Apart, Somewhere
  <2>9. QED
    BY <1>2, <1>9, <1>12, <2>3, <2>4, <2>5, <2>7, <2>8, MoveStep
<1>16. QED
  BY <1>5, <1>14, <1>15 DEF TakeRequest

\* The worker leaves.  Its map goes with it, and what was in process stays in the set; the
\* queues go too when the downloader is gone.
LEMMA LeaveThreadKeeps == ASSUME DlInv, LeaveThread PROVE DlInv'
<1>1. TypeOK /\ WorkerInv /\ ScheduleInv /\ OnceInv
  BY DEF DlInv
<1>2. /\ UNCHANGED <<tasks, at, result, fresh, creating, main, wrapper, alive>>
      /\ worker = "leave" /\ worker' = "gone" /\ thread' = FALSE /\ coTaskMap' = {}
      /\ IF alive
         THEN UNCHANGED queueVars
         ELSE requestQueue' = << >> /\ finishedQueue' = << >> /\ processSet' = {}
  BY DEF LeaveThread, Stopped
<1>3. DestroyUnreferenced("worker")
  BY DEF LeaveThread
<1>4. /\ destroyed' \in [Tasks -> {"no", "main", "worker", "crash"}]
      /\ storagePathSet' \subseteq Paths /\ fp' \in [Tasks -> Tasks \cup {NoFile}]
      /\ \A u \in Tasks : destroyed'[u] = "no" => destroyed[u] = "no"
  BY <1>1, <1>3, DestroyEffect
<1>5. missed' \subseteq Tasks
  <2>1. ToSet(requestQueue) \subseteq Tasks
    <3>1. requestQueue \in Seq(Tasks)
      BY <1>1 DEF TypeOK
    <3>2. \A i \in 1..Len(requestQueue) : requestQueue[i] \in Tasks
      BY <3>1, ElementOfSeq
    <3>3. QED
      BY <3>1, <3>2 DEF ToSet
  <2>2. QED
    BY <1>1, <2>1 DEF LeaveThread, TypeOK
<1>6. \A u \in Tasks : ~InHand(u) /\ ~InHand(u)'
  BY <1>2 DEF InHand
<1>7. CASE alive
  <2>1. UNCHANGED <<requestQueue, finishedQueue, processSet>>
    BY <1>2, <1>7 DEF queueVars
  <2>2. TypeOK'
    BY <1>1, <1>2, <1>4, <1>5, <2>1 DEF TypeOK, LeaveThread
  <2>3. WorkerInv'
    BY <1>1, <1>2 DEF WorkerInv
  <2>4. QED
    BY <1>2, <1>4, <1>6, <2>1, <2>2, <2>3, StillStep
<1>8. CASE ~alive
  <2>1. requestQueue' = << >> /\ finishedQueue' = << >> /\ processSet' = {} /\ ~alive'
    BY <1>2, <1>8
  <2>2. TypeOK'
    BY <1>1, <1>2, <1>4, <1>5, <2>1, EmptyQueue DEF TypeOK, LeaveThread
  <2>3. WorkerInv'
    BY <1>1, <1>2 DEF WorkerInv
  <2>4. ScheduleInv' /\ OnceInv'
    BY <1>1, <1>2, <2>1, EmptyQueue DEF ScheduleInv, Reported, OnceInv, Once
  <2>5. \A t \in Tasks : ~InSeq(t, requestQueue)' /\ ~InSeq(t, finishedQueue)' /\ (Fetched(t)' => Fetched(t))
    BY <1>2, <2>1, EmptyQueue DEF InSeq, Fetched
  <2>6. QED
    BY <1>2, <1>6, <2>1, <2>2, <2>3, <2>4, <2>5, LeaveStep
<1>9. QED
  BY <1>7, <1>8

-----------------------------------------------------------------------------
(***************************************************************************)
(* A crash.                                                                *)
(***************************************************************************)
LEMMA CrashData == ASSUME TypeOK, Crash PROVE data' \in [Tasks -> Seq(1..Size)]
<1> DEFINE open == {fp[t] : t \in Tasks} \ {NoFile}
<1>1. PICK kept :
        /\ \A f \in open : kept[f] \in Prefixes(data[f])
        /\ data' = [f \in Tasks |-> IF f \in open THEN kept[f] ELSE data[f]]
  BY DEF Crash
<1>2. \A f \in Tasks : data[f] \in Seq(1..Size)
  BY DEF TypeOK
<1>3. ASSUME NEW f \in Tasks, f \in open PROVE kept[f] \in Seq(1..Size)
  <2>1. kept[f] \in Prefixes(data[f])
    BY <1>1, <1>3
  <2>2. PICK l \in 0..Len(data[f]) : kept[f] = SubSeq(data[f], 1, l)
    BY <2>1 DEF Prefixes
  <2>3. data[f] \in Seq(1..Size) /\ Len(data[f]) \in Nat
    BY <1>2
  <2>4. l \in Int /\ \A i \in 1..l : i \in 1..Len(data[f])
    BY <2>2, <2>3
  <2>5. \A i \in 1..l : data[f][i] \in 1..Size
    BY <2>3, <2>4, ElementOfSeq
  <2>6. SubSeq(data[f], 1, l) \in Seq(1..Size)
    BY <2>4, <2>5, SubSeqProperties
  <2>7. QED
    BY <2>2, <2>6
<1> HIDE DEF open
<1>4. QED
  BY <1>1, <1>2, <1>3

\* All tasks that exist are destroyed.
LEMMA CrashKeeps == ASSUME DlInv, Crash PROVE DlInv'
<1>1. TypeOK
  BY DEF DlInv
<1>2. /\ requestQueue' = << >> /\ finishedQueue' = << >> /\ processSet' = {} /\ tasks' = << >> /\ at' = 0
      /\ thread' = FALSE /\ worker' = "gone" /\ coTaskMap' = {} /\ wrapper' = NoTask /\ creating' = FALSE
      /\ fresh' = fresh /\ result' = result
  BY DEF Crash
<1>3. TypeOK'
  <2>1. data' \in [Tasks -> Seq(1..Size)]
    BY <1>1, CrashData
  <2>2. destroyed' \in [Tasks -> {"no", "main", "worker", "crash"}]
    <3>1. destroyed \in [Tasks -> {"no", "main", "worker", "crash"}]
      BY <1>1 DEF TypeOK
    <3>2. destroyed' = [t \in Tasks |-> IF t \in fresh \/ destroyed[t] # "no" THEN destroyed[t] ELSE "crash"]
      BY DEF Crash
    <3>3. QED
      BY <3>1, <3>2
  <2>3. fp' \in [Tasks -> Tasks \cup {NoFile}]
    BY DEF Crash
  <2>4. crashes' \in 0..MaxCrashes
    BY <1>1, SizeAssumption DEF Crash, TypeOK
  <2>5. at' \in 0..Len(tasks')
    BY <1>2
  <2>6. QED
    BY <1>1, <2>1, <2>2, <2>3, <2>4, <2>5, EmptyQueue DEF TypeOK, Crash
<1>4. WorkerInv' /\ ScheduleInv' /\ OnceInv'
  BY <1>2, EmptyQueue DEF WorkerInv, ScheduleInv, OnceInv, Once
<1>5. \A t \in Tasks : /\ ~InSeq(t, requestQueue)' /\ ~InSeq(t, finishedQueue)'
                       /\ ~Fetched(t)' /\ ~InHand(t)'
  BY <1>2, EmptyQueue DEF InSeq, Fetched, InHand
<1>6. Live' = {}
  <2>1. destroyed' = [t \in Tasks |-> IF t \in fresh \/ destroyed[t] # "no" THEN destroyed[t] ELSE "crash"]
    BY DEF Crash
  <2>2. QED
    BY <1>2, <2>1 DEF Live
<1>7. processSet' \subseteq processSet
  BY <1>2
<1>8. QED
  BY <1>2, <1>3, <1>4, <1>5, <1>6, <1>7, LeaveStep

-----------------------------------------------------------------------------
(***************************************************************************)
(* The invariant holds.                                                    *)
(***************************************************************************)
LEMMA NextKeeps == DlInv /\ [Next]_vars => DlInv'
<1> SUFFICES ASSUME DlInv, [Next]_vars PROVE DlInv'
  OBVIOUS
<1>1. ASSUME NEW t \in Tasks, CreateCoTask(t) \/ Release(t) PROVE DlInv'
  BY <1>1, CreateCoTaskKeeps, ReleaseKeeps
<1>2. CASE Run
  BY <1>2, RunKeeps
<1>3. CASE Destroy
  BY <1>3, DestroyKeeps
<1>4. CASE Schedule
  BY <1>4, GetFinishedTasksKeeps, PauseIfStoppedKeeps, ReportKeeps, EndScheduleKeeps DEF Schedule
<1>5. CASE WorkerStep
  <2>1. CASE CheckStopped \/ MultiFails \/ EnterRequests \/ NoRequest
    BY <2>1, CheckStoppedKeeps, MultiFailsKeeps, EnterRequestsKeeps, NoRequestKeeps
  <2>2. ASSUME NEW t \in Tasks, Receive(t) \/ EndTransfer(t) PROVE DlInv'
    BY <2>2, ReceiveKeeps, TransferFailsKeeps, ContentDoneKeeps, HeaderDoneKeeps DEF EndTransfer
  <2>3. CASE PushFinished \/ ReleaseWrapper
    BY <2>3, PushFinishedKeeps, ReleaseWrapperKeeps
  <2>4. CASE TakeRequest \/ LeaveThread
    BY <2>4, TakeRequestKeeps, LeaveThreadKeeps
  <2>5. QED
    BY <1>5, <2>1, <2>2, <2>3, <2>4 DEF WorkerStep
<1>6. CASE Crash
  BY <1>6, CrashKeeps
<1>7. CASE UNCHANGED vars
  <2>1. UNCHANGED <<requestQueue, finishedQueue, processSet, tasks, at, result, fresh, destroyed, main,
                    worker, alive, creating, thread, wrapper, coTaskMap>>
    BY <1>7 DEF vars, queueVars, workerVars, mainVars, taskVars
  <2>2. TypeOK'
    BY <1>7 DEF DlInv, TypeOK, vars, queueVars, workerVars, mainVars, fileVars, taskVars
  <2>3. WorkerInv'
    BY <2>1 DEF DlInv, WorkerInv
  <2>4. \A u \in Tasks : InHand(u)' <=> InHand(u)
    BY <2>1 DEF InHand
  <2>5. QED
    BY <2>1, <2>2, <2>3, <2>4, StillStep
<1>8. QED
  BY <1>1, <1>2, <1>3, <1>4, <1>5, <1>6, <1>7 DEF Next

\* Each task has its places to itself, in every reachable state.
THEOREM InvariantHolds == Spec => []DlInv
<1>1. Init => DlInv
  BY InitHolds
<1>2. DlInv /\ [Next]_vars => DlInv'
  BY NextKeeps
<1>3. QED
  BY <1>1, <1>2, PTL DEF Spec

\* Every variable keeps its type.  It needs WorkerInv: run() starts a worker when the thread
\* is not joinable, and that none is there then, with tasks in its map, is not in the types.
THEOREM TypesHold == Spec => []TypeOK
<1>1. DlInv => TypeOK
  BY DEF DlInv
<1>2. QED
  BY <1>1, InvariantHolds, PTL

-----------------------------------------------------------------------------
(***************************************************************************)
(* The number of places of a task.                                         *)
(***************************************************************************)
LEMMA CountOnce ==
  ASSUME NEW q, Once(q), NEW t
  PROVE  Cardinality({i \in 1..Len(q) : q[i] = t}) = IF InSeq(t, q) THEN 1 ELSE 0
<1>1. CASE InSeq(t, q)
  <2>1. PICK i \in 1..Len(q) : q[i] = t
    BY <1>1 DEF InSeq
  <2>2. {j \in 1..Len(q) : q[j] = t} = {i}
    BY <2>1 DEF Once
  <2>3. QED
    BY <1>1, <2>2, FS_Singleton
<1>2. CASE ~InSeq(t, q)
  <2>1. {j \in 1..Len(q) : q[j] = t} = {}
    BY <1>2 DEF InSeq
  <2>2. QED
    BY <1>2, <2>1, FS_EmptySet
<1>3. QED
  BY <1>1, <1>2

\* What is fetched and not reported yet.
LEMMA Rest ==
  ASSUME DlInv
  PROVE  /\ Once(SubSeq(tasks, at + 1, Len(tasks)))
         /\ \A t : InSeq(t, SubSeq(tasks, at + 1, Len(tasks))) <=> Fetched(t)
<1> DEFINE n == Len(tasks)
           q == SubSeq(tasks, at + 1, n)
<1>1. tasks \in Seq(Tasks) /\ at \in 0..n /\ n \in Nat /\ Once(tasks)
  BY DEF DlInv, TypeOK, OnceInv
<1>2. at + 1 \in Int /\ n \in Int /\ n - (at + 1) + 1 = n - at
      /\ \A i \in (at + 1)..n : i \in 1..n
  BY <1>1
<1>3. \A i \in (at + 1)..n : tasks[i] \in Tasks
  BY <1>1, <1>2, ElementOfSeq
<1>4. /\ Len(q) = IF at + 1 <= n THEN n - (at + 1) + 1 ELSE 0
      /\ \A i \in 1..(n - (at + 1) + 1) : q[i] = tasks[at + 1 + i - 1]
  BY <1>2, <1>3, SubSeqProperties
<1>5. Len(q) = n - at
  BY <1>1, <1>4
<1>6. \A i \in 1..(n - at) : q[i] = tasks[at + i]
  BY <1>1, <1>2, <1>4
<1> HIDE DEF q
<1>7. Once(q)
  <2>1. \A i, j \in 1..(n - at) : at + i \in 1..n /\ at + j \in 1..n /\ (at + i = at + j => i = j)
    BY <1>1
  <2>2. QED
    BY <1>1, <1>5, <1>6, <2>1 DEF Once
<1>8. \A t : InSeq(t, q) <=> Fetched(t)
  <2>1. \A i \in 1..(n - at) : at + i \in 1..n /\ at + i > at
    BY <1>1
  <2>2. \A i \in 1..n : i > at => i - at \in 1..(n - at) /\ at + (i - at) = i
    BY <1>1
  <2>3. \A t : InSeq(t, q) => Fetched(t)
    BY <1>5, <1>6, <2>1 DEF InSeq, Fetched
  <2>4. ASSUME NEW t, Fetched(t) PROVE InSeq(t, q)
    <3>1. PICK i \in 1..n : i > at /\ tasks[i] = t
      BY <2>4 DEF Fetched
    <3>2. i - at \in 1..(n - at) /\ q[i - at] = t
      BY <1>6, <2>2, <3>1
    <3>3. QED
      BY <1>5, <3>2 DEF InSeq
  <2>5. QED
    BY <2>3, <2>4
<1>9. QED
  BY <1>7, <1>8 DEF q

LEMMA OnePlace == ASSUME DlInv, alive, NEW t \in Live PROVE Places(t) = 1
<1> DEFINE One(b) == IF b THEN 1 ELSE 0
<1>1. TypeOK /\ WorkerInv /\ OnceInv
  BY DEF DlInv
<1>2. Apart(t) /\ Somewhere(t)
  BY DEF DlInv, ApartInv, PlaceInv, Live
<1>3. Cardinality({i \in 1..Len(requestQueue) : requestQueue[i] = t}) = One(InSeq(t, requestQueue))
  BY <1>1, CountOnce DEF OnceInv
<1>4. Cardinality({i \in 1..Len(finishedQueue) : finishedQueue[i] = t}) = One(InSeq(t, finishedQueue))
  BY <1>1, CountOnce DEF OnceInv
<1>5. Cardinality({i \in 1..Len(SubSeq(tasks, at + 1, Len(tasks))) : SubSeq(tasks, at + 1, Len(tasks))[i] = t})
        = One(Fetched(t))
  BY Rest, CountOnce
<1>6. coTaskMap \cup Abandoned = processSet
  BY <1>1 DEF WorkerInv, Abandoned
<1>7. Places(t) = One(InSeq(t, requestQueue)) + One(InSeq(t, finishedQueue)) + One(Fetched(t))
                  + One(t \in processSet) + One(InHand(t)) + One(Reported(t))
  BY <1>3, <1>4, <1>5, <1>6 DEF Places, InHand, Reported
<1>8. QED
  BY <1>2, <1>7 DEF Apart, Somewhere

\* What the main thread reports the worker does not have.
LEMMA FetchedAreMains == DlInv => FetchedTasksAreMains
<1> SUFFICES ASSUME DlInv PROVE FetchedTasksAreMains
  OBVIOUS
<1>1. TypeOK /\ WorkerInv /\ ScheduleInv /\ ApartInv
  BY DEF DlInv
<1>2. tasks \in Seq(Tasks) /\ requestQueue \in Seq(Tasks) /\ at \in Nat
  BY <1>1 DEF TypeOK
<1>3. ASSUME NEW t \in ToSet(tasks)
      PROVE  t \notin processSet /\ ~InSeq(t, requestQueue)
  <2>1. PICK i \in 1..Len(tasks) : tasks[i] = t
    BY <1>2 DEF ToSet
  <2>2. t \in Tasks
    BY <1>2, <2>1, ElementOfSeq
  <2>3. Reported(t) \/ Fetched(t)
    <3>1. CASE i <= at
      BY <1>1, <2>1, <3>1 DEF ScheduleInv
    <3>2. CASE i > at
      BY <2>1, <3>2 DEF Fetched
    <3>3. QED
      BY <1>2, <3>1, <3>2
  <2>4. Apart(t)
    BY <1>1, <2>2 DEF ApartInv
  <2>5. QED
    BY <2>3, <2>4 DEF Apart
<1>4. \A t \in ToSet(requestQueue) : InSeq(t, requestQueue)
  BY <1>2 DEF ToSet, InSeq
<1>5. coTaskMap \subseteq processSet
  BY <1>1 DEF WorkerInv
<1>6. QED
  BY <1>3, <1>4, <1>5 DEF FetchedTasksAreMains

\* Between the two threads no task is lost and none is there twice, whatever mutex each
\* step holds; and what _onSchedule reports the worker does not touch.
THEOREM TasksAreNotLost == Spec => []EachTaskInOnePlace
<1>1. DlInv => EachTaskInOnePlace
  BY OnePlace, FetchedAreMains DEF EachTaskInOnePlace
<1>2. QED
  BY <1>1, InvariantHolds, PTL

-----------------------------------------------------------------------------
(***************************************************************************)
(* The temporary files.                                                    *)
(***************************************************************************)
Opened(t) == InSeq(t, requestQueue) \/ t \in coTaskMap

Ended(t) == InHand(t) \/ InSeq(t, finishedQueue) \/ Fetched(t)

\* A task writes to the file under the temporary name of its path, and a file has this
\* name for one path only.
OpenInv ==
  /\ \A t \in Tasks : fp[t] # NoFile => Storage[t] \in Paths /\ temp[Storage[t]] = fp[t]
  /\ \A p \in Paths : temp[p] # NoFile => Storage[temp[p]] = p

\* A file has the first chunks of the content, in order.
ChunksInv ==
  \A f \in Tasks : Len(data[f]) <= Size /\ \A i \in 1..Len(data[f]) : data[f][i] = i

\* A requested file task has its file open; once it has the header, it has received what
\* is in the file; when it ends without an error that is everything.
FileOf(t) ==
  /\ Opened(t) => fp[t] # NoFile
  /\ t \in coTaskMap /\ co[t].header => co[t].received = Len(data[fp[t]])
  /\ Ended(t) /\ ~co[t].err => fp[t] # NoFile /\ Len(data[fp[t]]) = Size

FileInv == OpenInv /\ ChunksInv /\ \A t \in Tasks : Storage[t] # NoPath => FileOf(t)

\* The task comes to no place it was not in.
ComesNowhere(t) ==
  /\ Opened(t)' => Opened(t)
  /\ t \in coTaskMap' => t \in coTaskMap
  /\ Ended(t)' => Ended(t)

LEMMA KeptFile ==
  ASSUME NEW t, FileOf(t), ComesNowhere(t), co'[t] = co[t],
         Opened(t)' \/ Ended(t)' => fp'[t] = fp[t],
         fp[t] # NoFile => data'[fp[t]] = data[fp[t]]
  PROVE  FileOf(t)'
<1>1. CASE Opened(t)' \/ Ended(t)'
  <2>1. fp'[t] = fp[t]
    BY <1>1
  <2>2. Opened(t)' => fp'[t] # NoFile
    BY <2>1 DEF FileOf, ComesNowhere
  <2>3. t \in coTaskMap' /\ co'[t].header => co'[t].received = Len(data'[fp'[t]])
    <3>1. ASSUME t \in coTaskMap', co'[t].header PROVE co'[t].received = Len(data'[fp'[t]])
      <4>1. Opened(t)' /\ t \in coTaskMap
        BY <3>1 DEF Opened, ComesNowhere
      <4>2. co[t].received = Len(data[fp[t]]) /\ fp[t] # NoFile
        BY <2>1, <2>2, <3>1, <4>1 DEF FileOf
      <4>3. QED
        BY <2>1, <4>2
    <3>2. QED
      BY <3>1
  <2>4. Ended(t)' /\ ~co'[t].err => fp'[t] # NoFile /\ Len(data'[fp'[t]]) = Size
    BY <2>1 DEF FileOf, ComesNowhere
  <2>5. QED
    BY <2>2, <2>3, <2>4 DEF FileOf
<1>2. CASE ~Opened(t)' /\ ~Ended(t)'
  BY <1>2 DEF FileOf, Opened
<1>3. QED
  BY <1>1, <1>2

\* A task that has a place is not destroyed, so its file stays open.
LEMMA PlacedAreReferenced ==
  ASSUME TypeOK', NEW t \in Tasks, Opened(t)' \/ Ended(t)'
  PROVE  t \in Referenced'
<1>1. /\ requestQueue' \in Seq(Tasks) /\ finishedQueue' \in Seq(Tasks) /\ tasks' \in Seq(Tasks)
      /\ t # NoTask
  BY NullAssumption DEF TypeOK
<1>2. InSeq(t, requestQueue)' => t \in ToSet(requestQueue)'
  BY <1>1 DEF InSeq, ToSet
<1>3. InSeq(t, finishedQueue)' => t \in ToSet(finishedQueue)'
  BY <1>1 DEF InSeq, ToSet
<1>4. Fetched(t)' => t \in ToSet(tasks)'
  BY <1>1 DEF Fetched, ToSet
<1>5. InHand(t)' => t = wrapper'
  BY DEF InHand
<1>6. \/ t \in ToSet(requestQueue)' \/ t \in coTaskMap' \/ t \in ToSet(finishedQueue)'
      \/ t \in ToSet(tasks)' \/ t \in {wrapper}'
  BY <1>2, <1>3, <1>4, <1>5 DEF Opened, Ended
<1>7. QED
  BY <1>1, <1>6 DEF Referenced

\* A step that destroys tasks and opens no file.
LEMMA DestroyFiles ==
  ASSUME FileInv, TypeOK, TypeOK', NEW thisThread, DestroyUnreferenced(thisThread),
         UNCHANGED <<data, temp, co>>, \A t \in Tasks : ComesNowhere(t)
  PROVE  FileInv'
<1>1. OpenInv /\ ChunksInv
  BY DEF FileInv
<1>2. PICK dropped : /\ dropped = Referenced \ Referenced'
                     /\ fp' = [t \in Tasks |-> IF t \in dropped THEN NoFile ELSE fp[t]]
  BY DEF DestroyUnreferenced
<1>3. \A t \in Tasks : fp'[t] = fp[t] \/ fp'[t] = NoFile
  BY <1>2
<1>4. OpenInv'
  BY <1>1, <1>3 DEF OpenInv
<1>5. ChunksInv'
  BY <1>1 DEF ChunksInv
<1>6. ASSUME NEW t \in Tasks, Storage[t] # NoPath PROVE FileOf(t)'
  <2>1. Opened(t)' \/ Ended(t)' => fp'[t] = fp[t]
    <3>1. Opened(t)' \/ Ended(t)' => t \notin dropped
      BY <1>2, PlacedAreReferenced
    <3>2. QED
      BY <1>2, <3>1
  <2>2. FileOf(t) /\ ComesNowhere(t) /\ co'[t] = co[t] /\ data'[fp[t]] = data[fp[t]]
    BY <1>6 DEF FileInv
  <2>3. QED
    BY <2>1, <2>2, KeptFile
<1>7. QED
  BY <1>4, <1>5, <1>6 DEF FileInv

\* A step that leaves the files alone.
LEMMA StillFiles ==
  ASSUME FileInv, UNCHANGED <<data, temp, co, fp>>, \A t \in Tasks : ComesNowhere(t)
  PROVE  FileInv'
<1>1. OpenInv' /\ ChunksInv'
  BY DEF FileInv, OpenInv, ChunksInv
<1>2. ASSUME NEW t \in Tasks, Storage[t] # NoPath PROVE FileOf(t)'
  <2>1. FileOf(t) /\ ComesNowhere(t) /\ co'[t] = co[t] /\ data'[fp[t]] = data[fp[t]] /\ fp'[t] = fp[t]
    BY <1>2 DEF FileInv
  <2>2. QED
    BY <2>1, KeptFile
<1>3. QED
  BY <1>1, <1>2 DEF FileInv

\* A step that takes the task t on and leaves the files and the other tasks alone.
LEMMA OneTaskGoesOn ==
  ASSUME FileInv, UNCHANGED <<data, temp, fp>>, NEW t \in Tasks,
         \A u \in Tasks : u # t => ComesNowhere(u) /\ co'[u] = co[u],
         Storage[t] # NoPath => FileOf(t)'
  PROVE  FileInv'
<1>1. OpenInv' /\ ChunksInv'
  BY DEF FileInv, OpenInv, ChunksInv
<1>2. ASSUME NEW u \in Tasks, Storage[u] # NoPath, u # t PROVE FileOf(u)'
  <2>1. FileOf(u) /\ ComesNowhere(u) /\ co'[u] = co[u] /\ data'[fp[u]] = data[fp[u]] /\ fp'[u] = fp[u]
    BY <1>2 DEF FileInv
  <2>2. QED
    BY <2>1, KeptFile
<1>3. QED
  BY <1>1, <1>2 DEF FileInv

LEMMA InitFiles == Init => FileInv
<1> SUFFICES ASSUME Init PROVE FileInv
  OBVIOUS
<1>1. OpenInv
  BY DEF Init, OpenInv
<1>2. ChunksInv
  <2>1. \A f \in Tasks : data[f] = << >>
    BY DEF Init
  <2>2. Len(<< >>) = 0 /\ Len(<< >>) <= Size /\ 1..0 = {}
    BY SizeAssumption
  <2>3. QED
    BY <2>1, <2>2 DEF ChunksInv
<1>3. \A t \in Tasks : ~Opened(t) /\ ~Ended(t) /\ t \notin coTaskMap
  BY EmptyQueue DEF Init, Opened, Ended, InSeq, Fetched, InHand
<1>4. QED
  BY <1>1, <1>2, <1>3 DEF FileInv, FileOf

-----------------------------------------------------------------------------
(***************************************************************************)
(* The steps that open no file and write none.                             *)
(***************************************************************************)
LEMMA EndScheduleFiles == ASSUME DlInv, TypeOK', FileInv, EndSchedule PROVE FileInv'
<1>1. TypeOK /\ tasks' = << >>
  BY DEF DlInv, EndSchedule
<1>2. /\ UNCHANGED <<requestQueue, finishedQueue, coTaskMap, worker, wrapper, data, temp, co>>
      /\ DestroyUnreferenced("main")
  BY DEF EndSchedule, queueVars
<1>3. \A t \in Tasks : ~Fetched(t)'
  BY <1>1, EmptyQueue DEF Fetched, InSeq
<1>4. \A t \in Tasks : ComesNowhere(t)
  BY <1>2, <1>3 DEF ComesNowhere, Opened, Ended, InSeq, InHand
<1>5. QED
  BY <1>1, <1>2, <1>4, DestroyFiles

LEMMA ReleaseFiles == ASSUME DlInv, TypeOK', FileInv, NEW t \in Tasks, Release(t) PROVE FileInv'
<1>1. TypeOK
  BY DEF DlInv
<1>2. /\ UNCHANGED <<requestQueue, finishedQueue, coTaskMap, tasks, at, worker, wrapper, data, temp, co>>
      /\ DestroyUnreferenced("main")
  BY DEF Release, queueVars
<1>3. \A u \in Tasks : ComesNowhere(u)
  BY <1>2 DEF ComesNowhere, Opened, Ended, InSeq, InHand, Fetched
<1>4. QED
  BY <1>1, <1>2, <1>3, DestroyFiles

LEMMA DestroyDownloaderFiles == ASSUME DlInv, TypeOK', FileInv, Destroy PROVE FileInv'
<1>1. TypeOK
  BY DEF DlInv
<1>2. /\ UNCHANGED <<coTaskMap, tasks, at, worker, wrapper, data, temp, co>>
      /\ requestQueue' \in {requestQueue, << >>} /\ finishedQueue' \in {finishedQueue, << >>}
      /\ DestroyUnreferenced("main")
  BY DEF Destroy, queueVars
<1>3. \A u \in Tasks : (InSeq(u, requestQueue)' => InSeq(u, requestQueue))
                       /\ (InSeq(u, finishedQueue)' => InSeq(u, finishedQueue))
  BY <1>2, EmptyQueue DEF InSeq
<1>4. \A u \in Tasks : ComesNowhere(u)
  BY <1>2, <1>3 DEF ComesNowhere, Opened, Ended, InHand, Fetched
<1>5. QED
  BY <1>1, <1>2, <1>4, DestroyFiles

LEMMA ReleaseWrapperFiles == ASSUME DlInv, TypeOK', FileInv, ReleaseWrapper PROVE FileInv'
<1>1. TypeOK
  BY DEF DlInv
<1>2. /\ UNCHANGED <<requestQueue, finishedQueue, coTaskMap, tasks, at, data, temp, co>>
      /\ worker' = "perform" /\ DestroyUnreferenced("worker")
  BY DEF ReleaseWrapper, queueVars
<1>3. \A u \in Tasks : ComesNowhere(u)
  BY <1>2 DEF ComesNowhere, Opened, Ended, InSeq, InHand, Fetched
<1>4. QED
  BY <1>1, <1>2, <1>3, DestroyFiles

LEMMA LeaveThreadFiles == ASSUME DlInv, TypeOK', FileInv, LeaveThread PROVE FileInv'
<1>1. TypeOK
  BY DEF DlInv
<1>2. /\ UNCHANGED <<tasks, at, data, temp, co>>
      /\ requestQueue' \in {requestQueue, << >>} /\ finishedQueue' \in {finishedQueue, << >>}
      /\ coTaskMap' = {} /\ worker' = "gone" /\ DestroyUnreferenced("worker")
  BY DEF LeaveThread, queueVars
<1>3. \A u \in Tasks : (InSeq(u, requestQueue)' => InSeq(u, requestQueue))
                       /\ (InSeq(u, finishedQueue)' => InSeq(u, finishedQueue))
  BY <1>2, EmptyQueue DEF InSeq
<1>4. \A u \in Tasks : ComesNowhere(u)
  BY <1>2, <1>3 DEF ComesNowhere, Opened, Ended, InHand, Fetched
<1>5. QED
  BY <1>1, <1>2, <1>4, DestroyFiles

LEMMA RunFiles == ASSUME DlInv, FileInv, Run PROVE FileInv'
<1>1. UNCHANGED <<requestQueue, finishedQueue, coTaskMap, wrapper, tasks, at, data, temp, co, fp>>
  BY DEF Run, queueVars, taskVars, fileVars
<1>2. worker' = worker \/ worker' = "check"
  BY DEF Run
<1>3. \A u \in Tasks : ComesNowhere(u)
  BY <1>1, <1>2 DEF ComesNowhere, Opened, Ended, InSeq, InHand, Fetched
<1>4. QED
  BY <1>1, <1>3, StillFiles

\* What was finished is fetched.
LEMMA GetFinishedTasksFiles == ASSUME DlInv, FileInv, GetFinishedTasks PROVE FileInv'
<1>1. /\ UNCHANGED <<requestQueue, coTaskMap, worker, wrapper, data, temp, co, fp>>
      /\ tasks' = finishedQueue /\ at' = 0 /\ finishedQueue' = << >>
  BY DEF GetFinishedTasks, workerVars, taskVars, fileVars
<1>2. \A u \in Tasks : Fetched(u)' => InSeq(u, finishedQueue)
  BY <1>1 DEF Fetched, InSeq
<1>3. \A u \in Tasks : ~InSeq(u, finishedQueue)'
  BY <1>1, EmptyQueue DEF InSeq
<1>4. \A u \in Tasks : ComesNowhere(u)
  BY <1>1, <1>2, <1>3 DEF ComesNowhere, Opened, Ended, InHand, InSeq
<1>5. QED
  BY <1>1, <1>4, StillFiles

LEMMA PauseIfStoppedFiles == ASSUME DlInv, FileInv, PauseIfStopped PROVE FileInv'
<1>1. UNCHANGED <<requestQueue, finishedQueue, coTaskMap, wrapper, worker, tasks, at, data, temp, co, fp>>
  BY DEF PauseIfStopped, queueVars, workerVars, taskVars, fileVars
<1>2. \A u \in Tasks : ComesNowhere(u)
  BY <1>1 DEF ComesNowhere, Opened, Ended, InSeq, InHand, Fetched
<1>3. QED
  BY <1>1, <1>2, StillFiles

LEMMA WorkerGoesOnFiles ==
  ASSUME DlInv, FileInv, worker' \in {"perform", "check", "request", "leave"},
         UNCHANGED <<queueVars, coTaskMap, mainVars, fileVars, taskVars>>
  PROVE  FileInv'
<1>1. UNCHANGED <<requestQueue, finishedQueue, coTaskMap, tasks, at, data, temp, co, fp>>
  BY DEF queueVars, mainVars, taskVars, fileVars
<1>2. \A u \in Tasks : ComesNowhere(u)
  BY <1>1 DEF ComesNowhere, Opened, Ended, InSeq, InHand, Fetched
<1>3. QED
  BY <1>1, <1>2, StillFiles

LEMMA CheckStoppedFiles == ASSUME DlInv, FileInv, CheckStopped PROVE FileInv'
BY WorkerGoesOnFiles DEF CheckStopped

LEMMA MultiFailsFiles == ASSUME DlInv, FileInv, MultiFails PROVE FileInv'
BY WorkerGoesOnFiles DEF MultiFails

LEMMA EnterRequestsFiles == ASSUME DlInv, FileInv, EnterRequests PROVE FileInv'
BY WorkerGoesOnFiles DEF EnterRequests, AfterIteration

LEMMA NoRequestFiles == ASSUME DlInv, FileInv, NoRequest PROVE FileInv'
BY WorkerGoesOnFiles DEF NoRequest, AfterIteration

\* What was in the hands of the worker is finished.
LEMMA PushFinishedFiles == ASSUME DlInv, FileInv, PushFinished PROVE FileInv'
<1>1. /\ UNCHANGED <<requestQueue, coTaskMap, wrapper, tasks, at, data, temp, co, fp>>
      /\ worker = "finish" /\ worker' = "release" /\ finishedQueue' = Append(finishedQueue, wrapper)
  BY DEF PushFinished, mainVars, taskVars, fileVars
<1>2. wrapper \in Tasks /\ finishedQueue \in Seq(Tasks)
  BY <1>1 DEF DlInv, TypeOK
<1>3. \A u : InSeq(u, finishedQueue') <=> InSeq(u, finishedQueue) \/ u = wrapper
  BY <1>1, <1>2, Grown
<1>4. \A u \in Tasks : Ended(u)' => Ended(u)
  BY <1>1, <1>3 DEF Ended, InHand, InSeq, Fetched
<1>5. \A u \in Tasks : ComesNowhere(u)
  BY <1>1, <1>4 DEF ComesNowhere, Opened, InSeq
<1>6. QED
  BY <1>1, <1>5, StillFiles

-----------------------------------------------------------------------------
(***************************************************************************)
(* Transfers.                                                              *)
(***************************************************************************)
\* A task in process is in no other place.
LEMMA OnlyInProcess ==
  ASSUME DlInv, NEW t \in Tasks, t \in coTaskMap
  PROVE  ~InSeq(t, requestQueue) /\ ~Ended(t)
<1>1. t \in processSet /\ Apart(t)
  BY DEF DlInv, WorkerInv, ApartInv
<1>2. QED
  BY <1>1 DEF Apart, Ended

\* A task that ends with an error, or with the whole file.
LEMMA FinishFiles ==
  ASSUME DlInv, FileInv, NEW t \in Tasks, worker = "perform", t \in coTaskMap, Finish(t),
         \A u \in Tasks : u # t => co'[u] = co[u],
         Storage[t] # NoPath /\ ~co'[t].err => fp[t] # NoFile /\ Len(data[fp[t]]) = Size
  PROVE  FileInv'
<1>1. /\ UNCHANGED <<requestQueue, finishedQueue, tasks, at, data, temp, fp>>
      /\ worker' = "finish" /\ wrapper' = t /\ coTaskMap' = coTaskMap \ {t}
  BY DEF Finish, mainVars, fileVars
<1>2. \A u \in Tasks : u # t => ComesNowhere(u)
  BY <1>1 DEF ComesNowhere, Opened, Ended, InSeq, InHand, Fetched
<1>3. t \notin coTaskMap' /\ ~Opened(t)'
  BY <1>1, OnlyInProcess DEF Opened, InSeq
<1>4. Storage[t] # NoPath => FileOf(t)'
  BY <1>1, <1>3 DEF FileOf
<1>5. QED
  BY <1>1, <1>2, <1>4, OneTaskGoesOn

LEMMA TransferFailsFiles ==
  ASSUME DlInv, FileInv, NEW t \in Tasks, TransferFails(t) PROVE FileInv'
<1>1. TypeOK /\ worker = "perform" /\ t \in coTaskMap /\ Finish(t) /\ co' = [co EXCEPT ![t].err = TRUE]
  BY DEF DlInv, TransferFails
<1>2. co \in [Tasks -> [err : BOOLEAN, header : BOOLEAN, received : Nat]]
  BY <1>1 DEF TypeOK
<1>3. co'[t].err /\ \A u \in Tasks : u # t => co'[u] = co[u]
  BY <1>1, <1>2
<1>4. QED
  BY <1>1, <1>3, FinishFiles

LEMMA ContentDoneFiles ==
  ASSUME DlInv, FileInv, NEW t \in Tasks, ContentDone(t) PROVE FileInv'
<1>1. /\ worker = "perform" /\ t \in coTaskMap /\ Finish(t) /\ co' = co
      /\ co[t].header /\ co[t].received = Size
  BY DEF ContentDone
<1>2. Storage[t] # NoPath => fp[t] # NoFile /\ Len(data[fp[t]]) = Size
  BY <1>1 DEF FileInv, FileOf, Opened
<1>3. QED
  BY <1>1, <1>2, FinishFiles

\* The server accepts ranges: the download goes on behind what is in the file.
LEMMA HeaderDoneFiles ==
  ASSUME Ranges = {TRUE}, DlInv, FileInv, NEW t \in Tasks, HeaderDone(t) PROVE FileInv'
<1>1. TypeOK /\ worker = "perform" /\ t \in coTaskMap
  BY DEF DlInv, HeaderDone
<1>2. PICK odd \in BOOLEAN :
        LET p    == Storage[t]
            size == IF p = NoPath THEN 0 ELSE Len(Contents(temp[p]))
        IN  /\ co' = [co EXCEPT ![t] = [err      |-> @.err \/ odd,
                                        header   |-> TRUE,
                                        received |-> ReceivedBefore(size, TRUE)]]
            /\ IF co'[t].received = Size
               THEN Finish(t)
               ELSE UNCHANGED <<queueVars, workerVars, mainVars, fileVars, held, fresh,
                                destroyed, result, missed, crashes>>
  BY DEF HeaderDone
<1>3. PICK size : size = IF Storage[t] = NoPath THEN 0 ELSE Len(Contents(temp[Storage[t]]))
  OBVIOUS
<1>4. /\ co' = [co EXCEPT ![t] = [err |-> co[t].err \/ odd, header |-> TRUE, received |-> size]]
      /\ IF co'[t].received = Size
         THEN Finish(t)
         ELSE UNCHANGED <<queueVars, workerVars, mainVars, fileVars, held, fresh,
                          destroyed, result, missed, crashes>>
  BY <1>2, <1>3 DEF ReceivedBefore
<1>5. co'[t].received = size /\ \A u \in Tasks : u # t => co'[u] = co[u]
  <2>1. co \in [Tasks -> [err : BOOLEAN, header : BOOLEAN, received : Nat]]
    BY <1>1 DEF TypeOK
  <2>2. QED
    BY <1>4, <2>1
<1>6. Storage[t] # NoPath => fp[t] # NoFile /\ size = Len(data[fp[t]])
  <2>1. ASSUME Storage[t] # NoPath PROVE fp[t] # NoFile /\ size = Len(data[fp[t]])
    <3>1. fp[t] # NoFile
      BY <1>1, <2>1 DEF FileInv, FileOf, Opened
    <3>2. temp[Storage[t]] = fp[t]
      BY <3>1 DEF FileInv, OpenInv
    <3>3. QED
      BY <1>3, <2>1, <3>1, <3>2 DEF Contents
  <2>2. QED
    BY <2>1
<1>7. CASE size = Size
  BY <1>1, <1>4, <1>5, <1>6, <1>7, FinishFiles
<1>8. CASE size # Size
  <2>1. UNCHANGED <<requestQueue, finishedQueue, coTaskMap, worker, wrapper, tasks, at, data, temp, fp>>
    BY <1>4, <1>5, <1>8 DEF queueVars, workerVars, mainVars, fileVars
  <2>2. \A u \in Tasks : ComesNowhere(u)
    BY <2>1 DEF ComesNowhere, Opened, Ended, InSeq, InHand, Fetched
  <2>3. ~Ended(t)'
    BY <1>1, <2>2, OnlyInProcess DEF ComesNowhere
  <2>4. Storage[t] # NoPath => FileOf(t)'
    BY <1>5, <1>6, <2>1, <2>3 DEF FileOf
  <2>5. QED
    BY <1>5, <2>1, <2>2, <2>4, OneTaskGoesOn
<1>9. QED
  BY <1>7, <1>8

\* A chunk is appended to the file, which no other task has open.
LEMMA ReceiveFiles ==
  ASSUME DlInv, FileInv, OneWriterPerFile, NEW t \in Tasks, Receive(t) PROVE FileInv'
<1>1. /\ TypeOK /\ OpenInv /\ ChunksInv
      /\ \A u \in Tasks : Storage[u] # NoPath => FileOf(u)
  BY DEF DlInv, FileInv
<1>2. /\ UNCHANGED <<requestQueue, finishedQueue, coTaskMap, worker, wrapper, tasks, at, temp, fp>>
      /\ t \in coTaskMap /\ co[t].header /\ co[t].received < Size
      /\ co' = [co EXCEPT ![t].received = @ + 1]
      /\ data' = IF fp[t] = NoFile THEN data
                 ELSE [data EXCEPT ![fp[t]] = Append(@, co[t].received + 1)]
  BY DEF Receive, queueVars, workerVars, mainVars
<1>3. /\ co \in [Tasks -> [err : BOOLEAN, header : BOOLEAN, received : Nat]]
      /\ fp \in [Tasks -> Tasks \cup {NoFile}] /\ data \in [Tasks -> Seq(1..Size)]
  BY <1>1 DEF TypeOK
<1>4. co'[t].received = co[t].received + 1 /\ \A u \in Tasks : u # t => co'[u] = co[u]
  BY <1>2, <1>3
<1>5. \A u \in Tasks : ComesNowhere(u)
  BY <1>2 DEF ComesNowhere, Opened, Ended, InSeq, InHand, Fetched
<1>6. OpenInv'
  BY <1>1, <1>2 DEF OpenInv
<1>7. CASE fp[t] = NoFile
  <2>1. Storage[t] = NoPath
    BY <1>1, <1>2, <1>7 DEF FileOf, Opened
  <2>2. data' = data
    BY <1>2, <1>7
  <2>3. QED
    BY <1>2, <1>4, <1>5, <2>1, <2>2, OneTaskGoesOn
<1>8. CASE fp[t] # NoFile
  <2>1. PICK f \in Tasks : f = fp[t]
    BY <1>3, <1>8
  <2>2. Storage[t] # NoPath
    BY <1>1, <1>8, NullAssumption DEF OpenInv
  <2>3. PICK n \in Nat : n = Len(data[f])
    <3>1. data[f] \in Seq(1..Size)
      BY <1>3, <2>1
    <3>2. Len(data[f]) \in Nat
      BY <3>1
    <3>3. QED
      BY <3>2
  <2>4. co[t].received = n /\ n < Size
    BY <1>1, <1>2, <2>1, <2>2, <2>3 DEF FileOf
  <2>5. data' = [data EXCEPT ![f] = Append(data[f], n + 1)]
    BY <1>2, <1>8, <2>1, <2>4
  <2>6. PICK q : q = Append(data[f], n + 1)
    OBVIOUS
  <2>7. /\ Len(q) = n + 1 /\ q[n + 1] = n + 1
        /\ \A i \in 1..n : q[i] = data[f][i]
    <3>1. data[f] \in Seq(1..Size)
      BY <1>3, <2>1
    <3>2. n + 1 \in 1..Size
      BY <2>4, SizeAssumption
    <3>3. QED
      BY <2>3, <2>6, <3>1, <3>2, AppendProperties
  <2>8. data'[f] = q /\ \A g \in Tasks : g # f => data'[g] = data[g]
    BY <1>3, <2>5, <2>6
  <2>9. Len(q) <= Size /\ \A i \in 1..Len(q) : q[i] = i
    <3>1. \A i \in 1..(n + 1) : i \in 1..n \/ i = n + 1
      BY <2>3
    <3>2. \A i \in 1..n : data[f][i] = i
      BY <1>1, <2>1, <2>3 DEF ChunksInv
    <3>3. n + 1 <= Size
      BY <2>4, SizeAssumption
    <3>4. QED
      BY <2>7, <3>1, <3>2, <3>3
  <2>10. ChunksInv'
    BY <1>1, <2>8, <2>9 DEF ChunksInv
  <2>11. ASSUME NEW u \in Tasks, Storage[u] # NoPath, u # t PROVE FileOf(u)'
    <3>1. fp[u] # NoFile => fp[u] # f /\ fp[u] \in Tasks
      BY <1>3, <1>8, <2>1, <2>11 DEF OneWriterPerFile
    <3>2. fp[u] # NoFile => data'[fp[u]] = data[fp[u]]
      BY <2>8, <3>1
    <3>3. FileOf(u) /\ ComesNowhere(u) /\ co'[u] = co[u] /\ fp'[u] = fp[u]
      BY <1>1, <1>2, <1>4, <1>5, <2>11
    <3>4. QED
      BY <3>2, <3>3, KeptFile
  <2>12. FileOf(t)'
    <3>1. ~Ended(t)'
      BY <1>2, <1>5, OnlyInProcess DEF ComesNowhere
    <3>2. fp'[t] = f /\ f # NoFile /\ Len(data'[fp'[t]]) = co'[t].received
      BY <1>2, <1>4, <1>8, <2>1, <2>4, <2>7, <2>8
    <3>3. QED
      BY <3>1, <3>2 DEF FileOf
  <2>13. QED
    BY <1>6, <2>10, <2>11, <2>12 DEF FileInv
<1>9. QED
  BY <1>7, <1>8

\* A request is started from the beginning, or fails.
LEMMA TakeRequestFiles == ASSUME DlInv, FileInv, TakeRequest PROVE FileInv'
<1>1. TypeOK /\ OnceInv
  BY DEF DlInv
<1>2. /\ UNCHANGED <<worker, wrapper, tasks, at, data, temp, fp>>
      /\ worker = "request" /\ requestQueue # << >> /\ requestQueue' = Tail(requestQueue)
  BY DEF TakeRequest, mainVars, fileVars
<1>3. requestQueue \in Seq(Tasks) /\ finishedQueue \in Seq(Tasks)
  BY <1>1 DEF TypeOK
<1>4. /\ Head(requestQueue) \in Tasks
      /\ \A u : InSeq(u, requestQueue) <=> InSeq(u, Tail(requestQueue)) \/ u = Head(requestQueue)
      /\ ~InSeq(Head(requestQueue), Tail(requestQueue))
  BY <1>1, <1>2, <1>3, Shrunk DEF OnceInv
<1>5. PICK t \in Tasks : t = Head(requestQueue)
  BY <1>4
<1>6. InSeq(t, requestQueue) /\ \A u \in Tasks : InSeq(u, requestQueue)' => InSeq(u, requestQueue)
  BY <1>2, <1>4, <1>5 DEF InSeq
<1>7. ~Ended(t)
  BY <1>6 DEF DlInv, ApartInv, Apart, Ended
<1>8. Storage[t] # NoPath => fp'[t] # NoFile
  BY <1>2, <1>6 DEF FileInv, FileOf, Opened
<1>9. co \in [Tasks -> [err : BOOLEAN, header : BOOLEAN, received : Nat]]
  BY <1>1 DEF TypeOK
<1>10. CASE coTaskMap' = coTaskMap \cup {t} /\ finishedQueue' = finishedQueue /\ co' = [co EXCEPT ![t] = NewCoTask]
  <2>1. ~co'[t].header /\ \A u \in Tasks : u # t => co'[u] = co[u]
    BY <1>9, <1>10 DEF NewCoTask
  <2>2. \A u \in Tasks : Ended(u)' => Ended(u)
    BY <1>2, <1>10 DEF Ended, InSeq, InHand, Fetched
  <2>3. \A u \in Tasks : u # t => ComesNowhere(u)
    BY <1>6, <1>10, <2>2 DEF ComesNowhere, Opened
  <2>4. Storage[t] # NoPath => FileOf(t)'
    BY <1>7, <1>8, <2>1, <2>2 DEF FileOf
  <2>5. QED
    BY <1>2, <2>1, <2>3, <2>4, OneTaskGoesOn
<1>11. CASE /\ finishedQueue' = Append(finishedQueue, t) /\ coTaskMap' = coTaskMap
            /\ co' = [co EXCEPT ![t] = [NewCoTask EXCEPT !.err = TRUE]]
  <2>1. co'[t].err /\ ~co'[t].header /\ \A u \in Tasks : u # t => co'[u] = co[u]
    BY <1>9, <1>11 DEF NewCoTask
  <2>2. \A u : InSeq(u, finishedQueue') <=> InSeq(u, finishedQueue) \/ u = t
    BY <1>3, <1>11, Grown
  <2>3. \A u \in Tasks : u # t => (Ended(u)' => Ended(u))
    BY <1>2, <2>2 DEF Ended, InSeq, InHand, Fetched
  <2>4. \A u \in Tasks : u # t => ComesNowhere(u)
    BY <1>6, <1>11, <2>3 DEF ComesNowhere, Opened
  <2>5. Storage[t] # NoPath => FileOf(t)'
    BY <1>8, <2>1 DEF FileOf
  <2>6. QED
    BY <1>2, <2>1, <2>4, <2>5, OneTaskGoesOn
<1>12. QED
  BY <1>5, <1>10, <1>11 DEF TakeRequest

-----------------------------------------------------------------------------
(***************************************************************************)
(* The steps that open and close files.                                    *)
(***************************************************************************)
\* What createCoTask does to the files: the task opens the file of its path, which it
\* creates when there is none, or fails.
LEMMA CreateCoTaskOpens ==
  ASSUME TypeOK, NEW t \in Tasks, CreateCoTask(t)
  PROVE  /\ \A u \in Tasks : u # t => fp'[u] = fp[u] /\ co'[u] = co[u]
         /\ \/ UNCHANGED <<fp, temp>> /\ (Storage[t] # NoPath => co'[t].err)
            \/ /\ Storage[t] \in Paths /\ Storage[t] \notin storagePathSet
               /\ Storage[t] \in storagePathSet'
               /\ fp'[t] # NoFile
               /\ \/ temp' = temp /\ fp'[t] = temp[Storage[t]]
                  \/ /\ temp[Storage[t]] = NoFile /\ fp'[t] = t
                     /\ temp' = [temp EXCEPT ![Storage[t]] = t]
         /\ storagePathSet \subseteq storagePathSet'
         /\ IF co'[t].err
            THEN requestQueue' = requestQueue /\ finishedQueue' = Append(finishedQueue, t)
            ELSE requestQueue' = Append(requestQueue, t) /\ finishedQueue' = finishedQueue
<1>1. PICK opened \in BOOLEAN :
        /\ Storage[t] = NoPath => ~opened
        /\ IF Storage[t] = NoPath
           THEN UNCHANGED <<storagePathSet, fp, temp>>
           ELSE OpenFile(t, opened)
        /\ AddTask(t, InitFails(t, opened))
        /\ co' = [co EXCEPT ![t].err = InitFails(t, opened)]
  BY DEF CreateCoTask
<1>2. PICK failed \in BOOLEAN : failed = InitFails(t, opened)
  BY DEF InitFails
<1>3. /\ co \in [Tasks -> [err : BOOLEAN, header : BOOLEAN, received : Nat]]
      /\ fp \in [Tasks -> Tasks \cup {NoFile}] /\ temp \in [Paths -> Tasks \cup {NoFile}]
  BY DEF TypeOK
<1>4. co' = [co EXCEPT ![t] = [co[t] EXCEPT !.err = failed]]
  BY <1>1, <1>2
<1>5. co'[t].err = failed /\ \A u \in Tasks : u # t => co'[u] = co[u]
  <2>1. co[t] \in [err : BOOLEAN, header : BOOLEAN, received : Nat]
    BY <1>3
  <2>2. co'[t] = [co[t] EXCEPT !.err = failed] /\ \A u \in Tasks : u # t => co'[u] = co[u]
    BY <1>3, <1>4
  <2>3. QED
    BY <2>1, <2>2
<1>6. IF failed
      THEN requestQueue' = requestQueue /\ finishedQueue' = Append(finishedQueue, t)
      ELSE requestQueue' = Append(requestQueue, t) /\ finishedQueue' = finishedQueue
  BY <1>1, <1>2 DEF AddTask, Requested
<1>7. CASE Storage[t] = NoPath
  BY <1>1, <1>5, <1>6, <1>7
<1>8. CASE Storage[t] # NoPath
  <2>1. Storage[t] \in Paths
    BY <1>8, StorageAssumption
  <2>2. CASE Storage[t] \in storagePathSet \/ ~opened
    <3>1. failed
      BY <1>2, <1>8, <2>2 DEF InitFails
    <3>2. UNCHANGED <<fp, temp>> /\ storagePathSet \subseteq storagePathSet'
      BY <1>1, <1>8, <2>2 DEF OpenFile
    <3>3. QED
      BY <1>5, <1>6, <3>1, <3>2
  <2>3. CASE Storage[t] \notin storagePathSet /\ opened
    <3>1. PICK f : f = IF temp[Storage[t]] = NoFile THEN t ELSE temp[Storage[t]]
      OBVIOUS
    <3>2. /\ storagePathSet' = storagePathSet \cup {Storage[t]}
          /\ fp' = [fp EXCEPT ![t] = f] /\ temp' = [temp EXCEPT ![Storage[t]] = f]
      BY <1>1, <1>8, <2>3, <3>1 DEF OpenFile
    <3>3. f # NoFile
      BY <3>1, NullAssumption
    <3>4. fp'[t] = f /\ \A u \in Tasks : u # t => fp'[u] = fp[u]
      BY <1>3, <3>2
    <3>5. temp[Storage[t]] # NoFile => temp' = temp
      BY <1>3, <2>1, <3>1, <3>2
    <3>6. QED
      BY <1>5, <1>6, <2>1, <2>3, <3>1, <3>2, <3>3, <3>4, <3>5
  <2>4. QED
    BY <2>2, <2>3
<1>9. QED
  BY <1>7, <1>8

LEMMA CreateCoTaskFiles ==
  ASSUME DlInv, FileInv, NEW t \in Tasks, CreateCoTask(t) PROVE FileInv'
<1>1. /\ TypeOK /\ FreshInv /\ WorkerInv /\ OpenInv /\ ChunksInv
      /\ \A u \in Tasks : Storage[u] # NoPath => FileOf(u)
  BY DEF DlInv, FileInv
<1>2. UNCHANGED <<coTaskMap, worker, wrapper, tasks, at, data>> /\ t \in fresh
  BY DEF CreateCoTask, workerVars
<1>3. /\ \A u \in Tasks : u # t => fp'[u] = fp[u] /\ co'[u] = co[u]
      /\ \/ UNCHANGED <<fp, temp>> /\ (Storage[t] # NoPath => co'[t].err)
         \/ /\ Storage[t] \in Paths
            /\ fp'[t] # NoFile
            /\ \/ temp' = temp /\ fp'[t] = temp[Storage[t]]
               \/ /\ temp[Storage[t]] = NoFile /\ fp'[t] = t
                  /\ temp' = [temp EXCEPT ![Storage[t]] = t]
      /\ IF co'[t].err
         THEN requestQueue' = requestQueue /\ finishedQueue' = Append(finishedQueue, t)
         ELSE requestQueue' = Append(requestQueue, t) /\ finishedQueue' = finishedQueue
  BY <1>1, CreateCoTaskOpens
<1>4. /\ requestQueue \in Seq(Tasks) /\ finishedQueue \in Seq(Tasks)
      /\ temp \in [Paths -> Tasks \cup {NoFile}]
  BY <1>1 DEF TypeOK
<1>5. /\ \A u : InSeq(u, Append(requestQueue, t)) <=> InSeq(u, requestQueue) \/ u = t
      /\ \A u : InSeq(u, Append(finishedQueue, t)) <=> InSeq(u, finishedQueue) \/ u = t
  BY <1>4, Grown
<1>6. /\ \A u \in Tasks : u # t => (InSeq(u, requestQueue)' <=> InSeq(u, requestQueue))
      /\ \A u \in Tasks : u # t => (InSeq(u, finishedQueue)' <=> InSeq(u, finishedQueue))
      /\ InSeq(t, requestQueue)' => InSeq(t, requestQueue) \/ ~co'[t].err
      /\ InSeq(t, finishedQueue)' => InSeq(t, finishedQueue) \/ co'[t].err
  BY <1>3, <1>5 DEF InSeq
<1>7. \A u \in Tasks : u # t => ComesNowhere(u)
  BY <1>2, <1>6 DEF ComesNowhere, Opened, Ended, InHand, Fetched
<1>8. t \notin coTaskMap /\ ~InHand(t) /\ ~Fetched(t) /\ ~InSeq(t, requestQueue) /\ ~InSeq(t, finishedQueue)
  BY <1>1, <1>2 DEF FreshInv, WorkerInv
<1>9. /\ t \notin coTaskMap' /\ (Opened(t)' => ~co'[t].err) /\ (Ended(t)' => co'[t].err)
  BY <1>2, <1>6, <1>8 DEF Opened, Ended, InHand, Fetched
<1>10. Storage[t] # NoPath => FileOf(t)'
  BY <1>3, <1>9 DEF FileOf
<1>11. OpenInv'
  <2>1. ASSUME NEW u \in Tasks, fp'[u] # NoFile PROVE Storage[u] \in Paths /\ temp'[Storage[u]] = fp'[u]
    <3>1. CASE UNCHANGED <<fp, temp>>
      BY <1>1, <2>1, <3>1 DEF OpenInv
    <3>2. CASE temp' = temp /\ fp'[t] = temp[Storage[t]] /\ Storage[t] \in Paths
      BY <1>1, <1>3, <2>1, <3>2 DEF OpenInv
    <3>3. CASE /\ temp[Storage[t]] = NoFile /\ fp'[t] = t /\ Storage[t] \in Paths
               /\ temp' = [temp EXCEPT ![Storage[t]] = t]
      <4>1. temp'[Storage[t]] = t /\ \A p \in Paths : p # Storage[t] => temp'[p] = temp[p]
        BY <1>4, <3>3
      <4>2. u # t => Storage[u] \in Paths /\ temp[Storage[u]] = fp[u] /\ fp[u] = fp'[u]
        BY <1>1, <1>3, <2>1 DEF OpenInv
      <4>3. QED
        BY <2>1, <3>3, <4>1, <4>2
    <3>4. QED
      BY <1>3, <3>1, <3>2, <3>3
  <2>2. ASSUME NEW p \in Paths, temp'[p] # NoFile PROVE Storage[temp'[p]] = p
    <3>1. CASE temp' = temp
      BY <1>1, <2>2, <3>1 DEF OpenInv
    <3>2. CASE temp' = [temp EXCEPT ![Storage[t]] = t]
      BY <1>1, <1>4, <2>2, <3>2 DEF OpenInv
    <3>3. QED
      BY <1>3, <3>1, <3>2
  <2>3. QED
    BY <2>1, <2>2 DEF OpenInv
<1>12. ChunksInv'
  BY <1>1, <1>2 DEF ChunksInv
<1>13. ASSUME NEW u \in Tasks, Storage[u] # NoPath, u # t PROVE FileOf(u)'
  <2>1. FileOf(u) /\ ComesNowhere(u) /\ co'[u] = co[u] /\ data'[fp[u]] = data[fp[u]] /\ fp'[u] = fp[u]
    BY <1>1, <1>2, <1>3, <1>7, <1>13
  <2>2. QED
    BY <2>1, KeptFile
<1>14. QED
  BY <1>10, <1>11, <1>12, <1>13 DEF FileInv

\* The file of a task that is reported is closed, and renamed unless that fails.
LEMMA ReportFiles ==
  ASSUME DlInv, DlInv', FileInv, OneWriterPerFile, Report PROVE FileInv'
<1>1. /\ TypeOK /\ OpenInv /\ ChunksInv
      /\ \A u \in Tasks : Storage[u] # NoPath => FileOf(u)
  BY DEF DlInv, FileInv
<1>2. PICK t \in Tasks : t = tasks[at + 1]
  BY <1>1, ReportTypes
<1>3. PICK failed \in BOOLEAN : CloseFile(t, failed) /\ co' = [co EXCEPT ![t].err = @ \/ failed]
  BY <1>2 DEF Report
<1>4. /\ UNCHANGED <<requestQueue, finishedQueue, coTaskMap, worker, wrapper, tasks, data>>
      /\ at' = at + 1 /\ at \in Nat
  BY <1>1 DEF Report, queueVars, workerVars, TypeOK
<1>5. /\ co \in [Tasks -> [err : BOOLEAN, header : BOOLEAN, received : Nat]]
      /\ fp \in [Tasks -> Tasks \cup {NoFile}] /\ temp \in [Paths -> Tasks \cup {NoFile}]
  BY <1>1 DEF TypeOK
<1>6. fp' = [fp EXCEPT ![t] = NoFile]
  BY <1>3 DEF CloseFile
<1>7. /\ fp'[t] = NoFile /\ \A u \in Tasks : u # t => fp'[u] = fp[u]
      /\ \A u \in Tasks : u # t => co'[u] = co[u]
  BY <1>3, <1>5, <1>6
<1>8. \/ temp' = temp
      \/ fp[t] # NoFile /\ temp' = [temp EXCEPT ![Storage[t]] = NoFile]
  BY <1>3 DEF CloseFile, Renamed, OldFileNotRemoved, NotRenamed
<1>9. \A u \in Tasks : ComesNowhere(u)
  <2>1. \A u \in Tasks : Fetched(u)' => Fetched(u)
    <3>1. \A i \in 1..Len(tasks) : i > at + 1 => i > at
      BY <1>4
    <3>2. QED
      BY <1>4, <3>1 DEF Fetched
  <2>2. QED
    BY <1>4, <2>1 DEF ComesNowhere, Opened, Ended, InSeq, InHand
<1>10. ~Opened(t)' /\ ~Ended(t)'
  <2>1. Reported(t)'
    BY <1>1, <1>2, ReportTypes DEF Reported
  <2>2. Apart(t)' /\ WorkerInv'
    BY DEF DlInv, ApartInv
  <2>3. QED
    BY <2>1, <2>2 DEF Apart, Opened, Ended, WorkerInv
<1>11. OpenInv'
  <2>1. ASSUME NEW u \in Tasks, fp'[u] # NoFile PROVE Storage[u] \in Paths /\ temp'[Storage[u]] = fp'[u]
    <3>1. u # t /\ fp[u] = fp'[u] /\ Storage[u] \in Paths /\ temp[Storage[u]] = fp[u]
      BY <1>1, <1>7, <2>1 DEF OpenInv
    <3>2. CASE temp' = temp
      BY <3>1, <3>2
    <3>3. CASE fp[t] # NoFile /\ temp' = [temp EXCEPT ![Storage[t]] = NoFile]
      <4>1. Storage[t] \in Paths /\ temp[Storage[t]] = fp[t]
        BY <1>1, <3>3 DEF OpenInv
      <4>2. Storage[u] # Storage[t]
        BY <3>1, <3>3, <4>1 DEF OneWriterPerFile
      <4>3. QED
        BY <1>5, <3>1, <3>3, <4>2
    <3>4. QED
      BY <1>8, <3>2, <3>3
  <2>2. \A p \in Paths : temp'[p] # NoFile => temp'[p] = temp[p]
    BY <1>5, <1>8
  <2>3. QED
    BY <1>1, <2>1, <2>2 DEF OpenInv
<1>12. ChunksInv'
  BY <1>1, <1>4 DEF ChunksInv
<1>13. ASSUME NEW u \in Tasks, Storage[u] # NoPath PROVE FileOf(u)'
  <2>1. CASE u = t
    BY <1>10, <2>1 DEF FileOf, Opened
  <2>2. CASE u # t
    <3>1. FileOf(u) /\ ComesNowhere(u) /\ co'[u] = co[u] /\ data'[fp[u]] = data[fp[u]] /\ fp'[u] = fp[u]
      BY <1>1, <1>4, <1>7, <1>9, <1>13, <2>2
    <3>2. QED
      BY <3>1, KeptFile
  <2>3. QED
    BY <2>1, <2>2
<1>14. QED
  BY <1>11, <1>12, <1>13 DEF FileInv

\* Of what was written to an open file, a crash leaves a part.
LEMMA CrashFiles == ASSUME DlInv, FileInv, Crash PROVE FileInv'
<1> DEFINE open == {fp[t] : t \in Tasks} \ {NoFile}
<1>1. TypeOK /\ OpenInv /\ ChunksInv
  BY DEF DlInv, FileInv
<1>2. PICK kept :
        /\ \A f \in open : kept[f] \in Prefixes(data[f])
        /\ data' = [f \in Tasks |-> IF f \in open THEN kept[f] ELSE data[f]]
  BY DEF Crash
<1> HIDE DEF open
<1>3. /\ requestQueue' = << >> /\ finishedQueue' = << >> /\ tasks' = << >>
      /\ coTaskMap' = {} /\ worker' = "gone"
      /\ fp' = [t \in Tasks |-> NoFile] /\ temp' = temp
  BY DEF Crash
<1>4. \A t \in Tasks : ~Opened(t)' /\ ~Ended(t)' /\ fp'[t] = NoFile
  BY <1>3, EmptyQueue DEF Opened, Ended, InSeq, InHand, Fetched
<1>5. OpenInv'
  BY <1>1, <1>3, <1>4 DEF OpenInv
<1>6. ChunksInv'
  <2>1. ASSUME NEW f \in Tasks PROVE Len(data'[f]) <= Size /\ \A i \in 1..Len(data'[f]) : data'[f][i] = i
    <3>1. /\ data[f] \in Seq(1..Size) /\ Len(data[f]) <= Size
          /\ \A i \in 1..Len(data[f]) : data[f][i] = i
      BY <1>1 DEF TypeOK, ChunksInv
    <3>2. CASE f \notin open
      BY <1>2, <3>1, <3>2
    <3>3. CASE f \in open
      <4>1. data'[f] \in Prefixes(data[f])
        BY <1>2, <3>3
      <4>2. PICK l \in 0..Len(data[f]) : data'[f] = SubSeq(data[f], 1, l)
        BY <4>1 DEF Prefixes
      <4>3. PICK n \in Nat : n = Len(data[f])
        BY <3>1
      <4>4. l \in Int /\ l \in Nat /\ l <= n /\ (\A i \in 1..l : i \in 1..n) /\ l - 1 + 1 = l
            /\ \A i \in 1..l : 1 + i - 1 = i
        BY <4>2, <4>3
      <4>5. \A i \in 1..l : data[f][i] \in 1..Size
        BY <3>1, <4>3, <4>4, ElementOfSeq
      <4>6. /\ Len(data'[f]) = IF 1 <= l THEN l - 1 + 1 ELSE 0
            /\ \A i \in 1..(l - 1 + 1) : data'[f][i] = data[f][1 + i - 1]
        BY <4>2, <4>4, <4>5, SubSeqProperties
      <4>7. Len(data'[f]) = l
        BY <4>4, <4>6
      <4>8. \A i \in 1..l : data'[f][i] = data[f][i]
        BY <4>4, <4>6
      <4>9. \A i \in 1..l : data'[f][i] = i
        BY <3>1, <4>3, <4>4, <4>8
      <4>10. l <= Size
        BY <3>1, <4>3, <4>4, SizeAssumption
      <4>11. QED
        BY <4>7, <4>9, <4>10
    <3>4. QED
      BY <3>2, <3>3
  <2>2. QED
    BY <2>1 DEF ChunksInv
<1>7. QED
  BY <1>4, <1>5, <1>6 DEF FileInv, FileOf, Opened

LEMMA NextFiles ==
  ASSUME Ranges = {TRUE}, DlInv, FileInv, OneWriterPerFile, [Next]_vars PROVE FileInv'
<1>1. DlInv' /\ TypeOK'
  BY NextKeeps DEF DlInv
<1>2. ASSUME NEW t \in Tasks, CreateCoTask(t) \/ Release(t) PROVE FileInv'
  BY <1>1, <1>2, CreateCoTaskFiles, ReleaseFiles
<1>3. CASE Run \/ Destroy
  BY <1>1, <1>3, RunFiles, DestroyDownloaderFiles
<1>4. CASE Schedule
  BY <1>1, <1>4, GetFinishedTasksFiles, PauseIfStoppedFiles, ReportFiles, EndScheduleFiles DEF Schedule
<1>5. CASE WorkerStep
  <2>1. CASE CheckStopped \/ MultiFails \/ EnterRequests \/ NoRequest
    BY <2>1, CheckStoppedFiles, MultiFailsFiles, EnterRequestsFiles, NoRequestFiles
  <2>2. ASSUME NEW t \in Tasks, Receive(t) \/ EndTransfer(t) PROVE FileInv'
    BY <2>2, ReceiveFiles, TransferFailsFiles, ContentDoneFiles, HeaderDoneFiles DEF EndTransfer
  <2>3. CASE PushFinished \/ ReleaseWrapper
    BY <1>1, <2>3, PushFinishedFiles, ReleaseWrapperFiles
  <2>4. CASE TakeRequest \/ LeaveThread
    BY <1>1, <2>4, TakeRequestFiles, LeaveThreadFiles
  <2>5. QED
    BY <1>5, <2>1, <2>2, <2>3, <2>4 DEF WorkerStep
<1>6. CASE Crash
  BY <1>6, CrashFiles
<1>7. CASE UNCHANGED vars
  <2>1. UNCHANGED <<requestQueue, finishedQueue, coTaskMap, worker, wrapper, tasks, at, data, temp, co, fp>>
    BY <1>7 DEF vars, queueVars, workerVars, mainVars, taskVars, fileVars
  <2>2. \A u \in Tasks : ComesNowhere(u)
    BY <2>1 DEF ComesNowhere, Opened, Ended, InSeq, InHand, Fetched
  <2>3. QED
    BY <2>1, <2>2, StillFiles
<1>8. QED
  BY <1>2, <1>3, <1>4, <1>5, <1>6, <1>7 DEF Next

\* Only a report sets a result, and one of success renames the file, which is whole.
LEMMA StepsComplete ==
  ASSUME DlInv, FileInv, [Next]_vars PROVE \A t \in Tasks : CompleteIfSuccess(t)
<1>1. TypeOK
  BY DEF DlInv
<1>2. CASE Report
  <2>1. PICK t \in Tasks : t = tasks[at + 1] /\ at + 1 \in 1..Len(tasks)
    BY <1>1, <1>2, ReportTypes
  <2>2. PICK failed \in BOOLEAN :
          /\ CloseFile(t, failed)
          /\ co' = [co EXCEPT ![t].err = @ \/ failed]
          /\ result' = [result EXCEPT ![t] = IF co'[t].err THEN "error" ELSE "ok"]
    BY <1>2, <2>1 DEF Report
  <2>3. \A u \in Tasks : u # t => result'[u] = result[u]
    BY <1>1, <2>2 DEF TypeOK
  <2>4. ASSUME result'[t] = "ok", Storage[t] # NoPath
        PROVE  Contents(final[Storage[t]])' = [i \in 1..Size |-> i]
    <3>1. ~co'[t].err
      BY <1>1, <2>2, <2>4 DEF TypeOK
    <3>2. ~failed /\ ~co[t].err
      <4>1. co \in [Tasks -> [err : BOOLEAN, header : BOOLEAN, received : Nat]]
        BY <1>1 DEF TypeOK
      <4>2. PICK e \in BOOLEAN : e = (co[t].err \/ failed)
        BY <4>1
      <4>3. co' = [co EXCEPT ![t] = [co[t] EXCEPT !.err = e]]
        BY <2>2, <4>2
      <4>4. co[t] \in [err : BOOLEAN, header : BOOLEAN, received : Nat]
        BY <4>1
      <4>5. co'[t].err = e
        BY <4>1, <4>3, <4>4
      <4>6. QED
        BY <3>1, <4>2, <4>5
    <3>3. Ended(t)
      <4>1. at + 1 > at
        BY <1>1 DEF TypeOK
      <4>2. QED
        BY <2>1, <4>1 DEF Ended, Fetched
    <3>4. fp[t] # NoFile /\ Len(data[fp[t]]) = Size
      BY <2>4, <3>2, <3>3 DEF FileInv, FileOf
    <3>5. Storage[t] \in Paths /\ temp[Storage[t]] = fp[t] /\ fp[t] \in Tasks
      BY <1>1, <3>4 DEF FileInv, OpenInv, TypeOK
    <3>6. Renamed(Storage[t])
      BY <2>2, <3>2, <3>4 DEF CloseFile
    <3>7. final'[Storage[t]] = fp[t] /\ data' = data
      BY <1>1, <1>2, <3>5, <3>6 DEF Renamed, Report, TypeOK
    <3>8. data[fp[t]] \in Seq(1..Size) /\ \A i \in 1..Len(data[fp[t]]) : data[fp[t]][i] = i
      BY <1>1, <3>5 DEF FileInv, ChunksInv, TypeOK
    <3>9. data[fp[t]] = [i \in 1..Size |-> i]
      <4>1. data[fp[t]] \in [1..Len(data[fp[t]]) -> 1..Size]
        BY <3>8, LenProperties
      <4>2. data[fp[t]] \in [1..Size -> 1..Size]
        BY <3>4, <4>1
      <4>3. \A i \in 1..Size : data[fp[t]][i] = i
        BY <3>4, <3>8
      <4>4. QED
        BY <4>2, <4>3
    <3>10. Contents(final[Storage[t]])' = data'[fp[t]]
      BY <3>4, <3>7 DEF Contents
    <3>11. QED
      BY <3>7, <3>9, <3>10
  <2>5. QED
    BY <2>3, <2>4 DEF CompleteIfSuccess
<1>3. CASE ~Report
  <2>1. result' = result
    BY <1>3 DEF Next, vars, queueVars, workerVars, taskVars, mainVars, CreateCoTask, Release, Run, Destroy,
                Schedule, GetFinishedTasks, PauseIfStopped, EndSchedule, WorkerStep, CheckStopped,
                MultiFails, Receive, EndTransfer, TransferFails, ContentDone, HeaderDone, Finish,
                PushFinished, ReleaseWrapper, EnterRequests, TakeRequest, NoRequest, LeaveThread, Crash
  <2>2. QED
    BY <2>1 DEF CompleteIfSuccess
<1>4. QED
  BY <1>2, <1>3

-----------------------------------------------------------------------------
(***************************************************************************)
(* Two tasks of a path.  The destructor of a task takes its path out of    *)
(* the set though another task has the file open, so a third task could    *)
(* open it; when there is no third, each file has one writer.              *)
(***************************************************************************)
AtMostTwoPerPath ==
  \A t, u, v \in Tasks :
    Storage[t] # NoPath /\ Storage[t] = Storage[u] /\ Storage[u] = Storage[v] =>
      t = u \/ u = v \/ t = v

\* The application and the worker refer to tasks that exist.
CreatedInv == held \cap fresh = {} /\ wrapper \notin fresh

\* The path of an open file is in the set, unless the path has another task.
PathsInv ==
  \A t \in Tasks :
    fp[t] # NoFile =>
      Storage[t] \in storagePathSet \/ \E u \in Tasks \ fresh : u # t /\ Storage[u] = Storage[t]

WriterInv == CreatedInv /\ PathsInv /\ OneWriterPerFile

LEMMA InitWriters == Init => WriterInv
BY NullAssumption DEF Init, WriterInv, CreatedInv, PathsInv, OneWriterPerFile

\* A step that opens and closes no file, and creates no task.
LEMMA StillWriters ==
  ASSUME WriterInv, UNCHANGED <<fp, storagePathSet, fresh>>, held' \subseteq held, wrapper' \notin fresh
  PROVE  WriterInv'
<1>1. CreatedInv'
  BY DEF WriterInv, CreatedInv
<1>2. PathsInv'
  BY DEF WriterInv, PathsInv
<1>3. OneWriterPerFile'
  BY DEF WriterInv, OneWriterPerFile
<1>4. QED
  BY <1>1, <1>2, <1>3 DEF WriterInv

\* A task that is destroyed was created before.
LEMMA ReferencedAreCreated == ASSUME DlInv, CreatedInv PROVE Referenced \cap fresh = {}
<1>1. TypeOK /\ FreshInv /\ WorkerInv /\ ScheduleInv
  BY DEF DlInv
<1>2. /\ requestQueue \in Seq(Tasks) /\ finishedQueue \in Seq(Tasks) /\ tasks \in Seq(Tasks) /\ at \in Nat
  BY <1>1 DEF TypeOK
<1>3. ASSUME NEW t \in fresh PROVE t \notin Referenced
  <2>1. /\ ~InSeq(t, requestQueue) /\ ~InSeq(t, finishedQueue) /\ ~Fetched(t)
        /\ t \notin processSet /\ ~Reported(t)
    BY <1>1 DEF FreshInv
  <2>2. t \notin ToSet(requestQueue) /\ t \notin ToSet(finishedQueue)
    BY <1>2, <2>1 DEF InSeq, ToSet
  <2>3. ASSUME t \in ToSet(tasks) PROVE FALSE
    <3>1. PICK i \in 1..Len(tasks) : tasks[i] = t
      BY <1>2, <2>3 DEF ToSet
    <3>2. CASE i <= at
      BY <1>1, <2>1, <3>1, <3>2 DEF ScheduleInv
    <3>3. CASE i > at
      BY <2>1, <3>1, <3>3 DEF Fetched
    <3>4. QED
      BY <1>2, <3>2, <3>3
  <2>4. t \notin coTaskMap /\ t \notin held /\ t # wrapper
    BY <1>1, <2>1 DEF WorkerInv, CreatedInv
  <2>5. QED
    BY <2>1, <2>2, <2>3, <2>4 DEF Referenced
<1>4. QED
  BY <1>3

\* A step that destroys tasks.
LEMMA DestroyWriters ==
  ASSUME DlInv, WriterInv, NEW thisThread, DestroyUnreferenced(thisThread), fresh' = fresh,
         held' \subseteq held, wrapper' \notin fresh
  PROVE  WriterInv'
<1>1. TypeOK /\ CreatedInv
  BY DEF DlInv, WriterInv
<1>2. PICK dropped : /\ dropped = Referenced \ Referenced'
                     /\ storagePathSet' = storagePathSet \ {Storage[t] : t \in dropped}
                     /\ fp' = [t \in Tasks |-> IF t \in dropped THEN NoFile ELSE fp[t]]
  BY DEF DestroyUnreferenced
<1>3. dropped \cap fresh = {}
  BY <1>1, <1>2, ReferencedAreCreated
<1>4. dropped \subseteq Tasks
  <2>1. Referenced \subseteq Tasks
    <3>1. requestQueue \in Seq(Tasks) /\ finishedQueue \in Seq(Tasks) /\ tasks \in Seq(Tasks)
      BY <1>1 DEF TypeOK
    <3>2. \A q \in Seq(Tasks) : ToSet(q) \subseteq Tasks
      BY ElementOfSeq DEF ToSet
    <3>3. /\ ToSet(requestQueue) \subseteq Tasks /\ ToSet(finishedQueue) \subseteq Tasks
          /\ ToSet(tasks) \subseteq Tasks
      BY <3>1, <3>2
    <3>4. QED
      BY <1>1, <3>3 DEF Referenced, TypeOK
  <2>2. QED
    BY <1>2, <2>1
<1>5. \A t \in Tasks : fp'[t] # NoFile => t \notin dropped /\ fp'[t] = fp[t]
  BY <1>2
<1>6. CreatedInv'
  BY <1>1 DEF CreatedInv
<1>7. PathsInv'
  <2>1. ASSUME NEW t \in Tasks, fp'[t] # NoFile, Storage[t] \notin storagePathSet'
        PROVE  \E u \in Tasks \ fresh : u # t /\ Storage[u] = Storage[t]
    <3>1. t \notin dropped /\ fp[t] # NoFile
      BY <1>5, <2>1
    <3>2. CASE Storage[t] \in storagePathSet
      <4>1. PICK u \in dropped : Storage[u] = Storage[t]
        BY <1>2, <2>1, <3>2
      <4>2. QED
        BY <1>3, <1>4, <3>1, <4>1
    <3>3. CASE Storage[t] \notin storagePathSet
      BY <3>1, <3>3 DEF WriterInv, PathsInv
    <3>4. QED
      BY <3>2, <3>3
  <2>2. QED
    BY <2>1 DEF PathsInv
<1>8. OneWriterPerFile'
  BY <1>5 DEF WriterInv, OneWriterPerFile
<1>9. QED
  BY <1>6, <1>7, <1>8 DEF WriterInv

\* The new task finds the path in the set, or is the only one that has the file open.
LEMMA CreateCoTaskWriters ==
  ASSUME AtMostTwoPerPath, DlInv, FileInv, WriterInv, NEW t \in Tasks, CreateCoTask(t)
  PROVE  WriterInv'
<1>1. TypeOK /\ OpenInv /\ CreatedInv /\ PathsInv /\ OneWriterPerFile
  BY DEF DlInv, FileInv, WriterInv
<1>2. /\ t \in fresh /\ fresh' = fresh \ {t} /\ held' = held \cup {t} /\ wrapper' = wrapper
  BY DEF CreateCoTask, workerVars
<1>3. /\ \A u \in Tasks : u # t => fp'[u] = fp[u]
      /\ \/ UNCHANGED <<fp, temp>>
         \/ /\ Storage[t] \in Paths /\ Storage[t] \notin storagePathSet
            /\ Storage[t] \in storagePathSet'
            /\ fp'[t] # NoFile
            /\ \/ temp' = temp /\ fp'[t] = temp[Storage[t]]
               \/ temp[Storage[t]] = NoFile /\ fp'[t] = t
      /\ storagePathSet \subseteq storagePathSet'
  BY <1>1, CreateCoTaskOpens
<1>4. CreatedInv'
  BY <1>1, <1>2 DEF CreatedInv
<1>5. PathsInv'
  <2>1. ASSUME NEW u \in Tasks, fp'[u] # NoFile, Storage[u] \notin storagePathSet'
        PROVE  \E v \in Tasks \ fresh' : v # u /\ Storage[v] = Storage[u]
    <3>1. fp[u] # NoFile /\ Storage[u] \notin storagePathSet
      BY <1>3, <2>1
    <3>2. PICK v \in Tasks \ fresh : v # u /\ Storage[v] = Storage[u]
      BY <1>1, <3>1 DEF PathsInv
    <3>3. QED
      BY <1>2, <3>2
  <2>2. QED
    BY <2>1 DEF PathsInv
<1>6. OneWriterPerFile'
  <2>1. CASE fp' = fp
    BY <1>1, <2>1 DEF OneWriterPerFile
  <2>2. CASE /\ Storage[t] \in Paths /\ Storage[t] \notin storagePathSet
             /\ fp'[t] = temp[Storage[t]] \/ (temp[Storage[t]] = NoFile /\ fp'[t] = t)
    <3>1. ASSUME NEW u \in Tasks, u # t, fp'[u] # NoFile, fp'[u] = fp'[t] PROVE FALSE
      <4>1. fp[u] = fp'[u] /\ Storage[u] \in Paths /\ temp[Storage[u]] = fp[u]
        BY <1>1, <1>3, <3>1 DEF OpenInv
      <4>2. Storage[u] = Storage[t]
        BY <1>1, <2>2, <3>1, <4>1 DEF OpenInv
      <4>3. PICK v \in Tasks \ fresh : v # u /\ Storage[v] = Storage[u]
        BY <1>1, <2>2, <3>1, <4>1, <4>2 DEF PathsInv
      <4>4. v # t /\ Storage[t] # NoPath
        BY <1>2, <2>2, NullAssumption
      <4>5. QED
        BY <3>1, <4>2, <4>3, <4>4 DEF AtMostTwoPerPath
    <3>2. ASSUME NEW u \in Tasks, NEW v \in Tasks, u # t, v # t, fp'[u] # NoFile, fp'[u] = fp'[v] PROVE u = v
      BY <1>1, <1>3, <3>2 DEF OneWriterPerFile
    <3>3. QED
      BY <3>1, <3>2 DEF OneWriterPerFile
  <2>3. QED
    BY <1>3, <2>1, <2>2
<1>7. QED
  BY <1>4, <1>5, <1>6 DEF WriterInv

\* A task that is reported takes its own path out of the set.
LEMMA ReportWriters == ASSUME DlInv, WriterInv, Report PROVE WriterInv'
<1>1. TypeOK /\ CreatedInv /\ PathsInv /\ OneWriterPerFile /\ FreshInv
  BY DEF DlInv, WriterInv
<1>2. PICK t \in Tasks : t = tasks[at + 1] /\ at + 1 \in 1..Len(tasks)
  BY <1>1, ReportTypes
<1>3. PICK failed \in BOOLEAN : CloseFile(t, failed)
  BY <1>2 DEF Report
<1>4. UNCHANGED <<held, fresh, wrapper>>
  BY DEF Report, workerVars
<1>5. t \notin fresh
  <2>1. at + 1 > at
    BY <1>1 DEF TypeOK
  <2>2. Fetched(t)
    BY <1>2, <2>1 DEF Fetched
  <2>3. QED
    BY <1>1, <2>2 DEF FreshInv
<1>6. /\ fp' = [fp EXCEPT ![t] = NoFile]
      /\ storagePathSet' = storagePathSet \/ storagePathSet' = storagePathSet \ {Storage[t]}
  BY <1>3 DEF CloseFile, Renamed, OldFileNotRemoved, NotRenamed
<1>7. fp'[t] = NoFile /\ \A u \in Tasks : u # t => fp'[u] = fp[u]
  BY <1>1, <1>6 DEF TypeOK
<1>8. CreatedInv'
  BY <1>1, <1>4 DEF CreatedInv
<1>9. PathsInv'
  <2>1. ASSUME NEW u \in Tasks, fp'[u] # NoFile, Storage[u] \notin storagePathSet'
        PROVE  \E v \in Tasks \ fresh : v # u /\ Storage[v] = Storage[u]
    <3>1. u # t /\ fp[u] # NoFile
      BY <1>7, <2>1
    <3>2. CASE Storage[u] = Storage[t]
      BY <1>5, <3>1, <3>2
    <3>3. CASE Storage[u] # Storage[t]
      BY <1>1, <1>6, <2>1, <3>1, <3>3 DEF PathsInv
    <3>4. QED
      BY <3>2, <3>3
  <2>2. QED
    BY <1>4, <2>1 DEF PathsInv
<1>10. OneWriterPerFile'
  BY <1>1, <1>7 DEF OneWriterPerFile
<1>11. QED
  BY <1>8, <1>9, <1>10 DEF WriterInv

\* A task that is over was in the map, so it is not fresh.
LEMMA FinishWriters ==
  ASSUME DlInv, WriterInv, NEW t \in Tasks, t \in coTaskMap, Finish(t) PROVE WriterInv'
<1>1. UNCHANGED <<fp, storagePathSet, fresh, held>> /\ wrapper' = t
  BY DEF Finish, fileVars
<1>2. t \notin fresh
  BY DEF DlInv, WorkerInv, FreshInv
<1>3. QED
  BY <1>1, <1>2, StillWriters

LEMMA WorkerWriters == ASSUME DlInv, WriterInv, WorkerStep PROVE WriterInv'
<1>1. wrapper \notin fresh /\ NoTask \notin fresh
  BY NullAssumption DEF WriterInv, CreatedInv, DlInv, TypeOK
<1>2. CASE CheckStopped \/ MultiFails \/ EnterRequests \/ NoRequest \/ PushFinished \/ TakeRequest
  <2>1. UNCHANGED <<fp, storagePathSet, fresh, held, wrapper>>
    BY <1>2 DEF CheckStopped, MultiFails, EnterRequests, NoRequest, PushFinished, TakeRequest, fileVars,
                taskVars
  <2>2. QED
    BY <1>1, <2>1, StillWriters
<1>3. ASSUME NEW t \in Tasks, Receive(t) PROVE WriterInv'
  <2>1. UNCHANGED <<fp, storagePathSet, fresh, held, wrapper>>
    BY <1>3 DEF Receive, workerVars
  <2>2. QED
    BY <1>1, <2>1, StillWriters
<1>4. ASSUME NEW t \in Tasks, EndTransfer(t) PROVE WriterInv'
  <2>1. t \in coTaskMap
    BY <1>4 DEF EndTransfer, TransferFails, ContentDone, HeaderDone
  <2>2. \/ Finish(t)
        \/ UNCHANGED <<queueVars, workerVars, mainVars, fileVars, held, fresh, destroyed, result,
                       missed, crashes>>
    BY <1>4 DEF EndTransfer, TransferFails, ContentDone, HeaderDone
  <2>3. CASE Finish(t)
    BY <2>1, <2>3, FinishWriters
  <2>4. CASE UNCHANGED <<queueVars, workerVars, mainVars, fileVars, held, fresh, destroyed, result,
                         missed, crashes>>
    <3>1. UNCHANGED <<fp, storagePathSet, fresh, held, wrapper>>
      BY <2>4 DEF workerVars, fileVars
    <3>2. QED
      BY <1>1, <3>1, StillWriters
  <2>5. QED
    BY <2>2, <2>3, <2>4
<1>5. CASE ReleaseWrapper
  <2>1. DestroyUnreferenced("worker") /\ fresh' = fresh /\ held' = held /\ wrapper' = NoTask
    BY <1>5 DEF ReleaseWrapper
  <2>2. QED
    BY <1>1, <2>1, DestroyWriters
<1>6. CASE LeaveThread
  <2>1. DestroyUnreferenced("worker") /\ fresh' = fresh /\ held' = held /\ wrapper' = wrapper
    BY <1>6 DEF LeaveThread
  <2>2. QED
    BY <1>1, <2>1, DestroyWriters
<1>7. QED
  BY <1>2, <1>3, <1>4, <1>5, <1>6 DEF WorkerStep

LEMMA NextWriters ==
  ASSUME AtMostTwoPerPath, DlInv, FileInv, WriterInv, [Next]_vars PROVE WriterInv'
<1>1. wrapper \notin fresh /\ NoTask \notin fresh
  BY NullAssumption DEF WriterInv, CreatedInv, DlInv, TypeOK
<1>2. ASSUME NEW t \in Tasks, CreateCoTask(t) PROVE WriterInv'
  BY <1>2, CreateCoTaskWriters
<1>3. ASSUME NEW t \in Tasks, Release(t) PROVE WriterInv'
  <2>1. DestroyUnreferenced("main") /\ fresh' = fresh /\ held' \subseteq held /\ wrapper' = wrapper
    BY <1>3 DEF Release
  <2>2. QED
    BY <1>1, <2>1, DestroyWriters
<1>4. CASE Destroy \/ EndSchedule
  <2>1. DestroyUnreferenced("main") /\ fresh' = fresh /\ held' = held /\ wrapper' = wrapper
    BY <1>4 DEF Destroy, EndSchedule
  <2>2. QED
    BY <1>1, <2>1, DestroyWriters
<1>5. CASE Run \/ GetFinishedTasks \/ PauseIfStopped \/ UNCHANGED vars
  <2>1. UNCHANGED <<fp, storagePathSet, fresh, held, wrapper>>
    BY <1>5 DEF Run, GetFinishedTasks, PauseIfStopped, vars, workerVars, fileVars, taskVars
  <2>2. QED
    BY <1>1, <2>1, StillWriters
<1>6. CASE Crash
  <2>1. /\ held' = {} /\ wrapper' = NoTask /\ fresh' = fresh
        /\ \A t \in Tasks : fp'[t] = NoFile
    BY <1>6 DEF Crash
  <2>2. QED
    BY <1>1, <2>1 DEF WriterInv, CreatedInv, PathsInv, OneWriterPerFile
<1>7. QED
  BY <1>2, <1>3, <1>4, <1>5, <1>6, ReportWriters, WorkerWriters DEF Next, Schedule

-----------------------------------------------------------------------------
(***************************************************************************)
(* The behaviours with crashes.                                            *)
(***************************************************************************)
LEMMA PartIsKept ==
  ASSUME [PartsNext]_allVars PROVE part' = part /\ (part = "files" => [Next]_vars)
BY DEF PartsNext, FilesStep, ThreadsStep, allVars

\* Invariants of the files do not need the fairness of the threads.
LEMMA PartsSteps == PartsSpec => PartsInit /\ [][PartsNext]_allVars
BY PTL DEF PartsSpec

\* When each file has one writer and the server accepts ranges, a file task that reports
\* success left the whole file, whichever steps failed before and whatever part the crashes
\* left of it, for any number of tasks and crashes.
THEOREM OneWriterLeavesWholeFiles ==
  ASSUME Ranges = {TRUE}
  PROVE  PartsSpec /\ [](part = "files" => OneWriterPerFile) => SuccessMeansComplete
<1> DEFINE Inv == part = "files" => DlInv /\ FileInv
           One == part = "files" => OneWriterPerFile
           Complete == part = "files" => \A t \in Tasks : CompleteIfSuccess(t)
<1>1. PartsInit => Inv
  BY InitHolds, InitFiles DEF PartsInit
<1>2. Inv /\ One /\ [PartsNext]_allVars => Inv'
  BY PartIsKept, NextKeeps, NextFiles
<1>3. Inv /\ [PartsNext]_allVars => [Complete]_vars
  BY PartIsKept, StepsComplete
<1>4. QED
  BY <1>1, <1>2, <1>3, PartsSteps, PTL DEF SuccessMeansComplete

\* With at most two tasks of a path each file has one writer, though the destructor of one
\* task clears the entry of the other; so success means complete without a hypothesis on
\* the writers.
THEOREM TwoTasksLeaveWholeFiles ==
  ASSUME Ranges = {TRUE}, AtMostTwoPerPath
  PROVE  PartsSpec => SuccessMeansComplete
<1> DEFINE Inv == part = "files" => DlInv /\ FileInv /\ WriterInv
           One == part = "files" => OneWriterPerFile
<1>1. PartsInit => Inv
  BY InitHolds, InitFiles, InitWriters DEF PartsInit
<1>2. Inv /\ [PartsNext]_allVars => Inv'
  BY PartIsKept, NextKeeps, NextFiles, NextWriters DEF WriterInv
<1>3. Inv => One
  BY DEF WriterInv
<1>4. QED
  BY <1>1, <1>2, <1>3, PartsSteps, OneWriterLeavesWholeFiles, PTL
=============================================================================
