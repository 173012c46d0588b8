----------------------------- MODULE Downloader -----------------------------
(***************************************************************************)
(* DownloaderCURL (cocos/network/Downloader-curl.cpp).  The main thread    *)
(* creates tasks and reports finished ones from a timer, _onSchedule; a    *)
(* worker thread, started when a task is created and no worker is there,   *)
(* downloads them and leaves when it has none.  They share three queues,   *)
(* each with its mutex, and the worker's thread object.                    *)
(*                                                                         *)
(* A file task appends to a temporary file that is renamed in the end; a   *)
(* static set of paths is to keep two tasks from one file.  The program    *)
(* may crash, and finds the files again.  Progress callbacks are left out: *)
(* they read the byte counts of tasks and decide nothing.                  *)
(***************************************************************************)
EXTENDS Integers, Sequences, FiniteSets, SequencesExt

CONSTANTS
  Tasks,         (* the tasks an application can create                           *)
  Paths,         (* the storage paths of file tasks                               *)
  NoTask,        (* nullptr                                                       *)
  NoPath,        (* the storage path of a data task                               *)
  NoFile,        (* no file under a name, no open FILE                            *)
  Storage,       (* the storage path of each task                                 *)
  Size,          (* the number of chunks the server has for every task            *)
  Ranges,        (* the answers of the server to "do you accept ranges"           *)
  MaxProcessing, (* hints.countOfMaxProcessingTasks                               *)
  MaxCrashes     (* bound: crashes of the program                                 *)

ASSUME NullAssumption    == NoTask \notin Tasks /\ NoPath \notin Paths /\ NoFile \notin Tasks
ASSUME StorageAssumption == Storage \in [Tasks -> Paths \cup {NoPath}]
ASSUME SizeAssumption    == Size \in Nat \ {0} /\ MaxProcessing \in Nat /\ MaxCrashes \in Nat
ASSUME RangesAssumption  == Ranges \subseteq BOOLEAN

VARIABLES
  requestQueue, finishedQueue, processSet,   (* the queues of Impl                *)
  thread,         (* _thread is joinable                                          *)
  worker,         (* where the worker is in _threadProc                           *)
  coTaskMap,      (* the worker's tasks, one curl handle each                     *)
  wrapper,        (* the worker's local reference to the task it finishes         *)
  main,           (* where the main thread is in _onSchedule                      *)
  creating,       (* the main thread is in createCoTask, before run()             *)
  tasks, at,      (* the finished tasks _onSchedule fetched, and how many of them *)
                  (* are reported                                                 *)
  paused,         (* the timer of _onSchedule is paused                           *)
  alive,          (* the DownloaderCURL has not been destroyed                    *)
  co,             (* the DownloadTaskCURL of each task                            *)
  held,           (* the tasks the application holds a reference to               *)
  storagePathSet, (* the static set of the temporary files in use                 *)
  fp,             (* the file each task has open; a file is named by the task     *)
                  (* that created it                                              *)
  temp, final,    (* the file under each path's temporary and final name          *)
  data,           (* the contents of each file: the chunks in it, in order        *)
  fresh,          (* the tasks not created yet                                    *)
  destroyed,      (* the tasks that are destroyed, by which thread                *)
  result,         (* history: what onTaskFinish reported                          *)
  missed,         (* history: tasks still queued when the worker stopped, or      *)
                  (* finished and not fetched when the timer was paused           *)
  crashes

queueVars  == <<requestQueue, finishedQueue, processSet>>
workerVars == <<thread, worker, coTaskMap, wrapper>>
mainVars   == <<main, creating, tasks, at, paused, alive>>
fileVars   == <<storagePathSet, fp, temp, final, data>>
taskVars   == <<co, held, fresh, destroyed, result>>
vars == <<queueVars, workerVars, mainVars, fileVars, taskVars, missed, crashes>>

NewCoTask == [err |-> FALSE, header |-> FALSE, received |-> 0]

Init ==
  /\ requestQueue = << >> /\ finishedQueue = << >> /\ processSet = {}
  /\ thread = FALSE /\ worker = "gone" /\ coTaskMap = {} /\ wrapper = NoTask
  /\ main = "idle" /\ creating = FALSE /\ tasks = << >> /\ at = 0
  /\ paused = TRUE /\ alive = TRUE
  /\ co = [t \in Tasks |-> NewCoTask]
  /\ held = {} /\ fresh = Tasks
  /\ destroyed = [t \in Tasks |-> "no"]
  /\ result = [t \in Tasks |-> "none"]
  /\ storagePathSet = {}
  /\ fp = [t \in Tasks |-> NoFile]
  /\ temp = [p \in Paths |-> NoFile] /\ final = [p \in Paths |-> NoFile]
  /\ data = [t \in Tasks |-> << >>]
  /\ missed = {} /\ crashes = 0

Contents(f) == IF f = NoFile THEN << >> ELSE data[f]

Referenced == (UNION {held, ToSet(requestQueue), ToSet(finishedQueue), processSet,
                      coTaskMap, ToSet(tasks), {wrapper}}) \ {NoTask}

(***************************************************************************)
(* The tasks whose last reference this step drops are destroyed, by the    *)
(* thread that drops it.  The destructor takes the task's path out of the  *)
(* set, whoever entered it.                                                *)
(***************************************************************************)
DestroyUnreferenced(thisThread) ==
  LET dropped == Referenced \ Referenced'
  IN  /\ destroyed' = [t \in Tasks |-> IF t \in dropped THEN thisThread ELSE destroyed[t]]
      /\ storagePathSet' = storagePathSet \ {Storage[t] : t \in dropped}
      /\ fp' = [t \in Tasks |-> IF t \in dropped THEN NoFile ELSE fp[t]]

-----------------------------------------------------------------------------
(***************************************************************************)
(* The main thread: createCoTask.                                          *)
(***************************************************************************)

\* DownloadTaskCURL::init of a file task: the path must not be in use, and the file
\* must open.  Tells whether it failed.
OpenFile(t, opened) ==
  LET p == Storage[t]
      f == IF temp[p] = NoFile THEN t ELSE temp[p]
  IN  IF p \in storagePathSet
      THEN UNCHANGED <<storagePathSet, fp, temp>>
      ELSE /\ storagePathSet' = storagePathSet \cup {p}
           /\ IF opened
              THEN fp' = [fp EXCEPT ![t] = f] /\ temp' = [temp EXCEPT ![p] = f]
              ELSE UNCHANGED <<fp, temp>>

InitFails(t, opened) == Storage[t] # NoPath /\ (Storage[t] \in storagePathSet \/ ~opened)

\* Mutant: a task that failed is also requested.
RequestAll(t, failed) == TRUE

\* addTask: a task that has an error goes to the finished queue at once.
Requested(t, failed) == ~failed

AddTask(t, failed) ==
  /\ requestQueue' = IF Requested(t, failed) THEN Append(requestQueue, t) ELSE requestQueue
  /\ finishedQueue' = IF failed THEN Append(finishedQueue, t) ELSE finishedQueue

\* createCoTask up to run(), between two timers or in a callback of _onSchedule.
CreateCoTask(t) ==
  /\ alive /\ ~creating
  /\ main \in {"idle", "report"}
  /\ t \in fresh
  /\ \E opened \in BOOLEAN :
       /\ Storage[t] = NoPath => ~opened
       /\ IF Storage[t] = NoPath
          THEN UNCHANGED <<storagePathSet, fp, temp>>
          ELSE OpenFile(t, opened)
       /\ AddTask(t, InitFails(t, opened))
       /\ co' = [co EXCEPT ![t].err = InitFails(t, opened)]
  /\ creating' = TRUE
  /\ held' = held \cup {t}
  /\ fresh' = fresh \ {t}
  /\ UNCHANGED <<processSet, workerVars, main, tasks, at, paused, alive, final, data,
                 destroyed, result, missed, crashes>>

\* Mutant: the timer is not resumed.
StaysPaused == paused

\* resumeTarget
PausedAfterResume == FALSE

\* run(), which starts a worker unless one is there, and the end of createCoTask.
Run ==
  /\ creating
  /\ creating' = FALSE
  /\ thread' = TRUE
  /\ worker' = IF thread THEN worker ELSE "check"
  /\ paused' = PausedAfterResume
  /\ UNCHANGED <<queueVars, coTaskMap, wrapper, main, tasks, at, alive, fileVars, taskVars,
                 missed, crashes>>

\* The application drops its reference to a task.
Release(t) ==
  /\ ~creating /\ main \in {"idle", "report"}
  /\ t \in held
  /\ held' = held \ {t}
  /\ UNCHANGED <<queueVars, coTaskMap, wrapper, tasks>>
  /\ DestroyUnreferenced("main")
  /\ UNCHANGED <<thread, worker, main, creating, at, paused, alive, temp, final, data, co,
                 fresh, result, missed, crashes>>

\* ~DownloaderCURL, outside _onSchedule.  A worker that is there outlives it and keeps
\* the queues; otherwise they are destroyed too.
Destroy ==
  /\ alive /\ ~creating /\ main = "idle"
  /\ alive' = FALSE
  /\ thread' = FALSE
  /\ IF worker = "gone"
     THEN requestQueue' = << >> /\ finishedQueue' = << >> /\ processSet' = {}
     ELSE UNCHANGED queueVars
  /\ UNCHANGED <<worker, coTaskMap, wrapper, held, tasks>>
  /\ DestroyUnreferenced("main")
  /\ UNCHANGED <<main, creating, at, paused, temp, final, data, co, fresh, result, missed,
                 crashes>>

-----------------------------------------------------------------------------
(***************************************************************************)
(* The main thread: _onSchedule.                                           *)
(***************************************************************************)
GetFinishedTasks ==
  /\ alive /\ ~paused /\ ~creating
  /\ main = "idle"
  /\ tasks' = finishedQueue
  /\ at' = 0
  /\ finishedQueue' = << >>
  /\ main' = "fetched"
  /\ UNCHANGED <<requestQueue, processSet, workerVars, creating, paused, alive, fileVars,
                 taskVars, missed, crashes>>

\* if (_impl->stoped()) pauseTarget
PauseIfStopped ==
  /\ main = "fetched"
  /\ main' = "report"
  /\ paused' = (paused \/ ~thread)
  /\ missed' = IF thread THEN missed ELSE missed \cup ToSet(finishedQueue)
  /\ UNCHANGED <<queueVars, workerVars, creating, tasks, at, alive, fileVars, taskVars, crashes>>

\* The end of a file task, with an error or not: an old file under the storage path is
\* removed and the temporary file renamed.  Either may fail.
Renamed(p) ==
  /\ temp[p] # NoFile
  /\ final' = [final EXCEPT ![p] = temp[p]]
  /\ temp' = [temp EXCEPT ![p] = NoFile]
  /\ storagePathSet' = storagePathSet \ {p}

OldFileNotRemoved(p) ==
  /\ final[p] # NoFile
  /\ UNCHANGED <<temp, final, storagePathSet>>

NotRenamed(p) ==
  /\ final' = [final EXCEPT ![p] = NoFile]
  /\ UNCHANGED <<temp, storagePathSet>>

CloseFile(t, failed) ==
  /\ fp' = [fp EXCEPT ![t] = NoFile]
  /\ \/ fp[t] = NoFile /\ ~failed /\ UNCHANGED <<temp, final, storagePathSet>>
     \/ fp[t] # NoFile /\ ~failed /\ Renamed(Storage[t])
     \/ fp[t] # NoFile /\ failed /\ (OldFileNotRemoved(Storage[t]) \/ NotRenamed(Storage[t]))

\* onTaskFinish of the next task.  Its callback may create tasks and release them.
Report ==
  /\ main = "report" /\ ~creating
  /\ at < Len(tasks)
  /\ LET t == tasks[at + 1]
     IN  \E failed \in BOOLEAN :
           /\ CloseFile(t, failed)
           /\ co' = [co EXCEPT ![t].err = @ \/ failed]
           /\ result' = [result EXCEPT ![t] = IF co'[t].err THEN "error" ELSE "ok"]
  /\ at' = at + 1
  /\ UNCHANGED <<queueVars, workerVars, main, creating, tasks, paused, alive, data, held,
                 fresh, destroyed, missed, crashes>>

\* _onSchedule returns, and its vector of tasks with it.
EndSchedule ==
  /\ main = "report" /\ ~creating
  /\ at = Len(tasks)
  /\ main' = "idle"
  /\ tasks' = << >> /\ at' = 0
  /\ UNCHANGED <<queueVars, coTaskMap, wrapper, held>>
  /\ DestroyUnreferenced("main")
  /\ UNCHANGED <<thread, worker, creating, paused, alive, temp, final, data, co, fresh,
                 result, missed, crashes>>

-----------------------------------------------------------------------------
(***************************************************************************)
(* The worker: _threadProc.                                                *)
(***************************************************************************)

\* The loop goes on while it is not stopped by the destructor.
CheckStopped ==
  /\ worker = "check"
  /\ worker' = IF thread THEN "perform" ELSE "leave"
  /\ UNCHANGED <<queueVars, thread, coTaskMap, wrapper, mainVars, fileVars, taskVars, missed,
                 crashes>>

\* A curl call on the multi handle fails: the worker leaves with tasks in its map.
MultiFails ==
  /\ worker = "perform" /\ coTaskMap # {}
  /\ worker' = "leave"
  /\ UNCHANGED <<queueVars, thread, coTaskMap, wrapper, mainVars, fileVars, taskVars, missed,
                 crashes>>

\* writeDataProc: a chunk of the content of task t arrives.
Receive(t) ==
  /\ worker = "perform" /\ t \in coTaskMap
  /\ co[t].header /\ co[t].received < Size
  /\ co' = [co EXCEPT ![t].received = @ + 1]
  /\ data' = IF fp[t] = NoFile THEN data
             ELSE [data EXCEPT ![fp[t]] = Append(@, co[t].received + 1)]
  /\ UNCHANGED <<queueVars, workerVars, mainVars, storagePathSet, fp, temp, final, held, fresh,
                 destroyed, result, missed, crashes>>

\* Mutant: the part that is there is not counted.
NothingThere(size, ranges) == 0

\* Where the download of a file goes on when the temporary file has size chunks.
ReceivedBefore(size, ranges) == IF ranges THEN size ELSE 0

\* Mutant: a finished task stays in the set.
ProcessedUntilReported(t) == processSet

Unprocessed(t) == processSet \ {t}

\* A task is over, for better or worse: it leaves the map and the set.
Finish(t) ==
  /\ worker' = "finish"
  /\ wrapper' = t
  /\ coTaskMap' = coTaskMap \ {t}
  /\ processSet' = Unprocessed(t)
  /\ UNCHANGED <<requestQueue, finishedQueue, thread, mainVars, fileVars, held, fresh, destroyed,
                 result, missed, crashes>>

\* The transfer of t ends with an error, or its header or content handle cannot be
\* used.
TransferFails(t) ==
  /\ worker = "perform" /\ t \in coTaskMap
  /\ co' = [co EXCEPT ![t].err = TRUE]
  /\ Finish(t)

\* The content is complete.
ContentDone(t) ==
  /\ worker = "perform" /\ t \in coTaskMap
  /\ co[t].header /\ co[t].received = Size
  /\ UNCHANGED co
  /\ Finish(t)

\* _getHeaderInfoProc: the header of t is there, with a status of 200 or an odd one,
\* which is an error but does not end the task.  A file that is already complete is
\* not downloaded, else the content follows.
HeaderDone(t) ==
  /\ worker = "perform" /\ t \in coTaskMap
  /\ ~co[t].header
  /\ \E ranges \in Ranges, odd \in BOOLEAN :
       LET p    == Storage[t]
           size == IF p = NoPath THEN 0 ELSE Len(Contents(temp[p]))
       IN  /\ co' = [co EXCEPT ![t] = [err      |-> @.err \/ odd,
                                       header   |-> TRUE,
                                       received |-> ReceivedBefore(size, ranges)]]
           /\ IF co'[t].received = Size
              THEN Finish(t)
              ELSE UNCHANGED <<queueVars, workerVars, mainVars, fileVars, held, fresh,
                               destroyed, result, missed, crashes>>

PushFinished ==
  /\ worker = "finish"
  /\ worker' = "release"
  /\ finishedQueue' = Append(finishedQueue, wrapper)
  /\ UNCHANGED <<requestQueue, processSet, thread, coTaskMap, wrapper, mainVars, fileVars,
                 taskVars, missed, crashes>>

\* The local wrapper goes out of scope.
ReleaseWrapper ==
  /\ worker = "release"
  /\ worker' = "perform"
  /\ wrapper' = NoTask
  /\ UNCHANGED <<queueVars, coTaskMap, held, tasks>>
  /\ DestroyUnreferenced("worker")
  /\ UNCHANGED <<thread, main, creating, at, paused, alive, temp, final, data, co, fresh, result,
                 missed, crashes>>

AfterIteration == IF coTaskMap = {} THEN "leave" ELSE "check"

\* No more transfer has ended: process requests, if there is room.  The size of the
\* map is read here, once.
EnterRequests ==
  /\ worker = "perform"
  /\ worker' = IF MaxProcessing = 0 \/ Cardinality(coTaskMap) < MaxProcessing
               THEN "request" ELSE AfterIteration
  /\ UNCHANGED <<queueVars, thread, coTaskMap, wrapper, mainVars, fileVars, taskVars, missed,
                 crashes>>

TakeRequest ==
  /\ worker = "request" /\ requestQueue # << >>
  /\ LET t == Head(requestQueue)
     IN  \/ /\ coTaskMap' = coTaskMap \cup {t}
            /\ processSet' = processSet \cup {t}
            /\ co' = [co EXCEPT ![t] = NewCoTask]
            /\ UNCHANGED finishedQueue
         \/ /\ finishedQueue' = Append(finishedQueue, t)
            /\ co' = [co EXCEPT ![t] = [NewCoTask EXCEPT !.err = TRUE]]
            /\ UNCHANGED <<coTaskMap, processSet>>
  /\ requestQueue' = Tail(requestQueue)
  /\ UNCHANGED <<thread, worker, wrapper, mainVars, fileVars, held, fresh, destroyed, result,
                 missed, crashes>>

NoRequest ==
  /\ worker = "request" /\ requestQueue = << >>
  /\ worker' = AfterIteration
  /\ UNCHANGED <<queueVars, thread, coTaskMap, wrapper, mainVars, fileVars, taskVars, missed,
                 crashes>>

\* Mutant: the thread leaves without stop().
StillJoinable == thread

Stopped == FALSE

\* stop(), and the end of the thread with its map, and with the queues when the
\* downloader is gone.
LeaveThread ==
  /\ worker = "leave"
  /\ worker' = "gone"
  /\ thread' = Stopped
  /\ coTaskMap' = {}
  /\ IF alive
     THEN UNCHANGED queueVars
     ELSE requestQueue' = << >> /\ finishedQueue' = << >> /\ processSet' = {}
  /\ missed' = missed \cup processSet
                      \cup (IF creating THEN {} ELSE ToSet(requestQueue))
  /\ UNCHANGED <<wrapper, held, tasks>>
  /\ DestroyUnreferenced("worker")
  /\ UNCHANGED <<main, creating, at, paused, alive, temp, final, data, co, fresh, result,
                 crashes>>

-----------------------------------------------------------------------------
(***************************************************************************)
(* A crash: the program starts again, with the files that are on disk.  Of *)
(* what was written to an open file, any part is there.                    *)
(***************************************************************************)
Crash ==
  /\ crashes < MaxCrashes
  /\ crashes' = crashes + 1
  /\ requestQueue' = << >> /\ finishedQueue' = << >> /\ processSet' = {}
  /\ thread' = FALSE /\ worker' = "gone" /\ coTaskMap' = {} /\ wrapper' = NoTask
  /\ main' = "idle" /\ creating' = FALSE /\ tasks' = << >> /\ at' = 0
  /\ paused' = TRUE /\ alive' = TRUE
  /\ held' = {}
  /\ destroyed' = [t \in Tasks |-> IF t \in fresh \/ destroyed[t] # "no" THEN destroyed[t]
                                   ELSE "crash"]
  /\ storagePathSet' = {}
  /\ fp' = [t \in Tasks |-> NoFile]
  /\ LET open == {fp[t] : t \in Tasks} \ {NoFile}
     IN  \E part \in [open -> UNION {Prefixes(data[f]) : f \in open}] :
           /\ \A f \in open : part[f] \in Prefixes(data[f])
           /\ data' = [f \in Tasks |-> IF f \in open THEN part[f] ELSE data[f]]
  /\ UNCHANGED <<temp, final, co, fresh, result, missed>>

-----------------------------------------------------------------------------
Schedule == GetFinishedTasks \/ PauseIfStopped \/ Report \/ EndSchedule

\* A step of the worker that ends a transfer.
EndTransfer(t) == TransferFails(t) \/ ContentDone(t) \/ HeaderDone(t)

WorkerStep ==
  \/ CheckStopped \/ MultiFails
  \/ \E t \in Tasks : Receive(t) \/ EndTransfer(t)
  \/ PushFinished \/ ReleaseWrapper
  \/ EnterRequests \/ TakeRequest \/ NoRequest
  \/ LeaveThread

Next ==
  \/ \E t \in Tasks : CreateCoTask(t) \/ Release(t)
  \/ Run \/ Destroy \/ Schedule
  \/ WorkerStep
  \/ Crash

Spec == Init /\ [][Next]_vars

\* The timer of _onSchedule goes on, a thread that runs goes on, and no transfer takes
\* for ever: curl ends one that is slower than LOW_SPEED_LIMIT for LOW_SPEED_TIME.
FairSpec ==
  /\ Spec
  /\ WF_vars(Run) /\ WF_vars(Schedule) /\ WF_vars(WorkerStep)
  /\ \A t \in Tasks : SF_vars(EndTransfer(t) \/ Receive(t))

-----------------------------------------------------------------------------
(***************************************************************************)
(* Properties.                                                             *)
(***************************************************************************)
\* Every variable has its type; there is a worker while the thread is joinable, and it
\* holds a task of its own only while it finishes one.
TypeOK ==
  /\ requestQueue \in Seq(Tasks) /\ finishedQueue \in Seq(Tasks) /\ tasks \in Seq(Tasks)
  /\ processSet \subseteq Tasks /\ coTaskMap \subseteq Tasks
  /\ wrapper \in Tasks \cup {NoTask}
  /\ thread \in BOOLEAN /\ creating \in BOOLEAN /\ paused \in BOOLEAN /\ alive \in BOOLEAN
  /\ worker \in {"gone", "check", "perform", "finish", "release", "request", "leave"}
  /\ main \in {"idle", "fetched", "report"}
  /\ at \in 0..Len(tasks)
  /\ co \in [Tasks -> [err : BOOLEAN, header : BOOLEAN, received : Nat]]
  /\ held \subseteq Tasks /\ fresh \subseteq Tasks /\ missed \subseteq Tasks
  /\ destroyed \in [Tasks -> {"no", "main", "worker", "crash"}]
  /\ result \in [Tasks -> {"none", "ok", "error"}]
  /\ storagePathSet \subseteq Paths
  /\ fp \in [Tasks -> Tasks \cup {NoFile}]
  /\ temp \in [Paths -> Tasks \cup {NoFile}] /\ final \in [Paths -> Tasks \cup {NoFile}]
  /\ data \in [Tasks -> Seq(1..Size)]
  /\ crashes \in 0..MaxCrashes
  /\ thread => worker # "gone"
  /\ wrapper # NoTask <=> worker \in {"finish", "release"}
  /\ worker = "gone" => coTaskMap = {}

Live == {t \in Tasks \ fresh : destroyed[t] = "no"}

\* The tasks a failed multi handle left in _processSet.
Abandoned == processSet \ coTaskMap

Places(t) ==
  LET In(seq) == Cardinality({i \in 1..Len(seq) : seq[i] = t})
      Is(b)   == IF b THEN 1 ELSE 0
  IN  In(requestQueue) + In(finishedQueue) + In(SubSeq(tasks, at + 1, Len(tasks)))
      + Is(t \in coTaskMap \cup Abandoned) + Is(worker = "finish" /\ wrapper = t)
      + Is(result[t] # "none")

\* "needn't lock coTask here, because tasks has removed form _impl": the worker, who
\* writes to the tasks of its map, has none of those the main thread is reporting.
FetchedTasksAreMains ==
  ToSet(tasks) \cap (processSet \cup coTaskMap \cup ToSet(requestQueue)) = {}

\* Between the two threads no task is lost and none is there twice: a task that is
\* not destroyed is requested, in the worker's hands, finished, fetched or reported,
\* and only one of these; so it is reported at most once, and it is the main thread's
\* alone while it is.
EachTaskInOnePlace == (alive => \A t \in Live : Places(t) = 1) /\ FetchedTasksAreMains

\* A task is reported, unless the worker stopped while it was queued or failed, or the
\* timer was paused while it was finished.
EveryTaskReported ==
  \A t \in Tasks : t \notin fresh ~> result[t] # "none" \/ t \in missed \/ ~alive

\* A file task that reports success left the whole file under its name, whatever part
\* a crash left in the temporary file, if the server accepts ranges.
CompleteIfSuccess(t) ==
  result[t] = "none" /\ result'[t] = "ok" /\ Storage[t] # NoPath =>
    Contents(final[Storage[t]])' = [i \in 1..Size |-> i]

(***************************************************************************)
(* What comments say and the code does not do.                             *)
(***************************************************************************)
\* "if more than one task write to one file, cause file broken, so use a set to check
\* this situation": the destructor of any task with the path clears the set.
OneWriterPerFile == \A t, u \in Tasks : fp[t] = fp[u] /\ fp[t] # NoFile => t = u
=============================================================================
