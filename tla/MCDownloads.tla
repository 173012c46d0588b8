----------------------------- MODULE MCDownloads -----------------------------
(***************************************************************************)
(* Two instances of Downloader for TLC, over the same variables: a         *)
(* behaviour is of one of them, `part`.  In "files", whose constants the   *)
(* configuration gives, tasks download one file and the program crashes;   *)
(* in "threads" they download data, as many at once as are requested.      *)
(***************************************************************************)
EXTENDS MCDownloader

VARIABLE part

Threads == INSTANCE Downloader WITH
  Storage <- DataTasks, Size <- 1, MaxProcessing <- 0, MaxCrashes <- 0

allVars == <<part, vars>>

FilesStep(A)   == part = "files"   /\ A /\ UNCHANGED part
ThreadsStep(A) == part = "threads" /\ A /\ UNCHANGED part

PartsInit == part \in {"files", "threads"} /\ Init

PartsNext == FilesStep(Next) \/ ThreadsStep(Threads!Next)

\* The fairness of FairSpec, for the threads.
PartsSpec ==
  /\ PartsInit /\ [][PartsNext]_allVars
  /\ WF_allVars(ThreadsStep(Threads!Run))
  /\ WF_allVars(ThreadsStep(Threads!Schedule))
  /\ WF_allVars(ThreadsStep(Threads!WorkerStep))
  /\ \A t \in Tasks : SF_allVars(ThreadsStep(Threads!EndTransfer(t) \/ Threads!Receive(t)))

\* A file task that reports success left the whole file under its name, whatever part
\* a crash left in the temporary file, if the server accepts ranges.
SuccessMeansComplete == [][part = "files" => \A t \in Tasks : CompleteIfSuccess(t)]_vars

\* A task is reported, unless the worker stopped while it was queued or failed, or the
\* timer was paused while it was finished.
DataTasksReported == part = "threads" => EveryTaskReported
=============================================================================
