----------------------------- MODULE TaskService -----------------------------
(***************************************************************************)
(* What the pools of the engine (ThreadPool, AsyncTaskPool) promise to     *)
(* those who give them tasks: a task waits, runs once and is over, or is   *)
(* dropped while it waits.  A task that runs is never dropped, and one     *)
(* that was dropped never runs.  Tasks are numbered as they are submitted. *)
(***************************************************************************)
EXTENDS Integers

VARIABLES
  submitted,  (* how many tasks were submitted  *)
  waiting,    (* the tasks that wait            *)
  running,    (* the tasks that run             *)
  finished    (* the tasks that ran             *)

Init ==
  /\ submitted = 0
  /\ waiting = {}
  /\ running = {}
  /\ finished = {}

Submit ==
  /\ submitted' = submitted + 1
  /\ waiting' = waiting \cup {submitted + 1}
  /\ UNCHANGED <<running, finished>>

Start ==
  /\ \E t \in waiting : waiting' = waiting \ {t} /\ running' = running \cup {t}
  /\ UNCHANGED <<submitted, finished>>

Finish ==
  /\ \E t \in running : running' = running \ {t} /\ finished' = finished \cup {t}
  /\ UNCHANGED <<submitted, waiting>>

\* Some of the tasks that wait are stopped.
Drop ==
  /\ waiting' \subseteq waiting
  /\ UNCHANGED <<submitted, running, finished>>

Next == Submit \/ Start \/ Finish \/ Drop

Spec == Init /\ [][Next]_<<submitted, waiting, running, finished>>
=============================================================================
