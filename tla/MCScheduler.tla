---------------------------- MODULE MCScheduler ----------------------------
(* Instances of Scheduler for TLC. *)
EXTENDS Scheduler

Once(i)    == [interval |-> i, repeat |-> 0, delay |-> 0]
Always(i)  == [interval |-> i, repeat |-> Forever, delay |-> 0]
Delayed(d) == [interval |-> 0, repeat |-> 1, delay |-> d]

\* A repeating timer that catches up, in a frame of 2, with a second trigger, and a
\* delayed one that triggers after the delay and once more.
RepeatingPlans == {Always(1), Delayed(1)}

Symmetric == Permutations(Targets) \cup Permutations(Keys) \cup Permutations(Timers)
=============================================================================
