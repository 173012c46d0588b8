-------------------------- MODULE CocosThreadCalls --------------------------
(***************************************************************************)
(* What Scheduler::performFunctionInCocosThread promises to the threads    *)
(* that use it: functions are performed on the cocos thread, one at a time *)
(* and in the order they were posted; a removal takes the latest ones.     *)
(* Functions are numbered in the order they are posted.                    *)
(***************************************************************************)
EXTENDS Integers, Sequences

VARIABLES
  posted,     (* how many functions were posted             *)
  pending,    (* the functions still to be performed        *)
  performed   (* the functions performed, in order          *)

Init ==
  /\ posted = 0
  /\ pending = << >>
  /\ performed = << >>

Post ==
  /\ posted' = posted + 1
  /\ pending' = Append(pending, posted + 1)
  /\ UNCHANGED performed

Perform ==
  /\ pending # << >>
  /\ performed' = Append(performed, Head(pending))
  /\ pending' = Tail(pending)
  /\ UNCHANGED posted

Remove ==
  /\ \E k \in 0..Len(pending) : pending' = SubSeq(pending, 1, k)
  /\ UNCHANGED <<posted, performed>>

Next == Post \/ Perform \/ Remove

Spec == Init /\ [][Next]_<<posted, pending, performed>>
=============================================================================
