--------------------------- MODULE FunctionQueue ---------------------------
(***************************************************************************)
(* The cross-thread half of cc::Scheduler (cocos/base/Scheduler.cpp): any  *)
(* thread posts functions to be performed by the cocos thread, which takes *)
(* the whole queue at the end of update() and performs it outside the lock.*)
(* A function that is being performed may itself post and remove.          *)
(*                                                                         *)
(* update() tests the queue without the lock.  That read races with a      *)
(* change another thread is making, and then returns either answer.        *)
(***************************************************************************)
EXTENDS Integers, Sequences, SequencesExt

CONSTANTS
  Workers,     (* the threads that are not the cocos thread    *)
  CocosThread, (* the thread that calls update()               *)
  NoThread,    (* the owner of a mutex nobody has locked       *)
  MaxPosts     (* bound: functions posted in a behaviour       *)

Threads == Workers \cup {CocosThread}

ASSUME ThreadsAssumption == CocosThread \notin Workers /\ NoThread \notin Threads
ASSUME PostsAssumption   == MaxPosts \in Nat

VARIABLES
  functionsToPerform, (* _functionsToPerform                                     *)
  performMutex,       (* the owner of _performMutex                              *)
  call,               (* where each thread is in a call of the scheduler         *)
  frame,              (* where the cocos thread is in update()                   *)
  temp,               (* update()'s copy of the queue, what is left to perform   *)
  posted,             (* history: how many functions were posted; the n-th is n  *)
  performed,          (* history: the functions performed, in order              *)
  removed             (* history: the functions a removal took from the queue    *)

vars == <<functionsToPerform, performMutex, call, frame, temp, posted, performed, removed>>

Init ==
  /\ functionsToPerform = << >>
  /\ performMutex = NoThread
  /\ call = [t \in Threads |-> "none"]
  /\ frame = "loop"
  /\ temp = << >>
  /\ posted = 0
  /\ performed = << >>
  /\ removed = {}

Lock(t) == performMutex = NoThread /\ performMutex' = t

Unlock == performMutex' = NoThread

\* A thread may call the scheduler whenever it runs code of its own: a worker at any
\* time, the cocos thread from a timer, from a function it performs or between frames.
MayCall(t) == call[t] = "none" /\ (t = CocosThread => frame \in {"loop", "perform"})

-----------------------------------------------------------------------------
(***************************************************************************)
(* performFunctionInCocosThread and                                        *)
(* removeAllFunctionsToBePerformedInCocosThread.                           *)
(***************************************************************************)
LockToPost(t) ==
  /\ MayCall(t)
  /\ posted < MaxPosts
  /\ Lock(t)
  /\ call' = [call EXCEPT ![t] = "posting"]
  /\ UNCHANGED <<functionsToPerform, frame, temp, posted, performed, removed>>

\* push_back and unlock.  No other thread is in the critical section, so MaxPosts is
\* still not reached.
Post(t) ==
  /\ call[t] = "posting"
  /\ functionsToPerform' = Append(functionsToPerform, posted + 1)
  /\ posted' = posted + 1
  /\ Unlock
  /\ call' = [call EXCEPT ![t] = "none"]
  /\ UNCHANGED <<frame, temp, performed, removed>>

LockToRemove(t) ==
  /\ MayCall(t)
  /\ Lock(t)
  /\ call' = [call EXCEPT ![t] = "removing"]
  /\ UNCHANGED <<functionsToPerform, frame, temp, posted, performed, removed>>

RemoveAll(t) ==
  /\ call[t] = "removing"
  /\ removed' = removed \cup ToSet(functionsToPerform)
  /\ functionsToPerform' = << >>
  /\ Unlock
  /\ call' = [call EXCEPT ![t] = "none"]
  /\ UNCHANGED <<frame, temp, posted, performed>>

-----------------------------------------------------------------------------
(***************************************************************************)
(* The end of update().  A frame's timers are in "loop".                   *)
(***************************************************************************)

\* Mutant: the test is off by one.
NotEmptyButOne(q) == Len(q) > 1

NotEmpty(q) == q # << >>

\* if (!_functionsToPerform.empty()), read without the lock: while another thread
\* changes the queue, the test may see it before or after.
TestQueue ==
  /\ frame = "loop"
  /\ call[CocosThread] = "none"
  /\ \E answer \in BOOLEAN :
       /\ performMutex = NoThread => answer = NotEmpty(functionsToPerform)
       /\ frame' = IF answer THEN "lock" ELSE "loop"
  /\ UNCHANGED <<functionsToPerform, performMutex, call, temp, posted, performed, removed>>

LockToTake ==
  /\ frame = "lock"
  /\ Lock(CocosThread)
  /\ frame' = "copy"
  /\ UNCHANGED <<functionsToPerform, call, temp, posted, performed, removed>>

\* Mutant: the mutex is unlocked between the copy and the clear.
OwnerReleased == NoThread

\* The owner of the mutex between the copy and the clear.
OwnerWhileTaking == CocosThread

\* auto temp = _functionsToPerform
CopyQueue ==
  /\ frame = "copy"
  /\ temp' = functionsToPerform
  /\ performMutex' = OwnerWhileTaking
  /\ frame' = "clear"
  /\ UNCHANGED <<functionsToPerform, call, posted, performed, removed>>

\* Mutant: the queue keeps what was copied.
LeftCopied(q) == q

\* What the clear leaves in the queue.
Left(q) == << >>

\* _functionsToPerform.clear(), and the unlock.
ClearQueue ==
  /\ frame = "clear"
  /\ functionsToPerform' = Left(functionsToPerform)
  /\ Unlock
  /\ frame' = "perform"
  /\ UNCHANGED <<call, temp, posted, performed, removed>>

\* The next function of the copy begins: until the next step it may call the
\* scheduler, like any code of the cocos thread.
PerformFunction ==
  /\ frame = "perform"
  /\ call[CocosThread] = "none"
  /\ temp # << >>
  /\ performed' = Append(performed, Head(temp))
  /\ temp' = Tail(temp)
  /\ UNCHANGED <<functionsToPerform, performMutex, call, frame, posted, removed>>

EndFrame ==
  /\ frame = "perform"
  /\ call[CocosThread] = "none"
  /\ temp = << >>
  /\ frame' = "loop"
  /\ UNCHANGED <<functionsToPerform, performMutex, call, temp, posted, performed, removed>>

-----------------------------------------------------------------------------
Update == TestQueue \/ LockToTake \/ CopyQueue \/ ClearQueue \/ PerformFunction \/ EndFrame

Leave(t) == Post(t) \/ RemoveAll(t)

Next ==
  \/ \E t \in Threads : LockToPost(t) \/ LockToRemove(t) \/ Leave(t)
  \/ Update

Spec == Init /\ [][Next]_vars

\* The application goes on with its frames, what it calls in them returns, and a thread
\* leaves a critical section it has entered.  The cocos thread gets the mutex when it
\* is free again and again: each holder keeps it for one push or one clear.
FairSpec ==
  /\ Spec
  /\ SF_vars(Update)
  /\ \A t \in Threads : WF_vars(Leave(t))

-----------------------------------------------------------------------------
(***************************************************************************)
(* Properties.                                                             *)
(***************************************************************************)
\* Every variable has its type.
TypeOK ==
  /\ functionsToPerform \in Seq(Nat)
  /\ performMutex \in Threads \cup {NoThread}
  /\ call \in [Threads -> {"none", "posting", "removing"}]
  /\ frame \in {"loop", "lock", "copy", "clear", "perform"}
  /\ temp \in Seq(Nat)
  /\ posted \in Nat
  /\ performed \in Seq(Nat)
  /\ removed \subseteq Nat

\* And the mutex is owned by the thread that is in a critical section, if one is: the
\* copy and the clear of the queue are one critical section.
MutexOwned ==
  /\ TypeOK
  /\ \A t \in Threads :
       performMutex = t <=> \/ call[t] # "none"
                            \/ t = CocosThread /\ frame \in {"copy", "clear"}
  /\ call[CocosThread] # "none" => frame \in {"loop", "perform"}

\* What the cocos thread is still to perform, in order.
Pending == IF frame = "clear" THEN functionsToPerform ELSE temp \o functionsToPerform

\* Each function is performed at most once, in the order they were posted: what is
\* performed and what is still pending is increasing, though posts, removals and the
\* copy of the queue come from different threads.
PerformedInOrder ==
  LET all == performed \o Pending
  IN  \A i, j \in 1..Len(all) : i < j => all[i] < all[j]

\* No function is lost between the threads: each one that was posted has been
\* performed, is pending, or was taken out of the queue by a removal.
NoneIsLost == 1..posted = ToSet(performed) \cup ToSet(Pending) \cup removed

\* Again and again every function that was posted is performed or removed: the test
\* without the lock can miss a post, but not for ever.
FunctionsHandled == 1..posted = ToSet(performed) \cup removed

\* What makes MutexOwned and the properties below inductive: no thread can reach the
\* queue between the copy and the clear, so that what is cleared is what was copied, and
\* a frame performs the whole copy.
QueueInv ==
  /\ MutexOwned
  /\ frame = "clear" => temp = functionsToPerform
  /\ frame \in {"loop", "lock", "copy"} => temp = << >>

\* The threads that post see the queue of CocosThreadCalls.
Calls == INSTANCE CocosThreadCalls WITH pending <- Pending

\* The queue, its copy and the lock implement one sequence of calls.
ImplementsCalls == Calls!Spec
=============================================================================
