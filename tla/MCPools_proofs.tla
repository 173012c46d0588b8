---------------------------- MODULE MCPools_proofs ----------------------------
(***************************************************************************)
(* Proofs about FunctionQueue, for any number of threads and of posts, and *)
(* about AsyncTaskPool and MCPools, which puts both beside ThreadPool.     *)
(*                                                                         *)
(* QueueInv is inductive.  Under it each step of the queue posts, performs *)
(* or removes in CocosThreadCalls, or changes nothing there; what          *)
(* CocosThreadCalls keeps, the queue then keeps as well.                   *)
(*                                                                         *)
(* AsyncInv is inductive: a task of AsyncTaskPool is in one place, a       *)
(* queue, the hands of a thread, or done with.  Under it each step         *)
(* submits, starts, finishes or drops tasks of TaskService, or changes     *)
(* nothing there.                                                          *)
(*                                                                         *)
(* A behaviour of MCPools is one of each component, with stuttering: what  *)
(* is proved of a component holds of the composition.  That of ThreadPool  *)
(* is proved in ThreadPool_proofs.                                         *)
(***************************************************************************)
EXTENDS MCPools, TLAPS, SequenceTheorems

PoolProofs == INSTANCE ThreadPool_proofs

-----------------------------------------------------------------------------
(***************************************************************************)
(* The inductive invariant.                                                *)
(***************************************************************************)

\* Nothing is posted yet and nobody holds the mutex.
LEMMA InitQueue == Init => QueueInv
BY ThreadsAssumption DEF Init, QueueInv, MutexOwned, TypeOK, Threads

\* A call that takes the mutex found it free, so no other thread is between its own
\* lock and unlock, and neither is the cocos thread between the copy and the clear.
LEMMA EnterKeepsQueue ==
  ASSUME QueueInv, NEW t \in Threads, LockToPost(t) \/ LockToRemove(t)
  PROVE  QueueInv'
<1> USE DEF QueueInv, MutexOwned
<1>1. /\ performMutex = NoThread /\ performMutex' = t /\ MayCall(t)
      /\ UNCHANGED <<functionsToPerform, frame, temp, posted, performed, removed>>
      /\ \E c \in {"posting", "removing"} : call' = [call EXCEPT ![t] = c]
  BY DEF LockToPost, LockToRemove, Lock
<1>2. TypeOK'
  BY <1>1 DEF TypeOK
<1>3. \A u \in Threads : call[u] = "none" /\ ~(u = CocosThread /\ frame \in {"copy", "clear"})
  BY <1>1, ThreadsAssumption
<1>4. \A u \in Threads : call'[u] # "none" <=> u = t
  BY <1>1, <1>3 DEF TypeOK
<1>5. CocosThread \in Threads /\ ~ frame' \in {"copy", "clear"}
  BY <1>1, <1>3 DEF Threads
<1>6. call'[CocosThread] # "none" => frame' \in {"loop", "perform"}
  BY <1>1, <1>4, <1>5 DEF MayCall
<1>7. QED
  BY <1>1, <1>2, <1>4, <1>5, <1>6

\* A call that leaves its critical section leaves the mutex free.
LEMMA LeaveKeepsQueue ==
  ASSUME QueueInv, NEW t \in Threads, Leave(t)
  PROVE  QueueInv'
<1> USE DEF QueueInv, MutexOwned
<1>1. /\ call[t] # "none" /\ call' = [call EXCEPT ![t] = "none"]
      /\ performMutex' = NoThread
      /\ UNCHANGED <<frame, temp, performed>>
  BY DEF Leave, Post, RemoveAll, Unlock
<1>2. performMutex = t /\ CocosThread \in Threads
  BY <1>1 DEF Threads
<1>3. TypeOK'
  <2>1. CASE Post(t)
    <3>1. posted + 1 \in Nat
      BY DEF TypeOK
    <3>2. functionsToPerform' \in Seq(Nat)
      BY <2>1, <3>1, AppendProperties DEF Post, TypeOK
    <3>3. QED
      BY <1>1, <2>1, <3>1, <3>2 DEF Post, TypeOK
  <2>2. CASE RemoveAll(t)
    <3>1. ToSet(functionsToPerform) \subseteq Nat
      BY DEF TypeOK, ToSet
    <3>2. functionsToPerform' = << >> /\ posted' = posted
          /\ removed' = removed \cup ToSet(functionsToPerform)
      BY <2>2 DEF RemoveAll
    <3>3. removed' \subseteq Nat
      BY <3>1, <3>2 DEF TypeOK
    <3>4. call' \in [Threads -> {"none", "posting", "removing"}]
      BY <1>1 DEF TypeOK
    <3>5. functionsToPerform' \in Seq(Nat)
      BY <3>2
    <3>6. QED
      BY <1>1, <3>2, <3>3, <3>4, <3>5 DEF TypeOK
  <2>3. QED
    BY <2>1, <2>2 DEF Leave
<1>4. \A u \in Threads : call'[u] = "none"
  BY <1>1, <1>2 DEF TypeOK
<1>5. ~ frame \in {"copy", "clear"}
  <2>1. CASE t = CocosThread
    BY <1>1, <2>1
  <2>2. CASE t # CocosThread
    BY <1>2, <2>2
  <2>3. QED
    BY <2>1, <2>2
<1>6. \A u \in Threads : performMutex' # u
  BY <1>1, ThreadsAssumption
<1>7. QED
  BY <1>1, <1>2, <1>3, <1>4, <1>5, <1>6

\* update() holds the mutex from LockToTake to ClearQueue.
LEMMA UpdateKeepsQueue ==
  ASSUME QueueInv, Update
  PROVE  QueueInv'
<1> USE DEF QueueInv, MutexOwned
<1>0. CocosThread \in Threads /\ CocosThread # NoThread /\ NoThread \notin Threads
  BY ThreadsAssumption DEF Threads
<1>1. CASE TestQueue
  <2>1. frame = "loop" /\ frame' \in {"lock", "loop"} /\ call[CocosThread] = "none"
        /\ UNCHANGED <<functionsToPerform, performMutex, call, temp, posted, performed, removed>>
    BY <1>1 DEF TestQueue
  <2>2. TypeOK'
    BY <2>1 DEF TypeOK
  <2>3. QED
    BY <2>1, <2>2
<1>2. CASE LockToTake
  <2>1. frame = "lock" /\ frame' = "copy" /\ performMutex = NoThread /\ performMutex' = CocosThread
        /\ UNCHANGED <<functionsToPerform, call, temp, posted, performed, removed>>
    BY <1>2 DEF LockToTake, Lock
  <2>2. TypeOK'
    BY <1>0, <2>1 DEF TypeOK
  <2>3. \A u \in Threads : call[u] = "none"
    BY <1>0, <2>1
  <2>4. QED
    BY <1>0, <2>1, <2>2, <2>3
<1>3. CASE CopyQueue
  <2>1. frame = "copy" /\ frame' = "clear" /\ temp' = functionsToPerform
        /\ performMutex' = CocosThread
        /\ UNCHANGED <<functionsToPerform, call, posted, performed, removed>>
    BY <1>3 DEF CopyQueue, OwnerWhileTaking
  <2>2. TypeOK'
    BY <1>0, <2>1 DEF TypeOK
  <2>3. performMutex = CocosThread
    BY <1>0, <2>1
  <2>4. QED
    BY <1>0, <2>1, <2>2, <2>3
<1>4. CASE ClearQueue
  <2>1. frame = "clear" /\ frame' = "perform" /\ functionsToPerform' = << >>
        /\ performMutex' = NoThread
        /\ UNCHANGED <<call, temp, posted, performed, removed>>
    BY <1>4 DEF ClearQueue, Left, Unlock
  <2>2. TypeOK'
    BY <2>1 DEF TypeOK
  <2>3. performMutex = CocosThread /\ call[CocosThread] = "none"
    BY <1>0, <2>1
  <2>4. \A u \in Threads : call[u] = "none"
    BY <2>3
  <2>5. QED
    BY <1>0, <2>1, <2>2, <2>4
<1>5. CASE PerformFunction
  <2>1. frame = "perform" /\ temp # << >>
        /\ performed' = Append(performed, Head(temp)) /\ temp' = Tail(temp)
        /\ UNCHANGED <<functionsToPerform, performMutex, call, frame, posted, removed>>
    BY <1>5 DEF PerformFunction
  <2>2. Head(temp) \in Nat /\ Tail(temp) \in Seq(Nat)
    BY <2>1, HeadTailProperties DEF TypeOK
  <2>3. performed' \in Seq(Nat)
    BY <2>1, <2>2, AppendProperties DEF TypeOK
  <2>4. TypeOK'
    BY <2>1, <2>2, <2>3 DEF TypeOK
  <2>5. QED
    BY <2>1, <2>4
<1>6. CASE EndFrame
  <2>1. frame = "perform" /\ frame' = "loop" /\ temp = << >> /\ call[CocosThread] = "none"
        /\ UNCHANGED <<functionsToPerform, performMutex, call, temp, posted, performed, removed>>
    BY <1>6 DEF EndFrame
  <2>2. TypeOK'
    BY <2>1 DEF TypeOK
  <2>3. QED
    BY <2>1, <2>2
<1>7. QED
  BY <1>1, <1>2, <1>3, <1>4, <1>5, <1>6 DEF Update

\* The invariant of the queue and of its lock, for any number of threads.
THEOREM QueueInvariance == Spec => []QueueInv
<1>1. QueueInv /\ [Next]_vars => QueueInv'
  <2>1. ASSUME QueueInv, UNCHANGED vars PROVE QueueInv'
    BY <2>1 DEF QueueInv, MutexOwned, TypeOK, vars
  <2>2. QED
    BY <2>1, EnterKeepsQueue, LeaveKeepsQueue, UpdateKeepsQueue DEF Next
<1>2. QED
  BY <1>1, InitQueue, PTL DEF Spec

\* The copy and the clear of the queue are one critical section: whoever reaches the
\* queue in between would need the mutex that update() holds.
THEOREM MutualExclusion == Spec => []MutexOwned
<1>1. QueueInv => MutexOwned
  BY DEF QueueInv
<1>2. QED
  BY <1>1, QueueInvariance, PTL

-----------------------------------------------------------------------------
(***************************************************************************)
(* The queue implements CocosThreadCalls.                                  *)
(***************************************************************************)

\* Performing the head of the copy takes the head of everything that is pending.
LEMMA HeadOfConcat ==
  ASSUME NEW S, NEW p \in Seq(S), NEW q \in Seq(S), p # << >>
  PROVE  /\ p \o q # << >>
         /\ Head(p \o q) = Head(p)
         /\ Tail(p \o q) = Tail(p) \o q
<1>1. Len(p) \in Nat \ {0} /\ Len(q) \in Nat
  OBVIOUS
<1>2. /\ p \o q \in Seq(S)
      /\ Len(p \o q) = Len(p) + Len(q)
      /\ \A i \in 1..(Len(p) + Len(q)) :
           (p \o q)[i] = IF i <= Len(p) THEN p[i] ELSE q[i - Len(p)]
  BY ConcatProperties
<1>3. p \o q # << >>
  BY <1>1, <1>2
<1>4. Head(p \o q) = (p \o q)[1] /\ Head(p) = p[1]
  BY <1>2
<1>5. Head(p \o q) = Head(p)
  BY <1>1, <1>2, <1>4
<1>6. /\ Tail(p) \in Seq(S) /\ Len(Tail(p)) = Len(p) - 1
      /\ \A i \in 1..(Len(p) - 1) : Tail(p)[i] = p[i + 1]
  BY <1>1, HeadTailProperties
<1>7. /\ Tail(p \o q) \in Seq(S) /\ Len(Tail(p \o q)) = Len(p) + Len(q) - 1
      /\ \A i \in 1..(Len(p) + Len(q) - 1) : Tail(p \o q)[i] = (p \o q)[i + 1]
  BY <1>1, <1>2, <1>3, HeadTailProperties
<1>8. /\ Tail(p) \o q \in Seq(S)
      /\ Len(Tail(p) \o q) = Len(p) - 1 + Len(q)
      /\ \A i \in 1..(Len(p) - 1 + Len(q)) :
           (Tail(p) \o q)[i] = IF i <= Len(p) - 1 THEN Tail(p)[i] ELSE q[i - (Len(p) - 1)]
  BY <1>1, <1>6, ConcatProperties
<1>9. \A i \in 1..(Len(p) + Len(q) - 1) : Tail(p \o q)[i] = (Tail(p) \o q)[i]
  <2> SUFFICES ASSUME NEW i \in 1..(Len(p) + Len(q) - 1)
               PROVE  Tail(p \o q)[i] = (Tail(p) \o q)[i]
    OBVIOUS
  <2>1. CASE i <= Len(p) - 1
    BY <1>1, <1>2, <1>6, <1>7, <1>8, <2>1
  <2>2. CASE i > Len(p) - 1
    BY <1>1, <1>2, <1>7, <1>8, <2>2
  <2>3. QED
    BY <1>1, <2>1, <2>2
<1>10. Tail(p \o q) = Tail(p) \o q
  BY <1>1, <1>7, <1>8, <1>9, SeqEqual
<1>11. QED
  BY <1>3, <1>5, <1>10

\* What a post does to what is pending: the cocos thread is not between the copy and
\* the clear, where the posted function would be lost.
LEMMA PostStep ==
  ASSUME QueueInv, NEW t \in Threads, Post(t)
  PROVE  /\ Pending' = Append(Pending, posted + 1)
         /\ posted' = posted + 1
         /\ UNCHANGED <<performed, removed>>
<1>1. frame # "clear" /\ frame' # "clear"
  BY ThreadsAssumption DEF Post, QueueInv, MutexOwned, Threads
<1>2. functionsToPerform' = Append(functionsToPerform, posted + 1) /\ temp' = temp
  BY DEF Post
<1>3. temp \o Append(functionsToPerform, posted + 1)
        = Append(temp \o functionsToPerform, posted + 1)
  <2>1. temp \in Seq(Nat) /\ functionsToPerform \in Seq(Nat) /\ posted + 1 \in Nat
    BY DEF QueueInv, MutexOwned, TypeOK
  <2>2. /\ Append(functionsToPerform, posted + 1) = functionsToPerform \o <<posted + 1>>
        /\ Append(temp \o functionsToPerform, posted + 1)
             = (temp \o functionsToPerform) \o <<posted + 1>>
    BY <2>1, AppendIsConcat, ConcatProperties
  <2>3. QED
    BY <2>1, <2>2, ConcatAssociative
<1>4. QED
  BY <1>1, <1>2, <1>3 DEF Post, Pending

\* What a removal does: it keeps what is in the copy, the rest is removed.
LEMMA RemoveStep ==
  ASSUME QueueInv, NEW t \in Threads, RemoveAll(t)
  PROVE  /\ Pending = temp \o functionsToPerform
         /\ Pending' = temp
         /\ removed' = removed \cup ToSet(functionsToPerform)
         /\ UNCHANGED <<posted, performed>>
<1>1. frame # "clear" /\ frame' # "clear"
  BY ThreadsAssumption DEF RemoveAll, QueueInv, MutexOwned, Threads
<1>2. functionsToPerform' = << >> /\ temp' = temp
  BY DEF RemoveAll
<1>3. temp \o << >> = temp
  BY ConcatEmptySeq DEF QueueInv, MutexOwned, TypeOK
<1>4. QED
  BY <1>1, <1>2, <1>3 DEF RemoveAll, Pending

\* What performing does: the first pending function is performed.
LEMMA PerformStep ==
  ASSUME QueueInv, PerformFunction
  PROVE  /\ Pending # << >>
         /\ performed' = Append(performed, Head(Pending))
         /\ Pending' = Tail(Pending)
         /\ UNCHANGED <<posted, removed>>
<1>1. frame = "perform" /\ frame' = "perform"
  BY DEF PerformFunction
<1>2. /\ temp # << >> /\ performed' = Append(performed, Head(temp)) /\ temp' = Tail(temp)
      /\ functionsToPerform' = functionsToPerform
  BY DEF PerformFunction
<1>3. temp \in Seq(Nat) /\ functionsToPerform \in Seq(Nat)
  BY DEF QueueInv, MutexOwned, TypeOK
<1>4. QED
  BY <1>1, <1>2, <1>3, HeadOfConcat DEF PerformFunction, Pending

\* Every other step leaves the calls as they are: the copy and the clear together move
\* the queue into temp, from where it is still pending.
LEMMA OtherStep ==
  ASSUME QueueInv, [Next]_vars, ~PerformFunction, \A t \in Threads : ~Leave(t)
  PROVE  UNCHANGED <<posted, Pending, performed, removed>>
<1>1. temp \in Seq(Nat) /\ functionsToPerform \in Seq(Nat)
  BY DEF QueueInv, MutexOwned, TypeOK
<1>2. CASE UNCHANGED vars \/ (\E t \in Threads : LockToPost(t) \/ LockToRemove(t))
  BY <1>2 DEF vars, LockToPost, LockToRemove, Pending
<1>3. CASE TestQueue \/ LockToTake \/ EndFrame
  <2>1. frame # "clear" /\ frame' # "clear"
    BY <1>3 DEF TestQueue, LockToTake, EndFrame
  <2>2. QED
    BY <1>3, <2>1 DEF TestQueue, LockToTake, EndFrame, Pending
<1>4. CASE CopyQueue
  <2>1. temp = << >> /\ << >> \o functionsToPerform = functionsToPerform
    BY <1>1, <1>4, ConcatEmptySeq DEF CopyQueue, QueueInv
  <2>2. QED
    BY <1>4, <2>1 DEF CopyQueue, Pending
<1>5. CASE ClearQueue
  <2>1. temp = functionsToPerform /\ temp \o << >> = temp
    BY <1>1, <1>5, ConcatEmptySeq DEF ClearQueue, QueueInv
  <2>2. QED
    BY <1>5, <2>1 DEF ClearQueue, Left, Pending
<1>6. QED
  BY <1>2, <1>3, <1>4, <1>5 DEF Next, Update

\* Each step of the threads is a step of CocosThreadCalls or leaves it as it is.
LEMMA Simulation ==
  ASSUME QueueInv, [Next]_vars
  PROVE  [Calls!Next]_<<posted, Pending, performed>>
<1>1. ASSUME NEW t \in Threads, Post(t) PROVE Calls!Post
  BY <1>1, PostStep DEF Calls!Post
<1>2. ASSUME NEW t \in Threads, RemoveAll(t) PROVE Calls!Remove
  <2>1. temp \in Seq(Nat) /\ functionsToPerform \in Seq(Nat)
    BY DEF QueueInv, MutexOwned, TypeOK
  <2>2. Pending = temp \o functionsToPerform /\ Pending' = temp
    BY <1>2, RemoveStep
  <2>3. Len(temp) \in 0..Len(Pending) /\ SubSeq(Pending, 1, Len(temp)) = temp
    <3>1. /\ Pending \in Seq(Nat)
          /\ Len(Pending) = Len(temp) + Len(functionsToPerform)
          /\ \A i \in 1..Len(temp) : Pending[i] = temp[i]
      BY <2>1, <2>2, ConcatProperties
    <3>2. Len(temp) \in Nat /\ Len(functionsToPerform) \in Nat
      BY <2>1
    <3>3. Len(temp) \in 0..Len(Pending)
      BY <3>1, <3>2
    <3>4. /\ SubSeq(Pending, 1, Len(temp)) \in Seq(Nat)
          /\ Len(SubSeq(Pending, 1, Len(temp))) = Len(temp)
          /\ \A i \in 1..Len(temp) : SubSeq(Pending, 1, Len(temp))[i] = Pending[i]
      BY <3>1, <3>2, <3>3
    <3>5. SubSeq(Pending, 1, Len(temp)) = temp
      BY <2>1, <3>1, <3>4, SeqEqual
    <3>6. QED
      BY <3>3, <3>5
  <2>4. QED
    BY <1>2, <2>2, <2>3, RemoveStep DEF Calls!Remove
<1>3. CASE PerformFunction
  BY <1>3, PerformStep DEF Calls!Next, Calls!Perform
<1>4. CASE ~PerformFunction /\ \A t \in Threads : ~Leave(t)
  BY <1>4, OtherStep
<1>5. QED
  BY <1>1, <1>2, <1>3, <1>4 DEF Leave, Calls!Next

\* The mutex, the copy and the test without the lock implement one sequence of calls:
\* functions performed one at a time in the order in which they were posted, of which
\* a removal takes the latest.
THEOREM QueueImplementsCalls == Spec => ImplementsCalls
<1>1. Init => Calls!Init
  BY ConcatEmptySeq DEF Init, Calls!Init, Pending
<1>2. QueueInv /\ [Next]_vars => [Calls!Next]_<<posted, Pending, performed>>
  BY Simulation
<1>3. QED
  BY <1>1, <1>2, QueueInvariance, PTL DEF Spec, ImplementsCalls, Calls!Spec

-----------------------------------------------------------------------------
(***************************************************************************)
(* The order of the functions.                                             *)
(***************************************************************************)

\* PerformedInOrder with what makes it inductive: the next function to be posted has a
\* larger number than any that was posted before.
OrderInv ==
  LET all == performed \o Pending
  IN  /\ PerformedInOrder
      /\ \A i \in 1..Len(all) : all[i] <= posted

\* The functions performed and pending are a sequence of numbers.
LEMMA PendingType ==
  ASSUME QueueInv
  PROVE  /\ performed \in Seq(Nat) /\ Pending \in Seq(Nat) /\ posted \in Nat
         /\ performed \o Pending \in Seq(Nat)
<1>1. temp \in Seq(Nat) /\ functionsToPerform \in Seq(Nat) /\ performed \in Seq(Nat) /\ posted \in Nat
  BY DEF QueueInv, MutexOwned, TypeOK
<1>2. Pending \in Seq(Nat)
  BY <1>1, ConcatProperties DEF Pending
<1>3. QED
  BY <1>1, <1>2, ConcatProperties

\* Performing moves the border between what is performed and what is pending.
LEMMA MoveBorder ==
  ASSUME NEW s \in Seq(Nat), NEW p \in Seq(Nat), p # << >>
  PROVE  Append(s, Head(p)) \o Tail(p) = s \o p
<1>1. /\ Head(p) \in Nat /\ Tail(p) \in Seq(Nat) /\ <<Head(p)>> \in Seq(Nat)
      /\ Append(s, Head(p)) = s \o <<Head(p)>>
  BY HeadTailProperties, AppendIsConcat
<1>2. <<Head(p)>> \o Tail(p) = p
  BY HeadTailProperties
<1>3. (s \o <<Head(p)>>) \o Tail(p) = s \o (<<Head(p)>> \o Tail(p))
  BY <1>1, ConcatAssociative
<1>4. QED
  BY <1>1, <1>2, <1>3

\* Each step keeps the order of the functions performed and pending.
LEMMA OrderKept ==
  ASSUME QueueInv, OrderInv, [Next]_vars
  PROVE  OrderInv'
<1> DEFINE all == performed \o Pending
<1>0. /\ performed \in Seq(Nat) /\ Pending \in Seq(Nat) /\ posted \in Nat
      /\ all \in Seq(Nat) /\ Len(all) \in Nat
      /\ \A i \in 1..Len(all) : all[i] \in Nat
  BY PendingType
<1>1. ASSUME NEW t \in Threads, Post(t) PROVE OrderInv'
  <2>1. all' = Append(all, posted + 1) /\ posted' = posted + 1
    <3>1. performed' = performed /\ Pending' = Append(Pending, posted + 1) /\ posted' = posted + 1
      BY <1>1, PostStep
    <3>2. /\ Append(Pending, posted + 1) = Pending \o <<posted + 1>>
          /\ Append(all, posted + 1) = all \o <<posted + 1>>
          /\ <<posted + 1>> \in Seq(Nat)
      BY <1>0, AppendIsConcat
    <3>3. performed \o (Pending \o <<posted + 1>>) = all \o <<posted + 1>>
      BY <1>0, <3>2, ConcatAssociative
    <3>4. QED
      BY <3>1, <3>2, <3>3
  <2>2. /\ Len(all') = Len(all) + 1
        /\ \A i \in 1..Len(all) : all'[i] = all[i]
        /\ all'[Len(all) + 1] = posted + 1
    BY <1>0, <2>1, AppendProperties
  <2>3. \A i \in 1..Len(all) : all[i] < posted + 1
    BY <1>0 DEF OrderInv
  <2>4. \A i, j \in 1..Len(all) : i < j => all[i] < all[j]
    BY DEF OrderInv, PerformedInOrder
  <2> HIDE DEF all
  <2>5. \A i \in 1..Len(all') : i \in 1..Len(all) \/ i = Len(all) + 1
    BY <1>0, <2>2
  <2>6. \A i, j \in 1..Len(all') : i < j => all'[i] < all'[j]
    <3> SUFFICES ASSUME NEW i \in 1..Len(all'), NEW j \in 1..Len(all'), i < j
                 PROVE  all'[i] < all'[j]
      OBVIOUS
    <3>1. i \in 1..Len(all)
      BY <1>0, <2>2
    <3>2. CASE j \in 1..Len(all)
      BY <2>2, <2>4, <3>1, <3>2
    <3>3. CASE j = Len(all) + 1
      BY <2>2, <2>3, <3>1, <3>3
    <3>4. QED
      BY <2>5, <3>2, <3>3
  <2>7. \A i \in 1..Len(all') : all'[i] <= posted'
    BY <1>0, <2>1, <2>2, <2>3, <2>5
  <2>8. QED
    BY <2>6, <2>7 DEF all, OrderInv, PerformedInOrder
<1>2. ASSUME NEW t \in Threads, RemoveAll(t) PROVE OrderInv'
  <2>1. /\ temp \in Seq(Nat) /\ functionsToPerform \in Seq(Nat)
    BY DEF QueueInv, MutexOwned, TypeOK
  <2>2. /\ Pending = temp \o functionsToPerform /\ Pending' = temp
        /\ performed' = performed /\ posted' = posted
    BY <1>2, RemoveStep
  <2>3. all = all' \o functionsToPerform /\ all' \in Seq(Nat)
    <3>1. all' = performed \o temp
      BY <2>2
    <3>2. performed \o temp \in Seq(Nat)
      BY <1>0, <2>1, ConcatProperties
    <3>0. performed \in Seq(Nat)
      BY <1>0
    <3>3. (performed \o temp) \o functionsToPerform = performed \o (temp \o functionsToPerform)
      BY ONLY <3>0, <2>1, ConcatAssociative
    <3>4. QED
      BY <2>2, <3>1, <3>2, <3>3
  <2>4. /\ Len(all') \in Nat /\ Len(all') <= Len(all)
        /\ \A i \in 1..Len(all') : i \in 1..Len(all) /\ all[i] = all'[i]
    BY <2>1, <2>3, ConcatProperties
  <2>5. QED
    BY <2>2, <2>4 DEF OrderInv, PerformedInOrder
<1>3. CASE PerformFunction
  <2>1. /\ Pending # << >> /\ performed' = Append(performed, Head(Pending))
        /\ Pending' = Tail(Pending) /\ posted' = posted
    BY <1>3, PerformStep
  <2>2. all' = all
    BY <1>0, <2>1, MoveBorder
  <2>3. QED
    BY <2>1, <2>2 DEF OrderInv, PerformedInOrder
<1>4. CASE ~PerformFunction /\ \A t \in Threads : ~Leave(t)
  <2>1. performed' = performed /\ Pending' = Pending /\ posted' = posted
    BY <1>4, OtherStep
  <2>2. QED
    BY <2>1 DEF OrderInv, PerformedInOrder
<1>5. QED
  BY <1>1, <1>2, <1>3, <1>4 DEF Leave

\* Whatever the threads do, each function is performed at most once, and in the order in
\* which the functions were posted.
THEOREM InOrder == Spec => []PerformedInOrder
<1>1. Init => OrderInv
  BY ConcatEmptySeq DEF Init, OrderInv, PerformedInOrder, Pending
<1>2. QueueInv /\ OrderInv /\ [Next]_vars => OrderInv'
  BY OrderKept
<1>3. OrderInv => PerformedInOrder
  BY DEF OrderInv
<1>4. QED
  BY <1>1, <1>2, <1>3, QueueInvariance, PTL DEF Spec

-----------------------------------------------------------------------------
(***************************************************************************)
(* No function is lost.                                                    *)
(***************************************************************************)

\* The members of a concatenation are those of its parts.
LEMMA MembersOfConcat ==
  ASSUME NEW S, NEW p \in Seq(S), NEW q \in Seq(S)
  PROVE  ToSet(p \o q) = ToSet(p) \cup ToSet(q)
<1> USE DEF ToSet
<1>1. Len(p) \in Nat /\ Len(q) \in Nat /\ DOMAIN p = 1..Len(p) /\ DOMAIN q = 1..Len(q)
  OBVIOUS
<1>2. /\ DOMAIN (p \o q) = 1..(Len(p) + Len(q))
      /\ \A i \in 1..(Len(p) + Len(q)) :
           (p \o q)[i] = IF i <= Len(p) THEN p[i] ELSE q[i - Len(p)]
  BY ConcatProperties
<1>3. ASSUME NEW x \in ToSet(p \o q) PROVE x \in ToSet(p) \cup ToSet(q)
  <2>1. PICK i \in 1..(Len(p) + Len(q)) : x = (p \o q)[i]
    BY <1>2
  <2>2. CASE i <= Len(p)
    BY <1>1, <1>2, <2>1, <2>2
  <2>3. CASE i > Len(p)
    <3>1. i - Len(p) \in 1..Len(q) /\ x = q[i - Len(p)]
      BY <1>1, <1>2, <2>1, <2>3
    <3>2. QED
      BY <1>1, <3>1
  <2>4. QED
    BY <1>1, <2>2, <2>3
<1>4. ASSUME NEW x \in ToSet(p) PROVE x \in ToSet(p \o q)
  <2>1. PICK i \in 1..Len(p) : x = p[i]
    BY <1>1
  <2>2. i \in 1..(Len(p) + Len(q)) /\ (p \o q)[i] = x
    BY <1>1, <1>2, <2>1
  <2>3. QED
    BY <1>2, <2>2
<1>5. ASSUME NEW x \in ToSet(q) PROVE x \in ToSet(p \o q)
  <2>1. PICK i \in 1..Len(q) : x = q[i]
    BY <1>1
  <2>2. i + Len(p) \in 1..(Len(p) + Len(q)) /\ (p \o q)[i + Len(p)] = x
    BY <1>1, <1>2, <2>1
  <2>3. QED
    BY <1>2, <2>2
<1>6. QED
  BY <1>3, <1>4, <1>5

\* A sequence with one more element has one more member.
LEMMA MembersOfAppend ==
  ASSUME NEW s \in Seq(Nat), NEW e \in Nat
  PROVE  ToSet(Append(s, e)) = ToSet(s) \cup {e}
<1>1. Append(s, e) = s \o <<e>> /\ <<e>> \in Seq(Nat)
  BY AppendIsConcat
<1>2. ToSet(<<e>>) = {e}
  BY DEF ToSet
<1>3. ToSet(s \o <<e>>) = ToSet(s) \cup ToSet(<<e>>)
  BY <1>1, MembersOfConcat
<1>4. QED
  BY <1>1, <1>2, <1>3

\* NoneIsLost, with the functions performed and pending as one sequence.
LEMMA NoneLostForm ==
  ASSUME QueueInv
  PROVE  NoneIsLost <=> 1..posted = ToSet(performed \o Pending) \cup removed
<1>1. ToSet(performed \o Pending) = ToSet(performed) \cup ToSet(Pending)
  BY PendingType, MembersOfConcat
<1>2. QED
  BY <1>1 DEF NoneIsLost

\* Each step keeps every function that was posted: performed, pending or removed.
LEMMA NoneLostStep ==
  ASSUME QueueInv, QueueInv', NoneIsLost, [Next]_vars
  PROVE  NoneIsLost'
<1>0. performed \in Seq(Nat) /\ Pending \in Seq(Nat) /\ posted \in Nat
  BY PendingType
<1>1. ASSUME NEW t \in Threads, Post(t) PROVE NoneIsLost'
  <2>1. /\ Pending' = Append(Pending, posted + 1) /\ posted' = posted + 1
        /\ performed' = performed /\ removed' = removed
    BY <1>1, PostStep
  <2>2. ToSet(Pending') = ToSet(Pending) \cup {posted + 1}
    BY <1>0, <2>1, MembersOfAppend
  <2>3. 1..posted' = (1..posted) \cup {posted + 1}
    BY <1>0, <2>1
  <2>4. QED
    BY <2>1, <2>2, <2>3 DEF NoneIsLost
<1>2. ASSUME NEW t \in Threads, RemoveAll(t) PROVE NoneIsLost'
  <2>1. /\ Pending = temp \o functionsToPerform /\ Pending' = temp
        /\ removed' = removed \cup ToSet(functionsToPerform)
        /\ performed' = performed /\ posted' = posted
    BY <1>2, RemoveStep
  <2>2. ToSet(Pending) = ToSet(temp) \cup ToSet(functionsToPerform)
    BY <2>1, MembersOfConcat DEF QueueInv, MutexOwned, TypeOK
  <2>3. QED
    BY <2>1, <2>2 DEF NoneIsLost
<1>3. CASE PerformFunction
  <2>1. /\ Pending # << >> /\ performed' = Append(performed, Head(Pending))
        /\ Pending' = Tail(Pending) /\ posted' = posted /\ removed' = removed
    BY <1>3, PerformStep
  <2>2. performed' \o Pending' = performed \o Pending
    BY <1>0, <2>1, MoveBorder
  <2>3. 1..posted = ToSet(performed \o Pending) \cup removed
    BY NoneLostForm
  <2>4. performed' \in Seq(Nat) /\ Pending' \in Seq(Nat)
    BY <1>0, <2>1, HeadTailProperties, AppendProperties
  <2>5. ToSet(performed' \o Pending') = ToSet(performed') \cup ToSet(Pending')
    BY <2>4, MembersOfConcat
  <2>6. QED
    BY <2>1, <2>2, <2>3, <2>5 DEF NoneIsLost
<1>4. CASE ~PerformFunction /\ \A t \in Threads : ~Leave(t)
  <2>1. performed' = performed /\ Pending' = Pending /\ posted' = posted /\ removed' = removed
    BY <1>4, OtherStep
  <2>2. QED
    BY <2>1 DEF NoneIsLost
<1>5. QED
  BY <1>1, <1>2, <1>3, <1>4 DEF Leave

\* A function that was posted is performed, still pending, or was removed: none is lost
\* between the threads.
THEOREM NothingLost == Spec => []NoneIsLost
<1>1. Init => NoneIsLost
  BY DEF Init, NoneIsLost, Pending, ToSet
<1>2. QueueInv /\ QueueInv' /\ NoneIsLost /\ [Next]_vars => NoneIsLost'
  BY NoneLostStep
<1>3. QED
  BY <1>1, <1>2, QueueInvariance, PTL DEF Spec

-----------------------------------------------------------------------------
(***************************************************************************)
(* AsyncTaskPool: its queues.                                              *)
(***************************************************************************)
Members(s) == {s[i] : i \in 1..Len(s)}

Injective(s) == \A i, j \in 1..Len(s) : s[i] = s[j] => i = j

\* Taking the first element of a queue removes it from the members, if it is there once.
LEMMA MembersOfTail ==
  ASSUME NEW s \in Seq(Nat), s # << >>, Injective(s)
  PROVE  /\ Head(s) \in Members(s) /\ Head(s) \in Nat
         /\ Tail(s) \in Seq(Nat) /\ Injective(Tail(s))
         /\ Members(Tail(s)) = Members(s) \ {Head(s)}
<1>1. /\ Tail(s) \in Seq(Nat) /\ Len(Tail(s)) = Len(s) - 1 /\ Head(s) = s[1] /\ Len(s) \in Nat /\ Len(s) >= 1
      /\ \A i \in 1..Len(Tail(s)) : Tail(s)[i] = s[i + 1]
      /\ \A i \in 1..Len(s) : s[i] \in Nat
  OBVIOUS
<1>2. Head(s) \in Members(s) /\ Head(s) \in Nat
  BY <1>1 DEF Members
<1>3. Injective(Tail(s))
  <2>1. SUFFICES ASSUME NEW i \in 1..Len(Tail(s)), NEW j \in 1..Len(Tail(s)), Tail(s)[i] = Tail(s)[j]
                 PROVE  i = j
    BY DEF Injective
  <2>2. i + 1 \in 1..Len(s) /\ j + 1 \in 1..Len(s) /\ s[i + 1] = s[j + 1]
    BY <1>1, <2>1
  <2>3. i + 1 = j + 1
    BY <2>2 DEF Injective
  <2>4. QED
    BY <2>3
<1>4. ASSUME NEW x \in Members(Tail(s)) PROVE x \in Members(s) \ {Head(s)}
  <2>1. PICK i \in 1..Len(Tail(s)) : x = Tail(s)[i]
    BY <1>4 DEF Members
  <2>2. i + 1 \in 1..Len(s) /\ 1 \in 1..Len(s) /\ x = s[i + 1] /\ i + 1 # 1
    BY <1>1, <2>1
  <2>3. s[i + 1] # s[1]
    BY <2>2 DEF Injective
  <2>4. QED
    BY <1>1, <2>2, <2>3 DEF Members
<1>5. ASSUME NEW x \in Members(s) \ {Head(s)} PROVE x \in Members(Tail(s))
  <2>1. PICK i \in 1..Len(s) : x = s[i]
    BY <1>5 DEF Members
  <2>2. i # 1
    BY <1>1, <1>5, <2>1
  <2>3. i - 1 \in 1..Len(Tail(s)) /\ Tail(s)[i - 1] = s[(i - 1) + 1] /\ (i - 1) + 1 = i
    BY <1>1, <2>2
  <2>4. QED
    BY <2>1, <2>3 DEF Members
<1>6. QED
  BY <1>1, <1>2, <1>3, <1>4, <1>5

\* A new element at the end of a queue is one more member, there once.
LEMMA MembersGrown ==
  ASSUME NEW s \in Seq(Nat), NEW e \in Nat
  PROVE  /\ Append(s, e) \in Seq(Nat)
         /\ Members(Append(s, e)) = Members(s) \cup {e}
         /\ Injective(s) /\ e \notin Members(s) => Injective(Append(s, e))
<1>1. /\ Append(s, e) \in Seq(Nat) /\ Len(Append(s, e)) = Len(s) + 1 /\ Len(s) \in Nat
      /\ Append(s, e)[Len(s) + 1] = e
      /\ \A i \in 1..Len(s) : Append(s, e)[i] = s[i]
  BY AppendProperties
<1>2. 1..Len(Append(s, e)) = (1..Len(s)) \cup {Len(s) + 1}
  BY <1>1
<1>3. Members(Append(s, e)) = Members(s) \cup {e}
  BY <1>1, <1>2 DEF Members
<1>4. ASSUME Injective(s), e \notin Members(s) PROVE Injective(Append(s, e))
  <2>1. SUFFICES ASSUME NEW i \in 1..Len(Append(s, e)), NEW j \in 1..Len(Append(s, e)),
                        Append(s, e)[i] = Append(s, e)[j]
                 PROVE  i = j
    BY DEF Injective
  <2>2. \A m \in 1..Len(s) : s[m] # e
    BY <1>4 DEF Members
  <2>3. QED
    BY <1>1, <1>2, <1>4, <2>1, <2>2 DEF Injective
<1>5. QED
  BY <1>1, <1>3, <1>4

-----------------------------------------------------------------------------
(***************************************************************************)
(* AsyncTaskPool: the inductive invariant.                                 *)
(***************************************************************************)
Tasks == 1..enqueued

\* The tasks in the queue of type k.
Queued(k) == Members(tasks[k])

\* The thread of type k has a task.
Busy(k) == thread[k] \in {"run", "post"}

Held(k) == holding[k].task

AsyncTypes ==
  /\ enqueued \in Nat
  /\ tasks \in [Async!TaskTypes -> Seq(Nat)]
  /\ thread \in [Async!TaskTypes -> {"test", "asleep", "run", "post", "exited"}]
  /\ holding \in [Async!TaskTypes -> [task : Nat, callback : Nat]]
  /\ ran \subseteq Tasks /\ cleared \subseteq Tasks
  /\ toCall \in Seq(Nat)
  /\ caller \in {"notify", "notifyAll", "join", "destroyNext"} => callType \in Async!TaskTypes
  /\ caller = "destroyNext" => callType # 1

\* No task is twice in a queue, nor in two queues, nor in one and elsewhere.
QueuedOnce ==
  /\ \A k \in Async!TaskTypes : Injective(tasks[k])
  /\ \A k, l \in Async!TaskTypes : k # l => Queued(k) \cap Queued(l) = {}
  /\ \A k \in Async!TaskTypes : Queued(k) \subseteq Tasks \ (ran \cup cleared)

\* A task that a thread has is in no queue and no other thread has it.
HeldOnce ==
  \A k \in Async!TaskTypes : Busy(k) =>
    /\ Held(k) \in Tasks \ cleared
    /\ \A l \in Async!TaskTypes : Held(k) \notin Queued(l)
    /\ \A l \in Async!TaskTypes : Busy(l) /\ l # k => Held(l) # Held(k)

\* A task is run, then its callback is posted.
RunThenPosted ==
  /\ ran \cap cleared = {}
  /\ \A k \in Async!TaskTypes : Async!At(k, "run") => Held(k) \notin ran
  /\ \A k \in Async!TaskTypes : Async!At(k, "post") =>
       Held(k) \in ran /\ \A i \in 1..Len(toCall) : toCall[i] # Held(k)

AsyncInv ==
  AsyncTypes /\ QueuedOnce /\ HeldOnce /\ RunThenPosted /\ Async!QueuesInStep /\ Async!CalledTasksRan

-----------------------------------------------------------------------------
(***************************************************************************)
(* AsyncTaskPool: the steps.                                               *)
(***************************************************************************)
\* Initially there is no task.
LEMMA InitAsync == ASSUME NumTypes \in Nat \ {0} PROVE Async!Init => AsyncInv
<1>1. SUFFICES ASSUME Async!Init PROVE AsyncInv
  OBVIOUS
<1>2. /\ enqueued = 0 /\ ran = {} /\ cleared = {} /\ toCall = << >> /\ caller = "none"
      /\ tasks = [k \in Async!TaskTypes |-> << >>] /\ callbacks = [k \in Async!TaskTypes |-> << >>]
      /\ thread = [k \in Async!TaskTypes |-> "test"] /\ holding = [k \in Async!TaskTypes |-> Async!NoEntry]
  BY <1>1 DEF Async!Init
<1>3. AsyncTypes
  BY <1>2 DEF AsyncTypes, Async!NoEntry
<1>4. QueuedOnce
  BY <1>2 DEF QueuedOnce, Queued, Members, Injective
<1>5. HeldOnce /\ RunThenPosted
  BY <1>2 DEF HeldOnce, RunThenPosted, Busy, Async!At
<1>6. Async!QueuesInStep /\ Async!CalledTasksRan
  BY <1>2 DEF Async!QueuesInStep, Async!CalledTasksRan, Async!NoEntry
<1>7. QED
  BY <1>3, <1>4, <1>5, <1>6 DEF AsyncInv

\* What a thread does when it takes a task: the task leaves its queue.
LEMMA TakeEffect ==
  ASSUME AsyncInv, NEW k \in Async!TaskTypes, Async!TakeTask(k)
  PROVE  /\ Held(k)' = Head(tasks[k]) /\ Held(k)' \in Queued(k) /\ Held(k)' \in Nat
         /\ Queued(k)' = Queued(k) \ {Held(k)'} /\ Injective(tasks'[k])
         /\ tasks' \in [Async!TaskTypes -> Seq(Nat)] /\ callbacks' = tasks'
         /\ holding' \in [Async!TaskTypes -> [task : Nat, callback : Nat]]
         /\ holding'[k].callback = Held(k)'
         /\ \A l \in Async!TaskTypes \ {k} :
              /\ tasks'[l] = tasks[l] /\ Queued(l)' = Queued(l)
              /\ holding'[l] = holding[l] /\ Held(l)' = Held(l) /\ thread'[l] = thread[l]
         /\ thread' = [thread EXCEPT ![k] = "run"]
         /\ UNCHANGED <<enqueued, ran, cleared, toCall, caller, callType>>
<1>1. /\ tasks[k] # << >> /\ tasks' = [tasks EXCEPT ![k] = Tail(@)]
      /\ callbacks' = [callbacks EXCEPT ![k] = Tail(@)]
      /\ holding' = [holding EXCEPT ![k] = [task |-> Head(tasks[k]), callback |-> Head(callbacks[k])]]
      /\ thread' = [thread EXCEPT ![k] = "run"]
      /\ UNCHANGED <<enqueued, ran, cleared, toCall, caller, callType>>
  BY DEF Async!TakeTask, Async!Goto, Async!RunsFirst, Async!callVars
<1>2. /\ tasks \in [Async!TaskTypes -> Seq(Nat)] /\ Injective(tasks[k]) /\ callbacks = tasks
      /\ holding \in [Async!TaskTypes -> [task : Nat, callback : Nat]]
      /\ thread \in [Async!TaskTypes -> {"test", "asleep", "run", "post", "exited"}]
  BY DEF AsyncInv, AsyncTypes, QueuedOnce, Async!QueuesInStep
<1>3. /\ Head(tasks[k]) \in Members(tasks[k]) /\ Head(tasks[k]) \in Nat
      /\ Tail(tasks[k]) \in Seq(Nat) /\ Injective(Tail(tasks[k]))
      /\ Members(Tail(tasks[k])) = Members(tasks[k]) \ {Head(tasks[k])}
  BY <1>1, <1>2, MembersOfTail
<1>4. tasks'[k] = Tail(tasks[k]) /\ \A l \in Async!TaskTypes \ {k} : tasks'[l] = tasks[l]
  BY <1>1, <1>2
<1>5. holding'[k] = [task |-> Head(tasks[k]), callback |-> Head(tasks[k])]
      /\ \A l \in Async!TaskTypes \ {k} : holding'[l] = holding[l]
  BY <1>1, <1>2
<1>6. tasks' \in [Async!TaskTypes -> Seq(Nat)] /\ callbacks' = tasks'
  BY <1>1, <1>2, <1>3
<1>7. holding' \in [Async!TaskTypes -> [task : Nat, callback : Nat]]
  BY <1>1, <1>2, <1>3
<1>8. \A l \in Async!TaskTypes \ {k} : thread'[l] = thread[l]
  BY <1>1, <1>2
<1>9. QED
  BY <1>1, <1>3, <1>4, <1>5, <1>6, <1>7, <1>8 DEF Queued, Held

\* A task that is taken goes from its queue to the hands of its thread.
LEMMA TakeKeeps ==
  ASSUME AsyncInv, NEW k \in Async!TaskTypes, Async!TakeTask(k)
  PROVE  AsyncInv'
<1>1. /\ Held(k)' \in Queued(k) /\ Queued(k)' = Queued(k) \ {Held(k)'} /\ Injective(tasks'[k])
      /\ tasks' \in [Async!TaskTypes -> Seq(Nat)] /\ callbacks' = tasks'
      /\ holding' \in [Async!TaskTypes -> [task : Nat, callback : Nat]]
      /\ holding'[k].callback = Held(k)'
      /\ thread' = [thread EXCEPT ![k] = "run"]
      /\ UNCHANGED <<enqueued, ran, cleared, toCall, caller, callType>>
  BY TakeEffect
<1>2. \A l \in Async!TaskTypes \ {k} :
        /\ tasks'[l] = tasks[l] /\ Queued(l)' = Queued(l)
        /\ holding'[l] = holding[l] /\ Held(l)' = Held(l) /\ thread'[l] = thread[l]
  BY TakeEffect
<1>3. /\ thread \in [Async!TaskTypes -> {"test", "asleep", "run", "post", "exited"}]
      /\ thread'[k] = "run"
  BY <1>1 DEF AsyncInv, AsyncTypes
<1>4. AsyncTypes'
  BY <1>1, <1>3 DEF AsyncInv, AsyncTypes, Tasks
<1>5. QueuedOnce'
  <2>1. \A l \in Async!TaskTypes : Queued(l)' \subseteq Queued(l) /\ Injective(tasks'[l])
    BY <1>1, <1>2 DEF AsyncInv, QueuedOnce
  <2>2. \A l, m \in Async!TaskTypes : l # m => Queued(l)' \cap Queued(m)' = {}
    BY <2>1 DEF AsyncInv, QueuedOnce
  <2>3. \A l \in Async!TaskTypes : Queued(l)' \subseteq Tasks' \ (ran' \cup cleared')
    BY <1>1, <2>1 DEF AsyncInv, QueuedOnce, Tasks
  <2>4. QED
    BY <2>1, <2>2, <2>3 DEF QueuedOnce
<1>6. Held(k)' \in Tasks' /\ Held(k)' \notin ran' /\ Held(k)' \notin cleared'
  BY <1>1 DEF AsyncInv, QueuedOnce, Tasks
<1>7. \A l \in Async!TaskTypes : Held(k)' \notin Queued(l)'
  <2>1. ASSUME NEW l \in Async!TaskTypes, l # k PROVE Held(k)' \notin Queued(l)'
    <3>1. Queued(l) \cap Queued(k) = {} /\ Queued(l)' = Queued(l)
      BY <1>2, <2>1 DEF AsyncInv, QueuedOnce
    <3>2. QED
      BY <1>1, <3>1
  <2>2. QED
    BY <1>1, <2>1
<1>8. \A l \in Async!TaskTypes \ {k} : Busy(l)' => Busy(l) /\ Held(l)' = Held(l) /\ Held(l) # Held(k)'
  BY <1>1, <1>2 DEF AsyncInv, HeldOnce, Busy
<1>9. HeldOnce'
  <2>1. SUFFICES ASSUME NEW l \in Async!TaskTypes, Busy(l)'
                 PROVE  /\ Held(l)' \in Tasks' \ cleared'
                        /\ \A m \in Async!TaskTypes : Held(l)' \notin Queued(m)'
                        /\ \A m \in Async!TaskTypes : Busy(m)' /\ m # l => Held(m)' # Held(l)'
    BY DEF HeldOnce
  <2>2. CASE l = k
    BY <1>6, <1>7, <1>8, <2>2
  <2>3. CASE l # k
    <3>1. Busy(l) /\ Held(l)' = Held(l) /\ Held(l) # Held(k)'
      BY <1>8, <2>1, <2>3
    <3>2. Held(l) \in Tasks' \ cleared'
      BY <1>1, <3>1 DEF AsyncInv, HeldOnce, Tasks
    <3>3. \A m \in Async!TaskTypes : Held(l) \notin Queued(m)'
      BY <1>1, <1>2, <3>1 DEF AsyncInv, HeldOnce
    <3>4. \A m \in Async!TaskTypes : Busy(m)' /\ m # l => Held(m)' # Held(l)
      BY <1>8, <3>1 DEF AsyncInv, HeldOnce
    <3>5. QED
      BY <3>1, <3>2, <3>3, <3>4
  <2>4. QED
    BY <2>2, <2>3
<1>10. RunThenPosted'
  <2>1. \A l \in Async!TaskTypes : Async!At(l, "run")' => Held(l)' \notin ran'
    BY <1>1, <1>2, <1>6 DEF AsyncInv, RunThenPosted, Async!At
  <2>2. \A l \in Async!TaskTypes : Async!At(l, "post")' => l # k /\ Async!At(l, "post") /\ Held(l)' = Held(l)
    BY <1>2, <1>3 DEF Async!At
  <2>3. \A l \in Async!TaskTypes : Async!At(l, "post")' =>
          Held(l)' \in ran' /\ \A i \in 1..Len(toCall') : toCall'[i] # Held(l)'
    BY <1>1, <2>2 DEF AsyncInv, RunThenPosted
  <2>4. QED
    BY <1>1, <2>1, <2>3 DEF AsyncInv, RunThenPosted
<1>11. Async!QueuesInStep'
  BY <1>1, <1>2 DEF AsyncInv, Async!QueuesInStep, Held
<1>12. Async!CalledTasksRan'
  BY <1>1 DEF AsyncInv, Async!CalledTasksRan
<1>13. QED
  BY <1>4, <1>5, <1>9, <1>10, <1>11, <1>12 DEF AsyncInv

\* A task that has run is in ran, and still in the hands of its thread.
LEMMA RunKeeps ==
  ASSUME AsyncInv, NEW k \in Async!TaskTypes, Async!RunTask(k)
  PROVE  AsyncInv'
<1>1. /\ thread[k] = "run" /\ thread' = [thread EXCEPT ![k] = "post"] /\ ran' = ran \cup {Held(k)}
      /\ UNCHANGED <<tasks, callbacks, holding, enqueued, cleared, toCall, caller, callType>>
  BY DEF Async!RunTask, Async!At, Async!Goto, Async!PostsAfter, Async!callVars, Held
<1>2. /\ thread \in [Async!TaskTypes -> {"test", "asleep", "run", "post", "exited"}]
      /\ thread'[k] = "post" /\ \A l \in Async!TaskTypes \ {k} : thread'[l] = thread[l]
  BY <1>1 DEF AsyncInv, AsyncTypes
<1>3. \A l \in Async!TaskTypes : Held(l)' = Held(l) /\ Queued(l)' = Queued(l) /\ Busy(l)' = Busy(l)
  BY <1>1, <1>2 DEF Held, Queued, Busy
<1>4. /\ Held(k) \in Tasks \ cleared /\ Held(k) \notin ran
      /\ \A l \in Async!TaskTypes : Held(k) \notin Queued(l)
      /\ \A l \in Async!TaskTypes \ {k} : Busy(l) => Held(l) # Held(k)
  BY <1>1 DEF AsyncInv, HeldOnce, RunThenPosted, Busy, Async!At
<1>5. AsyncTypes'
  BY <1>1, <1>2, <1>4 DEF AsyncInv, AsyncTypes, Tasks
<1>6. QueuedOnce'
  BY <1>1, <1>3, <1>4 DEF AsyncInv, QueuedOnce, Tasks
<1>7. HeldOnce'
  BY <1>1, <1>3 DEF AsyncInv, HeldOnce, Tasks
<1>8. RunThenPosted'
  <2>1. \A i \in 1..Len(toCall) : toCall[i] # Held(k)
    BY <1>4 DEF AsyncInv, Async!CalledTasksRan
  <2>2. ran' \cap cleared' = {}
    BY <1>1, <1>4 DEF AsyncInv, RunThenPosted
  <2>3. \A l \in Async!TaskTypes : Async!At(l, "run")' => Held(l)' \notin ran'
    BY <1>1, <1>2, <1>3, <1>4 DEF AsyncInv, RunThenPosted, Async!At, Busy
  <2>4. \A l \in Async!TaskTypes : Async!At(l, "post")' =>
          Held(l)' \in ran' /\ \A i \in 1..Len(toCall') : toCall'[i] # Held(l)'
    BY <1>1, <1>2, <1>3, <2>1 DEF AsyncInv, RunThenPosted, Async!At
  <2>5. QED
    BY <2>2, <2>3, <2>4 DEF RunThenPosted
<1>9. Async!QueuesInStep' /\ Async!CalledTasksRan'
  BY <1>1 DEF AsyncInv, Async!QueuesInStep, Async!CalledTasksRan
<1>10. QED
  BY <1>5, <1>6, <1>7, <1>8, <1>9 DEF AsyncInv

\* A callback that is posted is that of a task that ran, and the only one for it.
LEMMA PostKeeps ==
  ASSUME AsyncInv, NEW k \in Async!TaskTypes, Async!PostCallback(k)
  PROVE  AsyncInv'
<1>1. /\ thread[k] = "post" /\ thread' = [thread EXCEPT ![k] = "test"]
      /\ toCall' = Append(toCall, holding[k].callback)
      /\ holding' = [holding EXCEPT ![k] = Async!NoEntry]
      /\ UNCHANGED <<tasks, callbacks, enqueued, ran, cleared, caller, callType>>
  BY DEF Async!PostCallback, Async!At, Async!Goto
<1>2. /\ thread \in [Async!TaskTypes -> {"test", "asleep", "run", "post", "exited"}]
      /\ thread'[k] = "test" /\ \A l \in Async!TaskTypes \ {k} : thread'[l] = thread[l]
  BY <1>1 DEF AsyncInv, AsyncTypes
<1>3. /\ holding \in [Async!TaskTypes -> [task : Nat, callback : Nat]]
      /\ holding'[k] = Async!NoEntry /\ \A l \in Async!TaskTypes \ {k} : holding'[l] = holding[l]
  BY <1>1 DEF AsyncInv, AsyncTypes
<1>4. /\ holding[k].callback = Held(k) /\ Held(k) \in Nat /\ Held(k) \in ran \ cleared
      /\ \A i \in 1..Len(toCall) : toCall[i] # Held(k)
      /\ \A l \in Async!TaskTypes \ {k} : Busy(l) => Held(l) # Held(k)
  BY <1>1, <1>3 DEF AsyncInv, Async!QueuesInStep, HeldOnce, RunThenPosted, Busy, Async!At, Held
<1>5. \A l \in Async!TaskTypes :
        /\ Queued(l)' = Queued(l) /\ tasks'[l] = tasks[l]
        /\ Busy(l)' => Busy(l) /\ l # k /\ Held(l)' = Held(l)
  BY <1>1, <1>2, <1>3 DEF Queued, Busy, Held
<1>6. /\ toCall \in Seq(Nat) /\ toCall' \in Seq(Nat) /\ Len(toCall') = Len(toCall) + 1 /\ Len(toCall) \in Nat
      /\ toCall'[Len(toCall) + 1] = Held(k) /\ \A i \in 1..Len(toCall) : toCall'[i] = toCall[i]
  BY <1>1, <1>4, AppendProperties DEF AsyncInv, AsyncTypes
<1>7. 1..Len(toCall') = (1..Len(toCall)) \cup {Len(toCall) + 1}
  BY <1>6
<1>8. AsyncTypes'
  <2>1. holding' \in [Async!TaskTypes -> [task : Nat, callback : Nat]]
    BY <1>1, <1>3 DEF Async!NoEntry
  <2>2. thread' \in [Async!TaskTypes -> {"test", "asleep", "run", "post", "exited"}]
    BY <1>1, <1>2
  <2>3. QED
    BY <1>1, <1>6, <2>1, <2>2 DEF AsyncInv, AsyncTypes, Tasks
<1>9. QueuedOnce'
  BY <1>1, <1>5 DEF AsyncInv, QueuedOnce, Tasks
<1>10. HeldOnce'
  BY <1>1, <1>5 DEF AsyncInv, HeldOnce, Tasks
<1>11. RunThenPosted'
  <2>1. \A l \in Async!TaskTypes : Async!At(l, "run")' => Held(l)' \notin ran'
    BY <1>1, <1>2, <1>5 DEF AsyncInv, RunThenPosted, Async!At, Busy
  <2>2. ASSUME NEW l \in Async!TaskTypes, Async!At(l, "post")'
        PROVE  Held(l)' \in ran' /\ \A i \in 1..Len(toCall') : toCall'[i] # Held(l)'
    <3>1. l # k /\ Async!At(l, "post") /\ Busy(l) /\ Held(l)' = Held(l)
      BY <1>2, <1>3, <2>2 DEF Async!At, Busy, Held
    <3>2. Held(l) # Held(k) /\ Held(l) \in ran /\ \A i \in 1..Len(toCall) : toCall[i] # Held(l)
      BY <1>4, <3>1 DEF AsyncInv, RunThenPosted
    <3>3. QED
      BY <1>1, <1>6, <1>7, <3>1, <3>2
  <2>3. QED
    BY <1>1, <2>1, <2>2 DEF AsyncInv, RunThenPosted
<1>12. Async!QueuesInStep'
  BY <1>1, <1>3 DEF AsyncInv, Async!QueuesInStep, Async!NoEntry
<1>13. Async!CalledTasksRan'
  <2>1. \A i \in 1..Len(toCall') : toCall'[i] \in ran' \ cleared'
    BY <1>1, <1>4, <1>6, <1>7 DEF AsyncInv, Async!CalledTasksRan
  <2>2. ASSUME NEW i \in 1..Len(toCall'), NEW j \in 1..Len(toCall'), toCall'[i] = toCall'[j] PROVE i = j
    BY <1>4, <1>6, <1>7, <2>2 DEF AsyncInv, Async!CalledTasksRan
  <2>3. QED
    BY <2>1, <2>2 DEF Async!CalledTasksRan
<1>14. QED
  BY <1>8, <1>9, <1>10, <1>11, <1>12, <1>13 DEF AsyncInv

\* A task that is enqueued is a new one.
LEMMA EnqueueKeeps ==
  ASSUME AsyncInv, NEW k \in Async!TaskTypes, Async!Enqueue(k)
  PROVE  /\ AsyncInv'
         /\ Queued(k)' = Queued(k) \cup {enqueued + 1}
         /\ \A l \in Async!TaskTypes \ {k} : Queued(l)' = Queued(l)
<1>1. /\ enqueued' = enqueued + 1 /\ tasks' = [tasks EXCEPT ![k] = Append(@, enqueued + 1)]
      /\ callbacks' = [callbacks EXCEPT ![k] = Append(@, enqueued + 1)]
      /\ caller' = "notify" /\ callType' = k
      /\ UNCHANGED <<thread, holding, ran, cleared, toCall>>
  BY DEF Async!Enqueue, Async!callVars
<1>2. /\ tasks \in [Async!TaskTypes -> Seq(Nat)] /\ callbacks = tasks /\ enqueued \in Nat
      /\ Injective(tasks[k]) /\ enqueued + 1 \in Nat /\ enqueued + 1 \notin Tasks
      /\ Tasks \subseteq Tasks' /\ enqueued + 1 \in Tasks'
  BY <1>1 DEF AsyncInv, AsyncTypes, QueuedOnce, Async!QueuesInStep, Tasks
<1>3. \A l \in Async!TaskTypes : Queued(l) \subseteq Tasks
  BY DEF AsyncInv, QueuedOnce
<1>4. /\ tasks'[k] = Append(tasks[k], enqueued + 1) /\ tasks' \in [Async!TaskTypes -> Seq(Nat)]
      /\ \A l \in Async!TaskTypes \ {k} : tasks'[l] = tasks[l]
      /\ callbacks' = tasks'
  BY <1>1, <1>2, AppendProperties
<1>5. Queued(k)' = Queued(k) \cup {enqueued + 1} /\ Injective(tasks'[k])
  <2>1. enqueued + 1 \notin Members(tasks[k])
    BY <1>2, <1>3 DEF Queued
  <2>2. QED
    BY <1>2, <1>4, <2>1, MembersGrown DEF Queued
<1>6. \A l \in Async!TaskTypes \ {k} : Queued(l)' = Queued(l)
  BY <1>4 DEF Queued
<1>7. \A l \in Async!TaskTypes : Held(l)' = Held(l) /\ (Busy(l)' <=> Busy(l))
  BY <1>1 DEF Held, Busy
<1>8. AsyncTypes'
  BY <1>1, <1>2, <1>4 DEF AsyncInv, AsyncTypes
<1>9. QueuedOnce'
  <2>1. \A l \in Async!TaskTypes : Injective(tasks'[l])
    BY <1>4, <1>5 DEF AsyncInv, QueuedOnce
  <2>2. ASSUME NEW l \in Async!TaskTypes, NEW m \in Async!TaskTypes, l # m
        PROVE  Queued(l)' \cap Queued(m)' = {}
    <3>1. /\ Queued(l) \cap Queued(m) = {}
          /\ enqueued + 1 \notin Queued(l) /\ enqueued + 1 \notin Queued(m)
      BY <1>2, <1>3, <2>2 DEF AsyncInv, QueuedOnce
    <3>2. CASE l = k
      <4>1. Queued(l)' = Queued(l) \cup {enqueued + 1} /\ Queued(m)' = Queued(m)
        BY <1>5, <1>6, <2>2, <3>2
      <4>2. QED
        BY ONLY <3>1, <4>1
    <3>3. CASE m = k
      <4>1. Queued(m)' = Queued(m) \cup {enqueued + 1} /\ Queued(l)' = Queued(l)
        BY <1>5, <1>6, <2>2, <3>3
      <4>2. QED
        BY ONLY <3>1, <4>1
    <3>4. CASE l # k /\ m # k
      BY <1>6, <3>1, <3>4
    <3>5. QED
      BY <3>2, <3>3, <3>4
  <2>3. enqueued + 1 \notin ran' \cup cleared'
    BY <1>1, <1>2 DEF AsyncInv, AsyncTypes
  <2>4. ASSUME NEW l \in Async!TaskTypes PROVE Queued(l)' \subseteq Tasks' \ (ran' \cup cleared')
    <3>1. Queued(l) \subseteq Tasks \ (ran \cup cleared) /\ ran' = ran /\ cleared' = cleared
      BY <1>1 DEF AsyncInv, QueuedOnce
    <3>2. Queued(l)' \subseteq Queued(l) \cup {enqueued + 1}
      BY <1>5, <1>6
    <3>3. QED
      BY ONLY <1>2, <2>3, <3>1, <3>2
  <2>5. QED
    BY <2>1, <2>2, <2>4 DEF QueuedOnce
<1>10. HeldOnce'
  <2>1. SUFFICES ASSUME NEW l \in Async!TaskTypes, Busy(l)'
                 PROVE  /\ Held(l)' \in Tasks' \ cleared'
                        /\ \A m \in Async!TaskTypes : Held(l)' \notin Queued(m)'
                        /\ \A m \in Async!TaskTypes : Busy(m)' /\ m # l => Held(m)' # Held(l)'
    BY DEF HeldOnce
  <2>2. /\ Held(l)' = Held(l) /\ Held(l) \in Tasks \ cleared
        /\ \A m \in Async!TaskTypes : Held(l) \notin Queued(m)
        /\ \A m \in Async!TaskTypes : Busy(m) /\ m # l => Held(m) # Held(l)
    BY <1>7, <2>1 DEF AsyncInv, HeldOnce
  <2>3. QED
    BY <1>1, <1>2, <1>5, <1>6, <1>7, <2>2
<1>11. RunThenPosted'
  BY <1>1, <1>7 DEF AsyncInv, RunThenPosted, Async!At
<1>12. Async!QueuesInStep' /\ Async!CalledTasksRan'
  BY <1>1, <1>4 DEF AsyncInv, Async!QueuesInStep, Async!CalledTasksRan
<1>13. AsyncInv'
  BY <1>8, <1>9, <1>10, <1>11, <1>12 DEF AsyncInv
<1>14. QED
  BY <1>5, <1>6, <1>13

\* The next call of the cocos thread is about a type that there is.
NextCallType ==
  /\ caller' \in {"notify", "notifyAll", "join", "destroyNext"} => callType' \in Async!TaskTypes
  /\ caller' = "destroyNext" => callType' # 1

\* Tasks and callbacks are cleared together; the task that runs is not among them.
LEMMA ClearKeeps ==
  ASSUME AsyncInv, NEW k \in Async!TaskTypes, Async!ClearQueues(k), NextCallType,
         UNCHANGED <<thread, holding, enqueued, ran, toCall>>
  PROVE  /\ AsyncInv'
         /\ \A l \in Async!TaskTypes : Queued(l)' \subseteq Queued(l)
<1>1. /\ cleared' = cleared \cup Queued(k) /\ tasks' = [tasks EXCEPT ![k] = << >>]
      /\ callbacks' = [callbacks EXCEPT ![k] = << >>]
  BY DEF Async!ClearQueues, Async!ClearedCallbacks, Queued, Members
<1>2. /\ tasks \in [Async!TaskTypes -> Seq(Nat)] /\ callbacks = tasks
      /\ tasks' \in [Async!TaskTypes -> Seq(Nat)] /\ callbacks' = tasks'
      /\ tasks'[k] = << >> /\ \A l \in Async!TaskTypes \ {k} : tasks'[l] = tasks[l]
  BY <1>1 DEF AsyncInv, AsyncTypes, Async!QueuesInStep
<1>3. Queued(k)' = {} /\ Injective(tasks'[k])
  BY <1>2 DEF Queued, Members, Injective
<1>4. \A l \in Async!TaskTypes \ {k} : Queued(l)' = Queued(l)
  BY <1>2 DEF Queued
<1>5. \A l \in Async!TaskTypes : Queued(l)' \subseteq Queued(l)
  BY <1>3, <1>4
<1>6. Queued(k) \subseteq Tasks \ (ran \cup cleared)
  BY DEF AsyncInv, QueuedOnce
<1>7. \A l \in Async!TaskTypes : Held(l)' = Held(l) /\ (Busy(l)' <=> Busy(l))
  BY DEF Held, Busy
<1>8. AsyncTypes'
  BY <1>1, <1>2, <1>6 DEF AsyncInv, AsyncTypes, Tasks, NextCallType
<1>9. QueuedOnce'
  <2>1. \A l \in Async!TaskTypes : Injective(tasks'[l])
    BY <1>2, <1>3 DEF AsyncInv, QueuedOnce
  <2>2. \A l, m \in Async!TaskTypes : l # m => Queued(l)' \cap Queued(m)' = {}
    BY <1>5 DEF AsyncInv, QueuedOnce
  <2>3. ASSUME NEW l \in Async!TaskTypes PROVE Queued(l)' \subseteq Tasks' \ (ran' \cup cleared')
    <3>1. CASE l = k
      BY <1>3, <3>1
    <3>2. CASE l # k
      <4>1. Queued(l) \cap Queued(k) = {} /\ Queued(l) \subseteq Tasks \ (ran \cup cleared)
        BY <3>2 DEF AsyncInv, QueuedOnce
      <4>2. Queued(l)' = Queued(l) /\ Tasks' = Tasks
        BY <1>4, <3>2 DEF Tasks
      <4>3. QED
        BY <1>1, <4>1, <4>2
    <3>3. QED
      BY <3>1, <3>2
  <2>4. QED
    BY <2>1, <2>2, <2>3 DEF QueuedOnce
<1>10. HeldOnce'
  <2>1. SUFFICES ASSUME NEW l \in Async!TaskTypes, Busy(l)'
                 PROVE  /\ Held(l)' \in Tasks' \ cleared'
                        /\ \A m \in Async!TaskTypes : Held(l)' \notin Queued(m)'
                        /\ \A m \in Async!TaskTypes : Busy(m)' /\ m # l => Held(m)' # Held(l)'
    BY DEF HeldOnce
  <2>2. /\ Held(l)' = Held(l) /\ Held(l) \in Tasks \ cleared
        /\ \A m \in Async!TaskTypes : Held(l) \notin Queued(m)
        /\ \A m \in Async!TaskTypes : Busy(m) /\ m # l => Held(m) # Held(l)
    BY <1>7, <2>1 DEF AsyncInv, HeldOnce
  <2>3. Tasks' = Tasks
    BY DEF Tasks
  <2>4. QED
    BY <1>1, <1>5, <1>7, <2>2, <2>3
<1>11. RunThenPosted'
  BY <1>1, <1>6, <1>7 DEF AsyncInv, RunThenPosted, Async!At
<1>12. Async!QueuesInStep'
  BY <1>2 DEF AsyncInv, Async!QueuesInStep
<1>13. Async!CalledTasksRan'
  BY <1>1, <1>6 DEF AsyncInv, Async!CalledTasksRan
<1>14. AsyncInv'
  BY <1>8, <1>9, <1>10, <1>11, <1>12, <1>13 DEF AsyncInv
<1>15. QED
  BY <1>5, <1>14

\* A step that moves no task.
NothingMoved ==
  /\ UNCHANGED <<tasks, callbacks, holding, enqueued, ran, cleared, toCall>>
  /\ thread' \in [Async!TaskTypes -> {"test", "asleep", "run", "post", "exited"}]
  /\ \A l \in Async!TaskTypes : Busy(l)' \/ Busy(l) => thread'[l] = thread[l]

LEMMA NothingMovedKeeps ==
  ASSUME AsyncInv, NothingMoved, NextCallType
  PROVE  AsyncInv'
<1> USE DEF NothingMoved
<1>1. /\ Tasks' = Tasks
      /\ \A l \in Async!TaskTypes : Held(l)' = Held(l) /\ Queued(l)' = Queued(l) /\ (Busy(l)' <=> Busy(l))
  BY DEF Held, Queued, Busy, Tasks
<1>2. AsyncTypes'
  BY <1>1 DEF AsyncInv, AsyncTypes, NextCallType
<1>3. QueuedOnce' /\ HeldOnce'
  BY <1>1 DEF AsyncInv, QueuedOnce, HeldOnce
<1>4. RunThenPosted'
  BY <1>1 DEF AsyncInv, RunThenPosted, Async!At, Busy
<1>5. Async!QueuesInStep' /\ Async!CalledTasksRan'
  BY DEF AsyncInv, Async!QueuesInStep, Async!CalledTasksRan
<1>6. QED
  BY <1>2, <1>3, <1>4, <1>5 DEF AsyncInv

-----------------------------------------------------------------------------
(***************************************************************************)
(* The invariant.                                                          *)
(***************************************************************************)
\* destroyInstance goes from the last type to the first, and each call of the cocos thread
\* is about a type that there is.
LEMMA DestroyKeeps ==
  ASSUME NumTypes \in Nat \ {0}, AsyncInv, Async!DestroyType
  PROVE  \E k \in Async!TaskTypes :
           /\ Async!ClearQueues(k) /\ NextCallType
           /\ UNCHANGED <<thread, holding, enqueued, ran, Async!callVars>>
<1> DEFINE K == IF caller = "none" THEN NumTypes ELSE callType - 1
<1>1. /\ caller \in {"none", "destroyNext"} /\ Async!ClearQueues(K) /\ callType' = K
      /\ caller' = "notifyAll" /\ UNCHANGED <<thread, holding, enqueued, ran, Async!callVars>>
  BY DEF Async!DestroyType
<1>2. K \in Async!TaskTypes
  <2>1. CASE caller = "none"
    BY <2>1 DEF Async!TaskTypes
  <2>2. CASE caller = "destroyNext"
    <3>1. callType \in Async!TaskTypes /\ callType # 1
      BY <2>2 DEF AsyncInv, AsyncTypes
    <3>2. callType - 1 \in Async!TaskTypes
      BY <3>1 DEF Async!TaskTypes
    <3>3. QED
      BY <2>2, <3>2
  <2>3. QED
    BY <1>1, <2>1, <2>2
<1> HIDE DEF K
<1>3. NextCallType
  BY <1>1, <1>2 DEF NextCallType
<1>4. QED
  BY <1>1, <1>2, <1>3

\* The steps that move no task: a thread leaves or sleeps, is notified or joined, and a
\* callback is performed.
LEMMA OtherSteps ==
  ASSUME AsyncInv,
         \/ \E k \in Async!TaskTypes : Async!LeaveOrSleep(k)
         \/ Async!Notify \/ Async!NotifyAll \/ Async!JoinThread \/ Async!PerformCallback \/ Async!Over
         \/ UNCHANGED Async!asyncVars
  PROVE  NothingMoved /\ NextCallType
<1>1. /\ thread \in [Async!TaskTypes -> {"test", "asleep", "run", "post", "exited"}]
      /\ caller \in {"notify", "notifyAll", "join", "destroyNext"} => callType \in Async!TaskTypes
      /\ caller = "destroyNext" => callType # 1
  BY DEF AsyncInv, AsyncTypes
<1>2. ASSUME NEW k \in Async!TaskTypes, Async!LeaveOrSleep(k) PROVE NothingMoved /\ NextCallType
  <2>1. /\ thread[k] = "test"
        /\ thread' = [thread EXCEPT ![k] = IF stop[k] THEN "exited" ELSE "asleep"]
        /\ UNCHANGED <<tasks, callbacks, holding, enqueued, ran, cleared, toCall, caller, callType>>
    BY <1>2 DEF Async!LeaveOrSleep, Async!At, Async!Goto, Async!callVars
  <2>2. NextCallType
    BY <1>1, <2>1 DEF NextCallType
  <2>3. NothingMoved
    BY <1>1, <2>1 DEF NothingMoved, Busy
  <2>4. QED
    BY <2>2, <2>3
<1>3. ASSUME Async!Notify \/ Async!NotifyAll PROVE NothingMoved /\ NextCallType
  <2>1. /\ thread' = [thread EXCEPT ![callType] = Async!Woken(callType)] /\ callType \in Async!TaskTypes
        /\ caller' \in {"none", "join"}
        /\ UNCHANGED <<tasks, callbacks, holding, enqueued, ran, cleared, toCall, callType>>
    BY <1>1, <1>3 DEF Async!Notify, Async!NotifyAll, Async!callVars
  <2>2. NextCallType
    BY <2>1 DEF NextCallType
  <2>3. /\ \/ thread[callType] = "asleep" /\ thread'[callType] = "test"
           \/ thread'[callType] = thread[callType]
        /\ \A l \in Async!TaskTypes \ {callType} : thread'[l] = thread[l]
    BY <1>1, <2>1 DEF Async!Woken, Async!At
  <2>4. thread' \in [Async!TaskTypes -> {"test", "asleep", "run", "post", "exited"}]
    BY <1>1, <2>1, <2>3
  <2>5. NothingMoved
    BY <2>1, <2>3, <2>4 DEF NothingMoved, Busy
  <2>6. QED
    BY <2>2, <2>5
<1>4. CASE Async!JoinThread
  <2>1. /\ caller = "join" /\ caller' = IF callType = 1 THEN "destroyed" ELSE "destroyNext"
        /\ UNCHANGED <<tasks, callbacks, thread, holding, callType, enqueued, ran, cleared, toCall>>
    BY <1>4 DEF Async!JoinThread, Async!callVars
  <2>2. NextCallType
    BY <1>1, <2>1 DEF NextCallType
  <2>3. QED
    BY <1>1, <2>1, <2>2 DEF NothingMoved, Busy
<1>5. ASSUME Async!PerformCallback \/ Async!Over \/ UNCHANGED Async!asyncVars
      PROVE  NothingMoved /\ NextCallType
  <2>1. UNCHANGED <<tasks, callbacks, thread, holding, caller, callType, enqueued, ran, cleared, toCall>>
    BY <1>5 DEF Async!PerformCallback, Async!Over, Async!asyncVars, Async!callVars
  <2>2. QED
    BY <1>1, <2>1 DEF NothingMoved, NextCallType, Busy
<1>6. QED
  BY <1>2, <1>3, <1>4, <1>5

\* Each step is one of a thread with a task, of the cocos thread with the queues, or moves
\* no task.
LEMMA Steps ==
  ASSUME [Async!Next]_(Async!asyncVars)
  PROVE  \/ \E k \in Async!TaskTypes : Async!TakeTask(k) \/ Async!RunTask(k) \/ Async!PostCallback(k)
         \/ \E k \in Async!TaskTypes : Async!Enqueue(k) \/ Async!StopTasks(k)
         \/ Async!DestroyType
         \/ \/ \E k \in Async!TaskTypes : Async!LeaveOrSleep(k)
            \/ Async!Notify \/ Async!NotifyAll \/ Async!JoinThread \/ Async!PerformCallback \/ Async!Over
            \/ UNCHANGED Async!asyncVars
BY DEF Async!Next, Async!Thread

\* Each step keeps the invariant.
LEMMA NextKeeps ==
  ASSUME NumTypes \in Nat \ {0}, AsyncInv, [Async!Next]_(Async!asyncVars)
  PROVE  AsyncInv'
<1>1. ASSUME NEW k \in Async!TaskTypes, Async!TakeTask(k) \/ Async!RunTask(k) \/ Async!PostCallback(k)
      PROVE  AsyncInv'
  BY <1>1, TakeKeeps, RunKeeps, PostKeeps
<1>2. ASSUME NEW k \in Async!TaskTypes, Async!Enqueue(k) PROVE AsyncInv'
  BY <1>2, EnqueueKeeps
<1>3. ASSUME NEW k \in Async!TaskTypes, Async!StopTasks(k) PROVE AsyncInv'
  <2>1. /\ caller = "none" /\ Async!ClearQueues(k)
        /\ UNCHANGED <<thread, holding, caller, enqueued, ran, toCall>>
    BY <1>3 DEF Async!StopTasks, Async!callVars
  <2>2. NextCallType
    BY <2>1 DEF NextCallType
  <2>3. QED
    BY <2>1, <2>2, ClearKeeps
<1>4. CASE Async!DestroyType
  <2>1. PICK k \in Async!TaskTypes :
          /\ Async!ClearQueues(k) /\ NextCallType
          /\ UNCHANGED <<thread, holding, enqueued, ran, Async!callVars>>
    BY <1>4, DestroyKeeps
  <2>2. UNCHANGED <<thread, holding, enqueued, ran, toCall>>
    BY <2>1 DEF Async!callVars
  <2>3. QED
    BY <2>1, <2>2, ClearKeeps
<1>5. ASSUME \/ \E k \in Async!TaskTypes : Async!LeaveOrSleep(k)
             \/ Async!Notify \/ Async!NotifyAll \/ Async!JoinThread \/ Async!PerformCallback \/ Async!Over
             \/ UNCHANGED Async!asyncVars
      PROVE  AsyncInv'
  BY <1>5, OtherSteps, NothingMovedKeeps
<1>6. QED
  BY <1>1, <1>2, <1>3, <1>4, <1>5, Steps

\* A task of AsyncTaskPool is in one place, whatever is enqueued, stopped and destroyed
\* while the threads run.
THEOREM AsyncInvariance == ASSUME NumTypes \in Nat \ {0} PROVE Async!Spec => []AsyncInv
<1>1. Async!Init => AsyncInv
  BY InitAsync
<1>2. AsyncInv /\ [Async!Next]_(Async!asyncVars) => AsyncInv'
  BY NextKeeps
<1>3. QED
  BY <1>1, <1>2, PTL DEF Async!Spec

\* The queues of tasks and of callbacks stay in step, so that a thread never has the callback
\* of another task than the one it runs; and a callback is posted at most once, for a task
\* that ran and was not stopped.
THEOREM InStep ==
  ASSUME NumTypes \in Nat \ {0}
  PROVE  Async!Spec => [](Async!QueuesInStep /\ Async!CalledTasksRan)
<1>1. AsyncInv => Async!QueuesInStep /\ Async!CalledTasksRan
  BY DEF AsyncInv
<1>2. QED
  BY <1>1, AsyncInvariance, PTL

-----------------------------------------------------------------------------
(***************************************************************************)
(* The types of the variables that AsyncInv does not speak of.             *)
(***************************************************************************)
CallTypes ==
  /\ stop \in [Async!TaskTypes -> BOOLEAN]
  /\ caller \in {"none", "notify", "notifyAll", "join", "destroyNext", "destroyed"}
  /\ callType \in 0..NumTypes
  /\ clears \in Nat
  /\ asyncPosted \in Nat /\ asyncPending \in Seq(Nat) /\ asyncPerformed \in Seq(Nat)

\* A thread touches none of them but the scheduler's queue, where it posts.
LEMMA ThreadKeepsCallTypes ==
  ASSUME CallTypes, NEW k \in Async!TaskTypes, Async!Thread(k)
  PROVE  CallTypes'
<1>1. UNCHANGED <<stop, caller, callType, clears>>
  BY DEF Async!Thread, Async!TakeTask, Async!LeaveOrSleep, Async!RunTask, Async!PostCallback
<1>2. asyncPosted' \in Nat /\ asyncPending' \in Seq(Nat) /\ asyncPerformed' \in Seq(Nat)
  <2>1. CASE Async!PostCallback(k)
    <3>1. asyncPosted' = asyncPosted + 1 /\ asyncPending' = Append(asyncPending, asyncPosted + 1)
          /\ UNCHANGED asyncPerformed
      BY <2>1 DEF Async!PostCallback, Async!Calls!Post
    <3>2. QED
      BY <3>1, AppendProperties DEF CallTypes
  <2>2. CASE Async!TakeTask(k) \/ Async!LeaveOrSleep(k) \/ Async!RunTask(k)
    <3>1. UNCHANGED <<asyncPosted, asyncPending, asyncPerformed>>
      BY <2>2 DEF Async!TakeTask, Async!LeaveOrSleep, Async!RunTask, Async!callVars
    <3>2. QED
      BY <3>1 DEF CallTypes
  <2>3. QED
    BY <2>1, <2>2 DEF Async!Thread
<1>3. QED
  BY <1>1, <1>2 DEF CallTypes

\* The calls of the cocos thread go from one of their steps to the next, about a type there is.
LEMMA CallKeepsCallTypes ==
  ASSUME NumTypes \in Nat \ {0}, AsyncInv, CallTypes,
         \/ \E k \in Async!TaskTypes : Async!Enqueue(k) \/ Async!StopTasks(k)
         \/ Async!Notify \/ Async!DestroyType \/ Async!NotifyAll \/ Async!JoinThread \/ Async!Over
         \/ UNCHANGED Async!asyncVars
  PROVE  CallTypes'
<1>1. UNCHANGED <<asyncPosted, asyncPending, asyncPerformed>>
  BY DEF Async!Enqueue, Async!StopTasks, Async!Notify, Async!DestroyType, Async!NotifyAll,
         Async!JoinThread, Async!Over, Async!asyncVars, Async!callVars
<1>2. ASSUME NEW k \in Async!TaskTypes, Async!Enqueue(k) \/ Async!StopTasks(k) PROVE CallTypes'
  <2>1. /\ callType' \in {callType, k} /\ caller' \in {caller, "notify"}
        /\ clears' \in {clears, clears + 1} /\ UNCHANGED stop
    BY <1>2 DEF Async!Enqueue, Async!StopTasks
  <2>2. callType' \in 0..NumTypes
    BY <2>1 DEF CallTypes, Async!TaskTypes
  <2>3. QED
    BY <1>1, <2>1, <2>2 DEF CallTypes
<1>3. CASE Async!DestroyType
  <2> DEFINE k == IF caller = "none" THEN NumTypes ELSE callType - 1
  <2>1. /\ stop' = [stop EXCEPT ![k] = TRUE] /\ callType' = k
        /\ caller \in {"none", "destroyNext"} /\ caller' = "notifyAll" /\ UNCHANGED clears
    BY <1>3 DEF Async!DestroyType
  <2>2. k \in 0..NumTypes
    <3>1. caller = "destroyNext" => callType \in 1..NumTypes
      BY DEF AsyncInv, AsyncTypes, Async!TaskTypes
    <3>2. QED
      BY <2>1, <3>1
  <2> HIDE DEF k
  <2>3. stop' \in [Async!TaskTypes -> BOOLEAN]
    BY <2>1 DEF CallTypes
  <2>4. QED
    BY <1>1, <2>1, <2>2, <2>3 DEF CallTypes
<1>4. CASE Async!Notify \/ Async!NotifyAll \/ Async!JoinThread
  <2>1. caller' \in {"none", "join", "destroyed", "destroyNext"} /\ UNCHANGED <<stop, callType, clears>>
    BY <1>4 DEF Async!Notify, Async!NotifyAll, Async!JoinThread
  <2>2. QED
    BY <1>1, <2>1 DEF CallTypes
<1>5. CASE Async!Over \/ UNCHANGED Async!asyncVars
  BY <1>1, <1>5 DEF Async!Over, Async!asyncVars, CallTypes
<1>6. QED
  BY <1>2, <1>3, <1>4, <1>5

\* Each step keeps them.
LEMMA NextKeepsCallTypes ==
  ASSUME NumTypes \in Nat \ {0}, AsyncInv, CallTypes, [Async!Next]_(Async!asyncVars)
  PROVE  CallTypes'
<1>1. CASE Async!PerformCallback
  <2>1. /\ UNCHANGED <<stop, caller, callType, clears, asyncPosted>> /\ asyncPending # << >>
        /\ asyncPending' = Tail(asyncPending) /\ asyncPerformed' = Append(asyncPerformed, Head(asyncPending))
    BY <1>1 DEF Async!PerformCallback, Async!Calls!Perform
  <2>2. Head(asyncPending) \in Nat /\ Tail(asyncPending) \in Seq(Nat)
    BY <2>1, HeadTailProperties DEF CallTypes
  <2>3. Append(asyncPerformed, Head(asyncPending)) \in Seq(Nat)
    BY <2>2, AppendProperties DEF CallTypes
  <2>4. QED
    BY <2>1, <2>2, <2>3 DEF CallTypes
<1>2. QED
  BY <1>1, ThreadKeepsCallTypes, CallKeepsCallTypes DEF Async!Next

\* Every variable of AsyncTaskPool has its type: the cocos thread destroys and joins types
\* there are, and the queues hold tasks and callbacks.
THEOREM TypesHold == ASSUME NumTypes \in Nat \ {0} PROVE Async!Spec => []Async!TypeOK
<1>1. Async!Init => CallTypes
  <2>1. SUFFICES ASSUME Async!Init PROVE CallTypes
    OBVIOUS
  <2>2. stop = [k \in Async!TaskTypes |-> FALSE] /\ caller = "none" /\ callType = 0 /\ clears = 0
    BY <2>1 DEF Async!Init
  <2>3. asyncPosted = 0 /\ asyncPending = << >> /\ asyncPerformed = << >>
    BY <2>1 DEF Async!Init, Async!Calls!Init
  <2>4. QED
    BY <2>2, <2>3 DEF CallTypes
<1>2. AsyncInv /\ CallTypes /\ [Async!Next]_(Async!asyncVars) => CallTypes'
  BY NextKeepsCallTypes
<1>3. AsyncInv /\ CallTypes => Async!TypeOK
  <2>1. SUFFICES ASSUME AsyncInv, CallTypes PROVE Async!TypeOK
    OBVIOUS
  <2>2. callbacks = tasks
    BY <2>1 DEF AsyncInv, Async!QueuesInStep
  <2>3. ran \subseteq Nat /\ cleared \subseteq Nat
    BY <2>1 DEF AsyncInv, AsyncTypes, Tasks
  <2>4. QED
    BY <2>1, <2>2, <2>3 DEF AsyncInv, AsyncTypes, CallTypes, Async!TypeOK
<1>4. QED
  BY <1>1, <1>2, <1>3, AsyncInvariance, PTL DEF Async!Spec

-----------------------------------------------------------------------------
(***************************************************************************)
(* The refinement of TaskService.                                          *)
(***************************************************************************)
Waiting == UNION {Queued(k) : k \in Async!TaskTypes}

Running == {Held(k) : k \in {j \in Async!TaskTypes : Async!At(j, "run")}}

\* Which tasks run, by the thread that runs them.
LEMMA RunningForm == \A t : t \in Running <=> \E k \in Async!TaskTypes : Async!At(k, "run") /\ t = Held(k)
BY DEF Running

LEMMA RunningFormNext ==
  \A t : t \in Running' <=> \E k \in Async!TaskTypes : Async!At(k, "run")' /\ t = Held(k)'
BY DEF Running

LEMMA WaitingForm == \A t : t \in Waiting <=> \E k \in Async!TaskTypes : t \in Queued(k)
BY DEF Waiting

LEMMA WaitingFormNext == \A t : t \in Waiting' <=> \E k \in Async!TaskTypes : t \in Queued(k)'
BY DEF Waiting

\* A task that is taken starts.
LEMMA TakeStarts ==
  ASSUME AsyncInv, NEW k \in Async!TaskTypes, Async!TakeTask(k)
  PROVE  /\ \E t \in Waiting : Waiting' = Waiting \ {t} /\ Running' = Running \cup {t}
         /\ UNCHANGED <<enqueued, ran>>
<1>1. /\ Held(k)' \in Queued(k) /\ Queued(k)' = Queued(k) \ {Held(k)'}
      /\ thread' = [thread EXCEPT ![k] = "run"] /\ UNCHANGED <<enqueued, ran>>
  BY TakeEffect
<1>2. \A l \in Async!TaskTypes \ {k} : Queued(l)' = Queued(l) /\ Held(l)' = Held(l) /\ thread'[l] = thread[l]
  BY TakeEffect
<1>3. thread[k] = "test" /\ thread'[k] = "run"
  BY <1>1 DEF Async!TakeTask, Async!At, AsyncInv, AsyncTypes
<1>4. \A l \in Async!TaskTypes \ {k} : Held(k)' \notin Queued(l)
  BY <1>1 DEF AsyncInv, QueuedOnce
<1>5. Waiting' = Waiting \ {Held(k)'}
  BY <1>1, <1>2, <1>4, WaitingForm, WaitingFormNext
<1>6. ASSUME NEW t PROVE t \in Running' <=> t \in Running \cup {Held(k)'}
  <2>1. \A l \in Async!TaskTypes \ {k} : (Async!At(l, "run")' <=> Async!At(l, "run")) /\ Held(l)' = Held(l)
    BY <1>2 DEF Async!At
  <2>2. Async!At(k, "run")' /\ ~Async!At(k, "run")
    BY <1>3 DEF Async!At
  <2>3. QED
    BY <2>1, <2>2, RunningForm, RunningFormNext
<1>7. Held(k)' \in Waiting
  BY <1>1, WaitingForm
<1>8. QED
  BY <1>1, <1>5, <1>6, <1>7

\* A task that has run is finished.
LEMMA RunFinishes ==
  ASSUME AsyncInv, NEW k \in Async!TaskTypes, Async!RunTask(k)
  PROVE  /\ \E t \in Running : Running' = Running \ {t} /\ ran' = ran \cup {t}
         /\ UNCHANGED <<enqueued, Waiting>>
<1>1. /\ thread[k] = "run" /\ thread' = [thread EXCEPT ![k] = "post"] /\ ran' = ran \cup {Held(k)}
      /\ UNCHANGED <<tasks, holding, enqueued>>
  BY DEF Async!RunTask, Async!At, Async!Goto, Async!PostsAfter, Held
<1>2. /\ thread'[k] = "post" /\ \A l \in Async!TaskTypes \ {k} : thread'[l] = thread[l]
  BY <1>1 DEF AsyncInv, AsyncTypes
<1>3. \A l \in Async!TaskTypes \ {k} : Async!At(l, "run") => Held(l) # Held(k)
  BY <1>1 DEF AsyncInv, HeldOnce, Busy, Async!At
<1>4. ASSUME NEW t PROVE t \in Running' <=> t \in Running \ {Held(k)}
  <2>1. \A l \in Async!TaskTypes : Held(l)' = Held(l)
    BY <1>1 DEF Held
  <2>2. \A l \in Async!TaskTypes \ {k} : Async!At(l, "run")' <=> Async!At(l, "run")
    BY <1>2 DEF Async!At
  <2>3. ~Async!At(k, "run")' /\ Async!At(k, "run")
    BY <1>1, <1>2 DEF Async!At
  <2>4. QED
    BY <1>3, <2>1, <2>2, <2>3, RunningForm, RunningFormNext
<1>5. Held(k) \in Running
  BY <1>1, RunningForm DEF Async!At
<1>6. Waiting' = Waiting
  BY <1>1 DEF Waiting, Queued
<1>7. QED
  BY <1>1, <1>4, <1>5, <1>6

\* A task that is enqueued is submitted.
LEMMA EnqueueSubmits ==
  ASSUME AsyncInv, NEW k \in Async!TaskTypes, Async!Enqueue(k)
  PROVE  /\ enqueued' = enqueued + 1 /\ Waiting' = Waiting \cup {enqueued + 1}
         /\ UNCHANGED <<Running, ran>>
<1>1. /\ Queued(k)' = Queued(k) \cup {enqueued + 1}
      /\ \A l \in Async!TaskTypes \ {k} : Queued(l)' = Queued(l)
  BY EnqueueKeeps
<1>2. enqueued' = enqueued + 1 /\ UNCHANGED <<thread, holding, ran>>
  BY DEF Async!Enqueue
<1>3. Waiting' = Waiting \cup {enqueued + 1}
  BY <1>1, WaitingForm, WaitingFormNext
<1>4. Running' = Running
  BY <1>2 DEF Running, Held, Async!At
<1>5. QED
  BY <1>2, <1>3, <1>4

\* Tasks that are cleared are dropped.
LEMMA ClearDrops ==
  ASSUME AsyncInv, NEW k \in Async!TaskTypes, Async!ClearQueues(k), NextCallType,
         UNCHANGED <<thread, holding, enqueued, ran, toCall>>
  PROVE  Waiting' \subseteq Waiting /\ UNCHANGED <<enqueued, Running, ran>>
<1>1. \A l \in Async!TaskTypes : Queued(l)' \subseteq Queued(l)
  BY ClearKeeps
<1>2. Waiting' \subseteq Waiting
  BY <1>1, WaitingForm, WaitingFormNext
<1>3. Running' = Running
  BY DEF Running, Held, Async!At
<1>4. QED
  BY <1>2, <1>3

\* To post a callback changes nothing for the tasks: this one has finished.
LEMMA PostStutters ==
  ASSUME AsyncInv, NEW k \in Async!TaskTypes, Async!PostCallback(k)
  PROVE  UNCHANGED <<enqueued, Waiting, Running, ran>>
<1>1. /\ thread[k] = "post" /\ thread' = [thread EXCEPT ![k] = "test"]
      /\ holding' = [holding EXCEPT ![k] = Async!NoEntry] /\ UNCHANGED <<tasks, enqueued, ran>>
  BY DEF Async!PostCallback, Async!At, Async!Goto
<1>2. /\ thread'[k] = "test"
      /\ \A l \in Async!TaskTypes \ {k} : thread'[l] = thread[l] /\ holding'[l] = holding[l]
  BY <1>1 DEF AsyncInv, AsyncTypes
<1>3. ASSUME NEW t PROVE t \in Running' <=> t \in Running
  <2>1. \A l \in Async!TaskTypes \ {k} : (Async!At(l, "run")' <=> Async!At(l, "run")) /\ Held(l)' = Held(l)
    BY <1>2 DEF Async!At, Held
  <2>2. ~Async!At(k, "run")' /\ ~Async!At(k, "run")
    BY <1>1, <1>2 DEF Async!At
  <2>3. QED
    BY <2>1, <2>2, RunningForm, RunningFormNext
<1>4. Waiting' = Waiting
  BY <1>1 DEF Waiting, Queued
<1>5. QED
  BY <1>1, <1>3, <1>4

\* Nor does a step that moves no task.
LEMMA NothingMovedStutters ==
  ASSUME AsyncInv, NothingMoved
  PROVE  UNCHANGED <<enqueued, Waiting, Running, ran>>
<1>1. ASSUME NEW t PROVE t \in Running' <=> t \in Running
  <2>1. \A l \in Async!TaskTypes : (Async!At(l, "run")' <=> Async!At(l, "run")) /\ Held(l)' = Held(l)
    BY DEF NothingMoved, Busy, Async!At, Held
  <2>2. QED
    BY <2>1, RunningForm, RunningFormNext
<1>2. Waiting' = Waiting
  BY DEF NothingMoved, Waiting, Queued
<1>3. QED
  BY <1>1, <1>2 DEF NothingMoved

\* Every step is one of TaskService, or changes nothing there.
LEMMA StepImplements ==
  ASSUME NumTypes \in Nat \ {0}, AsyncInv, [Async!Next]_(Async!asyncVars)
  PROVE  [Async!Service!Next]_<<enqueued, Waiting, Running, ran>>
<1> DEFINE Mapped == <<enqueued, Waiting, Running, ran>>
<1>1. ASSUME NEW k \in Async!TaskTypes, Async!TakeTask(k) PROVE Async!Service!Start
  BY <1>1, TakeStarts DEF Async!Service!Start, Waiting, Running, Queued, Members, Held
<1>2. ASSUME NEW k \in Async!TaskTypes, Async!RunTask(k) PROVE Async!Service!Finish
  BY <1>2, RunFinishes DEF Async!Service!Finish, Waiting, Running, Queued, Members, Held
<1>3. ASSUME NEW k \in Async!TaskTypes, Async!Enqueue(k) PROVE Async!Service!Submit
  BY <1>3, EnqueueSubmits DEF Async!Service!Submit, Waiting, Running, Queued, Members, Held
<1>4. ASSUME NEW k \in Async!TaskTypes, Async!ClearQueues(k), NextCallType,
             UNCHANGED <<thread, holding, enqueued, ran, toCall>>
      PROVE  Async!Service!Drop
  BY <1>4, ClearDrops DEF Async!Service!Drop, Waiting, Running, Queued, Members, Held
<1>5. ASSUME NEW k \in Async!TaskTypes, Async!StopTasks(k) PROVE Async!Service!Drop
  <2>1. caller = "none" /\ Async!ClearQueues(k) /\ UNCHANGED <<thread, holding, caller, enqueued, ran, toCall>>
    BY <1>5 DEF Async!StopTasks, Async!callVars
  <2>2. NextCallType
    BY <2>1 DEF NextCallType
  <2>3. QED
    BY <1>4, <2>1, <2>2
<1>6. CASE Async!DestroyType
  <2>1. PICK k \in Async!TaskTypes :
          /\ Async!ClearQueues(k) /\ NextCallType
          /\ UNCHANGED <<thread, holding, enqueued, ran, Async!callVars>>
    BY <1>6, DestroyKeeps
  <2>2. UNCHANGED <<thread, holding, enqueued, ran, toCall>>
    BY <2>1 DEF Async!callVars
  <2>3. Async!Service!Drop
    BY <1>4, <2>1, <2>2
  <2>4. QED
    BY <2>3 DEF Async!Service!Next
<1>7. ASSUME NEW k \in Async!TaskTypes, Async!PostCallback(k) PROVE UNCHANGED Mapped
  BY <1>7, PostStutters
<1>8. ASSUME \/ \E k \in Async!TaskTypes : Async!LeaveOrSleep(k)
             \/ Async!Notify \/ Async!NotifyAll \/ Async!JoinThread \/ Async!PerformCallback \/ Async!Over
             \/ UNCHANGED Async!asyncVars
      PROVE  UNCHANGED Mapped
  BY <1>8, OtherSteps, NothingMovedStutters
<1>9. QED
  BY <1>1, <1>2, <1>3, <1>5, <1>6, <1>7, <1>8, Steps DEF Async!Service!Next

\* AsyncTaskPool implements TaskService: a task waits, runs once and is over, or is dropped
\* while it waits, for any number of types and of tasks.
THEOREM ImplementsTaskService ==
  ASSUME NumTypes \in Nat \ {0}
  PROVE  Async!Spec => Async!ImplementsService
<1>1. Async!Init => Async!Service!Init
  BY DEF Async!Init, Async!Service!Init, Async!At
<1>2. AsyncInv /\ [Async!Next]_(Async!asyncVars) => [Async!Service!Next]_<<enqueued, Waiting, Running, ran>>
  BY StepImplements
<1>3. AsyncInv /\ [Async!Next]_(Async!asyncVars) =>
        [Async!Service!Next]_<<enqueued,
                         UNION {{tasks[k][i] : i \in 1..Len(tasks[k])} : k \in Async!TaskTypes},
                         {holding[k].task : k \in {j \in Async!TaskTypes : Async!At(j, "run")}}, ran>>
  BY <1>2 DEF Waiting, Running, Queued, Members, Held
<1>4. QED
  BY <1>1, <1>3, AsyncInvariance, PTL DEF Async!Spec, Async!ImplementsService, Async!Service!Spec

-----------------------------------------------------------------------------
(***************************************************************************)
(* The ThreadPool of the composition is that of its proofs: the            *)
(* definitions are the same text, under the names of two instances.        *)
(***************************************************************************)
Sizes == PoolProofs!PoolSizes /\ NumTypes \in Nat \ {0}

LEMMA SamePoolInit == Pool!Init => PoolProofs!Init
BY DEF
     Pool!Init, PoolProofs!Init, Pool!Tids, PoolProofs!Tids, Pool!NoTask, PoolProofs!NoTask,
     Pool!NoOwner, PoolProofs!NoOwner, Pool!initedThreadNum, PoolProofs!initedThreadNum,
     Pool!Sleeping, PoolProofs!Sleeping

LEMMA SamePoolNext == Pool!Next => PoolProofs!Next
BY DEF
     Pool!Tids, PoolProofs!Tids, Pool!NoTask, PoolProofs!NoTask, Pool!NoOwner,
     PoolProofs!NoOwner, Pool!poolVars, PoolProofs!poolVars, Pool!mainVars, PoolProofs!mainVars,
     Pool!historyVars, PoolProofs!historyVars, Pool!flagVars, PoolProofs!flagVars,
     Pool!workerVars, PoolProofs!workerVars, Pool!initedThreadNum, PoolProofs!initedThreadNum,
     Pool!Lock, PoolProofs!Lock, Pool!Unlock, PoolProofs!Unlock, Pool!Goto, PoolProofs!Goto,
     Pool!Rest, PoolProofs!Rest, Pool!Pop, PoolProofs!Pop, Pool!PopFirst, PoolProofs!PopFirst,
     Pool!AfterTask, PoolProofs!AfterTask, Pool!RunTask, PoolProofs!RunTask, Pool!LockToWait,
     PoolProofs!LockToWait, Pool!SetIdleFlag, PoolProofs!SetIdleFlag, Pool!TestPop,
     PoolProofs!TestPop, Pool!WakesForDone, PoolProofs!WakesForDone, Pool!WakesForFlags,
     PoolProofs!WakesForFlags, Pool!TestFlags, PoolProofs!TestFlags, Pool!Wake, PoolProofs!Wake,
     Pool!ClearIdleFlag, PoolProofs!ClearIdleFlag, Pool!LessIdle, PoolProofs!LessIdle,
     Pool!LeaveWait, PoolProofs!LeaveWait, Pool!Work, PoolProofs!Work, Pool!MayPush,
     PoolProofs!MayPush, Pool!TooManyIdle, PoolProofs!TooManyIdle, Pool!PushAtOnce,
     PoolProofs!PushAtOnce, Pool!PushShrinks, PoolProofs!PushShrinks, Pool!TryShrinkPool,
     PoolProofs!TryShrinkPool, Pool!PushStretches, PoolProofs!PushStretches, Pool!MaxToJoin,
     PoolProofs!MaxToJoin, Pool!ScanFlag, PoolProofs!ScanFlag, Pool!Sleeping,
     PoolProofs!Sleeping, Pool!NotifyAll, PoolProofs!NotifyAll, Pool!Join, PoolProofs!Join,
     Pool!JoinedAll, PoolProofs!JoinedAll, Pool!PushTask, PoolProofs!PushTask, Pool!WakeOne,
     PoolProofs!WakeOne, Pool!NotifyOne, PoolProofs!NotifyOne, Pool!StopTasks,
     PoolProofs!StopTasks, Pool!StopOne, PoolProofs!StopOne, Pool!StoppedAll,
     PoolProofs!StoppedAll, Pool!NextKept, PoolProofs!NextKept, Pool!PutBack, PoolProofs!PutBack,
     Pool!Stop, PoolProofs!Stop, Pool!EmptyQueue, PoolProofs!EmptyQueue, Pool!Destroyed,
     PoolProofs!Destroyed, Pool!Continue, PoolProofs!Continue, Pool!Call, PoolProofs!Call,
     Pool!Next, PoolProofs!Next, Pool!Cardinality, PoolProofs!Cardinality, Pool!ToSet,
     PoolProofs!ToSet, Pool!Min, PoolProofs!Min

LEMMA SamePoolProperties ==
  /\ PoolProofs!TypeOK => Pool!TypeOK
  /\ PoolProofs!EveryTaskHasAThread => Pool!EveryTaskHasAThread
  /\ PoolProofs!NoThreadIsLost => Pool!NoThreadIsLost
  /\ PoolProofs!DestructorWaits => Pool!DestructorWaits
<1>1. PoolProofs!TypeOK => Pool!TypeOK
  BY DEF
     Pool!TypeOK, PoolProofs!TypeOK, Pool!Sleeping, PoolProofs!Sleeping,
     Pool!Cardinality, PoolProofs!Cardinality, Pool!initedThreadNum, PoolProofs!initedThreadNum,
     Pool!Tids, PoolProofs!Tids, Pool!NoTask, PoolProofs!NoTask,
     Pool!NoOwner, PoolProofs!NoOwner
<1>2. PoolProofs!EveryTaskHasAThread => Pool!EveryTaskHasAThread
  BY DEF
     Pool!EveryTaskHasAThread, PoolProofs!EveryTaskHasAThread, Pool!Looking, PoolProofs!Looking,
     Pool!Sleeping, PoolProofs!Sleeping, Pool!Tids, PoolProofs!Tids, Pool!Cardinality,
     PoolProofs!Cardinality
<1>3. PoolProofs!NoThreadIsLost => Pool!NoThreadIsLost
  BY DEF
     Pool!NoThreadIsLost, PoolProofs!NoThreadIsLost, Pool!initedThreadNum,
     PoolProofs!initedThreadNum, Pool!Tids, PoolProofs!Tids, Pool!Cardinality,
     PoolProofs!Cardinality
<1>4. PoolProofs!DestructorWaits => Pool!DestructorWaits
  BY DEF Pool!DestructorWaits, PoolProofs!DestructorWaits
<1>5. QED
  BY <1>1, <1>2, <1>3, <1>4

LEMMA SamePoolService == PoolProofs!ImplementsService => Pool!ImplementsService
BY DEF
     Pool!ImplementsService, PoolProofs!ImplementsService, Pool!Service!Spec,
     PoolProofs!Service!Spec, Pool!Service!Init, PoolProofs!Service!Init, Pool!Service!Next,
     PoolProofs!Service!Next, Pool!Service!Submit, PoolProofs!Service!Submit, Pool!Service!Start,
     PoolProofs!Service!Start, Pool!Service!Finish, PoolProofs!Service!Finish, Pool!Service!Drop,
     PoolProofs!Service!Drop, Pool!ToSet, PoolProofs!ToSet, Pool!Tids, PoolProofs!Tids,
     Pool!NoTask, PoolProofs!NoTask

-----------------------------------------------------------------------------
(***************************************************************************)
(* What the composition keeps.                                             *)
(***************************************************************************)
\* A step of the composition is one of ThreadPool, or leaves it alone.
LEMMA BehavesAsPool == PoolsSpec => PoolProofs!Spec
<1>1. PoolsInit => PoolProofs!Init
  BY SamePoolInit DEF PoolsInit
<1>2. [PoolsNext]_allVars => [PoolProofs!Next]_(PoolProofs!poolVars)
  BY SamePoolNext
     DEF PoolsNext, QueueStep, PoolStep, AsyncStep, allVars, poolVars, PoolProofs!poolVars,
         PoolProofs!mainVars, PoolProofs!historyVars, PoolProofs!flagVars, PoolProofs!workerVars
<1>3. QED
  BY <1>1, <1>2, PTL DEF PoolsSpec, PoolProofs!Spec

\* A step of the composition is one of AsyncTaskPool, or leaves it alone.
LEMMA BehavesAsAsync == PoolsSpec => Async!Spec
<1>1. PoolsInit => Async!Init
  BY DEF PoolsInit
<1>2. [PoolsNext]_allVars => [Async!Next]_(Async!asyncVars)
  BY DEF PoolsNext, QueueStep, PoolStep, AsyncStep, allVars, asyncVars, Async!asyncVars,
         Async!callVars
<1>3. QED
  BY <1>1, <1>2, PTL DEF PoolsSpec, Async!Spec

\* Every variable of the pools has its type, whatever tasks are pushed, enqueued, stopped and
\* destroyed.
THEOREM PoolTypesHold == ASSUME Sizes PROVE PoolsSpec => []PoolsTypeOK
<1>1. PoolProofs!Spec => []PoolProofs!TypeOK
  BY PoolProofs!TypesHold DEF Sizes
<1>2. Async!Spec => []Async!TypeOK
  BY TypesHold DEF Sizes
<1>3. PoolProofs!TypeOK /\ Async!TypeOK => PoolsTypeOK
  BY SamePoolProperties DEF PoolsTypeOK
<1>4. QED
  BY <1>1, <1>2, <1>3, BehavesAsPool, BehavesAsAsync, PTL

\* ThreadPool: between the calls, either every sleeping thread is being woken or each task in
\* the queue has a thread that will look for one, for any number of threads and of tasks: the
\* flags that are set before the mutex is taken, and the notification that comes after it is
\* released, leave no task behind.
THEOREM PoolTasksHaveThreads == ASSUME Sizes PROVE PoolsSpec => []EveryTaskHasAThread
<1>1. PoolProofs!Spec => []PoolProofs!EveryTaskHasAThread
  BY PoolProofs!TasksHaveThreads DEF Sizes
<1>2. PoolProofs!EveryTaskHasAThread => EveryTaskHasAThread
  BY SamePoolProperties DEF EveryTaskHasAThread
<1>3. QED
  BY <1>1, <1>2, BehavesAsPool, PTL

\* ThreadPool: a cached pool shrinks and stretches without losing a thread, and the destructor
\* joins the last one when every task has run or was stopped.  The second needs a thread that
\* the pool always keeps, as each pool of the engine has: with none, tryShrinkPool may join the
\* last one just before the first task is pushed.
THEOREM PoolLosesNoThread ==
  ASSUME Sizes, MinThreads > 0 PROVE PoolsSpec => []NoThreadIsLost
<1>1. PoolProofs!Spec => []PoolProofs!NoThreadIsLost
  BY PoolProofs!ThreadsAreKept DEF Sizes
<1>2. PoolProofs!Spec => []PoolProofs!DestructorWaits
  BY PoolProofs!DestructorWaitsForTasks DEF Sizes
<1>3. PoolProofs!NoThreadIsLost /\ PoolProofs!DestructorWaits => NoThreadIsLost
  BY SamePoolProperties DEF NoThreadIsLost
<1>4. QED
  BY <1>1, <1>2, <1>3, BehavesAsPool, PTL

\* AsyncTaskPool: the queues of tasks and of callbacks stay in step, and the callbacks that
\* are called are those of the tasks that ran, each once.
THEOREM PoolQueuesInStep == ASSUME Sizes PROVE PoolsSpec => []QueuesInStep
<1>1. Async!Spec => [](Async!QueuesInStep /\ Async!CalledTasksRan)
  BY InStep DEF Sizes
<1>2. Async!QueuesInStep /\ Async!CalledTasksRan => QueuesInStep
  BY DEF QueuesInStep
<1>3. QED
  BY <1>1, <1>2, BehavesAsAsync, PTL

\* Both pools implement TaskService: each step submits, starts, finishes or drops tasks of it,
\* or changes nothing there; no task runs twice, or after it was dropped.
THEOREM PoolsImplementService == ASSUME Sizes PROVE PoolsSpec => ImplementsService
<1>1. PoolProofs!Spec => PoolProofs!ImplementsService
  BY PoolProofs!PoolImplementsService DEF Sizes
<1>2. Async!Spec => Async!ImplementsService
  BY ImplementsTaskService DEF Sizes
<1>3. QED
  BY <1>1, <1>2, SamePoolService, BehavesAsPool, BehavesAsAsync, PTL
     DEF ImplementsService
=============================================================================
