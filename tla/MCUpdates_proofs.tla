-------------------------- MODULE MCUpdates_proofs --------------------------
(***************************************************************************)
(* Proofs about Scheduler, for every set of targets, keys, timer objects,  *)
(* plans and frame times, and about its composition with the device.       *)
(*                                                                         *)
(* Init establishes SchedulerInv and each action preserves it: there is a  *)
(* lemma for the removal of a timer, which five operations share, and one  *)
(* for each step of the frame loop.  Two more invariants rest on it:       *)
(* SpentTimerIsGone, on the timers that have triggered often enough, and FrameInv, *)
(* on the place the frame has reached.                                     *)
(***************************************************************************)
EXTENDS MCUpdates, TLAPS, SequenceTheorems

\* ccArrayRemoveObjectAtIndex: the elements behind the removed one move up by one.
LEMMA RemoveAtProperties ==
  ASSUME NEW S, NEW s \in Seq(S), NEW i \in 1..Len(s)
  PROVE  /\ RemoveAt(s, i) \in Seq(S)
         /\ Len(RemoveAt(s, i)) = Len(s) - 1
         /\ \A j \in 1..(Len(s) - 1) :
              RemoveAt(s, i)[j] = IF j < i THEN s[j] ELSE s[j + 1]
<1> DEFINE a == SubSeq(s, 1, i - 1)
           b == SubSeq(s, i + 1, Len(s))
<1>1. RemoveAt(s, i) = a \o b
  BY DEF RemoveAt
<1>2. a \in Seq(S) /\ Len(a) = i - 1 /\ \A j \in 1..(i - 1) : a[j] = s[j]
  OBVIOUS
<1>3. b \in Seq(S) /\ Len(b) = Len(s) - i /\ \A j \in 1..(Len(s) - i) : b[j] = s[i + j]
  OBVIOUS
<1> HIDE DEF a, b
<1>4. a \o b \in Seq(S) /\ Len(a \o b) = Len(s) - 1
  <2>1. a \o b \in Seq(S) /\ Len(a \o b) = Len(a) + Len(b)
    BY <1>2, <1>3, ConcatProperties
  <2>2. Len(s) \in Nat /\ i \in Int
    OBVIOUS
  <2>3. QED
    BY <1>2, <1>3, <2>1, <2>2
<1>5. \A j \in 1..(Len(s) - 1) : (a \o b)[j] = IF j < i THEN s[j] ELSE s[j + 1]
  BY <1>2, <1>3
<1>6. QED
  BY <1>1, <1>4, <1>5

\* A timer is scheduled when some target's array holds it.
LEMMA ScheduledMember ==
  \A x : x \in Scheduled <=> \E t \in Targets : \E i \in 1..Len(timers[t]) : timers[t][i] = x
BY DEF Scheduled, TimersOf

\* removeHashElement takes one target out of the hash and keeps the others, in order.
LEMMA HashWithoutProperties ==
  ASSUME hash \in Seq(Targets), NEW t \in Targets, InHash(t),
         \A i, j \in 1..Len(hash) : hash[i] = hash[j] => i = j,
         hash' = HashWithout(t)
  PROVE  /\ hash' \in Seq(Targets)
         /\ \A i, j \in 1..Len(hash') : hash'[i] = hash'[j] => i = j
         /\ \A u \in Targets : InHash(u)' <=> InHash(u) /\ u # t
<1> DEFINE k == CHOOSE i \in 1..Len(hash) : hash[i] = t
<1>1. k \in 1..Len(hash) /\ hash[k] = t
  BY DEF InHash
<1>2. hash' = RemoveAt(hash, k)
  BY DEF HashWithout
<1> HIDE DEF k
<1>3. /\ hash' \in Seq(Targets)
      /\ Len(hash') = Len(hash) - 1
      /\ \A j \in 1..(Len(hash) - 1) : hash'[j] = IF j < k THEN hash[j] ELSE hash[j + 1]
  <2>1. /\ RemoveAt(hash, k) \in Seq(Targets)
        /\ Len(RemoveAt(hash, k)) = Len(hash) - 1
        /\ \A j \in 1..(Len(hash) - 1) :
             RemoveAt(hash, k)[j] = IF j < k THEN hash[j] ELSE hash[j + 1]
    BY <1>1, RemoveAtProperties
  <2>2. QED
    BY <1>2, <2>1
<1>4. Len(hash) \in Nat
  OBVIOUS
<1>5. \A i, j \in 1..Len(hash') : hash'[i] = hash'[j] => i = j
  BY <1>1, <1>3, <1>4
<1>6. ASSUME NEW u \in Targets PROVE InHash(u)' <=> InHash(u) /\ u # t
  <2>1. ASSUME InHash(u)' PROVE InHash(u) /\ u # t
    BY <1>1, <1>3, <1>4, <2>1 DEF InHash
  <2>2. ASSUME InHash(u), u # t PROVE InHash(u)'
    <3>1. PICK i \in 1..Len(hash) : hash[i] = u
      BY <2>2 DEF InHash
    <3>2. CASE i < k
      BY <1>1, <1>3, <1>4, <3>1, <3>2 DEF InHash
    <3>3. CASE i > k
      <4>1. i - 1 \in 1..Len(hash') /\ hash'[i - 1] = u
        BY <1>1, <1>3, <1>4, <3>1, <3>3
      <4>2. QED
        BY <4>1 DEF InHash
    <3>4. QED
      BY <1>1, <2>2, <3>1, <3>2, <3>3
  <2>3. QED
    BY <2>1, <2>2
<1>7. QED
  BY <1>3, <1>5, <1>6

\* Removing a timer from a target's array leaves the other arrays alone: the removed
\* timer is scheduled no more, the others still are, none twice.
LEMMA RemovedTimer ==
  ASSUME timers \in [Targets -> Seq(Timers)], NEW t \in Targets, NEW i \in 1..Len(timers[t]),
         \A u, v \in Targets : \A j \in 1..Len(timers[u]), k \in 1..Len(timers[v]) :
           timers[u][j] = timers[v][k] => u = v /\ j = k,
         timers' = [timers EXCEPT ![t] = RemoveAt(@, i)]
  PROVE  /\ timers' \in [Targets -> Seq(Timers)]
         /\ Len(timers'[t]) = Len(timers[t]) - 1
         /\ \A u \in Targets \ {t} : timers'[u] = timers[u]
         /\ \A j \in 1..(Len(timers[t]) - 1) :
              timers'[t][j] = IF j < i THEN timers[t][j] ELSE timers[t][j + 1]
         /\ \A u, v \in Targets : \A j \in 1..Len(timers'[u]), k \in 1..Len(timers'[v]) :
              timers'[u][j] = timers'[v][k] => u = v /\ j = k
         /\ Scheduled' = Scheduled \ {timers[t][i]}
<1>1. timers[t] \in Seq(Timers) /\ Len(timers[t]) \in Nat
  OBVIOUS
<1>2. /\ timers'[t] \in Seq(Timers)
      /\ Len(timers'[t]) = Len(timers[t]) - 1
      /\ \A j \in 1..(Len(timers[t]) - 1) :
           timers'[t][j] = IF j < i THEN timers[t][j] ELSE timers[t][j + 1]
  BY <1>1, RemoveAtProperties
<1>3. \A u \in Targets \ {t} : timers'[u] = timers[u]
  OBVIOUS
<1>4. timers' \in [Targets -> Seq(Timers)]
  BY <1>2
<1>5. ASSUME NEW u \in Targets, NEW j \in 1..Len(timers'[u])
      PROVE  \E l \in 1..Len(timers[u]) :
               /\ timers'[u][j] = timers[u][l]
               /\ u = t => l = IF j < i THEN j ELSE j + 1
               /\ u # t => l = j
  BY <1>1, <1>2, <1>3
<1>6. \A u, v \in Targets : \A j \in 1..Len(timers'[u]), k \in 1..Len(timers'[v]) :
         timers'[u][j] = timers'[v][k] => u = v /\ j = k
  <2> SUFFICES ASSUME NEW u \in Targets, NEW v \in Targets,
                      NEW j \in 1..Len(timers'[u]), NEW k \in 1..Len(timers'[v]),
                      timers'[u][j] = timers'[v][k]
               PROVE  u = v /\ j = k
    OBVIOUS
  <2>1. PICK l \in 1..Len(timers[u]) : /\ timers'[u][j] = timers[u][l]
                                       /\ u = t => l = IF j < i THEN j ELSE j + 1
                                       /\ u # t => l = j
    BY <1>5
  <2>2. PICK m \in 1..Len(timers[v]) : /\ timers'[v][k] = timers[v][m]
                                       /\ v = t => m = IF k < i THEN k ELSE k + 1
                                       /\ v # t => m = k
    BY <1>5
  <2>3. u = v /\ l = m
    BY <2>1, <2>2
  <2>4. j \in Nat /\ k \in Nat
    BY <1>4
  <2>5. QED
    BY <2>1, <2>2, <2>3, <2>4
<1>7. ASSUME NEW x PROVE x \in Scheduled' <=> x \in Scheduled /\ x # timers[t][i]
  <2>1. ASSUME x \in Scheduled' PROVE x \in Scheduled /\ x # timers[t][i]
    <3>0. PICK u \in Targets : \E j \in 1..Len(timers'[u]) : timers'[u][j] = x
      BY <2>1 DEF Scheduled, TimersOf
    <3>1. PICK j \in 1..Len(timers'[u]) : timers'[u][j] = x
      BY <3>0
    <3>2. PICK l \in 1..Len(timers[u]) : /\ timers'[u][j] = timers[u][l]
                                         /\ u = t => l = IF j < i THEN j ELSE j + 1
      BY <1>5
    <3>3. ~(u = t /\ l = i)
      BY <1>1, <1>2, <3>2
    <3>4. x # timers[t][i]
      BY <3>1, <3>2, <3>3
    <3>5. QED
      BY <3>1, <3>2, <3>4 DEF Scheduled, TimersOf
  <2>2. ASSUME x \in Scheduled, x # timers[t][i] PROVE x \in Scheduled'
    <3>0. PICK u \in Targets : \E l \in 1..Len(timers[u]) : timers[u][l] = x
      BY <2>2 DEF Scheduled, TimersOf
    <3>1. PICK l \in 1..Len(timers[u]) : timers[u][l] = x
      BY <3>0
    <3>2. \E j \in 1..Len(timers'[u]) : timers'[u][j] = x
      <4>1. CASE u # t
        BY <1>3, <3>1, <4>1
      <4>2. CASE u = t /\ l < i
        BY <1>1, <1>2, <3>1, <4>2
      <4>3. CASE u = t /\ l > i
        <5>1. l - 1 \in 1..Len(timers'[u]) /\ timers'[u][l - 1] = x
          BY <1>1, <1>2, <3>1, <4>3
        <5>2. QED
          BY <5>1
      <4>4. QED
        BY <1>1, <2>2, <3>1, <4>1, <4>2, <4>3
    <3>3. QED
      BY <3>2 DEF Scheduled, TimersOf
  <2>3. QED
    BY <2>1, <2>2
<1>8. QED
  BY <1>2, <1>3, <1>4, <1>6, <1>7

\* The part of the invariant that is about elements and their timers.
ElementInv == ElementTypes /\ NothingTwice /\ References /\ Elements /\ RunningTimer

\* A freed cell is a timer object.
LEMMA BlankIsTimerObject == Blank \in TimerObject
BY UIntAssumption DEF Blank, TimerObject

\* unschedule() of one timer preserves the part of the invariant that is about
\* elements, whether the timer is the running one, one before it or one behind it.
LEMMA RemoveTimerAtStep ==
  ASSUME TypeOK, NothingTwice, References, Elements, RunningTimer,
         NEW t \in Targets, NEW i \in 1..Len(timers[t]),
         NEW h \in [Timers -> TimerObject],
         RemoveTimerAt(t, i, h), UNCHANGED <<currentTarget, currentTimer>>
  PROVE  /\ ElementTypes' /\ NothingTwice' /\ References' /\ Elements' /\ RunningTimer'
         /\ currentTimer \in Timers => heap'[currentTimer] = h[currentTimer]
         /\ Scheduled' = Scheduled \ {timers[t][i]}
<1> DEFINE x == timers[t][i]
           salvage == x = currentTimer /\ ~timerSalvaged
<1> USE DEF TypeOK, ElementTypes
<1>1. x \in Timers /\ x \in Scheduled /\ refs[x] = 1
  <2>1. x \in Timers
    OBVIOUS
  <2>2. x \in Scheduled
    BY ScheduledMember
  <2>3. QED
    BY <2>1, <2>2 DEF References
<1>2. Salvages({x}) = salvage
  BY DEF Salvages
<1>3. timerSalvaged => x # currentTimer
  BY <1>1 DEF References
<1>4. /\ timers' = [timers EXCEPT ![t] = RemoveAt(@, i)]
      /\ refs' = IF salvage THEN refs ELSE [refs EXCEPT ![x] = @ - 1]
      /\ heap' = IF salvage \/ refs[x] > 1 THEN h ELSE [h EXCEPT ![x] = Blank]
      /\ timerSalvaged' = (timerSalvaged \/ salvage)
      /\ timerIndex' = IndexAfterRemoval(t, i)
      /\ targetSalvaged' = (targetSalvaged \/ (Len(timers[t]) = 1 /\ t = currentTarget))
      /\ IF Len(timers[t]) = 1 /\ t # currentTarget
         THEN hash' = HashWithout(t) /\ paused' = [paused EXCEPT ![t] = FALSE]
         ELSE UNCHANGED <<hash, paused>>
      /\ due' = due \ {x}
      /\ currentTarget' = currentTarget
      /\ currentTimer' = currentTimer
  BY <1>2 DEF RemoveTimerAt, RemoveHashElement
<1> HIDE DEF x
<1>5. /\ timers' \in [Targets -> Seq(Timers)]
      /\ Len(timers'[t]) = Len(timers[t]) - 1
      /\ \A u \in Targets \ {t} : timers'[u] = timers[u]
      /\ \A j \in 1..(Len(timers[t]) - 1) :
           timers'[t][j] = IF j < i THEN timers[t][j] ELSE timers[t][j + 1]
      /\ \A u, v \in Targets : \A j \in 1..Len(timers'[u]), k \in 1..Len(timers'[v]) :
           timers'[u][j] = timers'[v][k] => u = v /\ j = k
      /\ Scheduled' = Scheduled \ {x}
  <2>1. timers' = [timers EXCEPT ![t] = RemoveAt(@, i)]
    BY <1>4
  <2>2. \A u, v \in Targets : \A j \in 1..Len(timers[u]), k \in 1..Len(timers[v]) :
          timers[u][j] = timers[v][k] => u = v /\ j = k
    BY DEF NothingTwice
  <2>3. QED
    BY <2>1, <2>2, RemovedTimer DEF x
<1>6. timers[t] # << >> /\ timers[t] \in Seq(Timers) /\ Len(timers[t]) \in Nat /\ i \in Nat
  OBVIOUS
<1>7. /\ hash' \in Seq(Targets)
      /\ \A j, k \in 1..Len(hash') : hash'[j] = hash'[k] => j = k
      /\ Elements'
  <2>1. CASE Len(timers[t]) = 1 /\ t # currentTarget
    <3>1. InHash(t) /\ hash' = HashWithout(t)
      BY <1>4, <1>6, <2>1 DEF Elements
    <3>2. \A j, k \in 1..Len(hash) : hash[j] = hash[k] => j = k
      BY DEF NothingTwice
    <3>3. /\ hash' \in Seq(Targets)
          /\ \A j, k \in 1..Len(hash') : hash'[j] = hash'[k] => j = k
          /\ \A u \in Targets : InHash(u)' <=> InHash(u) /\ u # t
      BY <3>1, <3>2, HashWithoutProperties
    <3>4. timers'[t] = << >>
      BY <1>5, <1>6, <2>1, EmptySeq
    <3>5. Elements'
      BY <1>4, <1>5, <2>1, <3>3, <3>4 DEF Elements
    <3>6. QED
      BY <3>3, <3>5
  <2>2. CASE ~(Len(timers[t]) = 1 /\ t # currentTarget)
    <3>1. hash' = hash
      BY <1>4, <2>2
    <3>2. \A u \in Targets : InHash(u)' <=> InHash(u)
      BY <3>1 DEF InHash
    <3>3. t # currentTarget => timers'[t] # << >>
      BY <1>5, <1>6, <2>2
    <3>4. Elements'
      BY <1>4, <1>5, <1>6, <3>2, <3>3 DEF Elements
    <3>5. QED
      BY <3>1, <3>4 DEF NothingTwice
  <2>3. QED
    BY <2>1, <2>2
<1>8. NothingTwice'
  BY <1>5, <1>7 DEF NothingTwice
<1>9. refs' = [y \in Timers |-> IF y = x /\ ~salvage THEN 0 ELSE refs[y]]
  <2>1. refs' = IF salvage THEN refs ELSE [refs EXCEPT ![x] = @ - 1]
    BY <1>4
  <2>2. CASE salvage
    BY <1>1, <2>1, <2>2
  <2>3. CASE ~salvage
    <3>1. refs' = [refs EXCEPT ![x] = 0]
      BY <1>1, <2>1, <2>3
    <3>2. QED
      BY <1>1, <2>3, <3>1
  <2>4. QED
    BY <2>2, <2>3
<1>10. References'
  <2>1. /\ Scheduled' = Scheduled \ {x}
        /\ timerSalvaged' = (timerSalvaged \/ salvage)
        /\ currentTimer' = currentTimer
    BY <1>4, <1>5
  <2>2. timerSalvaged' => currentTimer' \in Timers \ Scheduled'
    BY <1>1, <2>1 DEF References
  <2>3. \A y \in Timers :
          refs'[y] = IF y \in Scheduled' \/ (timerSalvaged' /\ y = currentTimer') THEN 1 ELSE 0
    BY <1>1, <1>3, <1>9, <2>1 DEF References
  <2>4. QED
    BY <2>2, <2>3 DEF References
<1>11. heap' \in [Timers -> TimerObject]
  BY <1>4, BlankIsTimerObject
<1>12. ElementTypes'
  <2>1. refs' \in [Timers -> 0..1]
    BY <1>9
  <2>2. timerIndex' \in Int /\ timerIndex' >= -1
    BY <1>4, <1>6 DEF IndexAfterRemoval
  <2>3. paused' \in [Targets -> BOOLEAN]
    BY <1>4
  <2>4. targetSalvaged' \in BOOLEAN /\ timerSalvaged' \in BOOLEAN
    BY <1>4
  <2>5. due' \in SUBSET Timers
    BY <1>4
  <2>6. QED
    BY <1>5, <1>7, <1>11, <2>1, <2>2, <2>3, <2>4, <2>5
<1>13. currentTimer \in Timers => heap'[currentTimer] = h[currentTimer]
  BY <1>2, <1>3, <1>4
<1>14. RunningTimer'
  <2> SUFFICES ASSUME currentTimer \in Timers
               PROVE  /\ timers'[currentTarget] = << >> => targetSalvaged'
                      /\ ~timerSalvaged' =>
                           /\ timerIndex' \in 0..(Len(timers'[currentTarget]) - 1)
                           /\ timers'[currentTarget][timerIndex' + 1] = currentTimer
    BY <1>4 DEF RunningTimer
  <2>1. ASSUME timers'[currentTarget] = << >> PROVE targetSalvaged'
    <3>1. CASE t = currentTarget
      <4>1. Len(timers[t]) = 1
        BY <1>5, <1>6, <2>1, <3>1, EmptySeq
      <4>2. QED
        BY <1>4, <3>1, <4>1
    <3>2. CASE t # currentTarget
      BY <1>4, <1>5, <2>1, <3>2 DEF RunningTimer
    <3>3. QED
      BY <3>1, <3>2
  <2>2. ASSUME ~timerSalvaged'
        PROVE  /\ timerIndex' \in 0..(Len(timers'[currentTarget]) - 1)
               /\ timers'[currentTarget][timerIndex' + 1] = currentTimer
    <3>1. ~timerSalvaged /\ x # currentTimer
      BY <1>2, <1>4, <2>2
    <3>2. /\ timerIndex \in 0..(Len(timers[currentTarget]) - 1)
          /\ timers[currentTarget][timerIndex + 1] = currentTimer
          /\ currentTarget \in Targets
      BY <3>1 DEF RunningTimer
    <3>3. CASE t # currentTarget
      BY <1>4, <1>5, <3>2, <3>3 DEF IndexAfterRemoval
    <3>4. CASE t = currentTarget /\ timerIndex >= i - 1
      <4>1. timerIndex # i - 1
        BY <1>6, <3>1, <3>2, <3>4 DEF x
      <4>2. timerIndex' = timerIndex - 1
        BY <1>4, <3>4 DEF IndexAfterRemoval
      <4>3. QED
        BY <1>5, <1>6, <3>2, <3>4, <4>1, <4>2
    <3>5. CASE t = currentTarget /\ ~(timerIndex >= i - 1)
      <4>1. timerIndex' = timerIndex
        BY <1>4, <3>5 DEF IndexAfterRemoval
      <4>2. timerIndex + 1 \in 1..(Len(timers[t]) - 1) /\ timerIndex + 1 < i
        BY <1>6, <3>2, <3>5
      <4>3. timers'[t][timerIndex + 1] = timers[t][timerIndex + 1]
        BY <1>5, <4>2
      <4>4. QED
        BY <1>5, <1>6, <3>2, <3>5, <4>1, <4>2, <4>3
    <3>6. QED
      BY <3>3, <3>4, <3>5
  <2>3. QED
    BY <2>1, <2>2
<1>15. QED
  BY <1>5, <1>7, <1>8, <1>10, <1>12, <1>13, <1>14 DEF x

\* So does unschedule() of a key, present or not.
LEMMA DoUnscheduleStep ==
  ASSUME TypeOK, ElementInv, NEW t \in Targets, NEW k, NEW h \in [Timers -> TimerObject],
         DoUnschedule(t, k, h), UNCHANGED <<currentTarget, currentTimer>>
  PROVE  /\ ElementInv'
         /\ currentTimer \in Timers => heap'[currentTimer] = h[currentTimer]
<1>1. CASE IndexOfKey(t, k) = {}
  <2>1. heap' = h /\ UNCHANGED <<elementVars, currentTarget, currentTimer>>
    BY <1>1 DEF DoUnschedule
  <2>2. ElementTypes' /\ NothingTwice' /\ RunningTimer'
    BY <2>1 DEF ElementInv, ElementTypes, NothingTwice, RunningTimer, elementVars
  <2>3. References'
    BY <2>1 DEF ElementInv, References, elementVars, Scheduled, TimersOf
  <2>4. Elements'
    BY <2>1 DEF ElementInv, Elements, elementVars, InHash
  <2>5. QED
    BY <2>1, <2>2, <2>3, <2>4 DEF ElementInv
<1>2. CASE IndexOfKey(t, k) # {}
  <2>1. PICK i \in 1..Len(timers[t]) : RemoveTimerAt(t, i, h)
    BY <1>2 DEF DoUnschedule, IndexOfKey
  <2>2. QED
    BY <2>1, RemoveTimerAtStep DEF ElementInv
<1>3. QED
  BY <1>1, <1>2

\* So does the removal of every timer of a set of targets: unscheduleAllForTarget
\* and unscheduleAll.
LEMMA DoUnscheduleAllStep ==
  ASSUME TypeOK, ElementInv, NEW S \in SUBSET Targets,
         DoUnscheduleAll(S), UNCHANGED <<currentTarget, currentTimer>>,
         hash' \in Seq(Targets), paused' \in [Targets -> BOOLEAN],
         \A i, j \in 1..Len(hash') : hash'[i] = hash'[j] => i = j,
         \A u \in Targets : InHash(u)' <=> InHash(u) /\ (u \notin S \/ u = currentTarget)
  PROVE  /\ ElementInv'
         /\ currentTimer \in Timers => heap'[currentTimer] = heap[currentTimer]
<1> DEFINE gone    == UNION {TimersOf(t) : t \in S}
           salvage == currentTimer \in gone /\ ~timerSalvaged
           freed   == {x \in gone : refs[x] = 1 /\ ~(salvage /\ x = currentTimer)}
<1> USE DEF TypeOK, ElementInv, ElementTypes
<1>1. Salvages(gone) = salvage
  BY DEF Salvages
<1>2. /\ timers' = [t \in Targets |-> IF t \in S THEN << >> ELSE timers[t]]
      /\ refs' = [x \in Timers |-> IF x \in gone /\ ~(salvage /\ x = currentTimer)
                                   THEN refs[x] - 1 ELSE refs[x]]
      /\ heap' = [x \in Timers |-> IF x \in freed THEN Blank ELSE heap[x]]
      /\ timerSalvaged' = (timerSalvaged \/ salvage)
      /\ targetSalvaged' = (targetSalvaged \/ currentTarget \in S)
      /\ due' = due \ gone
      /\ timerIndex' = timerIndex
      /\ currentTarget' = currentTarget
      /\ currentTimer' = currentTimer
  BY <1>1 DEF DoUnscheduleAll
<1>3. \A x : x \in gone <=> \E t \in S : \E i \in 1..Len(timers[t]) : timers[t][i] = x
  BY DEF TimersOf
<1>4. /\ gone \subseteq Scheduled
      /\ gone \subseteq Timers
      /\ \A x \in gone : refs[x] = 1
  <2> SUFFICES ASSUME NEW x \in gone PROVE x \in Scheduled /\ x \in Timers /\ refs[x] = 1
    OBVIOUS
  <2>1. PICK t \in S : \E i \in 1..Len(timers[t]) : timers[t][i] = x
    BY <1>3
  <2>2. x \in Scheduled
    BY <2>1, ScheduledMember
  <2>3. x \in Timers
    BY <2>1
  <2>4. QED
    BY <2>2, <2>3 DEF References
<1>5. timerSalvaged => currentTimer \notin gone
  BY <1>4 DEF References
<1>6. salvage <=> currentTimer \in gone
  BY <1>5
<1> HIDE DEF gone, salvage, freed
<1>7. timers' \in [Targets -> Seq(Timers)]
  BY <1>2, EmptySeq
<1>8. ASSUME NEW x PROVE x \in Scheduled' <=> x \in Scheduled /\ x \notin gone
  <2>1. ASSUME x \in Scheduled' PROVE x \in Scheduled /\ x \notin gone
    <3>1. PICK t \in Targets : \E i \in 1..Len(timers'[t]) : timers'[t][i] = x
      BY <2>1 DEF Scheduled, TimersOf
    <3>2. t \notin S
      BY <1>2, <3>1, EmptySeq
    <3>3. PICK i \in 1..Len(timers[t]) : timers[t][i] = x
      BY <1>2, <3>1, <3>2
    <3>4. ASSUME x \in gone PROVE FALSE
      <4>1. PICK u \in S : \E j \in 1..Len(timers[u]) : timers[u][j] = x
        BY <1>3, <3>4
      <4>2. u = t
        BY <3>3, <4>1 DEF NothingTwice
      <4>3. QED
        BY <3>2, <4>2
    <3>5. QED
      BY <3>3, <3>4, ScheduledMember
  <2>2. ASSUME x \in Scheduled, x \notin gone PROVE x \in Scheduled'
    <3>1. PICK t \in Targets : \E i \in 1..Len(timers[t]) : timers[t][i] = x
      BY <2>2, ScheduledMember
    <3>2. t \notin S
      BY <1>3, <2>2, <3>1
    <3>3. \E i \in 1..Len(timers'[t]) : timers'[t][i] = x
      BY <1>2, <3>1, <3>2
    <3>4. QED
      BY <3>3 DEF Scheduled, TimersOf
  <2>3. QED
    BY <2>1, <2>2
<1>9. NothingTwice'
  <2> SUFFICES ASSUME NEW t \in Targets, NEW u \in Targets,
                      NEW i \in 1..Len(timers'[t]), NEW j \in 1..Len(timers'[u]),
                      timers'[t][i] = timers'[u][j]
               PROVE  t = u /\ i = j
    BY DEF NothingTwice
  <2>1. t \notin S /\ u \notin S
    BY <1>2, EmptySeq
  <2>2. QED
    BY <1>2, <2>1 DEF NothingTwice
<1>10. refs' = [x \in Timers |-> IF x \in gone /\ ~(salvage /\ x = currentTimer) THEN 0
                                 ELSE refs[x]]
  BY <1>2, <1>4
<1>11. References'
  <2>1. timerSalvaged' => currentTimer' \in Timers \ Scheduled'
    BY <1>2, <1>4, <1>6, <1>8 DEF References
  <2>2. ASSUME NEW x \in Timers
        PROVE  refs'[x] = IF x \in Scheduled' \/ (timerSalvaged' /\ x = currentTimer')
                          THEN 1 ELSE 0
    <3>1. CASE x \in gone
      BY <1>2, <1>4, <1>5, <1>6, <1>8, <1>10, <3>1
    <3>2. CASE x \notin gone
      BY <1>2, <1>6, <1>8, <1>10, <3>2 DEF References
    <3>3. QED
      BY <3>1, <3>2
  <2>3. QED
    BY <2>1, <2>2 DEF References
<1>12. Elements'
  <2>1. \A t \in Targets : timers'[t] # << >> <=> t \notin S /\ timers[t] # << >>
    BY <1>2
  <2>2. QED
    BY <1>2, <2>1 DEF Elements
<1>13. RunningTimer'
  <2> SUFFICES ASSUME currentTimer \in Timers
               PROVE  /\ timers'[currentTarget] = << >> => targetSalvaged'
                      /\ ~timerSalvaged' =>
                           /\ timerIndex' \in 0..(Len(timers'[currentTarget]) - 1)
                           /\ timers'[currentTarget][timerIndex' + 1] = currentTimer
    BY <1>2 DEF RunningTimer
  <2>1. timers'[currentTarget] = << >> => targetSalvaged'
    BY <1>2 DEF RunningTimer
  <2>2. ASSUME ~timerSalvaged'
        PROVE  /\ timerIndex' \in 0..(Len(timers'[currentTarget]) - 1)
               /\ timers'[currentTarget][timerIndex' + 1] = currentTimer
    <3>1. ~timerSalvaged /\ currentTimer \notin gone
      BY <1>2, <1>6, <2>2
    <3>2. /\ timerIndex \in 0..(Len(timers[currentTarget]) - 1)
          /\ timers[currentTarget][timerIndex + 1] = currentTimer
          /\ currentTarget \in Targets
      BY <3>1 DEF RunningTimer
    <3>3. timerIndex + 1 \in 1..Len(timers[currentTarget])
      BY <3>2
    <3>4. currentTarget \notin S
      BY <1>3, <3>1, <3>2, <3>3
    <3>5. QED
      BY <1>2, <3>2, <3>4
  <2>3. QED
    BY <2>1, <2>2
<1>14. heap' \in [Timers -> TimerObject]
  BY <1>2, BlankIsTimerObject
<1>15. ElementTypes'
  <2>1. refs' \in [Timers -> 0..1]
    BY <1>10
  <2>2. targetSalvaged' \in BOOLEAN /\ timerSalvaged' \in BOOLEAN /\ due' \in SUBSET Timers
    BY <1>2
  <2>3. timerIndex' \in Int /\ timerIndex' >= -1
    BY <1>2
  <2>4. QED
    BY <1>7, <1>14, <2>1, <2>2, <2>3
<1>16. currentTimer \in Timers => heap'[currentTimer] = heap[currentTimer]
  BY <1>2, <1>6 DEF freed
<1>17. QED
  BY <1>9, <1>11, <1>12, <1>13, <1>15, <1>16

\* No operation changes the loop's own variables, and what they say stays true.
LEMMA OperationLocals ==
  ASSUME SchedulerInv, Call, ElementInv',
         currentTimer \in Timers => heap'[currentTimer].elapsed = heap[currentTimer].elapsed
  PROVE  SchedulerInv'
<1>1. /\ pc \in {"idle", "callback"} /\ calls' \in 0..MaxCalls
      /\ currentTarget' = currentTarget /\ currentTimer' = currentTimer
      /\ pc' = pc /\ dt' = dt /\ interval' = interval
  BY CallsAssumption DEF SchedulerInv, TypeOK, Call, loopVars
<1>2. TypeOK'
  BY <1>1 DEF SchedulerInv, TypeOK, ElementInv
<1>3. StepLocals'
  <2>1. Callbacks' <=> Callbacks
    BY <1>1 DEF Callbacks
  <2>2. pc' = "callback" => heap'[currentTimer'].elapsed >= interval'
    BY <1>1 DEF SchedulerInv, StepLocals, Callbacks, TypeOK
  <2>3. QED
    BY <1>1, <2>1, <2>2 DEF SchedulerInv, StepLocals
<1>4. QED
  BY <1>2, <1>3 DEF SchedulerInv, ElementInv

\* schedule() of a new key, with the element that is there or a new one.
LEMMA ScheduleNewStep ==
  ASSUME SchedulerInv, NEW t \in Targets, NEW k \in Keys, NEW p \in Plans, NEW b \in BOOLEAN,
         ScheduleNew(t, k, p, b)
  PROVE  SchedulerInv'
<1> USE DEF SchedulerInv, TypeOK, ElementTypes
<1>1. PICK x \in Timers :
        /\ refs[x] = 0
        /\ heap' = [heap EXCEPT ![x] = NewTimer(k, p)]
        /\ refs' = [refs EXCEPT ![x] = 1]
        /\ timers' = [timers EXCEPT ![t] = Append(@, x)]
  BY DEF ScheduleNew
<1>2. /\ Call
      /\ IF InHash(t)
         THEN UNCHANGED <<hash, paused>>
         ELSE hash' = Append(hash, t) /\ paused' = [paused EXCEPT ![t] = b]
      /\ timerIndex' = timerIndex /\ timerSalvaged' = timerSalvaged
      /\ targetSalvaged' = targetSalvaged /\ due' = due
      /\ currentTarget' = currentTarget /\ currentTimer' = currentTimer
  BY DEF ScheduleNew, Call, loopVars
<1>3. /\ x \notin Scheduled
      /\ currentTimer \in Timers => x # currentTimer
  <2>1. x \notin Scheduled /\ ~(timerSalvaged /\ x = currentTimer)
    BY <1>1 DEF References
  <2>2. currentTimer \in Timers /\ ~timerSalvaged => currentTimer \in Scheduled
    BY ScheduledMember DEF RunningTimer
  <2>3. QED
    BY <2>1, <2>2
<1>4. NewTimer(k, p) \in TimerObject
  BY PlansAssumption, UIntAssumption DEF NewTimer, TimerObject, Plan
<1>5. /\ timers[t] \in Seq(Timers) /\ Len(timers[t]) \in Nat
      /\ timers' \in [Targets -> Seq(Timers)]
      /\ Len(timers'[t]) = Len(timers[t]) + 1
      /\ timers'[t][Len(timers[t]) + 1] = x
      /\ \A i \in 1..Len(timers[t]) : timers'[t][i] = timers[t][i]
      /\ \A u \in Targets \ {t} : timers'[u] = timers[u]
  BY <1>1
<1>50. ASSUME NEW u \in Targets, NEW i \in 1..Len(timers'[u])
      PROVE  \/ i \in 1..Len(timers[u]) /\ timers'[u][i] = timers[u][i]
             \/ u = t /\ i = Len(timers[t]) + 1 /\ timers'[u][i] = x
  <2>1. CASE u = t
    <3>1. i \in 1..(Len(timers[t]) + 1)
      BY <1>5, <2>1
    <3>2. CASE i = Len(timers[t]) + 1
      BY <1>5, <2>1, <3>2
    <3>3. CASE i \in 1..Len(timers[t])
      BY <1>5, <2>1, <3>3
    <3>4. QED
      BY <1>5, <3>1, <3>2, <3>3
  <2>2. CASE u # t
    BY <1>5, <2>2
  <2>3. QED
    BY <2>1, <2>2
<1>51. ASSUME NEW u \in Targets, NEW i \in 1..Len(timers[u])
      PROVE  i \in 1..Len(timers'[u]) /\ timers'[u][i] = timers[u][i]
  <2>1. CASE u = t
    <3>1. i \in 1..Len(timers[t])
      BY <2>1
    <3>2. i \in 1..(Len(timers[t]) + 1)
      BY <1>5, <3>1
    <3>3. QED
      BY <1>5, <2>1, <3>1, <3>2
  <2>2. CASE u # t
    BY <1>5, <2>2
  <2>3. QED
    BY <2>1, <2>2
<1>6. ASSUME NEW y PROVE y \in Scheduled' <=> y \in Scheduled \/ y = x
  <2>1. ASSUME y \in Scheduled' PROVE y \in Scheduled \/ y = x
    <3>1. PICK u \in Targets : \E i \in 1..Len(timers'[u]) : timers'[u][i] = y
      BY <2>1 DEF Scheduled, TimersOf
    <3>2. PICK i \in 1..Len(timers'[u]) : timers'[u][i] = y
      BY <3>1
    <3>3. QED
      BY <1>50, <3>2, ScheduledMember
  <2>2. ASSUME y \in Scheduled PROVE y \in Scheduled'
    <3>1. PICK u \in Targets : \E i \in 1..Len(timers[u]) : timers[u][i] = y
      BY <2>2, ScheduledMember
    <3>2. \E i \in 1..Len(timers'[u]) : timers'[u][i] = y
      <4>1. PICK i \in 1..Len(timers[u]) : timers[u][i] = y
        BY <3>1
      <4>2. QED
        BY <1>51, <4>1
    <3>3. QED
      BY <3>2 DEF Scheduled, TimersOf
  <2>3. x \in Scheduled'
    <3>1. \E i \in 1..Len(timers'[t]) : timers'[t][i] = x
      <4>1. Len(timers[t]) + 1 \in 1..Len(timers'[t])
        BY <1>5
      <4>2. QED
        BY <1>5, <4>1
    <3>2. QED
      BY <3>1 DEF Scheduled, TimersOf
  <2>4. QED
    BY <2>1, <2>2, <2>3
<1>7. /\ hash' \in Seq(Targets)
      /\ \A i, j \in 1..Len(hash') : hash'[i] = hash'[j] => i = j
      /\ \A u \in Targets : InHash(u)' <=> InHash(u) \/ u = t
  <2>1. CASE InHash(t)
    BY <1>2, <2>1 DEF InHash, NothingTwice
  <2>2. CASE ~InHash(t)
    <3>1. hash' = Append(hash, t)
      BY <1>2, <2>2
    <3>2. /\ hash' \in Seq(Targets) /\ Len(hash) \in Nat
          /\ Len(hash') = Len(hash) + 1
          /\ hash'[Len(hash) + 1] = t
          /\ \A i \in 1..Len(hash) : hash'[i] = hash[i] /\ hash[i] # t
      BY <2>2, <3>1 DEF InHash
    <3>5. \A i \in 1..Len(hash') : i \in 1..Len(hash) \/ i = Len(hash) + 1
      BY <3>2
    <3>3. \A i, j \in 1..Len(hash') : hash'[i] = hash'[j] => i = j
      BY <3>2, <3>5 DEF NothingTwice
    <3>6. Len(hash) + 1 \in 1..Len(hash') /\ 1..Len(hash) \subseteq 1..Len(hash')
      BY <3>2
    <3>4. \A u \in Targets : InHash(u)' <=> InHash(u) \/ u = t
      BY <3>2, <3>5, <3>6 DEF InHash
    <3>7. QED
      BY <3>2, <3>3, <3>4
  <2>3. QED
    BY <2>1, <2>2
<1>8. NothingTwice'
  <2> SUFFICES ASSUME NEW u \in Targets, NEW v \in Targets,
                      NEW i \in 1..Len(timers'[u]), NEW j \in 1..Len(timers'[v]),
                      timers'[u][i] = timers'[v][j]
               PROVE  u = v /\ i = j
    BY <1>7 DEF NothingTwice
  <2>1. \A w \in Targets : \A l \in 1..Len(timers[w]) : timers[w][l] # x
    BY <1>3, ScheduledMember
  <2>2. CASE i \in 1..Len(timers[u]) /\ timers'[u][i] = timers[u][i]
    <3>1. j \in 1..Len(timers[v]) /\ timers'[v][j] = timers[v][j]
      BY <1>50, <2>1, <2>2
    <3>2. timers[u][i] = timers[v][j]
      BY <2>2, <3>1
    <3>3. QED
      BY ONLY NothingTwice, <2>2, <3>1, <3>2, u \in Targets, v \in Targets DEF NothingTwice
  <2>3. CASE u = t /\ i = Len(timers[t]) + 1 /\ timers'[u][i] = x
    <3>1. v = t /\ j = Len(timers[t]) + 1
      BY <1>50, <2>1, <2>3
    <3>2. QED
      BY <2>3, <3>1
  <2>4. QED
    BY <1>50, <2>2, <2>3
<1>9. References'
  <2>1. timerSalvaged' => currentTimer' \in Timers \ Scheduled'
    BY <1>2, <1>3, <1>6 DEF References
  <2>2. \A y \in Timers :
          refs'[y] = IF y \in Scheduled' \/ (timerSalvaged' /\ y = currentTimer') THEN 1 ELSE 0
    BY <1>1, <1>2, <1>6 DEF References
  <2>3. QED
    BY <2>1, <2>2 DEF References
<1>10. Elements'
  <2>1. timers'[t] # << >>
    BY <1>5
  <2>2. QED
    BY <1>2, <1>5, <1>7, <2>1 DEF Elements
<1>11. RunningTimer'
  BY <1>2, <1>5 DEF RunningTimer
<1>12. ElementTypes'
  <2>1. heap' \in [Timers -> TimerObject] /\ refs' \in [Timers -> 0..1]
    BY <1>1, <1>4
  <2>2. paused' \in [Targets -> BOOLEAN]
    BY <1>2
  <2>3. QED
    BY <1>2, <1>5, <1>7, <2>1, <2>2
<1>13. ElementInv'
  BY <1>8, <1>9, <1>10, <1>11, <1>12 DEF ElementInv
<1>14. currentTimer \in Timers => heap'[currentTimer] = heap[currentTimer]
  BY <1>1, <1>3
<1>15. QED
  BY <1>2, <1>13, <1>14, OperationLocals

\* Every operation preserves the invariant, between frames and inside a callback.
LEMMA OperationStep ==
  ASSUME SchedulerInv, Operation
  PROVE  SchedulerInv'
<1> USE DEF SchedulerInv, TypeOK
<1>1. ElementInv
  BY DEF ElementInv
<1>2. ASSUME NEW t \in Targets, NEW k \in Keys, NEW p \in Plans, Reschedule(t, k, p)
      PROVE  SchedulerInv'
  <2>1. PICK i \in 1..Len(timers[t]) :
          heap' = [heap EXCEPT ![timers[t][i]].interval = p.interval]
    BY <1>2 DEF Reschedule, IndexOfKey
  <2>2. p.interval \in Nat
    BY PlansAssumption DEF Plan
  <2>3. /\ heap' \in [Timers -> TimerObject]
        /\ \A x \in Timers : heap'[x].elapsed = heap[x].elapsed
    <3>1. heap \in [Timers -> TimerObject] /\ timers[t][i] \in Timers
      BY DEF ElementTypes
    <3>2. PICK x \in Timers : heap' = [heap EXCEPT ![x].interval = p.interval]
      BY <2>1, <3>1
    <3>3. heap[x] \in TimerObject
      BY <3>1
    <3>4. /\ [heap[x] EXCEPT !.interval = p.interval] \in TimerObject
          /\ [heap[x] EXCEPT !.interval = p.interval].elapsed = heap[x].elapsed
      BY ONLY <2>2, <3>3 DEF TimerObject
    <3>5. heap' = [heap EXCEPT ![x] = [heap[x] EXCEPT !.interval = p.interval]]
      BY ONLY <3>2
    <3>6. QED
      BY ONLY <3>1, <3>4, <3>5
  <2>4. UNCHANGED <<elementVars, currentTarget, currentTimer>>
    BY <1>2 DEF Reschedule, Call, loopVars
  <2>5. ElementTypes' /\ NothingTwice' /\ RunningTimer'
    BY <2>3, <2>4 DEF ElementTypes, NothingTwice, RunningTimer, elementVars
  <2>6. References'
    BY <2>4 DEF References, elementVars, Scheduled, TimersOf
  <2>7. Elements'
    BY <2>4 DEF Elements, elementVars, InHash
  <2>8. QED
    BY <1>2, <2>3, <2>5, <2>6, <2>7, OperationLocals DEF ElementInv, Reschedule
<1>3. ASSUME NEW t \in Targets, NEW k \in Keys, Unschedule(t, k)
      PROVE  SchedulerInv'
  <2>1. Call /\ DoUnschedule(t, k, heap) /\ UNCHANGED <<currentTarget, currentTimer>>
    BY <1>3 DEF Unschedule, Call, loopVars
  <2>2. heap \in [Timers -> TimerObject]
    BY DEF ElementTypes
  <2>3. QED
    BY <1>1, <2>1, <2>2, DoUnscheduleStep, OperationLocals
<1>4. ASSUME NEW t \in Targets, UnscheduleAllForTarget(t)
      PROVE  SchedulerInv'
  <2>1. /\ Call /\ InHash(t) /\ DoUnscheduleAll({t})
        /\ UNCHANGED <<currentTarget, currentTimer>>
        /\ IF t = currentTarget THEN UNCHANGED <<hash, paused>>
           ELSE hash' = HashWithout(t) /\ paused' = [paused EXCEPT ![t] = FALSE]
    BY <1>4 DEF UnscheduleAllForTarget, Call, loopVars, RemoveHashElement
  <2>2. /\ hash' \in Seq(Targets)
        /\ \A i, j \in 1..Len(hash') : hash'[i] = hash'[j] => i = j
        /\ \A u \in Targets : InHash(u)' <=> InHash(u) /\ (u \notin {t} \/ u = currentTarget)
    <3>1. hash \in Seq(Targets) /\ \A i, j \in 1..Len(hash) : hash[i] = hash[j] => i = j
      BY DEF ElementTypes, NothingTwice
    <3>2. CASE t = currentTarget
      BY <2>1, <3>1, <3>2 DEF InHash
    <3>3. CASE t # currentTarget
      <4>1. InHash(t) /\ hash' = HashWithout(t)
        BY <2>1, <3>3
      <4>2. QED
        BY <3>1, <3>3, <4>1, HashWithoutProperties
    <3>4. QED
      BY <3>2, <3>3
  <2>3. paused' \in [Targets -> BOOLEAN]
    BY <2>1 DEF ElementTypes
  <2>4. QED
    BY <1>1, <2>1, <2>2, <2>3, DoUnscheduleAllStep, OperationLocals
<1>5. ASSUME UnscheduleAll
      PROVE  SchedulerInv'
  <2> DEFINE S == {t \in Targets : InHash(t)}
  <2>1. /\ Call /\ DoUnscheduleAll(S)
        /\ UNCHANGED <<currentTarget, currentTimer>>
        /\ hash' = IF currentTarget = NoTarget THEN << >> ELSE <<currentTarget>>
        /\ paused' = [t \in Targets |-> t = currentTarget /\ paused[t]]
    BY <1>5 DEF UnscheduleAll, Call, loopVars
  <2>2. /\ hash' \in Seq(Targets)
        /\ \A i, j \in 1..Len(hash') : hash'[i] = hash'[j] => i = j
        /\ \A u \in Targets : InHash(u)' <=> InHash(u) /\ (u \notin S \/ u = currentTarget)
    <3>1. CASE currentTarget = NoTarget
      BY <2>1, <3>1, NullAssumption DEF InHash
    <3>2. CASE currentTarget \in Targets
      BY <2>1, <3>2, NullAssumption DEF InHash, Elements
    <3>3. QED
      BY <3>1, <3>2
  <2>3. paused' \in [Targets -> BOOLEAN]
    BY <2>1 DEF ElementTypes
  <2>4. S \in SUBSET Targets
    OBVIOUS
  <2> HIDE DEF S
  <2>5. QED
    BY <1>1, <2>1, <2>2, <2>3, <2>4, DoUnscheduleAllStep, OperationLocals
<1>6. ASSUME Call, UNCHANGED <<hash, timers, heap, refs, timerIndex, timerSalvaged, targetSalvaged, due>>,
             paused' \in [Targets -> BOOLEAN]
      PROVE  SchedulerInv'
  <2>1. UNCHANGED <<currentTarget, currentTimer>>
    BY <1>6 DEF Call, loopVars
  <2>2. ElementTypes' /\ NothingTwice' /\ RunningTimer'
    BY <1>6, <2>1 DEF ElementTypes, NothingTwice, RunningTimer
  <2>3. References'
    BY <1>6, <2>1 DEF References, Scheduled, TimersOf
  <2>4. Elements'
    BY <1>6, <2>1 DEF Elements, InHash
  <2>5. QED
    BY <1>6, <2>2, <2>3, <2>4, OperationLocals DEF ElementInv
<1>7. ASSUME NEW t \in Targets, PauseTarget(t) PROVE SchedulerInv'
  BY <1>6, <1>7 DEF PauseTarget, ElementTypes, InHash
<1>8. ASSUME PauseAllTargets PROVE SchedulerInv'
  BY <1>6, <1>8 DEF PauseAllTargets, InHash
<1>9. ASSUME NEW S \in SUBSET Targets, ResumeTargets(S) PROVE SchedulerInv'
  BY <1>6, <1>9 DEF ResumeTargets, ElementTypes
<1>10. QED
  BY <1>2, <1>3, <1>4, <1>5, <1>7, <1>8, <1>9, ScheduleNewStep DEF Operation

\* The beginning of update() preserves the invariant.
LEMMA StartFrameStep ==
  ASSUME SchedulerInv, NEW step \in FrameTimes, StartFrame(step)
  PROVE  SchedulerInv'
<1> USE DEF SchedulerInv, TypeOK, ElementTypes
<1>1. /\ pc = "idle" /\ currentTarget = NoTarget /\ currentTimer = NoTimer
      /\ ~timerSalvaged /\ currentTarget \notin Targets /\ currentTimer \notin Timers
  BY NullAssumption DEF StartFrame, StepLocals, Callbacks, References
<1>2. UNCHANGED <<hash, timers, paused, heap, refs, currentTimer, timerSalvaged, interval>>
  BY DEF StartFrame
<1>3. /\ dt' \in Nat
      /\ due' \in SUBSET Timers
  BY PlansAssumption DEF StartFrame, Scheduled, TimersOf
<1>4. NothingTwice' /\ References' /\ RunningTimer'
  BY <1>1, <1>2 DEF NothingTwice, References, RunningTimer, Scheduled, TimersOf
<1>5. \A u \in Targets : InHash(u)' <=> InHash(u)
  BY <1>2 DEF InHash
<1>6. CASE hash = << >>
  <2>1. /\ pc' = "idle" /\ currentTarget' = NoTarget /\ calls' = 0
        /\ timerIndex' = timerIndex /\ targetSalvaged' = targetSalvaged
    BY <1>6 DEF StartFrame, Enter
  <2>2. TypeOK'
    BY <1>2, <1>3, <2>1, CallsAssumption
  <2>3. Elements' /\ StepLocals'
    BY <1>1, <1>2, <1>5, <2>1, NullAssumption DEF Elements, StepLocals, Callbacks
  <2>4. QED
    BY <1>4, <2>2, <2>3
<1>7. CASE hash # << >>
  <2>1. /\ currentTarget' = hash[1] /\ targetSalvaged' = FALSE
        /\ pc' = IF paused[hash[1]] THEN "leave" ELSE "timers"
        /\ timerIndex' = 0 /\ calls' = calls
    BY <1>7 DEF StartFrame, Enter
  <2>2. hash[1] \in Targets /\ InHash(hash[1])
    BY <1>7 DEF InHash
  <2>3. timers[hash[1]] # << >>
    BY <1>1, <2>2 DEF Elements
  <2>4. TypeOK'
    <3>1. pc' \in {"leave", "timers"}
      BY <2>1
    <3>2. ElementTypes'
      <4>1. timerIndex' \in Int /\ timerIndex' >= -1
        BY <2>1
      <4>2. targetSalvaged' \in BOOLEAN
        BY <2>1
      <4>3. QED
        BY <1>2, <1>3, <4>1, <4>2
    <3>3. currentTarget' \in Targets
      BY <2>1, <2>2
    <3>4. /\ currentTimer' \in Timers \cup {NoTimer} /\ interval' \in Nat
          /\ calls' \in 0..MaxCalls
      BY <1>2, <2>1
    <3>5. QED
      BY <1>3, <3>1, <3>2, <3>3, <3>4
  <2>5. Elements'
    BY <1>1, <1>2, <1>5, <2>1, <2>2 DEF Elements
  <2>6. StepLocals'
    BY <1>1, <1>2, <2>1, <2>2, <2>3, NullAssumption DEF StepLocals, Callbacks
  <2>7. QED
    BY <1>4, <2>4, <2>5, <2>6
<1>8. QED
  BY <1>6, <1>7

\* Timer::update() up to its first trigger preserves the invariant.
LEMMA TickTimerStep ==
  ASSUME SchedulerInv, TickTimer
  PROVE  SchedulerInv'
<1> USE DEF SchedulerInv, TypeOK, ElementTypes
<1> DEFINE x == timers[currentTarget][timerIndex + 1]
           r == IF heap[x].elapsed = -1
                THEN [heap[x] EXCEPT !.elapsed = 0, !.times = 0]
                ELSE [heap[x] EXCEPT !.elapsed = @ + dt]
           local == IF r.useDelay THEN r.delay ELSE LocalInterval(r)
           fires == heap[x].elapsed # -1 /\ (IF r.useDelay THEN r.elapsed >= r.delay
                                             ELSE r.elapsed >= LocalInterval(r))
<1>1. /\ pc = "timers" /\ currentTimer = NoTimer /\ currentTimer \notin Timers
      /\ ~timerSalvaged /\ timerIndex \in Nat /\ currentTarget \in Targets
      /\ timerIndex < Len(timers[currentTarget])
  BY NullAssumption DEF TickTimer, StepLocals, Callbacks, References
<1>2. /\ currentTimer' = x /\ heap' = [heap EXCEPT ![x] = r] /\ due' = due \ {x}
      /\ IF fires THEN pc' = "callback" /\ interval' = local /\ calls' = 0
                  ELSE pc' = "done" /\ interval' = 0 /\ calls' = calls
      /\ timerSalvaged' = FALSE
      /\ UNCHANGED <<hash, timers, paused, refs, currentTarget, targetSalvaged, timerIndex, dt>>
  BY DEF TickTimer, Trigger, TimerDone
<1>3. timerIndex + 1 \in 1..Len(timers[currentTarget])
  BY <1>1
<1>4. x \in Timers
  BY <1>1, <1>3
<1> HIDE DEF x
<1>5. heap[x] \in TimerObject
  BY <1>4
<1>6. r \in TimerObject /\ (heap[x].elapsed # -1 => r.elapsed \in Nat)
  <2>1. CASE heap[x].elapsed = -1
    <3>1. r = [heap[x] EXCEPT !.elapsed = 0, !.times = 0]
      BY <2>1
    <3>2. 0 \in 0..UIntMax
      BY UIntAssumption
    <3>3. QED
      BY <1>5, <2>1, <3>1, <3>2 DEF TimerObject
  <2>2. CASE heap[x].elapsed # -1
    <3>1. heap[x].elapsed + dt \in Nat
      BY <1>5, <2>2 DEF TimerObject
    <3>2. r = [heap[x] EXCEPT !.elapsed = heap[x].elapsed + dt]
      BY <2>2
    <3>3. QED
      BY <1>5, <2>2, <3>1, <3>2 DEF TimerObject
  <2>3. QED
    BY <2>1, <2>2
<1> HIDE DEF r
<1>7. fires => local \in Nat /\ r.elapsed >= local
  BY <1>6 DEF LocalInterval, TimerObject
<1> HIDE DEF fires, local
<1>8. TypeOK'
  <2>1. heap' \in [Timers -> TimerObject]
    BY <1>2, <1>6
  <2>2. pc' \in {"callback", "done"} /\ interval' \in Nat /\ calls' \in 0..MaxCalls
    BY <1>2, <1>7, CallsAssumption
  <2>3. QED
    BY <1>2, <1>4, <2>1, <2>2
<1>9. NothingTwice' /\ References'
  BY <1>1, <1>2 DEF NothingTwice, References, Scheduled, TimersOf
<1>10. Elements'
  BY <1>2 DEF Elements, InHash
<1>11. RunningTimer'
  <2>1. timerIndex \in 0..(Len(timers[currentTarget]) - 1)
    BY <1>1
  <2>2. timers[currentTarget] # << >>
    BY <1>3, EmptySeq
  <2>3. QED
    BY <1>1, <1>2, <2>1, <2>2 DEF RunningTimer, x
<1>12. StepLocals'
  <2>1. pc' = "callback" => heap'[currentTimer'].elapsed >= interval'
    BY <1>2, <1>4, <1>7
  <2>2. pc' \in {"callback", "done"}
    BY <1>2
  <2>3. QED
    BY <1>1, <1>2, <1>4, <2>1, <2>2, NullAssumption DEF StepLocals, Callbacks
<1>13. QED
  BY <1>8, <1>9, <1>10, <1>11, <1>12

\* The rest of Timer::update(), with the cancellation of a spent timer, preserves it.
LEMMA CallbackReturnsStep ==
  ASSUME SchedulerInv, CallbackReturns
  PROVE  SchedulerInv'
<1> USE DEF SchedulerInv, TypeOK
<1> DEFINE r     == heap[currentTimer]
           next  == [r EXCEPT !.elapsed  = @ - interval,
                              !.times    = TimesAfter(r),
                              !.useDelay = FALSE]
           local == IF r.useDelay THEN LocalInterval(next) ELSE interval
           again == /\ next.elapsed >= local
                    /\ r.useDelay \/ (next.elapsed > 0 /\ ~targetSalvaged)
           h     == [heap EXCEPT ![currentTimer] = next]
<1>1. /\ pc = "callback" /\ currentTimer \in Timers /\ currentTarget \in Targets
      /\ r.elapsed >= interval
  BY DEF CallbackReturns, StepLocals, Callbacks
<1>2. r \in TimerObject
  BY <1>1 DEF ElementTypes
<1>3. TimesAfter(r) \in 0..UIntMax
  BY <1>2, UIntAssumption DEF TimesAfter, TimerObject
<1>4. next \in TimerObject /\ next.elapsed \in Nat
  <2>1. r.elapsed - interval \in Nat
    BY <1>1, <1>2 DEF TimerObject
  <2>2. QED
    BY <1>2, <1>3, <2>1 DEF TimerObject
<1>5. /\ \/ DoUnschedule(currentTarget, r.key, h) /\ pc' = "done" /\ interval' = 0 /\ calls' = calls
         \/ /\ IF again THEN pc' = "callback" /\ interval' = local /\ calls' = 0
                        ELSE pc' = "done" /\ interval' = 0 /\ calls' = calls
            /\ heap' = h
            /\ UNCHANGED elementVars
      /\ UNCHANGED <<currentTarget, currentTimer, dt>>
  BY DEF CallbackReturns, Trigger, TimerDone
<1> HIDE DEF r, next
<1>6. h \in [Timers -> TimerObject]
  BY <1>1, <1>4 DEF ElementTypes
<1>7. local \in Nat
  BY <1>4 DEF LocalInterval, TimerObject
<1> HIDE DEF local, again, h
<1>8. CASE DoUnschedule(currentTarget, r.key, h) /\ pc' = "done" /\ interval' = 0 /\ calls' = calls
  <2>1. ElementInv'
    BY <1>1, <1>5, <1>6, <1>8, DoUnscheduleStep DEF ElementInv
  <2>2. TypeOK'
    BY <1>5, <1>8, <2>1 DEF ElementInv
  <2>3. StepLocals'
    BY <1>1, <1>5, <1>8, NullAssumption DEF StepLocals, Callbacks
  <2>4. QED
    BY <2>1, <2>2, <2>3 DEF ElementInv
<1>9. CASE /\ IF again THEN pc' = "callback" /\ interval' = local /\ calls' = 0
                       ELSE pc' = "done" /\ interval' = 0 /\ calls' = calls
           /\ heap' = h
           /\ UNCHANGED elementVars
  <2>1. TypeOK'
    <3>1. ElementTypes'
      BY <1>6, <1>9 DEF ElementTypes, elementVars
    <3>2. pc' \in {"callback", "done"} /\ interval' \in Nat /\ calls' \in 0..MaxCalls
      BY <1>7, <1>9, CallsAssumption
    <3>3. QED
      BY <1>5, <3>1, <3>2
  <2>2. NothingTwice' /\ RunningTimer'
    BY <1>5, <1>9 DEF NothingTwice, RunningTimer, elementVars
  <2>3. References'
    BY <1>5, <1>9 DEF References, elementVars, Scheduled, TimersOf
  <2>4. Elements'
    BY <1>5, <1>9 DEF Elements, elementVars, InHash
  <2>5. pc' = "callback" => heap'[currentTimer'].elapsed >= interval'
    <3>1. h[currentTimer] = next
      BY <1>1 DEF h, ElementTypes
    <3>2. again => next.elapsed >= local
      BY DEF again
    <3>3. QED
      BY <1>5, <1>9, <3>1, <3>2
  <2>6. StepLocals'
    <3>1. pc' \in {"callback", "done"}
      BY <1>9
    <3>2. QED
      BY <1>1, <1>5, <2>5, <3>1, NullAssumption DEF StepLocals, Callbacks
  <2>7. QED
    BY <2>1, <2>2, <2>3, <2>4, <2>6
<1>10. QED
  BY <1>5, <1>8, <1>9

\* The release of a salvaged timer and ++timerIndex preserve it.
LEMMA FinishTimerStep ==
  ASSUME SchedulerInv, FinishTimer
  PROVE  SchedulerInv'
<1> USE DEF SchedulerInv, TypeOK, ElementTypes
<1>1. pc = "done" /\ currentTimer \in Timers /\ currentTarget \in Targets
  BY DEF FinishTimer, StepLocals, Callbacks
<1>2. /\ currentTimer' = NoTimer /\ timerSalvaged' = FALSE /\ timerIndex' = timerIndex + 1
      /\ pc' = "timers"
      /\ UNCHANGED <<hash, timers, paused, currentTarget, targetSalvaged, dt, interval, calls, due>>
  BY DEF FinishTimer
<1>3. /\ refs' = [x \in Timers |-> IF timerSalvaged /\ x = currentTimer THEN 0 ELSE refs[x]]
      /\ heap' \in [Timers -> TimerObject]
  <2>1. CASE timerSalvaged
    <3>1. refs[currentTimer] = 1
      BY <1>1, <2>1 DEF References
    <3>2. refs' = [refs EXCEPT ![currentTimer] = 0]
      BY <2>1, <3>1 DEF FinishTimer
    <3>3. heap' \in [Timers -> TimerObject]
      BY <2>1, BlankIsTimerObject DEF FinishTimer
    <3>4. QED
      BY <1>1, <2>1, <3>2, <3>3
  <2>2. CASE ~timerSalvaged
    BY <2>2 DEF FinishTimer
  <2>3. QED
    BY <2>1, <2>2
<1>4. TypeOK'
  <2>1. refs' \in [Timers -> 0..1]
    BY <1>3
  <2>2. timerIndex' \in Int /\ timerIndex' >= -1
    BY <1>2
  <2>3. QED
    BY <1>2, <1>3, <2>1, <2>2
<1>5. Scheduled' = Scheduled
  BY <1>2 DEF Scheduled, TimersOf
<1>6. References'
  BY <1>2, <1>3, <1>5 DEF References
<1>7. NothingTwice' /\ Elements' /\ RunningTimer'
  BY <1>2, NullAssumption DEF NothingTwice, Elements, RunningTimer, InHash
<1>8. StepLocals'
  BY <1>1, <1>2, NullAssumption DEF StepLocals, Callbacks, RunningTimer
<1>9. QED
  BY <1>4, <1>6, <1>7, <1>8

\* The step to the next element, and the removal of an emptied one, preserve it.
LEMMA LeaveElementStep ==
  ASSUME SchedulerInv, LeaveElement
  PROVE  SchedulerInv'
<1> USE DEF SchedulerInv, TypeOK, ElementTypes
<1> DEFINE here == CHOOSE i \in 1..Len(hash) : hash[i] = currentTarget
           next == here + 1
           remove == targetSalvaged /\ timers[currentTarget] = << >>
<1>1. /\ pc \in {"leave", "timers"} /\ currentTimer = NoTimer /\ currentTimer \notin Timers
      /\ ~timerSalvaged /\ currentTarget \in Targets /\ InHash(currentTarget)
      /\ timers[currentTarget] = << >> => remove
  BY NullAssumption DEF LeaveElement, StepLocals, Callbacks, References, Elements
<1>2. here \in 1..Len(hash) /\ hash[here] = currentTarget
  BY <1>1 DEF InHash
<1>3. /\ Enter(hash, next)
      /\ due' = due \ PausedTimers(hash, next)
      /\ IF remove THEN hash' = HashWithout(currentTarget)
                        /\ paused' = [paused EXCEPT ![currentTarget] = FALSE]
                   ELSE UNCHANGED <<hash, paused>>
      /\ UNCHANGED <<timers, heap, refs, currentTimer, timerSalvaged, dt, interval>>
  BY DEF LeaveElement, RemoveHashElement
<1> HIDE DEF here
<1>4. NothingTwice' /\ hash' \in Seq(Targets)
      /\ \A u \in Targets : InHash(u)' <=> InHash(u) /\ (u = currentTarget => ~remove)
  <2>1. \A i, j \in 1..Len(hash) : hash[i] = hash[j] => i = j
    BY DEF NothingTwice
  <2>2. CASE remove
    <3>1. hash' = HashWithout(currentTarget)
      BY <1>3, <2>2
    <3>2. /\ hash' \in Seq(Targets)
          /\ \A i, j \in 1..Len(hash') : hash'[i] = hash'[j] => i = j
          /\ \A u \in Targets : InHash(u)' <=> InHash(u) /\ u # currentTarget
      BY <1>1, <2>1, <3>1, HashWithoutProperties
    <3>3. QED
      BY <1>3, <2>2, <3>2 DEF NothingTwice
  <2>3. CASE ~remove
    BY <1>3, <2>3 DEF NothingTwice, InHash
  <2>4. QED
    BY <2>2, <2>3
<1>5. References' /\ RunningTimer'
  BY <1>1, <1>3 DEF References, RunningTimer, Scheduled, TimersOf
<1>6. \A u \in Targets : InHash(u)' <=> timers[u] # << >>
  BY <1>1, <1>4 DEF Elements
<1>7. paused' \in [Targets -> BOOLEAN] /\ due' \in SUBSET Timers
  BY <1>3
<1>8. CASE next > Len(hash)
  <2>1. /\ pc' = "idle" /\ currentTarget' = NoTarget /\ calls' = 0
        /\ timerIndex' = timerIndex /\ targetSalvaged' = targetSalvaged
    BY <1>3, <1>8 DEF Enter
  <2>2. TypeOK'
    BY <1>3, <1>4, <1>7, <2>1, CallsAssumption
  <2>3. Elements' /\ StepLocals'
    BY <1>1, <1>3, <1>6, <2>1, NullAssumption DEF Elements, StepLocals, Callbacks
  <2>4. QED
    BY <1>4, <1>5, <2>2, <2>3
<1>9. CASE ~(next > Len(hash))
  <2>1. /\ currentTarget' = hash[next] /\ targetSalvaged' = FALSE
        /\ pc' = IF paused[hash[next]] THEN "leave" ELSE "timers"
        /\ timerIndex' = 0 /\ calls' = calls
    BY <1>3, <1>9 DEF Enter
  <2>2. next \in 1..Len(hash) /\ next # here
    BY <1>2, <1>9
  <2>3. PICK u \in Targets : u = hash[next] /\ InHash(u) /\ u # currentTarget
    BY <1>2, <2>2 DEF InHash, NothingTwice
  <2>4. timers[u] # << >> /\ InHash(u)'
    BY <1>4, <1>6, <2>3
  <2>5. TypeOK'
    <3>1. pc' \in {"leave", "timers"}
      BY <2>1
    <3>2. ElementTypes'
      <4>1. timerIndex' \in Int /\ timerIndex' >= -1
        BY <2>1
      <4>2. targetSalvaged' \in BOOLEAN
        BY <2>1
      <4>3. QED
        BY <1>3, <1>4, <1>7, <4>1, <4>2
    <3>3. currentTarget' \in Targets
      BY <2>1, <2>3
    <3>4. /\ currentTimer' \in Timers \cup {NoTimer} /\ interval' \in Nat
          /\ dt' \in Nat /\ calls' \in 0..MaxCalls
      BY <1>3, <2>1
    <3>5. QED
      BY <3>1, <3>2, <3>3, <3>4
  <2>6. Elements'
    BY <1>3, <1>6, <2>1, <2>3, <2>4 DEF Elements, InHash
  <2>7. StepLocals'
    BY <1>1, <1>3, <2>1, <2>3, <2>4, NullAssumption DEF StepLocals, Callbacks
  <2>8. QED
    BY <1>4, <1>5, <2>5, <2>6, <2>7
<1>10. QED
  BY <1>8, <1>9
-----------------------------------------------------------------------------
(***************************************************************************)
(* The theorems.                                                           *)
(***************************************************************************)

\* The inductive invariant holds of every behaviour: for any number of targets, keys
\* and timer objects, and callbacks that call any operation of the scheduler.
THEOREM Invariance == Spec => []SchedulerInv
<1>1. Init => SchedulerInv
  <2> SUFFICES ASSUME Init PROVE SchedulerInv
    OBVIOUS
  <2>1. TypeOK
    <3>1. hash \in Seq(Targets) /\ timers \in [Targets -> Seq(Timers)]
      BY EmptySeq DEF Init
    <3>2. heap \in [Timers -> TimerObject]
      BY BlankIsTimerObject DEF Init
    <3>3. refs \in [Timers -> 0..1] /\ paused \in [Targets -> BOOLEAN]
      BY DEF Init
    <3>4. calls \in 0..MaxCalls
      BY CallsAssumption DEF Init
    <3>5. ElementTypes
      <4>1. timerIndex \in Int /\ timerIndex >= -1
        BY DEF Init
      <4>2. targetSalvaged \in BOOLEAN /\ timerSalvaged \in BOOLEAN /\ due \in SUBSET Timers
        BY DEF Init
      <4>3. QED
        BY <3>1, <3>2, <3>3, <4>1, <4>2 DEF ElementTypes
    <3>6. QED
      BY <3>4, <3>5 DEF Init, TypeOK
  <2>2. Scheduled = {}
    BY EmptySeq DEF Init, Scheduled, TimersOf
  <2>3. NothingTwice /\ References
    BY <2>2 DEF Init, NothingTwice, References
  <2>4. Elements /\ RunningTimer /\ StepLocals
    BY NullAssumption DEF Init, Elements, RunningTimer, StepLocals, Callbacks, InHash
  <2>5. QED
    BY <2>1, <2>3, <2>4 DEF SchedulerInv
<1>2. SchedulerInv /\ [Next]_vars => SchedulerInv'
  <2> SUFFICES ASSUME SchedulerInv, [Next]_vars PROVE SchedulerInv'
    OBVIOUS
  <2>1. CASE Operation
    BY <2>1, OperationStep
  <2>2. ASSUME NEW step \in FrameTimes, StartFrame(step) PROVE SchedulerInv'
    BY <2>2, StartFrameStep
  <2>3. CASE FrameStep
    BY <2>3, TickTimerStep, CallbackReturnsStep, FinishTimerStep, LeaveElementStep DEF FrameStep
  <2>4. CASE UNCHANGED vars
    <3>1. UNCHANGED <<elementVars, loopVars, heap, calls>>
      BY <2>4 DEF vars
    <3>2. TypeOK' /\ StepLocals'
      BY <3>1 DEF SchedulerInv, TypeOK, ElementTypes, StepLocals, Callbacks, elementVars, loopVars
    <3>3. NothingTwice' /\ RunningTimer'
      BY <3>1 DEF SchedulerInv, NothingTwice, RunningTimer, elementVars, loopVars
    <3>4. References'
      BY <3>1 DEF SchedulerInv, References, Scheduled, TimersOf, elementVars, loopVars
    <3>5. Elements'
      BY <3>1 DEF SchedulerInv, Elements, InHash, elementVars, loopVars
    <3>6. QED
      BY <3>2, <3>3, <3>4, <3>5 DEF SchedulerInv
  <2>5. QED
    BY <2>1, <2>2, <2>3, <2>4 DEF Next
<1>3. QED
  BY <1>1, <1>2, PTL DEF Spec

\* Every variable keeps its type; in particular no timer is referred to twice and
\* timerIndex is never below -1.
THEOREM TypeCorrect == Spec => []TypeOK
<1>1. SchedulerInv => TypeOK
  BY DEF SchedulerInv
<1>2. QED
  BY <1>1, Invariance, PTL

\* No callback can free the timer or the element that update() is using, and no timer
\* or element outlives its last reference.
THEOREM MemorySafety == Spec => []MemorySafe
<1>1. SchedulerInv => MemorySafe
  <2> SUFFICES ASSUME SchedulerInv PROVE MemorySafe
    OBVIOUS
  <2> USE DEF SchedulerInv, TypeOK, ElementTypes
  <2>1. \A x \in Timers :
          refs[x] > 0 <=> x \in Scheduled \/ (timerSalvaged /\ x = currentTimer)
    BY DEF References
  <2>2. ASSUME Callbacks PROVE currentTimer \in Timers /\ refs[currentTimer] > 0
    <3>1. currentTimer \in Timers
      BY <2>2 DEF StepLocals
    <3>2. CASE timerSalvaged
      BY <2>1, <3>1, <3>2
    <3>3. CASE ~timerSalvaged
      <4>1. currentTimer \in Scheduled
        BY <3>1, <3>3, ScheduledMember DEF RunningTimer
      <4>2. QED
        BY <2>1, <3>1, <4>1
    <3>4. QED
      BY <3>2, <3>3
  <2>3. pc # "idle" => InHash(currentTarget)
    BY DEF StepLocals, Elements
  <2>4. QED
    BY <2>1, <2>2, <2>3 DEF MemorySafe, Elements
<1>2. QED
  BY <1>1, Invariance, PTL

\* Whatever a callback removes, the loop index stays on the running timer, so that the
\* next iteration is about the timer behind it.
THEOREM IndexFollowsRemovals == Spec => []IndexAtCurrentTimer
<1>1. SchedulerInv => IndexAtCurrentTimer
  BY DEF SchedulerInv, TypeOK, RunningTimer, StepLocals, IndexAtCurrentTimer
<1>2. QED
  BY <1>1, Invariance, PTL

-----------------------------------------------------------------------------
(***************************************************************************)
(* A timer that has triggered often enough is gone.  It is cancelled by    *)
(* target and key, so that this needs that a target's timers have          *)
(* different keys: cancel() finds the running timer, or, when the running  *)
(* one is in no array, the one that now has its key.                       *)
(***************************************************************************)
\* A step in which arrays do not grow and no scheduled timer passes its count.
LEMMA SpentStill ==
  ASSUME SpentTimerIsGone,
         \A t \in Targets : TimersOf(t)' \subseteq TimersOf(t),
         \A x \in Scheduled' : /\ heap'[x].key = heap[x].key /\ heap'[x].repeat = heap[x].repeat
                               /\ \/ heap'[x].repeat = Forever
                                  \/ heap'[x].times <= heap'[x].repeat
                                  \/ heap'[x].times = heap[x].times
  PROVE  SpentTimerIsGone'
<1>1. KeysApart /\ TriggersLeft
  BY DEF SpentTimerIsGone
<1>2. \A t \in Targets : \A x \in TimersOf(t)' : x \in Scheduled' /\ x \in TimersOf(t)
  BY DEF Scheduled
<1>3. Scheduled' \subseteq Scheduled
  BY DEF Scheduled
<1>4. KeysApart'
  BY <1>1, <1>2 DEF KeysApart
<1>5. TriggersLeft'
  BY <1>1, <1>3 DEF TriggersLeft
<1>6. QED
  BY <1>4, <1>5 DEF SpentTimerIsGone

\* The timers of a target from which one is removed, and which is in no other.
LEMMA TimersOfRemoved ==
  ASSUME SchedulerInv, NEW t \in Targets, NEW i \in 1..Len(timers[t]),
         timers' = [timers EXCEPT ![t] = RemoveAt(@, i)]
  PROVE  /\ \A u \in Targets : TimersOf(u)' \subseteq TimersOf(u)
         /\ Scheduled' = Scheduled \ {timers[t][i]}
<1>1. /\ timers \in [Targets -> Seq(Timers)]
      /\ \A u, v \in Targets : \A j \in 1..Len(timers[u]), k \in 1..Len(timers[v]) :
           timers[u][j] = timers[v][k] => u = v /\ j = k
  BY DEF SchedulerInv, TypeOK, ElementTypes, NothingTwice
<1>2. /\ Len(timers'[t]) = Len(timers[t]) - 1
      /\ \A u \in Targets \ {t} : timers'[u] = timers[u]
      /\ \A j \in 1..(Len(timers[t]) - 1) :
           timers'[t][j] = IF j < i THEN timers[t][j] ELSE timers[t][j + 1]
      /\ Scheduled' = Scheduled \ {timers[t][i]}
  BY <1>1, RemovedTimer
<1>3. Len(timers[t]) \in Nat
  BY <1>1
<1>4. ASSUME NEW j \in 1..Len(timers'[t]) PROVE timers'[t][j] \in TimersOf(t)
  <2>1. j \in 1..(Len(timers[t]) - 1) /\ j \in 1..Len(timers[t]) /\ j + 1 \in 1..Len(timers[t])
    BY <1>2, <1>3
  <2>2. QED
    BY <1>2, <2>1 DEF TimersOf
<1>5. \A u \in Targets : TimersOf(u)' \subseteq TimersOf(u)
  BY <1>2, <1>4 DEF TimersOf
<1>6. QED
  BY <1>2, <1>5

LEMMA UnscheduleSpent ==
  ASSUME SchedulerInv, SpentTimerIsGone, NEW t \in Targets, NEW k, NEW h \in [Timers -> TimerObject],
         DoUnschedule(t, k, h),
         \A x \in Timers : h[x].key = heap[x].key /\ h[x].repeat = heap[x].repeat,
         \A x \in Scheduled : \/ h[x].repeat = Forever
                              \/ h[x].times <= h[x].repeat
                              \/ h[x].times = heap[x].times
                              \/ IndexOfKey(t, k) # {} /\ x \in TimersOf(t) /\ heap[x].key = k
  PROVE  SpentTimerIsGone'
<1>1. Scheduled \subseteq Timers
  BY DEF SchedulerInv, TypeOK, ElementTypes, Scheduled, TimersOf
<1>2. CASE IndexOfKey(t, k) = {}
  <2>1. heap' = h /\ timers' = timers
    BY <1>2 DEF DoUnschedule, elementVars
  <2>2. Scheduled' = Scheduled /\ \A u \in Targets : TimersOf(u)' = TimersOf(u)
    BY <2>1 DEF Scheduled, TimersOf
  <2>3. QED
    BY <1>1, <1>2, <2>1, <2>2, SpentStill
<1>3. CASE IndexOfKey(t, k) # {}
  <2>1. PICK i \in IndexOfKey(t, k) : RemoveTimerAt(t, i, h)
    BY <1>3 DEF DoUnschedule
  <2>2. i \in 1..Len(timers[t]) /\ heap[timers[t][i]].key = k
    BY DEF IndexOfKey
  <2>3. /\ timers' = [timers EXCEPT ![t] = RemoveAt(@, i)]
        /\ heap' = h \/ heap' = [h EXCEPT ![timers[t][i]] = Blank]
    BY <2>1 DEF RemoveTimerAt
  <2>4. /\ \A u \in Targets : TimersOf(u)' \subseteq TimersOf(u)
        /\ Scheduled' = Scheduled \ {timers[t][i]}
    BY <2>2, <2>3, TimersOfRemoved
  <2>5. \A x \in Scheduled' : heap'[x] = h[x]
    BY <1>1, <2>3, <2>4
  <2>6. \A x \in TimersOf(t) : heap[x].key = k => x = timers[t][i]
    <3>1. timers[t][i] \in TimersOf(t)
      BY <2>2 DEF TimersOf
    <3>2. QED
      BY <2>2, <3>1 DEF SpentTimerIsGone, KeysApart
  <2>7. \A x \in Scheduled' : \/ h[x].repeat = Forever
                              \/ h[x].times <= h[x].repeat
                              \/ h[x].times = heap[x].times
    BY <2>4, <2>6
  <2>8. QED
    BY <1>1, <2>4, <2>5, <2>7, SpentStill
<1>4. QED
  BY <1>2, <1>3

LEMMA CallbackReturnsSpent ==
  ASSUME SchedulerInv, SpentTimerIsGone, CallbackReturns
  PROVE  SpentTimerIsGone'
<1> DEFINE r     == heap[currentTimer]
           next  == [r EXCEPT !.elapsed  = @ - interval,
                              !.times    = TimesAfter(r),
                              !.useDelay = FALSE]
           h     == [heap EXCEPT ![currentTimer] = next]
<1>1. pc = "callback" /\ currentTimer \in Timers /\ currentTarget \in Targets /\ r.elapsed >= interval
  BY DEF SchedulerInv, CallbackReturns, StepLocals, Callbacks, TypeOK
<1>2. r \in TimerObject /\ heap \in [Timers -> TimerObject] /\ interval \in Nat
  BY <1>1 DEF SchedulerInv, TypeOK, ElementTypes
<1>3. TimesAfter(r) \in 0..UIntMax
  BY <1>2, UIntAssumption DEF TimesAfter, TimerObject
<1>4. next \in TimerObject /\ next.key = r.key /\ next.repeat = r.repeat /\ next.times = TimesAfter(r)
  <2>1. r.elapsed - interval \in Nat
    BY <1>1, <1>2 DEF TimerObject
  <2>2. QED
    BY <1>2, <1>3, <2>1 DEF TimerObject
<1>5. \/ Spent(next) /\ DoUnschedule(currentTarget, r.key, h)
      \/ ~Spent(next) /\ heap' = h /\ UNCHANGED elementVars
  BY DEF CallbackReturns
<1> HIDE DEF r, next
<1>6. /\ h \in [Timers -> TimerObject]
      /\ \A x \in Timers : h[x].key = heap[x].key /\ h[x].repeat = heap[x].repeat
      /\ \A x \in Timers : x # currentTimer => h[x] = heap[x]
      /\ h[currentTimer] = next
  BY <1>1, <1>2, <1>4 DEF r
<1> HIDE DEF h
<1>7. Scheduled \subseteq Timers
  BY DEF SchedulerInv, TypeOK, ElementTypes, Scheduled, TimersOf
<1>8. CASE Spent(next) /\ DoUnschedule(currentTarget, r.key, h)
  <2>1. ASSUME currentTimer \in Scheduled
        PROVE  IndexOfKey(currentTarget, r.key) # {} /\ currentTimer \in TimersOf(currentTarget)
    <3>1. ~timerSalvaged
      BY <2>1 DEF SchedulerInv, References
    <3>2. /\ timerIndex \in 0..(Len(timers[currentTarget]) - 1)
          /\ timers[currentTarget][timerIndex + 1] = currentTimer
      BY <1>1, <3>1 DEF SchedulerInv, RunningTimer
    <3>3. timerIndex + 1 \in 1..Len(timers[currentTarget])
      BY <1>1, <3>2
    <3>4. timerIndex + 1 \in IndexOfKey(currentTarget, r.key)
      BY <3>2, <3>3 DEF IndexOfKey, r
    <3>5. QED
      BY <3>2, <3>3, <3>4 DEF TimersOf
  <2>2. heap[currentTimer].key = r.key
    BY DEF r
  <2>3. \A x \in Scheduled : \/ h[x].times = heap[x].times
                             \/ /\ IndexOfKey(currentTarget, r.key) # {}
                                /\ x \in TimersOf(currentTarget) /\ heap[x].key = r.key
    BY <1>6, <1>7, <2>1, <2>2
  <2>4. QED
    BY <1>1, <1>6, <1>8, <2>3, UnscheduleSpent
<1>9. CASE ~Spent(next) /\ heap' = h /\ UNCHANGED elementVars
  <2>1. next.repeat = Forever \/ next.times <= next.repeat
    BY <1>4, <1>9 DEF Spent, TimerObject
  <2>2. Scheduled' = Scheduled /\ \A u \in Targets : TimersOf(u)' = TimersOf(u)
    BY <1>9 DEF Scheduled, TimersOf, elementVars
  <2>3. \A x \in Scheduled : \/ h[x].repeat = Forever
                             \/ h[x].times <= h[x].repeat
                             \/ h[x].times = heap[x].times
    BY <1>6, <1>7, <2>1
  <2>4. QED
    BY <1>6, <1>7, <1>9, <2>2, <2>3, SpentStill
<1>10. QED
  BY <1>5, <1>8, <1>9

LEMMA ScheduleNewSpent ==
  ASSUME SchedulerInv, SpentTimerIsGone, NEW t \in Targets, NEW k \in Keys, NEW p \in Plans, NEW b \in BOOLEAN,
         ScheduleNew(t, k, p, b)
  PROVE  SpentTimerIsGone'
<1>1. PICK x \in Timers :
        /\ refs[x] = 0
        /\ heap' = [heap EXCEPT ![x] = NewTimer(k, p)]
        /\ timers' = [timers EXCEPT ![t] = Append(@, x)]
  BY DEF ScheduleNew
<1>2. timers \in [Targets -> Seq(Timers)] /\ heap \in [Timers -> TimerObject]
  BY DEF SchedulerInv, TypeOK, ElementTypes
<1>3. x \notin Scheduled
  BY <1>1 DEF SchedulerInv, References
<1>4. /\ \A u \in Targets : u # t => TimersOf(u)' = TimersOf(u)
      /\ TimersOf(t)' \subseteq TimersOf(t) \cup {x}
  <2>1. timers[t] \in Seq(Timers) /\ Len(timers[t]) \in Nat
    BY <1>2
  <2>2. timers'[t] = Append(timers[t], x) /\ \A u \in Targets : u # t => timers'[u] = timers[u]
    BY <1>1, <1>2
  <2>3. /\ Len(timers'[t]) = Len(timers[t]) + 1
        /\ \A i \in 1..Len(timers[t]) : timers'[t][i] = timers[t][i]
        /\ timers'[t][Len(timers[t]) + 1] = x
    BY <2>1, <2>2, AppendProperties
  <2>4. \A i \in 1..Len(timers'[t]) : i \in 1..Len(timers[t]) \/ i = Len(timers[t]) + 1
    BY <2>1, <2>3
  <2>5. QED
    BY <2>2, <2>3, <2>4 DEF TimersOf
<1>5. \A y \in Scheduled : y \in Timers /\ heap'[y] = heap[y]
  BY <1>1, <1>2, <1>3 DEF Scheduled, TimersOf
<1>6. heap'[x].key = k /\ heap'[x].times = 0 /\ heap'[x].repeat \in Nat
  BY <1>1, <1>2, PlansAssumption, UIntAssumption DEF NewTimer, Plan
<1>7. \A y \in TimersOf(t) : heap[y].key # k
  BY DEF ScheduleNew, IsNewKey, IndexOfKey, TimersOf
<1>8. \A u \in Targets : TimersOf(u) \subseteq Scheduled
  BY DEF Scheduled
<1>9. Scheduled' \subseteq Scheduled \cup {x}
  BY <1>4, <1>8 DEF Scheduled
<1>10. KeysApart'
  <2>1. ASSUME NEW u \in Targets, NEW y \in TimersOf(u)', NEW z \in TimersOf(u)',
               heap'[y].key = heap'[z].key
        PROVE  y = z
    <3>1. CASE u # t \/ (y # x /\ z # x)
      <4>1. y \in TimersOf(u) /\ z \in TimersOf(u)
        BY <1>4, <3>1
      <4>2. QED
        BY <1>5, <1>8, <2>1, <4>1 DEF SpentTimerIsGone, KeysApart
    <3>2. CASE u = t /\ ~(y # x /\ z # x)
      <4>1. (y = x \/ y \in TimersOf(t)) /\ (z = x \/ z \in TimersOf(t))
        BY <1>4, <3>2
      <4>2. QED
        BY <1>5, <1>6, <1>7, <1>8, <2>1, <3>2, <4>1
    <3>3. QED
      BY <3>1, <3>2
  <2>2. QED
    BY <2>1 DEF KeysApart
<1>11. TriggersLeft'
  <2>1. ASSUME NEW y \in Scheduled' PROVE heap'[y].repeat # Forever => heap'[y].times <= heap'[y].repeat
    <3>1. CASE y = x
      BY <1>6, <3>1
    <3>2. CASE y \in Scheduled
      BY <1>5, <3>2 DEF SpentTimerIsGone, TriggersLeft
    <3>3. QED
      BY <1>9, <3>1, <3>2
  <2>2. QED
    BY <2>1 DEF TriggersLeft
<1>12. QED
  BY <1>10, <1>11 DEF SpentTimerIsGone

\* A step that leaves the arrays and the scheduled timers alone.
LEMMA SpentSame ==
  ASSUME SpentTimerIsGone, timers' = timers,
         \A x \in Scheduled : /\ heap'[x].key = heap[x].key /\ heap'[x].repeat = heap[x].repeat
                              /\ heap'[x].times = heap[x].times
  PROVE  SpentTimerIsGone'
<1>1. Scheduled' = Scheduled /\ \A u \in Targets : TimersOf(u)' = TimersOf(u)
  BY DEF Scheduled, TimersOf
<1>2. QED
  BY <1>1, SpentStill

LEMMA UnscheduleAllSpent ==
  ASSUME SchedulerInv, SpentTimerIsGone, NEW S \in SUBSET Targets, DoUnscheduleAll(S)
  PROVE  SpentTimerIsGone'
<1> DEFINE gone == UNION {TimersOf(t) : t \in S}
<1>1. timers' = [t \in Targets |-> IF t \in S THEN << >> ELSE timers[t]]
  BY DEF DoUnscheduleAll
<1>2. \A x \in Timers : x \notin gone => heap'[x] = heap[x]
  BY DEF DoUnscheduleAll
<1>3. \A t \in Targets : TimersOf(t)' = IF t \in S THEN {} ELSE TimersOf(t)
  BY <1>1 DEF TimersOf
<1>4. \A t, u \in Targets : t # u => TimersOf(t) \cap TimersOf(u) = {}
  BY DEF SchedulerInv, NothingTwice, TimersOf
<1>5. \A x \in Scheduled' : x \in Timers /\ x \notin gone
  <2>1. ASSUME NEW x \in Scheduled' PROVE x \in Timers /\ x \notin gone
    <3>1. PICK t \in Targets : x \in TimersOf(t)'
      BY DEF Scheduled
    <3>2. t \notin S /\ x \in TimersOf(t)
      BY <1>3, <3>1
    <3>3. x \in Timers
      BY <3>2 DEF SchedulerInv, TypeOK, ElementTypes, TimersOf
    <3>4. QED
      BY <1>4, <3>2, <3>3
  <2>2. QED
    BY <2>1
<1> HIDE DEF gone
<1>6. \A t \in Targets : TimersOf(t)' \subseteq TimersOf(t)
  BY <1>3
<1>7. \A x \in Scheduled' : heap'[x] = heap[x]
  BY <1>2, <1>5
<1>8. QED
  BY <1>6, <1>7, SpentStill

LEMMA OperationSpent == ASSUME SchedulerInv, SpentTimerIsGone, Operation PROVE SpentTimerIsGone'
<1>1. heap \in [Timers -> TimerObject] /\ timers \in [Targets -> Seq(Timers)]
  BY DEF SchedulerInv, TypeOK, ElementTypes
<1>2. ASSUME NEW t \in Targets, NEW k \in Keys, NEW p \in Plans, Reschedule(t, k, p)
      PROVE  SpentTimerIsGone'
  <2>1. PICK x \in Timers : heap' = [heap EXCEPT ![x].interval = p.interval]
    <3>1. PICK i \in 1..Len(timers[t]) : heap' = [heap EXCEPT ![timers[t][i]].interval = p.interval]
      BY <1>2 DEF Reschedule, IndexOfKey
    <3>2. timers[t][i] \in Timers
      BY <1>1
    <3>3. QED
      BY <3>1, <3>2
  <2>2. \A y \in Timers : /\ heap'[y].key = heap[y].key /\ heap'[y].repeat = heap[y].repeat
                          /\ heap'[y].times = heap[y].times
    <3>1. heap' = [heap EXCEPT ![x] = [heap[x] EXCEPT !.interval = p.interval]]
      BY <2>1
    <3>2. heap[x] \in TimerObject
      BY <1>1
    <3>3. LET n == [heap[x] EXCEPT !.interval = p.interval]
          IN  n.key = heap[x].key /\ n.repeat = heap[x].repeat /\ n.times = heap[x].times
      BY <3>2 DEF TimerObject
    <3>4. QED
      BY <1>1, <3>1, <3>3
  <2>3. timers' = timers
    BY <1>2 DEF Reschedule, elementVars
  <2>4. Scheduled \subseteq Timers
    BY <1>1 DEF Scheduled, TimersOf
  <2>5. QED
    BY <2>2, <2>3, <2>4, SpentSame
<1>3. ASSUME NEW t \in Targets, NEW k \in Keys, Unschedule(t, k)
      PROVE  SpentTimerIsGone'
  BY <1>1, <1>3, UnscheduleSpent DEF Unschedule
<1>4. ASSUME NEW t \in Targets, UnscheduleAllForTarget(t)
      PROVE  SpentTimerIsGone'
  <2>1. {t} \in SUBSET Targets /\ DoUnscheduleAll({t})
    BY <1>4 DEF UnscheduleAllForTarget
  <2>2. QED
    BY <2>1, UnscheduleAllSpent
<1>5. ASSUME UnscheduleAll
      PROVE  SpentTimerIsGone'
  <2>1. {t \in Targets : InHash(t)} \in SUBSET Targets /\ DoUnscheduleAll({t \in Targets : InHash(t)})
    BY <1>5 DEF UnscheduleAll
  <2>2. QED
    BY <2>1, UnscheduleAllSpent
<1>6. ASSUME UNCHANGED <<timers, heap>>
      PROVE  SpentTimerIsGone'
  BY <1>6, SpentSame
<1>7. QED
  BY <1>2, <1>3, <1>4, <1>5, <1>6, ScheduleNewSpent
     DEF Operation, PauseTarget, PauseAllTargets, ResumeTargets

LEMMA TickTimerSpent == ASSUME SchedulerInv, SpentTimerIsGone, TickTimer PROVE SpentTimerIsGone'
<1> DEFINE x == timers[currentTarget][timerIndex + 1]
           r == IF heap[x].elapsed = -1
                THEN [heap[x] EXCEPT !.elapsed = 0, !.times = 0]
                ELSE [heap[x] EXCEPT !.elapsed = @ + dt]
<1>1. /\ currentTarget \in Targets /\ timerIndex \in Nat /\ timerIndex < Len(timers[currentTarget])
      /\ heap \in [Timers -> TimerObject] /\ timers \in [Targets -> Seq(Timers)]
  BY DEF SchedulerInv, TypeOK, ElementTypes, TickTimer, StepLocals
<1>2. x \in Timers
  <2>1. timerIndex + 1 \in 1..Len(timers[currentTarget])
    BY <1>1
  <2>2. QED
    BY <1>1, <2>1, ElementOfSeq
<1>3. heap' = [heap EXCEPT ![x] = r] /\ timers' = timers
  BY DEF TickTimer
<1> HIDE DEF x
<1>4. heap[x] \in TimerObject
  BY <1>1, <1>2
<1>5. r.key = heap[x].key /\ r.repeat = heap[x].repeat /\ (r.times = heap[x].times \/ r.times = 0)
  BY <1>4 DEF TimerObject
<1>6. r.repeat \in Nat
  BY <1>4, <1>5, UIntAssumption DEF TimerObject
<1> HIDE DEF r
<1>7. \A y \in Timers : /\ heap'[y].key = heap[y].key /\ heap'[y].repeat = heap[y].repeat
                        /\ heap'[y].times = heap[y].times \/ heap'[y].times <= heap'[y].repeat
  <2>1. r.times = heap[x].times \/ r.times <= r.repeat
    BY <1>5, <1>6
  <2>2. QED
    BY <1>1, <1>2, <1>3, <1>5, <2>1
<1>8. Scheduled' = Scheduled /\ Scheduled \subseteq Timers /\ \A u \in Targets : TimersOf(u)' = TimersOf(u)
  BY <1>1, <1>3 DEF Scheduled, TimersOf
<1>9. QED
  BY <1>7, <1>8, SpentStill

LEMMA FinishTimerSpent == ASSUME SchedulerInv, SpentTimerIsGone, FinishTimer PROVE SpentTimerIsGone'
<1>1. timers' = timers
  BY DEF FinishTimer
<1>2. heap' = heap \/ (timerSalvaged /\ heap' = [heap EXCEPT ![currentTimer] = Blank])
  BY DEF FinishTimer
<1>3. timerSalvaged => currentTimer \notin Scheduled
  BY DEF SchedulerInv, References
<1>4. \A x \in Scheduled : heap'[x] = heap[x]
  BY <1>2, <1>3 DEF SchedulerInv, TypeOK, ElementTypes, Scheduled, TimersOf
<1>5. QED
  BY <1>1, <1>4, SpentSame

LEMMA SpentStep == SchedulerInv /\ SpentTimerIsGone /\ [Next]_vars => SpentTimerIsGone'
<1> SUFFICES ASSUME SchedulerInv, SpentTimerIsGone, [Next]_vars PROVE SpentTimerIsGone'
  OBVIOUS
<1>1. CASE UNCHANGED <<timers, heap>>
  BY <1>1, SpentSame
<1>2. QED
  BY <1>1, OperationSpent, TickTimerSpent, CallbackReturnsSpent, FinishTimerSpent
     DEF Next, FrameStep, StartFrame, LeaveElement, vars, elementVars

\* A timer with a finite repeat does not outlive its last trigger, whatever its callback
\* scheduled and unscheduled under its key, and a target has one timer of a key.  (That the
\* timer under that key is still the spent one is not true of the code.)
THEOREM SpentTimersAreGone == Spec => []SpentTimerIsGone
<1>1. Init => SpentTimerIsGone
  <2>1. Init => \A t \in Targets : TimersOf(t) = {}
    BY DEF Init, TimersOf
  <2>2. QED
    BY <2>1 DEF SpentTimerIsGone, KeysApart, TriggersLeft, Scheduled
<1>2. QED
  BY <1>1, SpentStep, Invariance, PTL DEF Spec

-----------------------------------------------------------------------------
(***************************************************************************)
(* A frame ticks each timer once.  update() walks over the hash and each   *)
(* array by position while callbacks take elements and timers out and add  *)
(* others: the timers it will still come to are the ones that are due and  *)
(* the ones that were never ticked.                                        *)
(***************************************************************************)
\* The element of u comes before that of v.
Before(u, v) == \E i, j \in 1..Len(hash) : i < j /\ hash[i] = u /\ hash[j] = v

\* The loop is still to come to timer i of t.
Ahead(t, i) ==
  \/ Before(currentTarget, t)
  \/ t = currentTarget /\ pc = "timers" /\ i > timerIndex
  \/ t = currentTarget /\ Callbacks /\ i > timerIndex + 1

ToCome(x) == \E t \in Targets : \E i \in 1..Len(timers[t]) : timers[t][i] = x /\ Ahead(t, i)

FrameInv ==
  /\ \A x \in due : ToCome(x)
  /\ \A x \in Scheduled : ToCome(x) => x \in due \/ heap[x].elapsed = -1

LEMMA FrameKeeps ==
  ASSUME FrameInv,
         \A x \in due' : x \in due /\ (ToCome(x) => ToCome(x)'),
         \A x \in Scheduled' : ToCome(x)' =>
           \/ heap'[x].elapsed = -1
           \/ /\ ToCome(x) /\ x \in Scheduled /\ (x \in due => x \in due')
              /\ heap'[x].elapsed = heap[x].elapsed
  PROVE  FrameInv'
BY DEF FrameInv

\* removeHashElement keeps the order of the other elements.
LEMMA HashWithoutOrder ==
  ASSUME hash \in Seq(Targets), NEW t \in Targets, InHash(t),
         \A i, j \in 1..Len(hash) : hash[i] = hash[j] => i = j,
         hash' = HashWithout(t)
  PROVE  \A u, v : Before(u, v)' <=> Before(u, v) /\ u # t /\ v # t
<1> DEFINE k == CHOOSE i \in 1..Len(hash) : hash[i] = t
<1>1. k \in 1..Len(hash) /\ hash[k] = t
  BY DEF InHash
<1>2. hash' = RemoveAt(hash, k)
  BY DEF HashWithout
<1> HIDE DEF k
<1>3. /\ Len(hash') = Len(hash) - 1
      /\ \A j \in 1..(Len(hash) - 1) : hash'[j] = IF j < k THEN hash[j] ELSE hash[j + 1]
  <2>1. /\ Len(RemoveAt(hash, k)) = Len(hash) - 1
        /\ \A j \in 1..(Len(hash) - 1) :
             RemoveAt(hash, k)[j] = IF j < k THEN hash[j] ELSE hash[j + 1]
    BY <1>1, RemoveAtProperties
  <2>2. QED
    BY <1>2, <2>1
<1>4. Len(hash) \in Nat
  OBVIOUS
<1>5. ASSUME NEW u, NEW v, Before(u, v)' PROVE Before(u, v) /\ u # t /\ v # t
  <2>1. PICK i \in 1..(Len(hash) - 1), j \in 1..(Len(hash) - 1) : i < j /\ hash'[i] = u /\ hash'[j] = v
    BY <1>3, <1>5 DEF Before
  <2>2. PICK l \in 1..Len(hash) : l = IF i < k THEN i ELSE i + 1
    BY <1>4
  <2>3. PICK m \in 1..Len(hash) : m = IF j < k THEN j ELSE j + 1
    BY <1>4
  <2>4. l < m /\ l # k /\ m # k
    BY <1>1, <1>4, <2>1, <2>2, <2>3
  <2>5. hash[l] = u /\ hash[m] = v
    BY <1>3, <2>1, <2>2, <2>3
  <2>6. QED
    BY <1>1, <2>4, <2>5 DEF Before
<1>6. ASSUME NEW u, NEW v, Before(u, v), u # t, v # t PROVE Before(u, v)'
  <2>1. PICK l \in 1..Len(hash), m \in 1..Len(hash) : l < m /\ hash[l] = u /\ hash[m] = v
    BY <1>6 DEF Before
  <2>2. l # k /\ m # k
    BY <1>1, <1>6, <2>1
  <2>3. PICK i \in 1..(Len(hash) - 1) : i = IF l < k THEN l ELSE l - 1
    BY <1>1, <1>4, <2>2
  <2>4. PICK j \in 1..(Len(hash) - 1) : j = IF m < k THEN m ELSE m - 1
    BY <1>1, <1>4, <2>2
  <2>5. i < j
    BY <1>1, <1>4, <2>1, <2>2, <2>3, <2>4
  <2>6. hash'[i] = hash[l] /\ hash'[j] = hash[m]
    BY <1>1, <1>3, <1>4, <2>2, <2>3, <2>4
  <2>7. QED
    BY <1>3, <2>1, <2>5, <2>6 DEF Before
<1>7. QED
  BY <1>5, <1>6

\* No element comes before itself, and the order is transitive.
LEMMA OrderOfElements ==
  ASSUME hash \in Seq(Targets), \A i, j \in 1..Len(hash) : hash[i] = hash[j] => i = j
  PROVE  /\ \A u : ~Before(u, u)
         /\ \A u, v, w : Before(u, v) /\ Before(v, w) => Before(u, w)
         /\ \A u, v : Before(u, v) => u \in Targets /\ v \in Targets /\ InHash(u) /\ InHash(v)
<1>1. Len(hash) \in Nat
  OBVIOUS
<1>2. \A u : ~Before(u, u)
  BY <1>1 DEF Before
<1>3. ASSUME NEW u, NEW v, NEW w, Before(u, v), Before(v, w) PROVE Before(u, w)
  <2>1. PICK i \in 1..Len(hash), j \in 1..Len(hash) : i < j /\ hash[i] = u /\ hash[j] = v
    BY <1>3 DEF Before
  <2>2. PICK k \in 1..Len(hash), l \in 1..Len(hash) : k < l /\ hash[k] = v /\ hash[l] = w
    BY <1>3 DEF Before
  <2>3. j = k
    BY <2>1, <2>2
  <2>4. i < l
    BY <1>1, <2>1, <2>2, <2>3
  <2>5. QED
    BY <2>1, <2>2, <2>4 DEF Before
<1>4. \A u, v : Before(u, v) => u \in Targets /\ v \in Targets /\ InHash(u) /\ InHash(v)
  <2>1. \A i \in 1..Len(hash) : hash[i] \in Targets
    BY ElementOfSeq
  <2>2. QED
    BY <2>1 DEF Before, InHash
<1>5. QED
  BY <1>2, <1>3, <1>4

\* The running timer is not to come again.
LEMMA RunningIsPast ==
  ASSUME SchedulerInv, Callbacks, currentTimer \in Scheduled
  PROVE  ~ToCome(currentTimer)
<1>1. /\ currentTarget \in Targets /\ currentTimer \in Timers /\ ~timerSalvaged
      /\ timerIndex \in 0..(Len(timers[currentTarget]) - 1)
      /\ timers[currentTarget][timerIndex + 1] = currentTimer
  BY DEF SchedulerInv, StepLocals, References, RunningTimer, TypeOK
<1>2. timerIndex + 1 \in 1..Len(timers[currentTarget])
  BY <1>1 DEF SchedulerInv, TypeOK, ElementTypes
<1>3. ~Before(currentTarget, currentTarget)
  BY OrderOfElements DEF SchedulerInv, TypeOK, ElementTypes, NothingTwice
<1>4. pc # "timers"
  BY DEF Callbacks
<1>5. SUFFICES ASSUME NEW t \in Targets, NEW i \in 1..Len(timers[t]),
                      timers[t][i] = currentTimer, Ahead(t, i)
               PROVE  FALSE
  BY DEF ToCome
<1>6. t = currentTarget /\ i = timerIndex + 1
  BY <1>1, <1>2, <1>5 DEF SchedulerInv, NothingTwice
<1>7. QED
  BY <1>1, <1>3, <1>4, <1>5, <1>6 DEF Ahead

\* A removal shifts the timers behind the removed one, and the index with them.
LEMMA RemovedFrame ==
  ASSUME SchedulerInv, FrameInv, NEW t \in Targets, NEW i \in 1..Len(timers[t]),
         NEW h \in [Timers -> TimerObject], RemoveTimerAt(t, i, h),
         currentTarget' = currentTarget, Callbacks' <=> Callbacks, pc # "timers", pc' # "timers",
         \A x \in Scheduled : ToCome(x) => h[x].elapsed = heap[x].elapsed
  PROVE  FrameInv'
<1> DEFINE n == Len(timers[t])
<1>1. /\ timers \in [Targets -> Seq(Timers)] /\ hash \in Seq(Targets) /\ timerIndex \in Int
      /\ \A u, v \in Targets : \A j \in 1..Len(timers[u]), k \in 1..Len(timers[v]) :
           timers[u][j] = timers[v][k] => u = v /\ j = k
      /\ \A j, k \in 1..Len(hash) : hash[j] = hash[k] => j = k
  BY DEF SchedulerInv, TypeOK, ElementTypes, NothingTwice
<1>2. /\ timers' = [timers EXCEPT ![t] = RemoveAt(@, i)]
      /\ heap' = h \/ heap' = [h EXCEPT ![timers[t][i]] = Blank]
      /\ timerIndex' = IF t = currentTarget /\ timerIndex >= i - 1 THEN timerIndex - 1 ELSE timerIndex
      /\ IF n = 1 /\ t # currentTarget THEN hash' = HashWithout(t) ELSE hash' = hash
      /\ due' = due \ {timers[t][i]}
  BY DEF RemoveTimerAt, RemoveHashElement, IndexAfterRemoval
<1>3. /\ Len(timers'[t]) = n - 1
      /\ \A u \in Targets \ {t} : timers'[u] = timers[u]
      /\ \A j \in 1..(n - 1) : timers'[t][j] = IF j < i THEN timers[t][j] ELSE timers[t][j + 1]
      /\ Scheduled' = Scheduled \ {timers[t][i]}
  BY <1>1, <1>2, RemovedTimer
<1>4. n \in Nat /\ n # 0
  BY <1>1
<1>5. InHash(t) \/ t = currentTarget
  <2>1. timers[t] # << >>
    BY <1>4
  <2>2. QED
    BY <2>1 DEF SchedulerInv, Elements
<1>6. \A u, v : Before(u, v)' => Before(u, v)
  <2>1. CASE n = 1 /\ t # currentTarget
    <3>1. hash' = HashWithout(t) /\ InHash(t)
      BY <1>2, <1>5, <2>1
    <3>2. QED
      BY <1>1, <3>1, HashWithoutOrder
  <2>2. CASE hash' = hash
    BY <2>2 DEF Before
  <2>3. QED
    BY <1>2, <2>1, <2>2
<1>7. \A u, v : Before(u, v) /\ u = currentTarget /\ (v # t \/ n # 1) => Before(u, v)'
  <2>1. CASE n = 1 /\ t # currentTarget
    <3>1. hash' = HashWithout(t) /\ InHash(t)
      BY <1>2, <1>5, <2>1
    <3>2. \A u, v : Before(u, v)' <=> Before(u, v) /\ u # t /\ v # t
      BY <1>1, <3>1, HashWithoutOrder
    <3>3. QED
      BY <2>1, <3>2
  <2>2. CASE hash' = hash
    BY <2>2 DEF Before
  <2>3. QED
    BY <1>2, <2>1, <2>2
<1>8. ASSUME NEW y, ToCome(y)' PROVE ToCome(y)
  <2>0. PICK u \in Targets : \E j \in 1..Len(timers'[u]) : timers'[u][j] = y /\ Ahead(u, j)'
    BY <1>8 DEF ToCome
  <2>1. PICK j \in 1..Len(timers'[u]) : timers'[u][j] = y /\ Ahead(u, j)'
    BY <2>0
  <2>2. \/ Before(currentTarget, u)
        \/ u = currentTarget /\ Callbacks /\ j > timerIndex' + 1
    <3>1. \/ Before(currentTarget, u)'
          \/ u = currentTarget' /\ Callbacks' /\ j > timerIndex' + 1
      BY <2>1 DEF Ahead
    <3>2. Before(currentTarget, u)' => Before(currentTarget, u)
      <4>1. \A v : v = currentTarget /\ Before(v, u)' => Before(currentTarget, u)
        BY <1>6
      <4>2. Before(currentTarget, u)' => \A v : v = currentTarget => Before(v, u)'
        BY DEF Before
      <4>3. QED
        BY <4>1, <4>2
    <3>3. QED
      BY <3>1, <3>2
  <2>3. CASE u # t
    <3>1. timers'[u] = timers[u]
      BY <1>3, <2>3
    <3>2. u = currentTarget => timerIndex' = timerIndex
      BY <1>2, <2>3
    <3>3. Ahead(u, j)
      BY <2>2, <3>2 DEF Ahead
    <3>4. QED
      BY <2>1, <3>1, <3>3 DEF ToCome
  <2>4. CASE u = t
    <3>1. j \in 1..(n - 1)
      BY <1>3, <2>4
    <3>2. PICK l \in 1..n : l = IF j < i THEN j ELSE j + 1
      BY <1>4, <3>1
    <3>3. timers[t][l] = y
      BY <1>3, <2>1, <2>4, <3>1, <3>2
    <3>4. u = currentTarget /\ j > timerIndex' + 1 => l > timerIndex + 1
      BY <1>1, <1>2, <1>4, <2>4, <3>1, <3>2
    <3>5. Ahead(t, l)
      BY <2>2, <2>4, <3>4 DEF Ahead
    <3>6. QED
      BY <3>3, <3>5 DEF ToCome
  <2>5. QED
    BY <2>3, <2>4
<1>9. ASSUME NEW y, y # timers[t][i], ToCome(y) PROVE ToCome(y)'
  <2>0. PICK u \in Targets : \E l \in 1..Len(timers[u]) : timers[u][l] = y /\ Ahead(u, l)
    BY <1>9 DEF ToCome
  <2>1. PICK l \in 1..Len(timers[u]) : timers[u][l] = y /\ Ahead(u, l)
    BY <2>0
  <2>2. \/ Before(currentTarget, u)
        \/ u = currentTarget /\ Callbacks /\ l > timerIndex + 1
    BY <2>1 DEF Ahead
  <2>3. u # t \/ n # 1
    BY <1>4, <1>9, <2>1
  <2>4. Before(currentTarget, u) => Before(currentTarget, u)'
    <3>1. Before(currentTarget, u) => \A v : v = currentTarget => Before(v, u)'
      BY <1>7, <2>3
    <3>2. (\A v : v = currentTarget => Before(v, u)') => Before(currentTarget, u)'
      <4>1. (\A v : v = currentTarget => Before(v, u)') =>
               \E j, k \in 1..Len(hash') : j < k /\ hash'[j] = currentTarget /\ hash'[k] = u
        BY DEF Before
      <4>2. QED
        BY <4>1 DEF Before
    <3>3. QED
      BY <3>1, <3>2
  <2>5. CASE u # t
    <3>1. timers'[u] = timers[u]
      BY <1>3, <2>5
    <3>2. u = currentTarget => timerIndex' = timerIndex
      BY <1>2, <2>5
    <3>3. Ahead(u, l)'
      BY <2>2, <2>4, <3>2 DEF Ahead
    <3>4. QED
      BY <2>1, <3>1, <3>3 DEF ToCome
  <2>6. CASE u = t
    <3>1. l # i
      BY <1>9, <2>1, <2>6
    <3>2. PICK j \in 1..(n - 1) : j = IF l < i THEN l ELSE l - 1
      BY <1>4, <2>6, <3>1
    <3>3. timers'[t][j] = y
      BY <1>3, <1>4, <2>1, <2>6, <3>1, <3>2
    <3>4. u = currentTarget /\ l > timerIndex + 1 => j > timerIndex' + 1
      BY <1>1, <1>2, <1>4, <2>6, <3>1, <3>2
    <3>5. Ahead(t, j)'
      BY <2>2, <2>4, <2>6, <3>4 DEF Ahead
    <3>6. QED
      BY <1>3, <3>3, <3>5 DEF ToCome
  <2>7. QED
    BY <2>5, <2>6
<1>10. \A x \in Scheduled' : x \in Timers /\ heap'[x] = h[x]
  <2>1. Scheduled \subseteq Timers
    BY <1>1 DEF Scheduled, TimersOf
  <2>2. QED
    BY <1>2, <1>3, <2>1
<1>11. \A x \in due' : x \in due /\ (ToCome(x) => ToCome(x)')
  BY <1>2, <1>9
<1>12. \A x \in Scheduled' : ToCome(x)' =>
           /\ ToCome(x) /\ x \in Scheduled /\ (x \in due => x \in due')
           /\ heap'[x].elapsed = heap[x].elapsed
  BY <1>2, <1>3, <1>8, <1>10
<1>13. QED
  BY <1>11, <1>12, FrameKeeps

\* A step that changes nothing the loop goes by.
LEMMA FrameSame ==
  ASSUME FrameInv, UNCHANGED <<hash, timers, due, currentTarget, timerIndex>>,
         Callbacks' <=> Callbacks, pc' = "timers" <=> pc = "timers",
         \A x \in Scheduled : ToCome(x) => heap'[x].elapsed = heap[x].elapsed
  PROVE  FrameInv'
<1>1. Scheduled' = Scheduled
  BY DEF Scheduled, TimersOf
<1>2. \A x : ToCome(x)' <=> ToCome(x)
  BY DEF ToCome, Ahead, Before
<1>3. QED
  BY <1>1, <1>2, FrameKeeps

LEMMA UnscheduleFrame ==
  ASSUME SchedulerInv, FrameInv, NEW t \in Targets, NEW k,
         NEW h \in [Timers -> TimerObject], DoUnschedule(t, k, h),
         currentTarget' = currentTarget, Callbacks' <=> Callbacks, pc # "timers", pc' # "timers",
         \A x \in Scheduled : ToCome(x) => h[x].elapsed = heap[x].elapsed
  PROVE  FrameInv'
<1>1. CASE IndexOfKey(t, k) = {}
  <2>1. heap' = h /\ UNCHANGED <<hash, timers, due, timerIndex>>
    BY <1>1 DEF DoUnschedule, elementVars
  <2>2. QED
    BY <2>1, FrameSame
<1>2. CASE IndexOfKey(t, k) # {}
  <2>1. PICK i \in IndexOfKey(t, k) : RemoveTimerAt(t, i, h)
    BY <1>2 DEF DoUnschedule
  <2>2. i \in 1..Len(timers[t])
    BY DEF IndexOfKey
  <2>3. QED
    BY <2>1, <2>2, RemovedFrame
<1>3. QED
  BY <1>1, <1>2

LEMMA CallbackReturnsFrame ==
  ASSUME SchedulerInv, FrameInv, CallbackReturns
  PROVE  FrameInv'
<1> DEFINE r     == heap[currentTimer]
           next  == [r EXCEPT !.elapsed  = @ - interval,
                              !.times    = TimesAfter(r),
                              !.useDelay = FALSE]
           h     == [heap EXCEPT ![currentTimer] = next]
<1>1. /\ pc = "callback" /\ currentTimer \in Timers /\ currentTarget \in Targets /\ r.elapsed >= interval
  BY DEF SchedulerInv, CallbackReturns, StepLocals, Callbacks, TypeOK
<1>2. r \in TimerObject /\ heap \in [Timers -> TimerObject] /\ interval \in Nat
  BY <1>1 DEF SchedulerInv, TypeOK, ElementTypes
<1>3. TimesAfter(r) \in 0..UIntMax
  BY <1>2, UIntAssumption DEF TimesAfter, TimerObject
<1>4. next \in TimerObject
  <2>1. r.elapsed - interval \in Nat
    BY <1>1, <1>2 DEF TimerObject
  <2>2. QED
    BY <1>2, <1>3, <2>1 DEF TimerObject
<1>5. /\ \/ DoUnschedule(currentTarget, r.key, h) /\ pc' = "done"
         \/ pc' \in {"callback", "done"} /\ heap' = h /\ UNCHANGED elementVars
      /\ currentTarget' = currentTarget
  BY DEF CallbackReturns, Trigger, TimerDone
<1> HIDE DEF r, next
<1>6. /\ h \in [Timers -> TimerObject]
      /\ \A x \in Timers : x # currentTimer => h[x] = heap[x]
  BY <1>1, <1>2, <1>4
<1> HIDE DEF h
<1>7. Scheduled \subseteq Timers
  BY DEF SchedulerInv, TypeOK, ElementTypes, Scheduled, TimersOf
<1>8. Callbacks /\ pc # "timers"
  BY <1>1 DEF Callbacks
<1>9. \A x \in Scheduled : ToCome(x) => h[x].elapsed = heap[x].elapsed
  BY <1>6, <1>7, <1>8, RunningIsPast
<1>10. Callbacks' /\ pc' # "timers"
  BY <1>5 DEF Callbacks
<1>11. CASE DoUnschedule(currentTarget, r.key, h)
  BY <1>1, <1>5, <1>6, <1>8, <1>9, <1>10, <1>11, UnscheduleFrame
<1>12. CASE heap' = h /\ UNCHANGED elementVars
  BY <1>5, <1>8, <1>9, <1>10, <1>12, FrameSame DEF elementVars
<1>13. QED
  BY <1>5, <1>11, <1>12

\* A new timer, and a new element, are the last ones.
LEMMA ScheduleNewFrame ==
  ASSUME SchedulerInv, FrameInv, NEW t \in Targets, NEW k \in Keys, NEW p \in Plans, NEW b \in BOOLEAN,
         ScheduleNew(t, k, p, b)
  PROVE  FrameInv'
<1>1. PICK x \in Timers :
        /\ refs[x] = 0
        /\ heap' = [heap EXCEPT ![x] = NewTimer(k, p)]
        /\ timers' = [timers EXCEPT ![t] = Append(@, x)]
  BY DEF ScheduleNew
<1>2. /\ timers \in [Targets -> Seq(Timers)] /\ heap \in [Timers -> TimerObject] /\ hash \in Seq(Targets)
      /\ Len(hash) \in Nat
      /\ \A i, j \in 1..Len(hash) : hash[i] = hash[j] => i = j
  BY DEF SchedulerInv, TypeOK, ElementTypes, NothingTwice
<1>3. /\ hash' = hash \/ (~InHash(t) /\ hash' = Append(hash, t))
      /\ UNCHANGED <<currentTarget, pc, timerIndex, due>>
  BY DEF ScheduleNew, Call, loopVars
<1>4. x \notin Scheduled
  BY <1>1 DEF SchedulerInv, References
<1>5. /\ Len(timers[t]) \in Nat /\ Len(timers'[t]) = Len(timers[t]) + 1
      /\ \A i \in 1..Len(timers[t]) : timers'[t][i] = timers[t][i]
      /\ timers'[t][Len(timers[t]) + 1] = x
      /\ \A u \in Targets : u # t => timers'[u] = timers[u]
  <2>1. timers[t] \in Seq(Timers) /\ Len(timers[t]) \in Nat
    BY <1>2
  <2>2. timers'[t] = Append(timers[t], x) /\ \A u \in Targets : u # t => timers'[u] = timers[u]
    BY <1>1, <1>2
  <2>3. QED
    BY <2>1, <2>2, AppendProperties
<1>6. ASSUME NEW u \in Targets, NEW i \in 1..Len(timers'[u])
      PROVE  timers'[u][i] = x \/ (i \in 1..Len(timers[u]) /\ timers'[u][i] = timers[u][i])
  <2>1. CASE u # t
    BY <1>5, <2>1
  <2>2. CASE u = t
    <3>1. i \in 1..Len(timers[t]) \/ i = Len(timers[t]) + 1
      BY <1>5, <2>2
    <3>2. QED
      BY <1>5, <2>2, <3>1
  <2>3. QED
    BY <2>1, <2>2
<1>7. \A u \in Targets : \A i \in 1..Len(timers[u]) : i \in 1..Len(timers'[u]) /\ timers'[u][i] = timers[u][i]
  BY <1>5
<1>8. \A y \in Timers : y # x => heap'[y] = heap[y]
  BY <1>1, <1>2
<1>9. heap'[x].elapsed = -1
  BY <1>1, <1>2 DEF NewTimer
<1>10. \A v : Before(currentTarget, v) => Before(currentTarget, v)'
  <2>1. CASE hash' = hash
    BY <1>3, <2>1 DEF Before
  <2>2. CASE hash' = Append(hash, t)
    <3>1. Len(hash') = Len(hash) + 1 /\ \A i \in 1..Len(hash) : hash'[i] = hash[i] /\ i \in 1..Len(hash')
      BY <1>2, <2>2, AppendProperties
    <3>2. QED
      BY <1>3, <3>1 DEF Before
  <2>3. QED
    BY <1>3, <2>1, <2>2
<1>11. \A v : (v # t \/ InHash(t)) /\ Before(currentTarget, v)' => Before(currentTarget, v)
  <2>1. CASE hash' = hash
    BY <1>3, <2>1 DEF Before
  <2>2. CASE ~InHash(t) /\ hash' = Append(hash, t)
    <3>1. /\ Len(hash') = Len(hash) + 1 /\ hash'[Len(hash) + 1] = t
          /\ \A i \in 1..Len(hash) : hash'[i] = hash[i]
      BY <1>2, <2>2, AppendProperties
    <3>2. ASSUME NEW v, v # t, Before(currentTarget, v)' PROVE Before(currentTarget, v)
      <4>1. PICK i \in 1..Len(hash'), j \in 1..Len(hash') :
              i < j /\ hash'[i] = currentTarget /\ hash'[j] = v
        BY <1>3, <3>2 DEF Before
      <4>2. j # Len(hash) + 1
        BY <3>1, <3>2, <4>1
      <4>3. i \in 1..Len(hash) /\ j \in 1..Len(hash)
        <5>1. Len(hash) \in Nat
          BY <1>2
        <5>2. i \in 1..(Len(hash) + 1) /\ j \in 1..(Len(hash) + 1) /\ i < j
          BY <3>1, <4>1
        <5>3. QED
          BY <4>2, <5>1, <5>2
      <4>4. QED
        BY <3>1, <4>1, <4>3 DEF Before
    <3>3. QED
      BY <2>2, <3>2
  <2>3. QED
    BY <1>3, <2>1, <2>2
<1>12. ASSUME NEW y, ToCome(y) PROVE ToCome(y)'
  <2>0. PICK u \in Targets : \E i \in 1..Len(timers[u]) : timers[u][i] = y /\ Ahead(u, i)
    BY <1>12 DEF ToCome
  <2>1. PICK i \in 1..Len(timers[u]) : timers[u][i] = y /\ Ahead(u, i)
    BY <2>0
  <2>2. Ahead(u, i)'
    BY <1>3, <1>10, <2>1 DEF Ahead, Callbacks
  <2>3. QED
    BY <1>7, <2>1, <2>2 DEF ToCome
<1>13. ASSUME NEW y, y # x, ToCome(y)' PROVE ToCome(y) /\ y \in Scheduled
  <2>0. PICK u \in Targets : \E i \in 1..Len(timers'[u]) : timers'[u][i] = y /\ Ahead(u, i)'
    BY <1>13 DEF ToCome
  <2>1. PICK i \in 1..Len(timers'[u]) : timers'[u][i] = y /\ Ahead(u, i)'
    BY <2>0
  <2>2. i \in 1..Len(timers[u]) /\ timers[u][i] = y
    BY <1>6, <1>13, <2>1
  <2>3. u # t \/ InHash(t) \/ t = currentTarget
    <3>1. timers[u] # << >>
      BY <2>2
    <3>2. QED
      BY <3>1 DEF SchedulerInv, Elements
  <2>4. t = currentTarget => InHash(t)
    BY DEF SchedulerInv, Elements
  <2>5. Ahead(u, i)
    BY <1>3, <1>11, <2>1, <2>3, <2>4 DEF Ahead, Callbacks
  <2>6. QED
    BY <2>2, <2>5, ScheduledMember DEF ToCome
<1>14. Scheduled \subseteq Timers
  BY <1>2 DEF Scheduled, TimersOf
<1>15. \A y \in Scheduled' : ToCome(y)' =>
         \/ heap'[y].elapsed = -1
         \/ /\ ToCome(y) /\ y \in Scheduled /\ (y \in due => y \in due')
            /\ heap'[y].elapsed = heap[y].elapsed
  BY <1>3, <1>8, <1>9, <1>13, <1>14
<1>16. QED
  BY <1>3, <1>12, <1>15, FrameKeeps

\* The timers of whole elements are taken out: those of other elements are where they were.
LEMMA UnscheduleAllFrame ==
  ASSUME SchedulerInv, FrameInv, NEW S \in SUBSET Targets, DoUnscheduleAll(S),
         UNCHANGED <<currentTarget, pc>>,
         \A v : v \notin S => (Before(currentTarget, v)' <=> Before(currentTarget, v))
  PROVE  FrameInv'
<1> DEFINE gone == UNION {TimersOf(t) : t \in S}
<1>1. /\ timers' = [t \in Targets |-> IF t \in S THEN << >> ELSE timers[t]]
      /\ due' = due \ gone /\ timerIndex' = timerIndex
      /\ \A x \in Timers : x \notin gone => heap'[x] = heap[x]
  BY DEF DoUnscheduleAll
<1>2. \A t \in Targets : TimersOf(t) \subseteq Timers
  BY DEF SchedulerInv, TypeOK, ElementTypes, TimersOf
<1>3. \A t, u \in Targets : t # u => TimersOf(t) \cap TimersOf(u) = {}
  BY DEF SchedulerInv, NothingTwice, TimersOf
<1>4. \A t \in Targets : t \notin S => TimersOf(t) \cap gone = {}
  BY <1>3
<1>5. \A t \in S : TimersOf(t) \subseteq gone
  OBVIOUS
<1> HIDE DEF gone
<1>6. \A t \in S : \A i : i \notin 1..Len(timers'[t])
  BY <1>1
<1>7. \A t \in Targets \ S : timers'[t] = timers[t]
  BY <1>1
<1>8. ASSUME NEW t \in Targets \ S, NEW i PROVE Ahead(t, i)' <=> Ahead(t, i)
  BY <1>1 DEF Ahead, Callbacks
<1>9. ASSUME NEW x, x \notin gone, ToCome(x) PROVE ToCome(x)'
  <2>0. PICK u \in Targets : \E i \in 1..Len(timers[u]) : timers[u][i] = x /\ Ahead(u, i)
    BY <1>9 DEF ToCome
  <2>1. PICK i \in 1..Len(timers[u]) : timers[u][i] = x /\ Ahead(u, i)
    BY <2>0
  <2>2. u \notin S
    BY <1>5, <1>9, <2>1 DEF TimersOf
  <2>3. timers'[u] = timers[u] /\ Ahead(u, i)'
    BY <1>7, <1>8, <2>1, <2>2
  <2>4. QED
    BY <2>1, <2>3 DEF ToCome
<1>10. ASSUME NEW x, ToCome(x)' PROVE ToCome(x) /\ x \notin gone /\ x \in Scheduled /\ x \in Timers
  <2>0. PICK u \in Targets : \E i \in 1..Len(timers'[u]) : timers'[u][i] = x /\ Ahead(u, i)'
    BY <1>10 DEF ToCome
  <2>1. PICK i \in 1..Len(timers'[u]) : timers'[u][i] = x /\ Ahead(u, i)'
    BY <2>0
  <2>2. u \notin S
    BY <1>6, <2>1
  <2>3. timers'[u] = timers[u] /\ Ahead(u, i)
    BY <1>7, <1>8, <2>1, <2>2
  <2>4. x \in TimersOf(u)
    BY <2>1, <2>3 DEF TimersOf
  <2>5. ToCome(x)
    BY <2>1, <2>3 DEF ToCome
  <2>6. QED
    BY <1>2, <1>4, <2>2, <2>4, <2>5 DEF Scheduled
<1>11. QED
  BY <1>1, <1>9, <1>10, FrameKeeps

LEMMA OperationFrame == ASSUME SchedulerInv, FrameInv, Operation PROVE FrameInv'
<1>1. /\ heap \in [Timers -> TimerObject] /\ timers \in [Targets -> Seq(Timers)] /\ hash \in Seq(Targets)
      /\ \A i, j \in 1..Len(hash) : hash[i] = hash[j] => i = j
      /\ Scheduled \subseteq Timers
  BY DEF SchedulerInv, TypeOK, ElementTypes, NothingTwice, Scheduled, TimersOf
<1>2. ASSUME Call
      PROVE  /\ UNCHANGED <<currentTarget, pc>> /\ (Callbacks' <=> Callbacks)
             /\ pc # "timers" /\ pc' # "timers"
  BY <1>2 DEF Call, loopVars, Callbacks
<1>3. ASSUME NEW t \in Targets, NEW k \in Keys, NEW p \in Plans, Reschedule(t, k, p)
      PROVE  FrameInv'
  <2>1. PICK x \in Timers : heap' = [heap EXCEPT ![x].interval = p.interval]
    <3>1. PICK i \in 1..Len(timers[t]) : heap' = [heap EXCEPT ![timers[t][i]].interval = p.interval]
      BY <1>3 DEF Reschedule, IndexOfKey
    <3>2. timers[t][i] \in Timers
      BY <1>1
    <3>3. QED
      BY <3>1, <3>2
  <2>2. \A y \in Timers : heap'[y].elapsed = heap[y].elapsed
    <3>1. heap' = [heap EXCEPT ![x] = [heap[x] EXCEPT !.interval = p.interval]]
      BY <2>1
    <3>2. heap[x] \in TimerObject
      BY <1>1
    <3>3. [heap[x] EXCEPT !.interval = p.interval].elapsed = heap[x].elapsed
      BY <3>2 DEF TimerObject
    <3>4. QED
      BY <1>1, <3>1, <3>3
  <2>3. UNCHANGED <<hash, timers, due, timerIndex>> /\ Call
    BY <1>3 DEF Reschedule, elementVars
  <2>4. QED
    BY <1>1, <1>2, <2>2, <2>3, FrameSame
<1>4. ASSUME NEW t \in Targets, NEW k \in Keys, Unschedule(t, k)
      PROVE  FrameInv'
  BY <1>1, <1>2, <1>4, UnscheduleFrame DEF Unschedule
<1>5. ASSUME NEW t \in Targets, UnscheduleAllForTarget(t)
      PROVE  FrameInv'
  <2>1. {t} \in SUBSET Targets /\ DoUnscheduleAll({t}) /\ Call /\ InHash(t)
        /\ IF t = currentTarget THEN hash' = hash ELSE hash' = HashWithout(t)
    BY <1>5 DEF UnscheduleAllForTarget, RemoveHashElement
  <2>2. UNCHANGED <<currentTarget, pc>>
    BY <1>2, <2>1
  <2>3. \A v : v \notin {t} => (Before(currentTarget, v)' <=> Before(currentTarget, v))
    <3>1. CASE t = currentTarget
      BY <2>1, <2>2, <3>1 DEF Before
    <3>2. CASE t # currentTarget
      <4>1. hash' = HashWithout(t)
        BY <2>1, <3>2
      <4>2. \A u, v : Before(u, v)' <=> Before(u, v) /\ u # t /\ v # t
        BY <1>1, <2>1, <4>1, HashWithoutOrder
      <4>3. ASSUME NEW v, v # t PROVE Before(currentTarget, v)' <=> Before(currentTarget, v)
        <5>1. \A u : u = currentTarget => (Before(u, v)' <=> Before(u, v))
          BY <3>2, <4>2, <4>3
        <5>2. PICK u : u = currentTarget
          OBVIOUS
        <5>3. (Before(u, v)' <=> Before(currentTarget, v)') /\ (Before(u, v) <=> Before(currentTarget, v))
          BY <2>2, <5>2 DEF Before
        <5>4. QED
          BY <5>1, <5>2, <5>3
      <4>4. QED
        BY <4>3
    <3>3. QED
      BY <3>1, <3>2
  <2>4. QED
    BY <2>1, <2>2, <2>3, UnscheduleAllFrame
<1>6. ASSUME UnscheduleAll
      PROVE  FrameInv'
  <2> DEFINE S == {t \in Targets : InHash(t)}
  <2>1. S \in SUBSET Targets /\ DoUnscheduleAll(S) /\ Call
        /\ hash' = IF currentTarget = NoTarget THEN << >> ELSE <<currentTarget>>
    BY <1>6 DEF UnscheduleAll
  <2>2. UNCHANGED <<currentTarget, pc>>
    BY <1>2, <2>1
  <2>3. \A v : ~Before(currentTarget, v)'
    <3>1. \A i, j \in 1..Len(hash') : ~(i < j)
      <4>1. Len(hash') = 0 \/ Len(hash') = 1
        BY <2>1
      <4>2. \A n \in 0..1 : \A i, j \in 1..n : ~(i < j)
        OBVIOUS
      <4>3. PICK n \in 0..1 : n = Len(hash')
        BY <4>1
      <4>4. QED
        BY <4>2, <4>3
    <3>2. QED
      BY <3>1 DEF Before
  <2>4. \A v : v \notin S => ~Before(currentTarget, v)
    BY <1>1, OrderOfElements
  <2> HIDE DEF S
  <2>5. QED
    BY <2>1, <2>2, <2>3, <2>4, UnscheduleAllFrame
<1>7. ASSUME Call, UNCHANGED <<hash, timers, heap, refs, timerIndex, timerSalvaged, targetSalvaged, due>>
      PROVE  FrameInv'
  BY <1>2, <1>7, FrameSame
<1>8. QED
  BY <1>3, <1>4, <1>5, <1>6, <1>7, ScheduleNewFrame
     DEF Operation, PauseTarget, PauseAllTargets, ResumeTargets

\* A frame begins with every timer due but those of a first element that is paused.
LEMMA StartFrameFrame ==
  ASSUME SchedulerInv, NEW step \in FrameTimes, StartFrame(step)
  PROVE  FrameInv'
<1>1. /\ pc = "idle" /\ currentTarget = NoTarget /\ currentTarget \notin Targets
      /\ timers \in [Targets -> Seq(Timers)] /\ hash \in Seq(Targets) /\ Len(hash) \in Nat
      /\ \A i, j \in 1..Len(hash) : hash[i] = hash[j] => i = j
      /\ \A t \in Targets : InHash(t) <=> timers[t] # << >>
  BY NullAssumption
     DEF SchedulerInv, TypeOK, ElementTypes, NothingTwice, StepLocals, Elements, StartFrame
<1>2. /\ Enter(hash, 1) /\ due' = Scheduled \ PausedTimers(hash, 1)
      /\ UNCHANGED <<hash, timers, paused, heap>>
  BY DEF StartFrame
<1>3. Scheduled' = Scheduled
  BY <1>2 DEF Scheduled, TimersOf
<1>4. CASE 1 > Len(hash)
  <2>1. \A t \in Targets : timers[t] = << >>
    BY <1>1, <1>4 DEF InHash
  <2>2. Scheduled = {}
    BY <2>1 DEF Scheduled, TimersOf
  <2>3. QED
    BY <1>2, <1>3, <2>2 DEF FrameInv
<1>5. CASE ~(1 > Len(hash))
  <2>1. 1 \in 1..Len(hash)
    BY <1>1, <1>5
  <2>2. PICK c \in Targets : c = hash[1]
    BY <1>1, <2>1, ElementOfSeq
  <2>3. /\ currentTarget' = c /\ timerIndex' = 0
        /\ pc' = IF paused[c] THEN "leave" ELSE "timers"
        /\ due' = IF paused[c] THEN Scheduled \ TimersOf(c) ELSE Scheduled
    BY <1>1, <1>2, <1>5, <2>1, <2>2 DEF Enter, PausedTimers
  <2>4. \A u, v : Before(u, v)' <=> Before(u, v)
    BY <1>2 DEF Before
  <2>5. ASSUME NEW v PROVE Before(currentTarget, v)' <=> Before(c, v)
    BY <1>2, <2>3 DEF Before
  <2>6. \A t \in Targets : InHash(t) => t = c \/ Before(c, t)
    <3>1. ASSUME NEW t \in Targets, InHash(t), t # c PROVE Before(c, t)
      <4>1. PICK j \in 1..Len(hash) : hash[j] = t
        BY <3>1 DEF InHash
      <4>2. 1 < j
        BY <1>1, <2>2, <3>1, <4>1
      <4>3. QED
        BY <2>1, <2>2, <4>1, <4>2 DEF Before
    <3>2. QED
      BY <3>1
  <2>7. ASSUME NEW x \in due' PROVE ToCome(x)'
    <3>0. PICK t \in Targets : \E i \in 1..Len(timers[t]) : timers[t][i] = x
      BY <2>3, ScheduledMember
    <3>1. PICK i \in 1..Len(timers[t]) : timers[t][i] = x
      BY <3>0
    <3>2. InHash(t) /\ x \in TimersOf(t)
      <4>1. timers[t] # << >>
        BY <3>1
      <4>2. QED
        BY <1>1, <3>1, <4>1 DEF TimersOf
    <3>3. CASE t = c
      <4>1. ~paused[c]
        BY <2>3, <2>7, <3>2, <3>3
      <4>2. Ahead(t, i)'
        BY <1>1, <2>3, <3>3, <4>1 DEF Ahead
      <4>3. QED
        BY <1>2, <3>1, <4>2 DEF ToCome
    <3>4. CASE t # c
      <4>1. Ahead(t, i)'
        BY <2>5, <2>6, <3>2, <3>4 DEF Ahead
      <4>2. QED
        BY <1>2, <3>1, <4>1 DEF ToCome
    <3>5. QED
      BY <3>3, <3>4
  <2>8. ASSUME NEW x \in Scheduled', ToCome(x)' PROVE x \in due'
    <3>1. CASE ~paused[c]
      BY <1>3, <2>3, <2>8, <3>1
    <3>2. CASE paused[c]
      <4>0. PICK t \in Targets : \E i \in 1..Len(timers'[t]) : timers'[t][i] = x /\ Ahead(t, i)'
        BY <2>8 DEF ToCome
      <4>1. PICK i \in 1..Len(timers'[t]) : timers'[t][i] = x /\ Ahead(t, i)'
        BY <4>0
      <4>2. pc' = "leave"
        BY <2>3, <3>2
      <4>3. Before(c, t)
        BY <2>5, <4>1, <4>2 DEF Ahead, Callbacks
      <4>4. t # c
        BY <1>1, <4>3, OrderOfElements
      <4>5. x \in TimersOf(t)
        BY <1>2, <4>1 DEF TimersOf
      <4>6. x \notin TimersOf(c)
        BY <4>4, <4>5 DEF SchedulerInv, NothingTwice, TimersOf
      <4>7. QED
        BY <1>3, <2>3, <3>2, <4>6
    <3>3. QED
      BY <3>1, <3>2
  <2>9. QED
    BY <2>7, <2>8 DEF FrameInv
<1>6. QED
  BY <1>4, <1>5

\* The timer that is ticked is the next one to come.
LEMMA TickTimerFrame ==
  ASSUME SchedulerInv, FrameInv, TickTimer
  PROVE  FrameInv' /\ currentTimer' \in Scheduled /\ ToCome(currentTimer')
<1>1. /\ pc = "timers" /\ timerIndex \in Nat /\ currentTarget \in Targets
      /\ timerIndex < Len(timers[currentTarget]) /\ Len(timers[currentTarget]) \in Nat
      /\ timers \in [Targets -> Seq(Timers)] /\ heap \in [Timers -> TimerObject]
      /\ ~Before(currentTarget, currentTarget)
  BY OrderOfElements DEF SchedulerInv, TypeOK, ElementTypes, StepLocals, TickTimer, NothingTwice
<1>2. timerIndex + 1 \in 1..Len(timers[currentTarget])
  BY <1>1
<1>3. PICK x \in Timers : x = timers[currentTarget][timerIndex + 1]
  BY <1>1, <1>2, ElementOfSeq
<1>4. /\ currentTimer' = x /\ due' = due \ {x}
      /\ \A y \in Timers : y # x => heap'[y] = heap[y]
      /\ pc' \in {"callback", "done"}
      /\ UNCHANGED <<hash, timers, currentTarget, timerIndex>>
  BY <1>1, <1>3 DEF TickTimer, Trigger, TimerDone
<1>5. Scheduled' = Scheduled /\ Scheduled \subseteq Timers
  BY <1>1, <1>4 DEF Scheduled, TimersOf
<1>6. x \in Scheduled /\ ToCome(x)
  <2>1. Ahead(currentTarget, timerIndex + 1)
    BY <1>1 DEF Ahead
  <2>2. QED
    BY <1>1, <1>2, <1>3, <2>1, ScheduledMember DEF ToCome
<1>7. \A t, i : Ahead(t, i)' <=> Before(currentTarget, t) \/ (t = currentTarget /\ i > timerIndex + 1)
  BY <1>4 DEF Ahead, Callbacks, Before
<1>8. \A t, i : Ahead(t, i) <=> Before(currentTarget, t) \/ (t = currentTarget /\ i > timerIndex)
  BY <1>1 DEF Ahead, Callbacks
<1>9. ASSUME NEW y, y # x, ToCome(y) PROVE ToCome(y)'
  <2>0. PICK t \in Targets : \E i \in 1..Len(timers[t]) : timers[t][i] = y /\ Ahead(t, i)
    BY <1>9 DEF ToCome
  <2>1. PICK i \in 1..Len(timers[t]) : timers[t][i] = y /\ Ahead(t, i)
    BY <2>0
  <2>2. t = currentTarget => i # timerIndex + 1
    BY <1>3, <1>9, <2>1
  <2>3. Ahead(t, i)'
    BY <1>1, <1>7, <1>8, <2>1, <2>2
  <2>4. QED
    BY <1>4, <2>1, <2>3 DEF ToCome
<1>10. ASSUME NEW y, ToCome(y)' PROVE ToCome(y) /\ y # x
  <2>0. PICK t \in Targets : \E i \in 1..Len(timers[t]) : timers[t][i] = y /\ Ahead(t, i)'
    BY <1>4, <1>10 DEF ToCome
  <2>1. PICK i \in 1..Len(timers[t]) : timers[t][i] = y /\ Ahead(t, i)'
    BY <2>0
  <2>2. Ahead(t, i)
    BY <1>1, <1>7, <1>8, <2>1
  <2>3. ToCome(y)
    BY <2>1, <2>2 DEF ToCome
  <2>4. y = x => t = currentTarget /\ i = timerIndex + 1
    BY <1>1, <1>2, <1>3, <2>1 DEF SchedulerInv, NothingTwice
  <2>5. QED
    BY <1>1, <1>7, <2>1, <2>3, <2>4
<1>11. FrameInv'
  BY <1>4, <1>5, <1>9, <1>10, FrameKeeps
<1>12. QED
  BY <1>4, <1>6, <1>11

LEMMA FinishTimerFrame ==
  ASSUME SchedulerInv, FrameInv, FinishTimer
  PROVE  FrameInv'
<1>1. /\ pc = "done" /\ pc' = "timers" /\ timerIndex' = timerIndex + 1
      /\ UNCHANGED <<hash, timers, due, currentTarget>>
      /\ heap' = heap \/ (timerSalvaged /\ heap' = [heap EXCEPT ![currentTimer] = Blank])
  BY DEF FinishTimer
<1>2. timerSalvaged => currentTimer \notin Scheduled
  BY DEF SchedulerInv, References
<1>3. Scheduled' = Scheduled
  BY <1>1 DEF Scheduled, TimersOf
<1>4. \A x \in Scheduled : heap'[x] = heap[x]
  BY <1>1, <1>2 DEF SchedulerInv, TypeOK, ElementTypes, Scheduled, TimersOf
<1>5. \A t, i : Ahead(t, i)' <=> Ahead(t, i)
  BY <1>1 DEF Ahead, Callbacks, Before
<1>6. \A x : ToCome(x)' <=> ToCome(x)
  BY <1>1, <1>5 DEF ToCome
<1>7. QED
  BY <1>1, <1>3, <1>4, <1>6, FrameKeeps

\* The next element is the first of those to come; the one that is left may be removed.
LEMMA LeaveElementFrame ==
  ASSUME SchedulerInv, FrameInv, LeaveElement
  PROVE  FrameInv'
<1> DEFINE here == CHOOSE i \in 1..Len(hash) : hash[i] = currentTarget
<1>1. /\ timers \in [Targets -> Seq(Timers)] /\ hash \in Seq(Targets) /\ Len(hash) \in Nat
      /\ \A i, j \in 1..Len(hash) : hash[i] = hash[j] => i = j
      /\ currentTarget \in Targets /\ InHash(currentTarget) /\ timerIndex \in Int
      /\ pc \in {"leave", "timers"}
      /\ pc = "timers" => timerIndex >= Len(timers[currentTarget])
  BY DEF SchedulerInv, TypeOK, ElementTypes, NothingTwice, StepLocals, Elements, LeaveElement
<1>2. PICK d \in Targets : d = currentTarget
  BY <1>1
<1>3. PICK k \in 1..Len(hash) : k = here /\ hash[k] = d
  BY <1>1, <1>2 DEF InHash
<1>4. /\ Enter(hash, k + 1) /\ due' = due \ PausedTimers(hash, k + 1)
      /\ hash' = hash \/ hash' = HashWithout(d)
      /\ UNCHANGED <<timers, heap>>
  BY <1>2, <1>3 DEF LeaveElement, RemoveHashElement
<1> HIDE DEF here
<1>5. Scheduled' = Scheduled
  BY <1>4 DEF Scheduled, TimersOf
<1>6. ASSUME NEW x, ToCome(x)
      PROVE  \E t \in Targets : Before(d, t) /\ x \in TimersOf(t)
  <2>0. PICK t \in Targets : \E i \in 1..Len(timers[t]) : timers[t][i] = x /\ Ahead(t, i)
    BY <1>6 DEF ToCome
  <2>1. PICK i \in 1..Len(timers[t]) : timers[t][i] = x /\ Ahead(t, i)
    BY <2>0
  <2>2. Len(timers[t]) \in Nat
    BY <1>1
  <2>3. Before(d, t)
    BY <1>1, <1>2, <2>1, <2>2 DEF Ahead, Callbacks
  <2>4. QED
    BY <2>1, <2>3 DEF TimersOf
<1>7. ASSUME NEW t \in Targets, Before(d, t), NEW x \in TimersOf(t) PROVE ToCome(x)
  BY <1>2, <1>7 DEF ToCome, Ahead, TimersOf
<1>8. \A u, v : /\ Before(u, v)' => Before(u, v)
                /\ Before(u, v) /\ u # d /\ v # d => Before(u, v)'
  <2>1. CASE hash' = hash
    BY <2>1 DEF Before
  <2>2. CASE hash' = HashWithout(d)
    <3>1. InHash(d)
      BY <1>1, <1>2
    <3>2. QED
      BY <1>1, <2>2, <3>1, HashWithoutOrder
  <2>3. QED
    BY <1>4, <2>1, <2>2
<1>9. CASE k + 1 > Len(hash)
  <2>1. ASSUME NEW v, Before(d, v) PROVE FALSE
    <3>1. PICK i \in 1..Len(hash), j \in 1..Len(hash) : i < j /\ hash[i] = d
      BY <2>1 DEF Before
    <3>2. i = k
      BY <1>1, <1>3, <3>1
    <3>3. QED
      BY <1>1, <1>9, <3>1, <3>2
  <2>2. due = {}
    BY <1>6, <2>1 DEF FrameInv
  <2>3. currentTarget' = NoTarget /\ pc' = "idle"
    BY <1>4, <1>9 DEF Enter
  <2>4. \A v : ~Before(NoTarget, v)'
    <3>1. \A v : ~Before(NoTarget, v)
      BY <1>1, OrderOfElements, NullAssumption
    <3>2. QED
      BY <1>8, <3>1
  <2>5. \A t \in Targets : \A i : ~Ahead(t, i)'
    <3>1. \A t : Before(currentTarget, t)' => Before(NoTarget, t)'
      BY <2>3 DEF Before
    <3>2. QED
      BY <2>3, <2>4, <3>1, NullAssumption DEF Ahead
  <2>6. QED
    BY <1>4, <2>2, <2>5 DEF FrameInv, ToCome
<1>10. CASE ~(k + 1 > Len(hash))
  <2>1. k + 1 \in 1..Len(hash)
    BY <1>1, <1>10
  <2>2. PICK c \in Targets : c = hash[k + 1]
    BY <1>1, <2>1, ElementOfSeq
  <2>3. c # d
    BY <1>1, <1>3, <2>1, <2>2
  <2>4. /\ currentTarget' = c /\ timerIndex' = 0
        /\ pc' = IF paused[c] THEN "leave" ELSE "timers"
        /\ due' = IF paused[c] THEN due \ TimersOf(c) ELSE due
    BY <1>1, <1>4, <1>10, <2>1, <2>2 DEF Enter, PausedTimers
  <2>5. \A v : Before(currentTarget, v)' <=> Before(c, v)'
    BY <2>4 DEF Before
  <2>6. Before(d, c)
    <3>1. k < k + 1
      BY <1>1
    <3>2. QED
      BY <1>3, <2>1, <2>2, <3>1 DEF Before
  <2>7. ASSUME NEW t, Before(d, t), t # c PROVE Before(c, t)
    <3>1. PICK i \in 1..Len(hash), j \in 1..Len(hash) : i < j /\ hash[i] = d /\ hash[j] = t
      BY <2>7 DEF Before
    <3>2. i = k /\ j # k + 1
      BY <1>1, <1>3, <2>2, <2>7, <3>1
    <3>3. k + 1 < j
      BY <1>1, <3>1, <3>2
    <3>4. QED
      BY <2>1, <2>2, <3>1, <3>3 DEF Before
  <2>8. /\ \A t : Before(c, t) => Before(d, t) /\ t # c
        /\ \A t : Before(d, t) => t # d
    BY <1>1, <2>6, OrderOfElements
  <2>9. ASSUME NEW x \in due' PROVE ToCome(x)'
    <3>1. x \in due
      BY <2>4, <2>9
    <3>2. PICK t \in Targets : Before(d, t) /\ x \in TimersOf(t)
      BY <1>6, <3>1 DEF FrameInv
    <3>3. PICK i \in 1..Len(timers[t]) : timers[t][i] = x
      BY <3>2 DEF TimersOf
    <3>4. CASE t = c
      <4>1. pc' = "timers" /\ i > timerIndex'
        BY <2>4, <2>9, <3>2, <3>4
      <4>2. Ahead(t, i)'
        BY <2>4, <3>4, <4>1 DEF Ahead
      <4>3. QED
        BY <1>4, <3>3, <4>2 DEF ToCome
    <3>5. CASE t # c
      <4>1. Before(c, t)'
        BY <1>8, <2>3, <2>7, <2>8, <3>2, <3>5
      <4>2. Ahead(t, i)'
        BY <2>5, <4>1 DEF Ahead
      <4>3. QED
        BY <1>4, <3>3, <4>2 DEF ToCome
    <3>6. QED
      BY <3>4, <3>5
  <2>10. ASSUME NEW x \in Scheduled', ToCome(x)' PROVE ToCome(x) /\ (x \in due => x \in due')
    <3>0. PICK t \in Targets : \E i \in 1..Len(timers[t]) : timers[t][i] = x /\ Ahead(t, i)'
      BY <1>4, <2>10 DEF ToCome
    <3>1. PICK i \in 1..Len(timers[t]) : timers[t][i] = x /\ Ahead(t, i)'
      BY <3>0
    <3>2. x \in TimersOf(t)
      BY <3>1 DEF TimersOf
    <3>3. Before(c, t) \/ (t = c /\ pc' = "timers")
      BY <1>8, <2>4, <2>5, <3>1 DEF Ahead, Callbacks
    <3>4. Before(d, t)
      BY <2>6, <2>8, <3>3
    <3>5. ToCome(x)
      BY <1>7, <3>2, <3>4
    <3>6. paused[c] => x \notin TimersOf(c)
      <4>1. paused[c] => t # c
        BY <2>4, <2>8, <3>3
      <4>2. t # c => TimersOf(t) \cap TimersOf(c) = {}
        BY DEF SchedulerInv, NothingTwice, TimersOf
      <4>3. QED
        BY <3>2, <4>1, <4>2
    <3>7. QED
      BY <2>4, <3>5, <3>6
  <2>11. QED
    BY <1>4, <1>5, <2>9, <2>10 DEF FrameInv
<1>11. QED
  BY <1>9, <1>10

LEMMA FrameStepKeeps == SchedulerInv /\ FrameInv /\ [Next]_vars => FrameInv'
<1> SUFFICES ASSUME SchedulerInv, FrameInv, [Next]_vars PROVE FrameInv'
  OBVIOUS
<1>1. CASE UNCHANGED vars
  BY <1>1, FrameSame DEF vars, elementVars, loopVars, Callbacks
<1>2. QED
  BY <1>1, OperationFrame, StartFrameFrame, TickTimerFrame, CallbackReturnsFrame, FinishTimerFrame,
     LeaveElementFrame DEF Next, FrameStep

LEMMA FrameInvariance == Spec => []FrameInv
<1>1. Init => FrameInv
  <2>1. Init => Scheduled = {} /\ due = {}
    BY DEF Init, Scheduled, TimersOf
  <2>2. QED
    BY <2>1 DEF FrameInv
<1>2. QED
  BY <1>1, FrameStepKeeps, Invariance, PTL DEF Spec

\* A frame leaves no timer out: the ones it began with are ticked, or were unscheduled or
\* paused before the loop came to them.
THEOREM NoTimerIsLeftOut == Spec => []EveryDueTimerTicked
<1>1. SchedulerInv /\ FrameInv => EveryDueTimerTicked
  <2> SUFFICES ASSUME SchedulerInv, FrameInv, pc = "idle" PROVE due = {}
    BY DEF EveryDueTimerTicked
  <2>1. currentTarget = NoTarget /\ NoTarget \notin Targets
    BY NullAssumption DEF SchedulerInv, StepLocals
  <2>2. \A v : ~Before(currentTarget, v)
    BY <2>1, OrderOfElements DEF SchedulerInv, TypeOK, ElementTypes, NothingTwice
  <2>3. \A x : ~ToCome(x)
    BY <2>1, <2>2 DEF ToCome, Ahead
  <2>4. QED
    BY <2>3 DEF FrameInv
<1>2. QED
  BY <1>1, Invariance, FrameInvariance, PTL

\* A frame ticks no timer twice: the timer update() turns to is due, or was never ticked.
THEOREM NoTimerIsTickedTwice == Spec => TickedAtMostOncePerFrame
<1>1. SchedulerInv /\ FrameInv /\ [Next]_vars =>
        [currentTimer' \notin {NoTimer, currentTimer} =>
           currentTimer' \in due \/ heap[currentTimer'].elapsed = -1]_vars
  <2> SUFFICES ASSUME SchedulerInv, FrameInv, Next, currentTimer' \notin {NoTimer, currentTimer}
               PROVE  currentTimer' \in due \/ heap[currentTimer'].elapsed = -1
    OBVIOUS
  <2>1. TickTimer
    BY DEF Next, Operation, ScheduleNew, Reschedule, Unschedule, UnscheduleAllForTarget, UnscheduleAll,
           PauseTarget, PauseAllTargets, ResumeTargets, Call, loopVars, StartFrame, FrameStep,
           CallbackReturns, FinishTimer, LeaveElement
  <2>2. currentTimer' \in Scheduled /\ ToCome(currentTimer')
    BY <2>1, TickTimerFrame
  <2>3. QED
    BY <2>2 DEF FrameInv
<1>2. QED
  BY <1>1, Invariance, FrameInvariance, PTL DEF Spec, TickedAtMostOncePerFrame

-----------------------------------------------------------------------------
(***************************************************************************)
(* The device of MCUpdates is that of FramesInFlight_proofs: the           *)
(* definitions of the two instances are the same, and so a step of the     *)
(* composition is a step of the device or leaves it alone.                 *)
(***************************************************************************)
DeviceProofs == INSTANCE FramesInFlight_proofs

LEMMA SameDeviceInit == Device!Init => DeviceProofs!Init
BY DEF Device!Init, DeviceProofs!Init, Device!Index, DeviceProofs!Index

LEMMA SameDeviceNext == Device!Next => DeviceProofs!Next
<1>1. \A b \in Buffers : Device!CreateBuffer(b) => DeviceProofs!CreateBuffer(b)
  BY DEF
    Device!CreateBuffer, DeviceProofs!CreateBuffer, Device!ScriptRuns, DeviceProofs!ScriptRuns,
    Device!Fresh, DeviceProofs!Fresh, Device!Objects, DeviceProofs!Objects, Device!Index,
    DeviceProofs!Index, Device!frameVars, DeviceProofs!frameVars, Device!poolVars,
    DeviceProofs!poolVars, Device!setVars, DeviceProofs!setVars
<1>2. \A b \in Buffers : Device!DestroyBuffer(b) => DeviceProofs!DestroyBuffer(b)
  BY DEF
    Device!DestroyBuffer, DeviceProofs!DestroyBuffer, Device!ScriptRuns, DeviceProofs!ScriptRuns,
    Device!Collected, DeviceProofs!Collected, Device!Bin, DeviceProofs!Bin, Device!frameVars,
    DeviceProofs!frameVars, Device!poolVars, DeviceProofs!poolVars, Device!setVars,
    DeviceProofs!setVars
<1>3. \A b \in Buffers : Device!Upload(b) => DeviceProofs!Upload(b)
  BY DEF
    Device!Upload, DeviceProofs!Upload, Device!ScriptRuns, DeviceProofs!ScriptRuns,
    Device!frameVars, DeviceProofs!frameVars, Device!poolVars, DeviceProofs!poolVars,
    Device!setVars, DeviceProofs!setVars
<1>4. \A b \in Buffers : Device!Resize(b) => DeviceProofs!Resize(b)
  BY DEF
    Device!Resize, DeviceProofs!Resize, Device!ScriptRuns, DeviceProofs!ScriptRuns,
    Device!Collected, DeviceProofs!Collected, Device!Bin, DeviceProofs!Bin, Device!Fresh,
    DeviceProofs!Fresh, Device!Objects, DeviceProofs!Objects, Device!Index, DeviceProofs!Index,
    Device!Record, DeviceProofs!Record, Device!Written, DeviceProofs!Written, Device!Instance,
    DeviceProofs!Instance, Device!AllOf, DeviceProofs!AllOf, Device!frameVars,
    DeviceProofs!frameVars, Device!poolVars, DeviceProofs!poolVars
<1>5. \A d \in Sets : Device!CreateSet(d) => DeviceProofs!CreateSet(d)
  BY DEF
    Device!CreateSet, DeviceProofs!CreateSet, Device!ScriptRuns, DeviceProofs!ScriptRuns,
    Device!Alive, DeviceProofs!Alive, Device!Index, DeviceProofs!Index, Device!Last,
    DeviceProofs!Last, Device!Front, DeviceProofs!Front, Device!frameVars,
    DeviceProofs!frameVars, Device!resourceVars, DeviceProofs!resourceVars, Device!poolVars,
    DeviceProofs!poolVars
<1>6. \A d \in Sets : Device!DestroySet(d) => DeviceProofs!DestroySet(d)
  BY DEF
    Device!DestroySet, DeviceProofs!DestroySet, Device!ScriptRuns, DeviceProofs!ScriptRuns,
    Device!Alive, DeviceProofs!Alive, Device!Index, DeviceProofs!Index, Device!Instance,
    DeviceProofs!Instance, Device!frameVars, DeviceProofs!frameVars, Device!resourceVars,
    DeviceProofs!resourceVars, Device!poolVars, DeviceProofs!poolVars
<1>7. \A d \in Sets, b \in Buffers : Device!Bind(d, b) => DeviceProofs!Bind(d, b)
  BY DEF
    Device!Bind, DeviceProofs!Bind, Device!ScriptRuns, DeviceProofs!ScriptRuns, Device!Alive,
    DeviceProofs!Alive, Device!Record, DeviceProofs!Record, Device!Written, DeviceProofs!Written,
    Device!Instance, DeviceProofs!Instance, Device!AllOf, DeviceProofs!AllOf, Device!Index,
    DeviceProofs!Index, Device!frameVars, DeviceProofs!frameVars, Device!resourceVars,
    DeviceProofs!resourceVars, Device!poolVars, DeviceProofs!poolVars
<1>8. Device!Acquire => DeviceProofs!Acquire
  BY DEF
    Device!Acquire, DeviceProofs!Acquire, Device!Flush, DeviceProofs!Flush, Device!Written,
    DeviceProofs!Written, Device!Instance, DeviceProofs!Instance, Device!resourceVars,
    DeviceProofs!resourceVars, Device!poolVars, DeviceProofs!poolVars
<1>9. Device!Recreate => DeviceProofs!Recreate
  BY DEF
    Device!Recreate, DeviceProofs!Recreate, Device!Requested, DeviceProofs!Requested,
    Device!resourceVars, DeviceProofs!resourceVars, Device!setVars, DeviceProofs!setVars
<1>10. Device!Recreated => DeviceProofs!Recreated
  BY DEF
    Device!Recreated, DeviceProofs!Recreated, Device!Flush, DeviceProofs!Flush, Device!Written,
    DeviceProofs!Written, Device!Instance, DeviceProofs!Instance, Device!resourceVars,
    DeviceProofs!resourceVars
<1>11. Device!Begin => DeviceProofs!Begin
  BY DEF
    Device!Begin, DeviceProofs!Begin, Device!ScriptRuns, DeviceProofs!ScriptRuns,
    Device!Requested, DeviceProofs!Requested, Device!frameVars, DeviceProofs!frameVars,
    Device!setVars, DeviceProofs!setVars
<1>12. Device!Present => DeviceProofs!Present
  BY DEF
    Device!Present, DeviceProofs!Present, Device!resourceVars, DeviceProofs!resourceVars,
    Device!poolVars, DeviceProofs!poolVars, Device!setVars, DeviceProofs!setVars
<1>13. Device!Waited => DeviceProofs!Waited
  BY DEF
    Device!Waited, DeviceProofs!Waited, Device!InPool, DeviceProofs!InPool, Device!poolVars,
    DeviceProofs!poolVars, Device!setVars, DeviceProofs!setVars
<1>14. Device!Complete => DeviceProofs!Complete
  BY DEF
    Device!Complete, DeviceProofs!Complete, Device!resourceVars, DeviceProofs!resourceVars,
    Device!poolVars, DeviceProofs!poolVars, Device!setVars, DeviceProofs!setVars
<1>15. \A bs \in SUBSET Buffers, ds \in SUBSET Sets : Device!Render(bs, ds) => DeviceProofs!Render(bs, ds)
  BY DEF
    Device!Render, DeviceProofs!Render, Device!Instance, DeviceProofs!Instance, Device!setVars,
    DeviceProofs!setVars
<1>16. QED
  BY <1>1, <1>2, <1>3, <1>4, <1>5, <1>6, <1>7, <1>8, <1>9, <1>10, <1>11, <1>12, <1>13, <1>14,
     <1>15
     DEF Device!Next, DeviceProofs!Next, Device!Script, DeviceProofs!Script, Device!Frame,
         DeviceProofs!Frame

LEMMA BehavesAsDevice == UpdatesSpec => DeviceProofs!Spec
<1>1. UpdatesInit => DeviceProofs!Init
  BY SameDeviceInit DEF UpdatesInit
<1>2. [UpdatesNext]_allVars => [DeviceProofs!Next]_(DeviceProofs!vars)
  BY SameDeviceNext
     DEF UpdatesNext, TimersStep, DeviceStep, allVars, deviceVars, DeviceProofs!vars,
         DeviceProofs!frameVars, DeviceProofs!resourceVars, DeviceProofs!poolVars, DeviceProofs!setVars
<1>3. QED
  BY <1>1, <1>2, PTL DEF UpdatesSpec, DeviceProofs!Spec

LEMMA BehavesAsScheduler == UpdatesSpec => Spec
<1>1. UpdatesInit => Init
  BY DEF UpdatesInit
<1>2. [UpdatesNext]_allVars => [Next]_vars
  BY DEF UpdatesNext, TimersStep, DeviceStep, allVars
<1>3. QED
  BY <1>1, <1>2, PTL DEF UpdatesSpec, Spec

\* The GPU finds everything a frame was submitted with, whatever the script does between the
\* frames, but for what NothingPendingIsReused exempts while the swapchain is recreated.
THEOREM NothingIsReusedEarly ==
  ASSUME DeviceProofs!DeviceAssumption PROVE UpdatesSpec => []NothingPendingIsReused
<1>1. DeviceProofs!Spec => []DeviceProofs!TypeOK
  BY DeviceProofs!DeviceTypesHold
<1>2. DeviceProofs!Spec => []DeviceProofs!NothingPendingIsReused
  BY DeviceProofs!NothingIsReusedEarly
<1>3. DeviceProofs!TypeOK => Device!TypeOK
  BY DEF Device!TypeOK, DeviceProofs!TypeOK, Device!Index, DeviceProofs!Index,
         Device!Objects, DeviceProofs!Objects
<1>4. DeviceProofs!NothingPendingIsReused => Device!NothingPendingIsReused
  BY DEF Device!NothingPendingIsReused, DeviceProofs!NothingPendingIsReused,
         Device!Pending, DeviceProofs!Pending, Device!Exists, DeviceProofs!Exists,
         Device!IsRequested, DeviceProofs!IsRequested, Device!ToSet, DeviceProofs!ToSet,
         Device!Index, DeviceProofs!Index
<1>5. QED
  BY <1>1, <1>2, <1>3, <1>4, BehavesAsDevice, PTL DEF NothingPendingIsReused

\* A frame draws with what its descriptor sets were last given.
THEOREM FramesAreCurrent ==
  ASSUME DeviceProofs!DeviceAssumption PROVE UpdatesSpec => []DescriptorsAreCurrent
<1>1. DeviceProofs!Spec => []DeviceProofs!DescriptorsAreCurrent
  BY DeviceProofs!FramesAreCurrent
<1>2. DeviceProofs!DescriptorsAreCurrent => Device!DescriptorsAreCurrent
  BY DEF Device!DescriptorsAreCurrent, DeviceProofs!DescriptorsAreCurrent,
         Device!Instance, DeviceProofs!Instance
<1>3. QED
  BY <1>1, <1>2, BehavesAsDevice, PTL DEF DescriptorsAreCurrent
=============================================================================
