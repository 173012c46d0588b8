------------------------------ MODULE Scheduler ------------------------------
(***************************************************************************)
(* The timer half of cc::Scheduler (cocos/base/Scheduler.cpp): a hash of   *)
(* elements, one per target, each with an array of reference-counted       *)
(* timers, and the frame loop that ticks them.  A timer's callback runs in *)
(* the middle of the loop and may call any operation of the scheduler, so  *)
(* the loop is modelled from callback to callback: between two callbacks   *)
(* the main thread, the only one that touches timers, is deterministic.    *)
(*                                                                         *)
(* Time is discrete, and a timer object is a heap cell of Timers whose     *)
(* reference count is explicit: a cell with count 0 is freed memory that   *)
(* the next schedule() may use again.                                      *)
(***************************************************************************)
EXTENDS Integers, Sequences, SequencesExt

CONSTANTS
  Targets,    (* the objects timers are scheduled for                        *)
  Keys,       (* the names that tell the timers of one target apart          *)
  Timers,     (* the heap cells timer objects are allocated from             *)
  NoTarget,   (* nullptr, as a target                                        *)
  NoTimer,    (* nullptr, as a timer                                         *)
  UIntMax,    (* UINT_MAX                                                    *)
  Plans,      (* the [interval, repeat, delay] that schedule() is given      *)
  FrameTimes, (* the dt that update() is given                               *)
  MaxCalls    (* bound: operations called by one callback or between frames  *)

Plan == [interval : Nat, repeat : 0..UIntMax, delay : Nat]

ASSUME NullAssumption  == NoTarget \notin Targets /\ NoTimer \notin Timers
ASSUME UIntAssumption  == UIntMax \in Nat \ {0}
ASSUME PlansAssumption == Plans \subseteq Plan /\ FrameTimes \subseteq Nat
ASSUME CallsAssumption == MaxCalls \in Nat

VARIABLES
  hash,           (* targets with an element, in the hash's iteration order  *)
  timers,         (* element->timers: the timers of a target, in array order *)
  paused,         (* element->paused                                         *)
  heap,           (* the fields of the timer objects                         *)
  refs,           (* the reference counts of the timer objects               *)
  currentTarget,  (* _currentTarget                                          *)
  targetSalvaged, (* _currentTargetSalvaged                                  *)
  timerIndex,     (* element->timerIndex of the current element, from 0      *)
  currentTimer,   (* element->currentTimer of the current element            *)
  timerSalvaged,  (* element->currentTimerSalvaged of the current element    *)
  pc,             (* where update() is                                       *)
  dt,             (* the argument of update()                                *)
  interval,       (* the local variable of Timer::update                     *)
  calls,          (* operations called since the callback or the pause began *)
  due             (* history: timers the frame began with, not ticked, not   *)
                  (* removed and not seen paused since                       *)

elementVars == <<hash, timers, paused, refs, timerIndex, timerSalvaged, targetSalvaged, due>>
loopVars    == <<currentTarget, currentTimer, pc, dt, interval>>
vars        == <<elementVars, loopVars, heap, calls>>

Forever == UIntMax - 1

Blank == [key |-> NoTimer, interval |-> 0, delay |-> 0, useDelay |-> FALSE,
          repeat |-> 0, elapsed |-> 0, times |-> 0]

\* Mutant: a new timer counts from the frame it is scheduled in.
NewTimerRunning(k, p) == [key |-> k, interval |-> p.interval, delay |-> p.delay,
                          useDelay |-> p.delay > 0, repeat |-> p.repeat,
                          elapsed |-> 0, times |-> 0]

NewTimer(k, p) == [key |-> k, interval |-> p.interval, delay |-> p.delay,
                   useDelay |-> p.delay > 0, repeat |-> p.repeat,
                   elapsed |-> -1, times |-> 0]

InHash(t) == \E i \in 1..Len(hash) : hash[i] = t

HashWithout(t) == IF InHash(t)
                  THEN RemoveAt(hash, CHOOSE i \in 1..Len(hash) : hash[i] = t)
                  ELSE hash

TimersOf(t) == {timers[t][i] : i \in 1..Len(timers[t])}

Scheduled == UNION {TimersOf(t) : t \in Targets}

IndexOfKey(t, k) == {i \in 1..Len(timers[t]) : heap[timers[t][i]].key = k}

-----------------------------------------------------------------------------
Init ==
  /\ hash = << >>
  /\ timers = [t \in Targets |-> << >>]
  /\ paused = [t \in Targets |-> FALSE]
  /\ heap = [x \in Timers |-> Blank]
  /\ refs = [x \in Timers |-> 0]
  /\ currentTarget = NoTarget
  /\ targetSalvaged = FALSE
  /\ timerIndex = 0
  /\ currentTimer = NoTimer
  /\ timerSalvaged = FALSE
  /\ pc = "idle"
  /\ dt = 0
  /\ interval = 0
  /\ calls = 0
  /\ due = {}

(***************************************************************************)
(* The operations.  They are called between two frames (also by the        *)
(* functions update() drains after its loop) or from a timer's callback.   *)
(***************************************************************************)
Call ==
  /\ pc \in {"idle", "callback"}
  /\ calls < MaxCalls
  /\ calls' = calls + 1
  /\ UNCHANGED loopVars

\* Mutant: the running timer is not retained.
SalvagesNone(gone) == FALSE

\* The timers being removed include the running one, which must outlive its step:
\* it is retained, once.
Salvages(gone) == currentTimer \in gone /\ ~timerSalvaged

\* Mutants: the index stays; it does not follow the running timer's own removal; it
\* follows the removal of later timers too; the loop starts over.
IndexKept(t, i)         == timerIndex
IndexAfterEarlier(t, i) == IF t = currentTarget /\ timerIndex > i - 1
                           THEN timerIndex - 1 ELSE timerIndex
IndexAfterAny(t, i)     == IF t = currentTarget THEN timerIndex - 1 ELSE timerIndex
IndexRestarted(t, i)    == IF t = currentTarget THEN -1 ELSE timerIndex

\* timerIndex after timer i of t is removed: it follows the timers behind i.
IndexAfterRemoval(t, i) ==
  IF t = currentTarget /\ timerIndex >= i - 1 THEN timerIndex - 1 ELSE timerIndex

\* removeHashElement: the element is gone from the hash, and freed.
RemoveHashElement(t) ==
  /\ hash' = HashWithout(t)
  /\ paused' = [paused EXCEPT ![t] = FALSE]

\* ccArrayRemoveObjectAtIndex and what unschedule() does around it: the running
\* timer is retained once, the index follows, an emptied element is removed or,
\* when it is the one being visited, marked.  h is the heap before the removal.
RemoveTimerAt(t, i, h) ==
  LET x       == timers[t][i]
      salvage == Salvages({x})
      emptied == Len(timers[t]) = 1
  IN  /\ timers' = [timers EXCEPT ![t] = RemoveAt(@, i)]
      /\ refs' = IF salvage THEN refs ELSE [refs EXCEPT ![x] = @ - 1]
      /\ heap' = IF salvage \/ refs[x] > 1 THEN h ELSE [h EXCEPT ![x] = Blank]
      /\ timerSalvaged' = (timerSalvaged \/ salvage)
      /\ timerIndex' = IndexAfterRemoval(t, i)
      /\ targetSalvaged' = (targetSalvaged \/ (emptied /\ t = currentTarget))
      /\ IF emptied /\ t # currentTarget
         THEN RemoveHashElement(t)
         ELSE UNCHANGED <<hash, paused>>
      /\ due' = due \ {x}

\* unschedule(key, target), also called by TimerTargetCallback::cancel.
DoUnschedule(t, k, h) ==
  IF IndexOfKey(t, k) = {}
  THEN heap' = h /\ UNCHANGED elementVars
  ELSE \E i \in IndexOfKey(t, k) :
         /\ \A j \in IndexOfKey(t, k) : i <= j
         /\ RemoveTimerAt(t, i, h)

Unschedule(t, k) ==
  /\ Call
  /\ DoUnschedule(t, k, heap)

\* schedule() of a key the target already has: only the interval is set.
Reschedule(t, k, p) ==
  /\ Call
  /\ \E i \in IndexOfKey(t, k) :
       heap' = [heap EXCEPT ![timers[t][i]].interval = p.interval]
  /\ UNCHANGED elementVars

\* Mutant: schedule() does not look for the key.
AnyKey(t, k) == TRUE

IsNewKey(t, k) == IndexOfKey(t, k) = {}

\* schedule() of a new key.  An element that is still there keeps its pause
\* flag: that it equals the argument is only asserted, in debug builds.
ScheduleNew(t, k, p, pause) ==
  /\ Call
  /\ IsNewKey(t, k)
  /\ \E x \in Timers :
       /\ refs[x] = 0
       /\ heap' = [heap EXCEPT ![x] = NewTimer(k, p)]
       /\ refs' = [refs EXCEPT ![x] = 1]
       /\ timers' = [timers EXCEPT ![t] = Append(@, x)]
  /\ IF InHash(t)
     THEN UNCHANGED <<hash, paused>>
     ELSE /\ hash' = Append(hash, t)
          /\ paused' = [paused EXCEPT ![t] = pause]
  /\ UNCHANGED <<timerIndex, timerSalvaged, targetSalvaged, due>>

\* What unscheduleAllForTarget does for every target of S: each array loses its
\* reference to each timer, the running timer is retained, the element is removed
\* or, when it is the one being visited, marked.
DoUnscheduleAll(S) ==
  LET gone    == UNION {TimersOf(t) : t \in S}
      salvage == Salvages(gone)
      freed   == {x \in gone : refs[x] = 1 /\ ~(salvage /\ x = currentTimer)}
  IN  /\ timers' = [t \in Targets |-> IF t \in S THEN << >> ELSE timers[t]]
      /\ refs' = [x \in Timers |-> IF x \in gone /\ ~(salvage /\ x = currentTimer)
                                   THEN refs[x] - 1 ELSE refs[x]]
      /\ heap' = [x \in Timers |-> IF x \in freed THEN Blank ELSE heap[x]]
      /\ timerSalvaged' = (timerSalvaged \/ salvage)
      /\ targetSalvaged' = (targetSalvaged \/ currentTarget \in S)
      /\ due' = due \ gone
      /\ UNCHANGED timerIndex

UnscheduleAllForTarget(t) ==
  /\ Call
  /\ InHash(t)
  /\ DoUnscheduleAll({t})
  /\ IF t = currentTarget THEN UNCHANGED <<hash, paused>> ELSE RemoveHashElement(t)

UnscheduleAll ==
  /\ Call
  /\ hash # << >>
  /\ DoUnscheduleAll({t \in Targets : InHash(t)})
  /\ hash' = IF currentTarget = NoTarget THEN << >> ELSE <<currentTarget>>
  /\ paused' = [t \in Targets |-> t = currentTarget /\ paused[t]]

PauseTarget(t) ==
  /\ Call
  /\ paused' = [paused EXCEPT ![t] = InHash(t)]
  /\ UNCHANGED <<hash, timers, heap, refs, timerIndex, timerSalvaged, targetSalvaged, due>>

PauseAllTargets ==
  /\ Call
  /\ paused' = [t \in Targets |-> InHash(t)]
  /\ UNCHANGED <<hash, timers, heap, refs, timerIndex, timerSalvaged, targetSalvaged, due>>

\* resumeTargets(S); resumeTarget(t) is the case S = {t}.
ResumeTargets(S) ==
  /\ Call
  /\ paused' = [t \in Targets |-> paused[t] /\ t \notin S]
  /\ UNCHANGED <<hash, timers, heap, refs, timerIndex, timerSalvaged, targetSalvaged, due>>

-----------------------------------------------------------------------------
(***************************************************************************)
(* The frame loop.                                                         *)
(***************************************************************************)

\* The head of the loop over elements: enter element i of the sequence h, or
\* leave the loop when there is none.
Enter(h, i) ==
  IF i > Len(h)
  THEN /\ pc' = "idle"
       /\ currentTarget' = NoTarget
       /\ calls' = 0
       /\ UNCHANGED <<timerIndex, targetSalvaged>>
  ELSE /\ currentTarget' = h[i]
       /\ targetSalvaged' = FALSE
       /\ pc' = IF paused[h[i]] THEN "leave" ELSE "timers"
       /\ timerIndex' = 0
       /\ UNCHANGED calls

\* The timers that are not due in this frame because element i is paused.
PausedTimers(h, i) ==
  IF i <= Len(h) /\ paused[h[i]] THEN TimersOf(h[i]) ELSE {}

StartFrame(step) ==
  /\ pc = "idle"
  /\ dt' = step
  /\ Enter(hash, 1)
  /\ due' = Scheduled \ PausedTimers(hash, 1)
  /\ UNCHANGED <<hash, timers, paused, heap, refs, currentTimer, timerSalvaged, interval>>

\* A trigger of the running timer: its callback starts.
Trigger(local) ==
  /\ pc' = "callback"
  /\ interval' = local
  /\ calls' = 0

\* The running timer's update() returned.
TimerDone ==
  /\ pc' = "done"
  /\ interval' = 0
  /\ UNCHANGED calls

\* if _interval == 0, should trigger once every frame
LocalInterval(r) == IF r.interval > 0 THEN r.interval ELSE r.elapsed

\* ++_timesExecuted, an unsigned int.  A timer that runs forever never reads its
\* count, which is not kept.
TimesAfter(r) == CASE r.repeat = Forever -> r.times
                   [] r.repeat # Forever /\ r.times = UIntMax -> 0
                   [] OTHER -> r.times + 1

\* Timer::update() up to its first trigger, if it has one.
TickTimer ==
  /\ pc = "timers"
  /\ timerIndex < Len(timers[currentTarget])
  /\ LET x == timers[currentTarget][timerIndex + 1]
         r == IF heap[x].elapsed = -1
              THEN [heap[x] EXCEPT !.elapsed = 0, !.times = 0]
              ELSE [heap[x] EXCEPT !.elapsed = @ + dt]
     IN  /\ currentTimer' = x
         /\ heap' = [heap EXCEPT ![x] = r]
         /\ due' = due \ {x}
         /\ IF heap[x].elapsed # -1 /\ (IF r.useDelay THEN r.elapsed >= r.delay
                                        ELSE r.elapsed >= LocalInterval(r))
            THEN Trigger(IF r.useDelay THEN r.delay ELSE LocalInterval(r))
            ELSE TimerDone
  /\ timerSalvaged' = FALSE
  /\ UNCHANGED <<hash, timers, paused, refs, currentTarget, targetSalvaged, timerIndex, dt>>

\* Mutant: one trigger too many.
SpentLate(r) == r.repeat # Forever /\ r.times > r.repeat + 1

Spent(r) == r.repeat # Forever /\ r.times > r.repeat

\* The callback returns into Timer::update(): account for the trigger, cancel a
\* spent timer, or trigger again.  After the delay's trigger the while loop is
\* entered without looking at isCurrentTargetSalvaged().
CallbackReturns ==
  /\ pc = "callback"
  /\ LET r     == heap[currentTimer]
         next  == [r EXCEPT !.elapsed  = @ - interval,
                            !.times    = TimesAfter(r),
                            !.useDelay = FALSE]
         local == IF r.useDelay THEN LocalInterval(next) ELSE interval
         again == /\ next.elapsed >= local
                  /\ r.useDelay \/ (next.elapsed > 0 /\ ~targetSalvaged)
         h     == [heap EXCEPT ![currentTimer] = next]
     IN  \/ /\ Spent(next)
            /\ DoUnschedule(currentTarget, r.key, h)
            /\ TimerDone
         \/ /\ ~Spent(next)
            /\ IF again THEN Trigger(local) ELSE TimerDone
            /\ heap' = h
            /\ UNCHANGED elementVars
  /\ UNCHANGED <<currentTarget, currentTimer, dt>>

\* Back in Scheduler::update(): release a salvaged timer, go to the next one.
FinishTimer ==
  /\ pc = "done"
  /\ IF timerSalvaged
     THEN /\ refs' = [refs EXCEPT ![currentTimer] = @ - 1]
          /\ heap' = IF refs[currentTimer] = 1
                     THEN [heap EXCEPT ![currentTimer] = Blank] ELSE heap
     ELSE UNCHANGED <<refs, heap>>
  /\ currentTimer' = NoTimer
  /\ timerSalvaged' = FALSE
  /\ timerIndex' = timerIndex + 1
  /\ pc' = "timers"
  /\ UNCHANGED <<hash, timers, paused, currentTarget, targetSalvaged, dt, interval, calls, due>>

\* The end of an element's visit: step to the next element, then remove this one
\* when it was emptied and nothing was scheduled for it since.
LeaveElement ==
  /\ \/ pc = "leave"
     \/ pc = "timers" /\ timerIndex >= Len(timers[currentTarget])
  /\ LET here == CHOOSE i \in 1..Len(hash) : hash[i] = currentTarget
         next == here + 1
     IN  /\ Enter(hash, next)
         /\ due' = due \ PausedTimers(hash, next)
  /\ IF targetSalvaged /\ timers[currentTarget] = << >>
     THEN RemoveHashElement(currentTarget)
     ELSE UNCHANGED <<hash, paused>>
  /\ UNCHANGED <<timers, heap, refs, currentTimer, timerSalvaged, dt, interval>>

-----------------------------------------------------------------------------
Operation ==
  \/ \E t \in Targets, k \in Keys, p \in Plans, b \in BOOLEAN : ScheduleNew(t, k, p, b)
  \/ \E t \in Targets, k \in Keys, p \in Plans : Reschedule(t, k, p)
  \/ \E t \in Targets, k \in Keys : Unschedule(t, k)
  \/ \E t \in Targets : UnscheduleAllForTarget(t)
  \/ UnscheduleAll
  \/ \E t \in Targets : PauseTarget(t)
  \/ PauseAllTargets
  \/ \E S \in SUBSET Targets : ResumeTargets(S)

FrameStep ==
  \/ TickTimer
  \/ CallbackReturns
  \/ FinishTimer
  \/ LeaveElement

Next ==
  \/ Operation
  \/ \E step \in FrameTimes : StartFrame(step)
  \/ FrameStep

Spec == Init /\ [][Next]_vars

\* The main thread goes on with a frame it has begun; nothing obliges anyone to
\* call an operation or to begin a frame.
FairSpec == Spec /\ WF_vars(FrameStep)

-----------------------------------------------------------------------------
(***************************************************************************)
(* Properties.                                                             *)
(***************************************************************************)
Callbacks == pc \in {"callback", "done"}

TimerObject == [key : Keys \cup {NoTimer}, interval : Nat, delay : Nat,
                useDelay : BOOLEAN, repeat : 0..UIntMax,
                elapsed : Nat \cup {-1}, times : 0..UIntMax]

ElementTypes ==
  /\ hash \in Seq(Targets)
  /\ timers \in [Targets -> Seq(Timers)]
  /\ paused \in [Targets -> BOOLEAN]
  /\ heap \in [Timers -> TimerObject]
  /\ refs \in [Timers -> 0..1]
  /\ targetSalvaged \in BOOLEAN
  /\ timerSalvaged \in BOOLEAN
  /\ timerIndex \in Int /\ timerIndex >= -1
  /\ due \in SUBSET Timers

\* Every variable has its type; in particular timerIndex may be -1, and at most one
\* of an array and the salvage refers to a timer.
TypeOK ==
  /\ ElementTypes
  /\ currentTarget \in Targets \cup {NoTarget}
  /\ currentTimer \in Timers \cup {NoTimer}
  /\ pc \in {"idle", "timers", "callback", "done", "leave"}
  /\ dt \in Nat
  /\ interval \in Nat
  /\ calls \in 0..MaxCalls

\* Whatever a callback unschedules, update() finds the running timer and the
\* element it is visiting alive, and memory is freed exactly when nothing refers
\* to it: a timer lives while an array or the salvage holds it, and an element
\* that is not being visited is in the hash while it has timers.
MemorySafe ==
  /\ \A x \in Timers :
       refs[x] > 0 <=> x \in Scheduled \/ (timerSalvaged /\ x = currentTimer)
  /\ Callbacks => currentTimer \in Timers /\ refs[currentTimer] > 0
  /\ pc # "idle" => InHash(currentTarget)
  /\ \A t \in Targets \ {currentTarget} : InHash(t) <=> timers[t] # << >>

\* The loop index follows every removal: unless it was removed, the running timer
\* is the one at timerIndex, so that ++timerIndex neither skips nor repeats.
IndexAtCurrentTimer ==
  Callbacks /\ ~timerSalvaged =>
    /\ timerIndex \in 0..(Len(timers[currentTarget]) - 1)
    /\ timers[currentTarget][timerIndex + 1] = currentTimer

\* A frame leaves no timer out: when it ends, each timer it began with has been
\* ticked, or was unscheduled, or belonged to a target that was paused when the
\* loop came to it, whatever the callbacks removed and added meanwhile.
EveryDueTimerTicked == pc = "idle" => due = {}

\* A frame ticks no timer twice: the timer update() turns to is one the frame began
\* with and has not ticked, or one scheduled during it and never ticked before.
TickedAtMostOncePerFrame ==
  [][currentTimer' \notin {NoTimer, currentTimer} =>
       currentTimer' \in due \/ heap[currentTimer'].elapsed = -1]_vars

\* A target has one timer of a key, whatever callbacks schedule and unschedule.
KeysApart ==
  \A t \in Targets : \A x, y \in TimersOf(t) : heap[x].key = heap[y].key => x = y

TriggersLeft == \A x \in Scheduled : heap[x].repeat # Forever => heap[x].times <= heap[x].repeat

\* A timer with a finite repeat triggers repeat + 1 times and no more: once it has, it is in
\* no array.  It is cancelled by its key, under which there is no second timer beside it: what
\* cancel() removes is the spent timer, or, if the callback took that one out of its array,
\* the one the callback put there under the same key, which the code does lose.
SpentTimerIsGone == KeysApart /\ TriggersLeft

\* Every frame ends, whatever its callbacks schedule and unschedule: a timer added
\* during a frame does not trigger in it.
FrameEnded == pc = "idle"

\* Why these hold, as an inductive invariant.  The elements, whatever update() is
\* doing: no timer is in two places and the retained one is in none, references are
\* counted, and the running timer, unless retained, is where timerIndex says.
NothingTwice ==
  /\ \A i, j \in 1..Len(hash) : hash[i] = hash[j] => i = j
  /\ \A t, u \in Targets : \A i \in 1..Len(timers[t]), j \in 1..Len(timers[u]) :
       timers[t][i] = timers[u][j] => t = u /\ i = j

References ==
  /\ \A x \in Timers :
       refs[x] = IF x \in Scheduled \/ (timerSalvaged /\ x = currentTimer) THEN 1 ELSE 0
  /\ timerSalvaged => currentTimer \in Timers \ Scheduled

Elements ==
  /\ \A t \in Targets \ {currentTarget} : InHash(t) <=> timers[t] # << >>
  /\ currentTarget \in Targets => InHash(currentTarget)

RunningTimer ==
  currentTimer \in Timers =>
    /\ currentTarget \in Targets
    /\ timers[currentTarget] = << >> => targetSalvaged
    /\ ~timerSalvaged => /\ timerIndex \in 0..(Len(timers[currentTarget]) - 1)
                         /\ timers[currentTarget][timerIndex + 1] = currentTimer

\* And what update() has under way: which locals are set where, a trigger is due
\* only when enough time has elapsed, and an element is left unmarked only when it
\* has timers.
StepLocals ==
  /\ currentTarget = NoTarget <=> pc = "idle"
  /\ Callbacks <=> currentTimer # NoTimer
  /\ pc = "callback" => heap[currentTimer].elapsed >= interval
  /\ pc = "timers" => timerIndex >= 0
  /\ pc = "timers" /\ timers[currentTarget] = << >> => targetSalvaged
  /\ pc = "leave" => timers[currentTarget] # << >>

SchedulerInv ==
  TypeOK /\ NothingTwice /\ References /\ Elements /\ RunningTimer /\ StepLocals

(***************************************************************************)
(* What comments and documentation say and update() does not do.           *)
(***************************************************************************)
TriggerBegins == pc = "callback" /\ calls = 0

\* Scheduler.h on pauseTarget: no timer of a paused target is ticked until it is
\* resumed.  update() reads the flag once, before the element's first timer.
PausedTargetIsNotTriggered == TriggerBegins => ~paused[currentTarget]

\* Timer::update: a timer with interval 0 triggers once every frame.  In the frame
\* its delay ends it triggers for the delay and again for what is left.
ZeroIntervalTriggersOncePerFrame ==
  [][pc = "callback" /\ TriggerBegins' => heap'[currentTimer].interval # 0]_vars
=============================================================================
