------------------------------- MODULE MCFrames -------------------------------
(***************************************************************************)
(* What the cocos thread goes through in its frames, for TLC: the update() *)
(* of AudioEngine with the calls that wait for its threads, and that of    *)
(* the scheduler, with timers that end.  They share no state, so that a    *)
(* behaviour is about one of them, `part`; AudioEngine has two parts, with *)
(* more caches or with more sounds.                                        *)
(***************************************************************************)
EXTENDS AudioEngine

CONSTANTS Targets, Keys, Timers, NoTarget, NoTimer, UIntMax, Plans, FrameTimes, MaxCalls

VARIABLES
  part,
  hash, timers, paused, heap, refs, currentTarget, targetSalvaged, timerIndex, currentTimer,
  timerSalvaged, pc, dt, interval, calls, due

Frames == INSTANCE MCScheduler

\* Timers that end: after one trigger, and never though counted (the count wraps).
EndingPlans == {[interval |-> 1, repeat |-> r, delay |-> 0] : r \in {0, UIntMax}}

timerVars ==
  <<hash, timers, paused, heap, refs, currentTarget, targetSalvaged, timerIndex, currentTimer,
    timerSalvaged, pc, dt, interval, calls, due>>

allVars == <<part, vars, timerVars>>

\* A file of which there may be several sounds, or several files.
Few(p) == IF p = "sounds" THEN Cardinality(cached' \cup freed') <= 1 ELSE plays' <= 1

FramesInit == part \in {"timers", "sounds", "caches"} /\ Init /\ Frames!Init

TimersStep(A) == part = "timers" /\ A /\ UNCHANGED <<part, vars>>
AudioStep(A)  == part \in {"sounds", "caches"} /\ A /\ Few(part) /\ UNCHANGED <<part, timerVars>>

FramesNext == TimersStep(Frames!Next) \/ AudioStep(Next)

\* The fairness of each component, for its own part: as a behaviour has one part, what is
\* fair in all of them is stated for them together.
FramesSpec ==
  /\ FramesInit /\ [][FramesNext]_allVars
  /\ WF_allVars(TimersStep(Frames!FrameStep) \/ AudioStep(Threads))
  /\ WF_allVars(AudioStep(Continue \/ Frame))

-----------------------------------------------------------------------------
(***************************************************************************)
(* The properties that are about both, or are checked together; the others *)
(* are those of AudioEngine.                                               *)
(***************************************************************************)
\* The cocos thread and the pool agree on players and caches: none goes while it is started,
\* heard, fed, read or waited for, nor while it is marked as one to be removed.  The code
\* does not keep the last of a player whose destroy() found the cache INITIAL and waited for
\* nothing: that one is exempt (MarkedPlayerIsThere), and the README gives the behaviour.
SoundsKeepWhatTheyUse ==
  SoundsHaveTheirPlayer /\ MarkedPlayerIsThere /\ CachesOutliveTheirUse

\* Every call the cocos thread makes in a frame returns: update() of the scheduler and the
\* calls that wait for the threads of sounds.
CocosThreadGoesOn == []<>(Frames!FrameEnded /\ CallsReturned)

\* Every sound is started or removed, and every load callback called.
SoundsAndLoadsAreAnswered == []<>(main = "ended" \/ Dropped \/ NothingPending)
=============================================================================
