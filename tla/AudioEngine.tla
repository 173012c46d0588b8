----------------------------- MODULE AudioEngine -----------------------------
(***************************************************************************)
(* cc::AudioEngine (cocos/audio/AudioEngine.cpp) with the OpenAL player    *)
(* (cocos/audio/oalsoft): sounds whose files are read into caches by a     *)
(* pool of threads, which also start the sounds that wait for a file; the  *)
(* stop of a sound, the removal of a cache and the end of the engine,      *)
(* which wait for those threads.                                           *)
(*                                                                         *)
(* A cache has one task, so that a thread of the pool is named by the      *)
(* cache it works on.  Caches and sounds are numbered as they are created; *)
(* a file that is cached again is another cache.  The pool's condition is  *)
(* tested and waited for under one mutex: an idle thread is one that is    *)
(* about to find the next task.  _threadMutex is held from a player being  *)
(* found to its being started, _playCallbackMutex while callbacks are      *)
(* called; each other critical section is one step.                        *)
(***************************************************************************)
EXTENDS Integers, Sequences, FiniteSets

CONSTANTS
  PoolThreads, (* the size of AudioEngineThreadPool           *)
  MaxCaches,   (* bound: caches created in a behaviour        *)
  MaxPlays,    (* bound: sounds played in a behaviour         *)
  MaxLoads     (* bound: preloads with a callback             *)

ASSUME SizesAssumption ==
  PoolThreads \in Nat \ {0} /\ MaxCaches \in Nat /\ MaxPlays \in Nat /\ MaxLoads \in Nat

Caches == 1..MaxCaches
Plays  == 1..MaxPlays

VARIABLES
  (* of a cache *)
  state,         (* _state                                                   *)
  streams,       (* the caches too large to hold: _queBufferFrames > 0       *)
  cached,        (* the caches in _audioCaches                               *)
  freed,         (* the caches whose memory is gone                          *)
  doomedCaches,  (* *_isDestroyed                                            *)
  finished,      (* _isLoadingFinished                                       *)
  skipped,       (* _isSkipReadDataTask                                      *)
  playCallbacks, (* _playCallbacks, by player                                *)
  loadCallbacks, (* the length of _loadCallbacks                             *)
  (* of the pool *)
  tasks,         (* _taskQueue, by cache                                     *)
  stop,          (* _stop                                                    *)
  task,          (* where the thread with each cache's task is               *)
  (* of a player *)
  players,       (* those in _audioPlayers                                   *)
  cacheOf,       (* _audioCache                                              *)
  destroyed,     (* _isDestroyed                                             *)
  toRemove,      (* _removeByAudioEngine                                     *)
  ready,         (* _ready                                                   *)
  source,        (* the state of its OpenAL source                           *)
  rotating,      (* the players whose rotateBufferThread runs                *)
  info,          (* those in _audioIDInfoMap                                 *)
  (* of the cocos thread *)
  main, op,      (* where it is, and in which call                           *)
  player, cache, (* the player and the cache it has at hand                  *)
  toStop, toFree,(* the players and caches the call has still to destroy     *)
  scan,          (* the players update() has still to look at                *)
  functions,     (* the functions posted by invokingLoadCallbacks            *)
  plays, loads,  (* how many sounds were played and callbacks given          *)
  (* history *)
  unwaited       (* of a player: the number of sounds played so far when     *)
                 (* destroy() found nothing to wait for, otherwise 0         *)

cacheVars  == <<state, streams, cached, freed, doomedCaches, finished, skipped, loadCallbacks>>
playerVars == <<players, cacheOf, destroyed, toRemove, ready, source, rotating, info>>
mainVars   == <<main, op, player, cache, toStop, toFree, scan, plays, loads>>
vars == <<cacheVars, playCallbacks, tasks, stop, task, playerVars, mainVars, functions, unwaited>>

Init ==
  /\ state = [c \in Caches |-> "INITIAL"]
  /\ streams = {} /\ cached = {} /\ freed = {}
  /\ doomedCaches = {} /\ finished = {} /\ skipped = {}
  /\ playCallbacks = [c \in Caches |-> << >>] /\ loadCallbacks = [c \in Caches |-> 0]
  /\ tasks = << >> /\ stop = FALSE /\ task = [c \in Caches |-> "none"]
  /\ players = {} /\ cacheOf = [p \in Plays |-> 0]
  /\ destroyed = {} /\ toRemove = {} /\ ready = {}
  /\ source = [p \in Plays |-> "silent"] /\ rotating = {} /\ info = {}
  /\ main = "idle" /\ op = "none" /\ player = 0 /\ cache = 0
  /\ toStop = {} /\ toFree = {} /\ scan = {}
  /\ functions = << >>
  /\ plays = 0 /\ loads = 0
  /\ unwaited = [p \in Plays |-> 0]

Goto(c, place) == task' = [task EXCEPT ![c] = place]

\* What the cocos thread had at hand is forgotten.
BackToIdle == main' = "idle" /\ op' = "none" /\ player' = 0 /\ cache' = 0

\* The mutexes that are held for more than a step.
ThreadMutexFree      == \A c \in Caches : task[c] \notin {"found", "starting"}
CallbackMutexFree(c) == task[c] \notin {"calling", "marking", "found", "starting"}
ReadMutexFree(c)     == task[c] \notin {"reading", "invoke", "calling", "marking", "found", "starting",
                                        "loaded", "finish", "unlock"}

Busy == {c \in Caches : task[c] \notin {"none", "queued", "over"}}

-----------------------------------------------------------------------------
(***************************************************************************)
(* A thread of the pool.                                                   *)
(***************************************************************************)
TakeTask(c) ==
  /\ tasks # << >> /\ Head(tasks) = c
  /\ ~stop /\ Cardinality(Busy) < PoolThreads
  /\ tasks' = Tail(tasks)
  /\ Goto(c, "taken")
  /\ UNCHANGED <<cacheVars, playCallbacks, stop, playerVars, mainVars, functions, unwaited>>

\* Mutant: the destructor of the cache is not told.
NotSkipped(c) == skipped

Skipped(c) == skipped \cup {c}

SkipTask(c) ==
  /\ task[c] = "taken" /\ c \in doomedCaches
  /\ skipped' = Skipped(c)
  /\ Goto(c, "over")
  /\ UNCHANGED <<state, streams, cached, freed, doomedCaches, finished, loadCallbacks,
                 playCallbacks, tasks, stop, playerVars, mainVars, functions, unwaited>>

\* readDataTask
ReadData(c) ==
  /\ task[c] = "taken" /\ c \notin doomedCaches
  /\ state' = [state EXCEPT ![c] = "LOADING"]
  /\ Goto(c, "reading")
  /\ UNCHANGED <<streams, cached, freed, doomedCaches, finished, skipped, loadCallbacks,
                 playCallbacks, tasks, stop, playerVars, mainVars, functions, unwaited>>

\* The file is decoded, or cannot be, or is not because the cache is destroyed.
DataRead(c) ==
  /\ task[c] = "reading"
  /\ \E s \in {"READY", "FAILED"}, large \in BOOLEAN :
       /\ state' = [state EXCEPT ![c] = s]
       /\ streams' = IF large THEN streams \cup {c} ELSE streams
  /\ Goto(c, "invoke")
  /\ UNCHANGED <<cached, freed, doomedCaches, finished, skipped, loadCallbacks,
                 playCallbacks, tasks, stop, playerVars, mainVars, functions, unwaited>>

\* invokingPlayCallbacks waits for addPlayCallback.
LockCallbacks(c) ==
  /\ task[c] = "invoke"
  /\ ~(main = "call" /\ cacheOf[player] = c)
  /\ Goto(c, "calling")
  /\ UNCHANGED <<cacheVars, playCallbacks, tasks, stop, playerVars, mainVars, functions, unwaited>>

NextCallback(c) == playCallbacks' = [playCallbacks EXCEPT ![c] = Tail(@)]

MayPlay(c) == c \notin doomedCaches /\ state[c] = "READY"

\* _play2d finds the player, if it is still there, under _threadMutex, ...
FindPlayer(c) ==
  /\ task[c] = "calling" /\ playCallbacks[c] # << >>
  /\ MayPlay(c) /\ ThreadMutexFree
  /\ IF Head(playCallbacks[c]) \in players
     THEN Goto(c, "found") /\ UNCHANGED playCallbacks
     ELSE NextCallback(c) /\ UNCHANGED task
  /\ UNCHANGED <<cacheVars, tasks, stop, playerVars, mainVars, functions, unwaited>>

\* ... or looks it up without the mutex ...
LookUpPlayer(c) ==
  /\ task[c] = "calling" /\ playCallbacks[c] # << >>
  /\ ~MayPlay(c)
  /\ IF Head(playCallbacks[c]) \in players
     THEN Goto(c, "marking") /\ UNCHANGED playCallbacks
     ELSE NextCallback(c) /\ UNCHANGED task
  /\ UNCHANGED <<cacheVars, tasks, stop, playerVars, mainVars, functions, unwaited>>

\* What a write to player p reaches: if it was deleted meanwhile, memory that is free or that
\* is a player again, one played since.
Reached(p) == {p} \cup {q \in players : unwaited[p] \in 1..(q - 1)}

\* ... and then has it removed.
MarkPlayer(c) ==
  /\ task[c] = "marking"
  /\ \E p \in Reached(Head(playCallbacks[c])) : toRemove' = toRemove \cup {p}
  /\ NextCallback(c)
  /\ Goto(c, "calling")
  /\ UNCHANGED <<cacheVars, tasks, stop, players, cacheOf, destroyed, ready, source, rotating,
                 info, mainVars, functions, unwaited>>

\* AudioPlayer::play2d asks whether the player is destroyed ...
TestPlayer(c) ==
  /\ task[c] = "found"
  /\ LET p == Head(playCallbacks[c])
     IN  IF p \in destroyed
         THEN toRemove' = toRemove \cup {p} /\ NextCallback(c) /\ Goto(c, "calling")
         ELSE Goto(c, "starting") /\ UNCHANGED <<toRemove, playCallbacks>>
  /\ UNCHANGED <<cacheVars, tasks, stop, players, cacheOf, destroyed, ready, source, rotating,
                 info, mainVars, functions, unwaited>>

\* ... and starts its source, with a thread that feeds it if the file is large.  OpenAL
\* may refuse to play it.
StartsOrNot(p, c) ==
  LET fed == IF c \in streams THEN rotating \cup {p} ELSE rotating
  IN  \/ /\ source' = [source EXCEPT ![p] = "playing"]
         /\ ready' = ready \cup {p}
         /\ rotating' = fed
         /\ UNCHANGED toRemove
      \/ /\ toRemove' = toRemove \cup {p}
         /\ rotating' \in {rotating, fed}
         /\ UNCHANGED <<source, ready>>

StartPlayer(c) ==
  /\ task[c] = "starting"
  /\ StartsOrNot(Head(playCallbacks[c]), c)
  /\ NextCallback(c)
  /\ Goto(c, "calling")
  /\ UNCHANGED <<cacheVars, tasks, stop, players, cacheOf, destroyed, info, mainVars, functions, unwaited>>

CallbacksDone(c) ==
  /\ task[c] = "calling" /\ playCallbacks[c] = << >>
  /\ Goto(c, "loaded")
  /\ UNCHANGED <<cacheVars, playCallbacks, tasks, stop, playerVars, mainVars, functions, unwaited>>

\* invokingLoadCallbacks
PostLoaded(c) ==
  /\ task[c] = "loaded"
  /\ functions' = IF c \in doomedCaches THEN functions ELSE Append(functions, c)
  /\ Goto(c, "finish")
  /\ UNCHANGED <<cacheVars, playCallbacks, tasks, stop, playerVars, mainVars, unwaited>>

FinishLoading(c) ==
  /\ task[c] = "finish"
  /\ finished' = finished \cup {c}
  /\ Goto(c, "unlock")
  /\ UNCHANGED <<state, streams, cached, freed, doomedCaches, skipped, loadCallbacks,
                 playCallbacks, tasks, stop, playerVars, mainVars, functions, unwaited>>

UnlockRead(c) ==
  /\ task[c] = "unlock"
  /\ Goto(c, "over")
  /\ UNCHANGED <<cacheVars, playCallbacks, tasks, stop, playerVars, mainVars, functions, unwaited>>

-----------------------------------------------------------------------------
\* The thread of a large file ends when the player is destroyed, ...
RotateStops(p) ==
  /\ p \in rotating /\ p \in destroyed
  /\ rotating' = rotating \ {p}
  /\ UNCHANGED <<cacheVars, playCallbacks, tasks, stop, task, players, cacheOf, destroyed,
                 toRemove, ready, source, info, mainVars, functions, unwaited>>

\* ... or with the file; a source stops when it has nothing more to play.
StreamEnds(p) ==
  /\ p \in rotating
  /\ rotating' = rotating \ {p}
  /\ UNCHANGED <<cacheVars, playCallbacks, tasks, stop, task, players, cacheOf, destroyed,
                 toRemove, ready, source, info, mainVars, functions, unwaited>>

SourceEnds(p) ==
  /\ source[p] = "playing"
  /\ source' = [source EXCEPT ![p] = "stopped"]
  /\ UNCHANGED <<cacheVars, playCallbacks, tasks, stop, task, players, cacheOf, destroyed,
                 toRemove, ready, rotating, info, mainVars, functions, unwaited>>

-----------------------------------------------------------------------------
(***************************************************************************)
(* The cocos thread: preload and play2d.                                   *)
(***************************************************************************)
\* The cache of a file that is cached, or a new one with its task.
Cache(c) ==
  \/ c \in cached /\ UNCHANGED <<cached, tasks, task>>
  \/ /\ c = Cardinality(cached \cup freed) + 1
     /\ cached' = cached \cup {c}
     /\ tasks' = Append(tasks, c)
     /\ Goto(c, "queued")

\* Mutant: a callback is kept until the next load.
KeepsAlways(c) == TRUE

\* addLoadCallback and addPlayCallback keep a callback until the file is read.
Keeps(c) == state[c] \in {"INITIAL", "LOADING"}

Preload(c) ==
  /\ main = "idle" /\ loads < MaxLoads
  /\ Cache(c)
  /\ loads' = loads + 1
  /\ loadCallbacks' = [loadCallbacks EXCEPT ![c] = IF Keeps(c) THEN @ + 1 ELSE @]
  /\ UNCHANGED <<state, streams, freed, doomedCaches, finished, skipped, playCallbacks, stop,
                 playerVars, main, op, player, cache, toStop, toFree, scan, plays, functions, unwaited>>

Play(c) ==
  /\ main = "idle" /\ plays < MaxPlays
  /\ Cache(c)
  /\ ThreadMutexFree
  /\ plays' = plays + 1
  /\ player' = plays + 1
  /\ cacheOf' = [cacheOf EXCEPT ![player'] = c]
  /\ players' = players \cup {player'}
  /\ main' = "add"
  /\ UNCHANGED <<state, streams, freed, doomedCaches, finished, skipped, loadCallbacks,
                 playCallbacks, stop, destroyed, toRemove, ready, source, rotating, info, op,
                 cache, toStop, toFree, scan, loads, functions, unwaited>>

\* addPlayCallback; the sound gets its AudioInfo when the call returns.
AddPlayCallback ==
  /\ main = "add"
  /\ LET c == cacheOf[player]
     IN  /\ CallbackMutexFree(c)
         /\ IF Keeps(c)
            THEN /\ playCallbacks' = [playCallbacks EXCEPT ![c] = Append(@, player)]
                 /\ info' = info \cup {player}
                 /\ BackToIdle
            ELSE main' = "call" /\ UNCHANGED <<playCallbacks, info, op, player, cache>>
  /\ UNCHANGED <<cacheVars, tasks, stop, task, players, cacheOf, destroyed, toRemove, ready,
                 source, rotating, toStop, toFree, scan, plays, loads, functions, unwaited>>

\* _play2d in the cocos thread.
CallPlay ==
  /\ main = "call"
  /\ LET c == cacheOf[player]
     IN  \/ MayPlay(c) /\ ThreadMutexFree /\ StartsOrNot(player, c)
         \/ ~MayPlay(c) /\ toRemove' = toRemove \cup {player} /\ UNCHANGED <<source, ready, rotating>>
  /\ info' = info \cup {player}
  /\ BackToIdle
  /\ UNCHANGED <<cacheVars, playCallbacks, tasks, stop, task, players, cacheOf, destroyed,
                 toStop, toFree, scan, plays, loads, functions, unwaited>>

-----------------------------------------------------------------------------
(***************************************************************************)
(* The cocos thread: the calls that stop sounds and free caches, and the   *)
(* update of every frame.                                                  *)
(***************************************************************************)
Begin(call, stopped, removed) ==
  /\ main = "idle"
  /\ op' = call
  /\ toStop' = stopped /\ toFree' = removed
  /\ main' = IF stopped # {} THEN "stop" ELSE IF call = "uncache" THEN "free" ELSE "update"
  /\ scan' = players
  /\ UNCHANGED <<cacheVars, playCallbacks, tasks, stop, task, playerVars, player, cache, plays,
                 loads, functions, unwaited>>

Stop(p)    == p \in info /\ Begin("stop", {p}, {})
StopAll    == players # {} /\ Begin("stopAll", players, {})
Uncache(c) == c \in cached /\ Begin("uncache", {p \in info : cacheOf[p] = c}, {c})
UncacheAll == cached # {} /\ Begin("uncacheAll", players, cached)
End        == Begin("end", players, cached)
Frame      == (players # {} \/ functions # << >>) /\ Begin("frame", {}, {})

\* stop(), uncache() and the others call destroy() of a player, and forget its AudioInfo.
DestroyNext ==
  /\ main = "stop"
  /\ \E p \in toStop :
       /\ player' = p
       /\ toStop' = toStop \ {p}
       /\ info' = info \ {p}
  /\ main' = "destroy"
  /\ UNCHANGED <<cacheVars, playCallbacks, tasks, stop, task, players, cacheOf, destroyed,
                 toRemove, ready, source, rotating, op, cache, toFree, scan, plays, loads, functions, unwaited>>

\* Mutant: the flag is set when there is nothing to wait for any more.
FlagLast(at) == IF at = "silence" THEN destroyed \cup {player} ELSE destroyed

\* When destroy() sets _isDestroyed.
Flagged(at) == IF at = "destroy" THEN destroyed \cup {player} ELSE destroyed

SetDestroyed ==
  /\ main = "destroy"
  /\ destroyed' = Flagged("destroy")
  /\ main' = IF player \in destroyed THEN "destroyed" ELSE "test"
  /\ UNCHANGED <<cacheVars, playCallbacks, tasks, stop, task, players, cacheOf, toRemove, ready,
                 source, rotating, info, op, player, cache, toStop, toFree, scan, plays, loads, functions, unwaited>>

\* If the task has not begun there is nothing to wait for.
TestInitial ==
  /\ main = "test"
  /\ IF state[cacheOf[player]] = "INITIAL"
     THEN main' = "silence" /\ unwaited' = [unwaited EXCEPT ![player] = plays]
     ELSE main' = "wait" /\ UNCHANGED unwaited
  /\ UNCHANGED <<cacheVars, playCallbacks, tasks, stop, task, playerVars, op, player, cache,
                 toStop, toFree, scan, plays, loads, functions>>

\* Mutant: a file that has been read, or could not be, is taken for a task that is over.
FileRead == state[cacheOf[player]] \in {"READY", "FAILED"}

LoadingFinished == cacheOf[player] \in finished

\* It waits for the task, for play2d and for the thread that feeds the source.
WaitLoaded ==
  /\ main = "wait"
  /\ LoadingFinished /\ player \notin rotating
  /\ main' = "silence"
  /\ UNCHANGED <<cacheVars, playCallbacks, tasks, stop, task, playerVars, op, player, cache,
                 toStop, toFree, scan, plays, loads, functions, unwaited>>

Silence ==
  /\ main = "silence"
  /\ destroyed' = Flagged("silence")
  /\ source' = [source EXCEPT ![player] = "silent"]
  /\ toRemove' = toRemove \cup {player}
  /\ ready' = ready \ {player}
  /\ main' = "destroyed"
  /\ UNCHANGED <<cacheVars, playCallbacks, tasks, stop, task, players, cacheOf, rotating, info,
                 op, player, cache, toStop, toFree, scan, plays, loads, functions, unwaited>>

\* After destroy() of a player that update() has erased the loop goes on; stopAll goes on
\* with the next player, and the other calls with update().
Destroyed ==
  /\ main = "destroyed"
  /\ LET erased == player \notin players
         more   == op \in {"stopAll", "uncacheAll", "end"} /\ toStop # {}
     IN  /\ main' = IF ~erased /\ more THEN "stop" ELSE "update"
         /\ scan' = IF erased THEN scan ELSE players
  /\ UNCHANGED <<cacheVars, playCallbacks, tasks, stop, task, playerVars, op, player, cache,
                 toStop, toFree, plays, loads, functions, unwaited>>

\* Mutant: the AudioInfo of a sound that is to be removed is kept.
InfoKept(p) == IF p \in toRemove THEN info ELSE info \ {p}

InfoLeft(p) == info \ {p}

Over(p) == p \in toRemove \/ (p \in ready /\ source[p] = "stopped")

\* Mutant: a call stops the next sound though it is gone.
StopsErased(p) == toStop

\* What _checkAudioIdValid leaves to be stopped.
StopsValid(p) == toStop \ {p}

\* update() erases a sound that is over, and deletes its player: ~AudioPlayer destroys it,
\* if that has not been done.  uncache() then has no player left to stop.
UpdateErases ==
  /\ main = "update"
  /\ \E p \in scan :
       /\ Over(p) /\ ThreadMutexFree
       /\ scan' = scan \ {p}
       /\ info' = InfoLeft(p)
       /\ players' = players \ {p}
       /\ toStop' = StopsValid(p)
       /\ player' = p
  /\ main' = "destroy"
  /\ UNCHANGED <<cacheVars, playCallbacks, tasks, stop, task, cacheOf, destroyed, toRemove, ready,
                 source, rotating, op, cache, toFree, plays, loads, functions, unwaited>>

UpdatePasses ==
  /\ main = "update"
  /\ \E p \in scan : ~Over(p) /\ scan' = scan \ {p}
  /\ UNCHANGED <<cacheVars, playCallbacks, tasks, stop, task, playerVars, main, op, player, cache,
                 toStop, toFree, plays, loads, functions, unwaited>>

\* update() returns to the call that goes on, end() with the destructor of the pool, or
\* to the caller.
AfterUpdate ==
  IF toStop # {} THEN "stop"
  ELSE CASE op = "frame"                     -> "perform"
         [] op = "end"                       -> "joinPool"
         [] op \in {"uncache", "uncacheAll"} -> "free"
         [] OTHER                            -> "idle"

UpdateReturns ==
  /\ main = "update" /\ scan = {}
  /\ IF AfterUpdate = "idle" THEN BackToIdle ELSE main' = AfterUpdate /\ UNCHANGED <<op, player, cache>>
  /\ stop' = (AfterUpdate = "joinPool")
  /\ UNCHANGED <<cacheVars, playCallbacks, tasks, task, playerVars, toStop, toFree, scan, plays,
                 loads, functions, unwaited>>

\* The frame ends with the functions: each calls the callbacks of its cache, if that has
\* not been destroyed.
PerformFunctions ==
  /\ main = "perform"
  /\ LET done == {functions[i] : i \in DOMAIN functions} \ doomedCaches
     IN  loadCallbacks' = [c \in Caches |-> IF c \in done THEN 0 ELSE loadCallbacks[c]]
  /\ functions' = << >>
  /\ BackToIdle
  /\ UNCHANGED <<state, streams, cached, freed, doomedCaches, finished, skipped, playCallbacks,
                 tasks, stop, task, playerVars, toStop, toFree, scan, plays, loads, unwaited>>

\* The pool has told its threads to stop, and joins them.  Tasks they have not taken are
\* dropped.
JoinPool ==
  /\ main = "joinPool" /\ Busy = {}
  /\ main' = "free"
  /\ UNCHANGED <<cacheVars, playCallbacks, tasks, stop, task, playerVars, op, player, cache,
                 toStop, toFree, scan, plays, loads, functions, unwaited>>

\* ~AudioCache: it is flagged, ...
DestroyCache ==
  /\ main = "free" /\ toFree # {}
  /\ \E c \in toFree : cache' = c /\ doomedCaches' = doomedCaches \cup {c}
  /\ main' = "waitTask"
  /\ UNCHANGED <<state, streams, cached, freed, finished, skipped, loadCallbacks, playCallbacks,
                 tasks, stop, task, playerVars, op, player, toStop, toFree, scan, plays, loads, functions, unwaited>>

\* Mutant: the mutex of the task is not waited for.
ReadOver == TRUE

\* ... its task waited for, until it has left the mutex, ...
ReadLeft == ReadMutexFree(cache)

\* ... and its memory freed.
FreeCache ==
  /\ main = "waitTask"
  /\ cache \in finished \cup skipped
  /\ ReadLeft
  /\ freed' = freed \cup {cache}
  /\ cached' = cached \ {cache}
  /\ toFree' = toFree \ {cache}
  /\ main' = "free"
  /\ UNCHANGED <<state, streams, doomedCaches, finished, skipped, loadCallbacks, playCallbacks,
                 tasks, stop, task, playerVars, op, player, cache, toStop, scan, plays, loads, functions, unwaited>>

AllFreed ==
  /\ main = "free" /\ toFree = {}
  /\ IF op = "end" THEN main' = "ended" /\ UNCHANGED <<op, player, cache>> ELSE BackToIdle
  /\ UNCHANGED <<cacheVars, playCallbacks, tasks, stop, task, playerVars, toStop, toFree, scan,
                 plays, loads, functions, unwaited>>

\* Nothing is to be done, or ~AudioCache sleeps for 5 milliseconds.
Quiet == main \in {"idle", "ended", "waitTask"} /\ UNCHANGED vars

-----------------------------------------------------------------------------
Work(c) ==
  \/ TakeTask(c) \/ SkipTask(c) \/ ReadData(c) \/ DataRead(c) \/ LockCallbacks(c)
  \/ FindPlayer(c) \/ LookUpPlayer(c) \/ MarkPlayer(c) \/ TestPlayer(c) \/ StartPlayer(c)
  \/ CallbacksDone(c) \/ PostLoaded(c) \/ FinishLoading(c) \/ UnlockRead(c)

Continue ==
  \/ AddPlayCallback \/ CallPlay
  \/ DestroyNext \/ SetDestroyed \/ TestInitial \/ WaitLoaded \/ Silence \/ Destroyed
  \/ UpdateErases \/ UpdatePasses \/ UpdateReturns \/ PerformFunctions
  \/ JoinPool \/ DestroyCache \/ FreeCache \/ AllFreed

Call ==
  \/ \E c \in Caches : Preload(c) \/ Play(c) \/ Uncache(c)
  \/ \E p \in Plays : Stop(p)
  \/ StopAll \/ UncacheAll \/ End

Next ==
  \/ \E c \in Caches : Work(c)
  \/ \E p \in Plays : RotateStops(p) \/ StreamEnds(p) \/ SourceEnds(p)
  \/ Continue \/ Call \/ Frame \/ Quiet

Spec == Init /\ [][Next]_vars

Threads == (\E c \in Caches : Work(c)) \/ (\E p \in Plays : RotateStops(p))

\* Threads are scheduled, and as each has finitely many steps, one of them is enough;
\* files are read in finite time.  The cocos thread goes on with what it has begun and
\* with its frames.  A sound need not end.
FairSpec == Spec /\ WF_vars(Threads) /\ WF_vars(Continue \/ Frame)

-----------------------------------------------------------------------------
(***************************************************************************)
(* Properties.                                                             *)
(***************************************************************************)
\* Every variable has its type.
TypeOK ==
  /\ state \in [Caches -> {"INITIAL", "LOADING", "READY", "FAILED"}]
  /\ cached \subseteq Caches /\ freed \subseteq Caches /\ cached \cap freed = {}
  /\ streams \cup doomedCaches \cup finished \cup skipped \subseteq cached \cup freed
  /\ playCallbacks \in [Caches -> Seq(Plays)] /\ loadCallbacks \in [Caches -> 0..MaxLoads]
  /\ tasks \in Seq(Caches) /\ functions \in Seq(Caches) /\ stop \in BOOLEAN
  /\ task \in [Caches -> {"none", "queued", "taken", "reading", "invoke", "calling", "marking",
                          "found", "starting", "loaded", "finish", "unlock", "over"}]
  /\ players \cup destroyed \cup toRemove \cup ready \cup rotating \cup info \subseteq 1..plays
  /\ cacheOf \in [Plays -> 0..MaxCaches]
  /\ source \in [Plays -> {"silent", "playing", "stopped"}]
  /\ main \in {"idle", "add", "call", "stop", "destroy", "test", "wait", "silence", "destroyed",
               "update", "perform", "joinPool", "free", "waitTask", "ended"}
  /\ op \in {"none", "stop", "stopAll", "uncache", "uncacheAll", "end", "frame"}
  /\ unwaited \in [Plays -> 0..plays]
  /\ player \in 0..plays /\ cache \in 0..MaxCaches
  /\ toStop \subseteq players /\ toFree \subseteq cached /\ scan \subseteq players
  /\ Cardinality(Busy) <= PoolThreads

\* No sound goes on, and no thread feeds one, without a player by which it can be stopped:
\* a player that is deleted is not being started by a thread, and will not be.
SoundsHaveTheirPlayer ==
  /\ \A p \in Plays : source[p] = "playing" \/ p \in rotating =>
       p \in players \/ (p = player /\ main \in {"destroy", "test", "wait", "silence"})
  /\ \A c \in Caches : task[c] \in {"found", "starting"} => Head(playCallbacks[c]) \in players

\* A thread that is to mark a player as one to be removed found it without the mutex: the
\* player is there yet, or is being destroyed, unless destroy() had found its cache INITIAL
\* and waited for nothing.
MarkedPlayerIsThere ==
  \A c \in Caches : task[c] = "marking" =>
    LET p == Head(playCallbacks[c])
    IN  \/ p \in players
        \/ p = player /\ main \in {"destroy", "test", "wait", "silence", "destroyed"}
        \/ unwaited[p] # 0

\* The memory of a cache is there as long as its task, a player or the thread of a player
\* uses it.
CachesOutliveTheirUse ==
  /\ \A c \in freed : task[c] = "over"
  /\ \A p \in players \cup rotating : cacheOf[p] \notin freed

\* Between the calls of the engine there is one AudioInfo for each player: those of sounds
\* that failed or ended do not use up the instances that may be played.
NoInstanceIsLeaked == main = "idle" => info = players

Dropped == stop /\ tasks # << >>

\* The calls that wait for the threads return, unless end() has dropped a task.
CallsReturned == main \in {"idle", "ended"} \/ Dropped

\* Every sound is started or removed, and every load callback called unless its cache is
\* destroyed.
NothingPending == players \subseteq ready /\ \A c \in cached : loadCallbacks[c] = 0
=============================================================================
