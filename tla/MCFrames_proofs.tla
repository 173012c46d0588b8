--------------------------- MODULE MCFrames_proofs ---------------------------
(***************************************************************************)
(* Proofs about AudioEngine, for any number of threads, of caches and of   *)
(* sounds, and about MCFrames, which puts it beside the scheduler.         *)
(***************************************************************************)
EXTENDS MCFrames, TLAPS, SequenceTheorems, FiniteSetTheorems

-----------------------------------------------------------------------------
(***************************************************************************)
(* The inductive invariant.                                                *)
(***************************************************************************)
Created == cached \cup freed

\* The cocos thread is in destroy() of a player.
Destroying == main \in {"destroy", "test", "wait", "silence", "destroyed"}

CacheTypes ==
  /\ state \in [Caches -> {"INITIAL", "LOADING", "READY", "FAILED"}]
  /\ task \in [Caches -> {"none", "queued", "taken", "reading", "invoke", "calling", "marking",
                          "found", "starting", "loaded", "finish", "unlock", "over"}]
  /\ loads \in 0..MaxLoads /\ loadCallbacks \in [Caches -> 0..loads]
  /\ functions \in Seq(Caches) /\ stop \in BOOLEAN /\ cache \in 0..MaxCaches
  /\ cached \subseteq Caches /\ freed \subseteq Caches /\ cached \cap freed = {}
  /\ streams \cup doomedCaches \cup finished \cup skipped \subseteq Created
  /\ toFree \subseteq cached /\ (main = "waitTask" => cache \in toFree)

\* A cache has its task from its creation; those nobody has taken are in the queue, once.
TasksInv ==
  /\ \E n \in 0..MaxCaches : Created = 1..n
  /\ tasks \in Seq(Caches)
  /\ \A i, j \in DOMAIN tasks : tasks[i] = tasks[j] => i = j
  /\ \A c \in Caches : task[c] = "none" <=> c \notin Created
  /\ \A c \in Caches : task[c] = "queued" <=> \E i \in DOMAIN tasks : tasks[i] = c
  /\ Cardinality(Busy) <= PoolThreads

\* What a task has done to its cache so far.
ReadInv ==
  \A c \in Caches :
    /\ task[c] \in {"none", "queued", "taken"} => state[c] = "INITIAL"
    /\ task[c] = "reading" => state[c] = "LOADING"
    /\ task[c] \in {"found", "starting"} => state[c] = "READY"
    /\ state[c] = "INITIAL" => task[c] \in {"none", "queued", "taken", "over"}
    /\ c \in finished => task[c] \in {"unlock", "over"}
    /\ c \in skipped \cup freed => task[c] = "over"

CachesInv == CacheTypes /\ TasksInv /\ ReadInv

PlayerTypes ==
  /\ plays \in 0..MaxPlays /\ player \in 0..plays
  /\ players \cup destroyed \cup toRemove \cup ready \cup rotating \cup info \subseteq 1..plays
  /\ cacheOf \in [Plays -> 0..MaxCaches] /\ \A p \in 1..plays : cacheOf[p] \in Created
  /\ source \in [Plays -> {"silent", "playing", "stopped"}]
  /\ main \in {"idle", "add", "call", "stop", "destroy", "test", "wait", "silence", "destroyed",
               "update", "perform", "joinPool", "free", "waitTask", "ended"}
  /\ op \in {"none", "stop", "stopAll", "uncache", "uncacheAll", "end", "frame"}
  /\ toStop \subseteq players /\ scan \subseteq players
  /\ info \subseteq players

\* A callback is of a player of its cache, which is there while it is found and started.
CallbacksInv ==
  /\ playCallbacks \in [Caches -> Seq(Plays)]
  /\ \A c \in Caches : \A i \in DOMAIN playCallbacks[c] :
       playCallbacks[c][i] \in 1..plays /\ cacheOf[playCallbacks[c][i]] = c
  /\ \A c \in Caches : task[c] \in {"found", "starting"} =>
       playCallbacks[c] # << >> /\ Head(playCallbacks[c]) \in players

MayStart(p) == p \notin destroyed \/ (p = player /\ main \in {"test", "wait"})

Gone(p) == source[p] = "silent" /\ p \notin rotating /\ p \in toRemove

\* A player that is flagged is not started any more, and is silent when destroy() returns.
DestroyInv ==
  /\ \A c \in Caches : task[c] = "starting" => MayStart(Head(playCallbacks[c]))
  /\ \A p \in destroyed : Gone(p) \/ (p = player /\ main \in {"test", "wait", "silence"})
  /\ \A p \in Plays : source[p] # "silent" \/ p \in rotating => p \in 1..plays /\ state[cacheOf[p]] = "READY"
  /\ main \in {"test", "wait", "silence", "destroyed"} => player \in destroyed
  /\ main \in {"silence", "destroyed"} => player \notin rotating
  /\ main \in {"add", "call"} => player \in players /\ player \notin destroyed

\* Player p will be erased before the call goes on.
Leaving(p) ==
  \/ main = "stop" /\ p \in toRemove
  \/ Destroying /\ player \in players /\ (p = player \/ p \in toRemove)
  \/ Destroying /\ player \notin players /\ p \in toRemove \cap scan
  \/ main = "update" /\ p \in toRemove \cap scan

\* The players of caches that will be freed, and those without AudioInfo.
LeavingInv ==
  /\ \A p \in players : cacheOf[p] \notin freed
  /\ \A p \in players : cacheOf[p] \in toFree => p \in toStop \/ Leaving(p)
  /\ \A p \in players \ info : Leaving(p) \/ (p = player /\ main \in {"add", "call"})
  /\ main \in {"joinPool", "free", "waitTask", "ended"} => toStop = {}
  /\ op \in {"none", "stop", "stopAll", "frame"} => toFree = {}
  /\ main \in {"idle", "add", "call"} => op = "none"
  /\ main = "perform" => op = "frame"
  /\ Destroying => player \in 1..plays /\ cacheOf[player] \notin freed

PlayersInv == PlayerTypes /\ CallbacksInv /\ DestroyInv /\ LeavingInv /\ SoundsHaveTheirPlayer

\* The task of the cache is over, or had not begun when destroy() of p asked.
Waited(p) == unwaited[p] # 0 \/ cacheOf[p] \in finished

\* A player that is gone was destroyed, and waited for if its task had begun.
MarkInv ==
  /\ unwaited \in [Plays -> 0..plays]
  /\ \A c \in Caches : task[c] = "marking" => playCallbacks[c] # << >>
  /\ \A p \in destroyed : Waited(p) \/ (p = player /\ main \in {"test", "wait"})
  /\ \A p \in 1..plays : p \in players \cup destroyed \/ (p = player /\ main = "destroy")

AudioInv == CachesInv /\ PlayersInv /\ MarkInv

-----------------------------------------------------------------------------
(***************************************************************************)
(* The caches and their tasks.                                             *)
(***************************************************************************)
Idle == {"none", "queued", "over"}

Places == {"none", "queued", "taken", "reading", "invoke", "calling", "marking", "found",
           "starting", "loaded", "finish", "unlock", "over"}

LEMMA BusyIsFinite == IsFiniteSet(Busy) /\ Cardinality(Busy) \in Nat
<1>1. Busy \subseteq 1..MaxCaches
  BY DEF Busy, Caches
<1>2. IsFiniteSet(1..MaxCaches)
  BY SizesAssumption, FS_Interval
<1>3. IsFiniteSet(Busy)
  BY <1>1, <1>2, FS_Subset
<1>4. QED
  BY <1>3, FS_CardinalityType

\* A thread that goes on, or ends its task, does not make the pool larger.
LEMMA FewerBusy ==
  ASSUME TasksInv, Busy' \subseteq Busy
  PROVE  Cardinality(Busy') <= PoolThreads
<1>1. Cardinality(Busy') <= Cardinality(Busy) /\ IsFiniteSet(Busy')
  BY BusyIsFinite, FS_Subset
<1>2. Cardinality(Busy') \in Nat /\ Cardinality(Busy) \in Nat
  BY <1>1, BusyIsFinite, FS_CardinalityType
<1>3. Cardinality(Busy) <= PoolThreads /\ PoolThreads \in Nat
  BY SizesAssumption DEF TasksInv
<1>4. QED
  BY <1>1, <1>2, <1>3

\* What a thread does with its task from place to place.
LEMMA TaskMoves ==
  ASSUME CachesInv, NEW c \in Caches, NEW place \in Places \ {"none", "queued"},
         task[c] \notin Idle, Goto(c, place),
         UNCHANGED <<cached, freed, doomedCaches, loadCallbacks, tasks, stop, loads, cache, toFree, main>>,
         state' \in [Caches -> {"INITIAL", "LOADING", "READY", "FAILED"}],
         functions' \in Seq(Caches),
         streams' \cup finished' \cup skipped' \subseteq streams \cup finished \cup skipped \cup {c},
         ReadInv'
  PROVE  CachesInv'
<1>1. /\ task' = [task EXCEPT ![c] = place]
      /\ task \in [Caches -> Places] /\ task[c] # "none" /\ task[c] # "queued"
      /\ place # "none" /\ place # "queued" /\ place \in Places
  BY DEF CachesInv, CacheTypes, Places, Idle, Goto
<1>2. task' \in [Caches -> Places]
  BY <1>1
<1>3. c \in Created
  BY <1>1 DEF CachesInv, TasksInv
<1>4. CacheTypes'
  BY <1>2, <1>3 DEF CachesInv, CacheTypes, Created, Places
<1>5. Busy' \subseteq Busy
  BY <1>1 DEF Busy, Idle
<1>6. Cardinality(Busy') <= PoolThreads
  BY <1>5, FewerBusy DEF CachesInv
<1>7. \A d \in Caches : /\ task'[d] = "none" <=> task[d] = "none"
                        /\ task'[d] = "queued" <=> task[d] = "queued"
  BY <1>1
<1>8. TasksInv'
  BY <1>6, <1>7 DEF CachesInv, TasksInv, Created
<1>9. QED
  BY <1>4, <1>8 DEF CachesInv

\* A thread takes the first of the tasks.
LEMMA TakeTaskCaches == ASSUME CachesInv, NEW c \in Caches, TakeTask(c) PROVE CachesInv'
<1>1. /\ tasks # << >> /\ Head(tasks) = c /\ Cardinality(Busy) < PoolThreads
      /\ tasks' = Tail(tasks) /\ task' = [task EXCEPT ![c] = "taken"]
      /\ UNCHANGED <<state, streams, cached, freed, doomedCaches, finished, skipped, loadCallbacks,
                     stop, functions, loads, cache, toFree, main>>
  BY DEF TakeTask, Goto, cacheVars, mainVars
<1>2. /\ tasks \in Seq(Caches) /\ task \in [Caches -> Places]
      /\ \A i, j \in DOMAIN tasks : tasks[i] = tasks[j] => i = j
      /\ \A d \in Caches : task[d] = "queued" <=> \E i \in DOMAIN tasks : tasks[i] = d
  BY DEF CachesInv, CacheTypes, TasksInv, Places
<1>3. /\ Tail(tasks) \in Seq(Caches) /\ Len(Tail(tasks)) = Len(tasks) - 1
      /\ Len(tasks) \in Nat /\ Len(tasks) >= 1 /\ c = tasks[1]
      /\ DOMAIN tasks = 1..Len(tasks) /\ DOMAIN Tail(tasks) = 1..Len(Tail(tasks))
      /\ \A i \in 1..Len(Tail(tasks)) : Tail(tasks)[i] = tasks[i + 1]
  BY <1>1, <1>2
<1>4. task[c] = "queued"
  BY <1>2, <1>3
<1>5. \A i, j \in DOMAIN tasks' : tasks'[i] = tasks'[j] => i = j
  <2>1. SUFFICES ASSUME NEW i \in DOMAIN tasks', NEW j \in DOMAIN tasks', tasks'[i] = tasks'[j]
                 PROVE  i = j
    OBVIOUS
  <2>2. i + 1 \in DOMAIN tasks /\ j + 1 \in DOMAIN tasks /\ tasks[i + 1] = tasks[j + 1] /\ i \in Nat /\ j \in Nat
    BY <1>1, <1>3, <2>1
  <2>3. i + 1 = j + 1
    BY <1>2, <2>2
  <2>4. QED
    BY <2>2, <2>3
<1>6. ASSUME NEW d \in Caches PROVE task'[d] = "queued" <=> \E i \in DOMAIN tasks' : tasks'[i] = d
  <2>1. CASE d = c
    <3>1. ASSUME NEW i \in DOMAIN tasks', tasks'[i] = c PROVE FALSE
      <4>1. i + 1 \in DOMAIN tasks /\ tasks[i + 1] = tasks[1] /\ 1 \in DOMAIN tasks /\ i + 1 # 1
        BY <1>1, <1>3, <3>1
      <4>2. QED
        BY <1>2, <4>1
    <3>2. task'[d] = "taken"
      BY <1>1, <1>2, <2>1
    <3>3. QED
      BY <2>1, <3>1, <3>2
  <2>2. CASE d # c
    <3>1. task'[d] = task[d]
      BY <1>1, <1>2, <2>2
    <3>2. ASSUME NEW i \in DOMAIN tasks, tasks[i] = d PROVE \E j \in DOMAIN tasks' : tasks'[j] = d
      <4>1. i # 1 /\ i \in 1..Len(tasks)
        BY <1>3, <2>2, <3>2
      <4>2. i - 1 \in DOMAIN tasks' /\ tasks'[i - 1] = d
        BY <1>1, <1>3, <3>2, <4>1
      <4>3. QED
        BY <4>2
    <3>3. ASSUME NEW i \in DOMAIN tasks', tasks'[i] = d PROVE \E j \in DOMAIN tasks : tasks[j] = d
      <4>1. i + 1 \in DOMAIN tasks /\ tasks[i + 1] = d
        BY <1>1, <1>3, <3>3
      <4>2. QED
        BY <4>1
    <3>4. QED
      BY <1>2, <3>1, <3>2, <3>3
  <2>3. QED
    BY <2>1, <2>2
<1>7. Cardinality(Busy') <= PoolThreads
  <2>1. Busy' = Busy \cup {c} /\ c \notin Busy
    BY <1>1, <1>2, <1>4 DEF Busy
  <2>2. Cardinality(Busy') = Cardinality(Busy) + 1
    BY <2>1, BusyIsFinite, FS_AddElement
  <2>3. QED
    BY <1>1, <2>2, BusyIsFinite, SizesAssumption
<1>8. TasksInv'
  <2>1. \A d \in Caches : task'[d] = "none" <=> task[d] = "none"
    BY <1>1, <1>2, <1>4
  <2>2. QED
    BY <1>1, <1>3, <1>5, <1>6, <1>7, <2>1 DEF CachesInv, TasksInv, Created
<1>9. ReadInv'
  BY <1>1, <1>2, <1>4 DEF CachesInv, ReadInv
<1>10. CacheTypes'
  <2>1. task' \in [Caches -> Places]
    BY <1>1, <1>2 DEF Places
  <2>2. QED
    BY <1>1, <2>1 DEF CachesInv, CacheTypes, Created, Places
<1>11. QED
  BY <1>8, <1>9, <1>10 DEF CachesInv

\* Nothing is done to caches or tasks.
LEMMA SameCaches ==
  ASSUME CachesInv,
         UNCHANGED <<cacheVars, tasks, task, cache, toFree, loads>>,
         stop' \in BOOLEAN, functions' \in Seq(Caches),
         main' = "waitTask" => main = "waitTask"
  PROVE  CachesInv'
<1>1. UNCHANGED <<state, streams, cached, freed, doomedCaches, finished, skipped, loadCallbacks>>
  BY DEF cacheVars
<1>2. CacheTypes'
  BY <1>1 DEF CachesInv, CacheTypes, Created
<1>3. TasksInv'
  BY <1>1 DEF CachesInv, TasksInv, Created, Busy
<1>4. ReadInv'
  BY <1>1 DEF CachesInv, ReadInv
<1>5. QED
  BY <1>2, <1>3, <1>4 DEF CachesInv

\* Every step of a task keeps to the order of its places.
LEMMA WorkCaches == ASSUME CachesInv, NEW c \in Caches, Work(c) PROVE CachesInv'
<1>1. /\ state \in [Caches -> {"INITIAL", "LOADING", "READY", "FAILED"}]
      /\ task \in [Caches -> Places] /\ functions \in Seq(Caches) /\ stop \in BOOLEAN
  BY DEF CachesInv, CacheTypes, Places
<1>2. CASE TakeTask(c)
  BY <1>2, TakeTaskCaches
<1>3. CASE SkipTask(c)
  <2>1. /\ task[c] = "taken" /\ skipped' = skipped \cup {c} /\ Goto(c, "over")
        /\ UNCHANGED <<state, streams, cached, freed, doomedCaches, finished, loadCallbacks, tasks,
                       stop, functions, loads, cache, toFree, main>>
    BY <1>3 DEF SkipTask, Skipped, mainVars
  <2>2. ReadInv'
    BY <1>1, <2>1 DEF CachesInv, ReadInv, Goto
  <2>3. QED
    BY <1>1, <2>1, <2>2, TaskMoves DEF Places, Idle
<1>4. CASE ReadData(c)
  <2>1. /\ task[c] = "taken" /\ state' = [state EXCEPT ![c] = "LOADING"] /\ Goto(c, "reading")
        /\ UNCHANGED <<streams, cached, freed, doomedCaches, finished, skipped, loadCallbacks, tasks,
                       stop, functions, loads, cache, toFree, main>>
    BY <1>4 DEF ReadData, mainVars
  <2>2. ReadInv'
    BY <1>1, <2>1 DEF CachesInv, ReadInv, Goto
  <2>3. state' \in [Caches -> {"INITIAL", "LOADING", "READY", "FAILED"}]
    BY <1>1, <2>1
  <2>4. QED
    BY <1>1, <2>1, <2>2, <2>3, TaskMoves DEF Places, Idle
<1>5. CASE DataRead(c)
  <2>1. PICK s \in {"READY", "FAILED"} : state' = [state EXCEPT ![c] = s]
    BY <1>5 DEF DataRead
  <2>2. /\ task[c] = "reading" /\ Goto(c, "invoke") /\ streams' \subseteq streams \cup {c}
        /\ UNCHANGED <<cached, freed, doomedCaches, finished, skipped, loadCallbacks, tasks,
                       stop, functions, loads, cache, toFree, main>>
    BY <1>5 DEF DataRead, mainVars
  <2>3. ReadInv'
    BY <1>1, <2>1, <2>2 DEF CachesInv, ReadInv, Goto
  <2>4. state' \in [Caches -> {"INITIAL", "LOADING", "READY", "FAILED"}]
    BY <1>1, <2>1
  <2>5. QED
    BY <1>1, <2>2, <2>3, <2>4, TaskMoves DEF Places, Idle
<1>6. CASE FinishLoading(c)
  <2>1. /\ task[c] = "finish" /\ finished' = finished \cup {c} /\ Goto(c, "unlock")
        /\ UNCHANGED <<state, streams, cached, freed, doomedCaches, skipped, loadCallbacks, tasks,
                       stop, functions, loads, cache, toFree, main>>
    BY <1>6 DEF FinishLoading, mainVars
  <2>2. ReadInv'
    BY <1>1, <2>1 DEF CachesInv, ReadInv, Goto
  <2>3. QED
    BY <1>1, <2>1, <2>2, TaskMoves DEF Places, Idle
<1>7. ASSUME UNCHANGED <<cacheVars, tasks, stop, loads, cache, toFree, main>>,
             functions' \in Seq(Caches), NEW place \in Places \ (Idle \cup {"taken", "reading"}),
             task[c] \notin Idle \cup {"taken", "reading", "unlock"}, Goto(c, place),
             place \in {"found", "starting"} => state[c] = "READY"
      PROVE  CachesInv'
  <2>1. UNCHANGED <<state, streams, cached, freed, doomedCaches, finished, skipped, loadCallbacks,
                    tasks, stop, loads, cache, toFree, main>>
    BY <1>7 DEF cacheVars
  <2>2. c \notin finished /\ c \notin skipped \cup freed /\ state[c] # "INITIAL"
    BY <1>7 DEF CachesInv, ReadInv, Idle
  <2>3. ReadInv'
    BY <1>1, <1>7, <2>1, <2>2 DEF CachesInv, ReadInv, Goto, Idle
  <2>4. QED
    BY <1>1, <1>7, <2>1, <2>3, TaskMoves DEF Places, Idle
<1>8. CASE LockCallbacks(c)
  BY <1>1, <1>7, <1>8 DEF LockCallbacks, mainVars, Places, Idle
<1>9. CASE FindPlayer(c)
  <2>1. CASE Head(playCallbacks[c]) \in players
    BY <1>1, <1>7, <1>9, <2>1 DEF FindPlayer, MayPlay, mainVars, Places, Idle
  <2>2. CASE Head(playCallbacks[c]) \notin players
    BY <1>1, <1>9, <2>2, SameCaches DEF FindPlayer, mainVars
  <2>3. QED
    BY <2>1, <2>2
<1>10. CASE LookUpPlayer(c) \/ MarkPlayer(c)
  <2>1. CASE LookUpPlayer(c) /\ Head(playCallbacks[c]) \in players
    BY <1>1, <1>7, <2>1 DEF LookUpPlayer, mainVars, Places, Idle
  <2>2. CASE LookUpPlayer(c) /\ Head(playCallbacks[c]) \notin players
    BY <1>1, <2>2, SameCaches DEF LookUpPlayer, mainVars
  <2>3. CASE MarkPlayer(c)
    BY <1>1, <1>7, <2>3 DEF MarkPlayer, mainVars, Places, Idle
  <2>4. QED
    BY <1>10, <2>1, <2>2, <2>3
<1>11. CASE TestPlayer(c)
  <2>1. task[c] = "found" /\ state[c] = "READY"
    BY <1>11 DEF TestPlayer, CachesInv, ReadInv
  <2>2. Goto(c, "calling") \/ Goto(c, "starting")
    BY <1>11 DEF TestPlayer
  <2>3. UNCHANGED <<cacheVars, tasks, stop, loads, cache, toFree, main, functions>>
    BY <1>11 DEF TestPlayer, mainVars
  <2>4. QED
    BY <1>1, <1>7, <2>1, <2>2, <2>3 DEF Places, Idle
<1>12. CASE StartPlayer(c)
  BY <1>1, <1>7, <1>12 DEF StartPlayer, mainVars, Places, Idle
<1>13. CASE CallbacksDone(c)
  BY <1>1, <1>7, <1>13 DEF CallbacksDone, mainVars, Places, Idle
<1>14. CASE PostLoaded(c)
  <2>1. functions' \in Seq(Caches)
    BY <1>1, <1>14, AppendProperties DEF PostLoaded
  <2>2. QED
    BY <1>7, <1>14, <2>1 DEF PostLoaded, mainVars, Places, Idle
<1>15. CASE UnlockRead(c)
  <2>1. /\ task[c] = "unlock" /\ Goto(c, "over")
        /\ UNCHANGED <<state, streams, cached, freed, doomedCaches, finished, skipped,
                       loadCallbacks, tasks, stop, functions, loads, cache, toFree, main>>
    BY <1>15 DEF UnlockRead, mainVars, cacheVars
  <2>2. ReadInv'
    BY <1>1, <2>1 DEF CachesInv, ReadInv, Goto
  <2>3. QED
    BY <1>1, <2>1, <2>2, TaskMoves DEF Places, Idle
<1>16. QED
  BY <1>2, <1>3, <1>4, <1>5, <1>6, <1>8, <1>9, <1>10, <1>11, <1>12, <1>13, <1>14, <1>15 DEF Work

\* The cache of the file that is asked for is one that is there or a new one, the last in
\* the queue.
LEMMA CacheEffect ==
  ASSUME CachesInv, NEW c \in Caches, Cache(c)
  PROVE  /\ c \in cached' /\ cached \subseteq cached' /\ cached' \subseteq Caches
         /\ freed' = freed => cached' \cap freed' = {} /\ TasksInv'
         /\ task' \in [Caches -> Places]
         /\ \A d \in Caches : task'[d] = task[d] \/ (task[d] = "none" /\ task'[d] = "queued")
<1>1. /\ cached \subseteq Caches /\ freed \subseteq Caches /\ cached \cap freed = {}
      /\ task \in [Caches -> Places] /\ tasks \in Seq(Caches)
  BY DEF CachesInv, CacheTypes, TasksInv, Places
<1>2. CASE c \in cached /\ UNCHANGED <<cached, tasks, task>>
  BY <1>1, <1>2 DEF CachesInv, TasksInv, Created, Busy
<1>3. CASE /\ c = Cardinality(cached \cup freed) + 1 /\ cached' = cached \cup {c}
           /\ tasks' = Append(tasks, c) /\ Goto(c, "queued")
  <2>1. PICK n \in 0..MaxCaches : Created = 1..n
    BY DEF CachesInv, TasksInv
  <2>2. Cardinality(Created) = n /\ n \in Nat
    <3>1. n \in Nat
      BY SizesAssumption
    <3>2. Cardinality(1..n) = IF 1 > n THEN 0 ELSE n - 1 + 1
      BY <3>1, FS_Interval
    <3>3. QED
      BY <2>1, <3>1, <3>2
  <2>3. c = n + 1 /\ c \notin Created /\ c \in 1..MaxCaches
    BY <1>3, <2>1, <2>2 DEF Created, Caches
  <2>4. task[c] = "none" /\ task' = [task EXCEPT ![c] = "queued"]
    BY <1>3, <2>3 DEF CachesInv, TasksInv, Goto
  <2>5. /\ tasks' \in Seq(Caches) /\ Len(tasks') = Len(tasks) + 1 /\ Len(tasks) \in Nat
        /\ DOMAIN tasks = 1..Len(tasks) /\ DOMAIN tasks' = 1..Len(tasks')
        /\ tasks'[Len(tasks) + 1] = c /\ \A i \in 1..Len(tasks) : tasks'[i] = tasks[i]
    BY <1>1, <1>3, AppendProperties
  <2>6. \A i \in DOMAIN tasks : tasks[i] # c
    BY <2>4 DEF CachesInv, TasksInv
  <2>7. DOMAIN tasks' = DOMAIN tasks \cup {Len(tasks) + 1} /\ Len(tasks) + 1 \notin DOMAIN tasks
    BY <2>5
  <2>8. \A i, j \in DOMAIN tasks' : tasks'[i] = tasks'[j] => i = j
    BY <2>5, <2>6, <2>7 DEF CachesInv, TasksInv
  <2>9. \A d \in Caches : task'[d] = "queued" <=> \E i \in DOMAIN tasks' : tasks'[i] = d
    <3>1. SUFFICES ASSUME NEW d \in Caches
                   PROVE  task'[d] = "queued" <=> \E i \in DOMAIN tasks' : tasks'[i] = d
      OBVIOUS
    <3>2. CASE d = c
      BY <1>1, <2>4, <2>5, <2>7, <3>2
    <3>3. CASE d # c
      <4>1. task'[d] = task[d]
        BY <1>1, <2>4, <3>3
      <4>2. (\E i \in DOMAIN tasks' : tasks'[i] = d) <=> \E i \in DOMAIN tasks : tasks[i] = d
        BY <2>5, <2>7, <3>3
      <4>3. QED
        BY <4>1, <4>2 DEF CachesInv, TasksInv
    <3>4. QED
      BY <3>2, <3>3
  <2>10. Busy' = Busy
    BY <1>1, <2>4 DEF Busy
  <2>11. ASSUME freed' = freed PROVE TasksInv'
    <3>1. Created' = Created \cup {c}
      BY <1>3, <2>11 DEF Created
    <3>2. Created' = 1..(n + 1) /\ n + 1 \in 0..MaxCaches
      BY <2>1, <2>2, <2>3, <3>1, SizesAssumption
    <3>3. \A d \in Caches : task'[d] = "none" <=> d \notin Created'
      BY <1>1, <2>4, <3>1 DEF CachesInv, TasksInv
    <3>4. QED
      BY <2>5, <2>8, <2>9, <2>10, <3>2, <3>3 DEF CachesInv, TasksInv
  <2>12. cached' \cap freed = {}
    BY <1>1, <1>3, <2>3 DEF Created
  <2>13. task' \in [Caches -> Places]
    BY <1>1, <2>4 DEF Places
  <2>14. \A d \in Caches : task'[d] = task[d] \/ (task[d] = "none" /\ task'[d] = "queued")
    BY <1>1, <2>4
  <2>15. QED
    BY <1>1, <1>3, <2>11, <2>12, <2>13, <2>14
<1>4. QED
  BY <1>2, <1>3 DEF Cache

\* A call that asks for a file.
LEMMA AskCaches ==
  ASSUME CachesInv, NEW c \in Caches, Preload(c) \/ Play(c)
  PROVE  CachesInv'
<1>1. /\ Cache(c) /\ loads' \in {loads, loads + 1} /\ loads' \in 0..MaxLoads /\ loads \in 0..MaxLoads
      /\ loadCallbacks' \in {loadCallbacks, [loadCallbacks EXCEPT ![c] = @ + 1]}
      /\ loadCallbacks' # loadCallbacks => loads' = loads + 1
      /\ main = "idle" /\ main' # "waitTask"
      /\ UNCHANGED <<state, streams, freed, doomedCaches, finished, skipped, stop, cache, toFree,
                     functions>>
  <2>1. loads \in 0..MaxLoads /\ loadCallbacks \in [Caches -> 0..loads]
    BY DEF CachesInv, CacheTypes
  <2>2. CASE Preload(c)
    <3>1. /\ Cache(c) /\ loads' = loads + 1 /\ loads < MaxLoads /\ main = "idle" /\ main' = main
          /\ loadCallbacks' = [loadCallbacks EXCEPT ![c] = IF Keeps(c) THEN @ + 1 ELSE @]
          /\ UNCHANGED <<state, streams, freed, doomedCaches, finished, skipped, stop, cache, toFree,
                         functions>>
      BY <2>2 DEF Preload
    <3>2. loadCallbacks' \in {loadCallbacks, [loadCallbacks EXCEPT ![c] = @ + 1]}
      BY <2>1, <3>1
    <3>3. QED
      BY <2>1, <3>1, <3>2, SizesAssumption
  <2>3. CASE Play(c)
    BY <2>1, <2>3 DEF Play
  <2>4. QED
    BY <2>2, <2>3
<1>2. /\ c \in cached' /\ cached \subseteq cached' /\ cached' \subseteq Caches
      /\ cached' \cap freed' = {} /\ TasksInv' /\ task' \in [Caches -> Places]
      /\ \A d \in Caches : task'[d] = task[d] \/ (task[d] = "none" /\ task'[d] = "queued")
  BY <1>1, CacheEffect
<1>3. loadCallbacks' \in [Caches -> 0..loads']
  <2>1. loadCallbacks \in [Caches -> 0..loads] /\ loads \in Nat
    BY SizesAssumption DEF CachesInv, CacheTypes
  <2>2. CASE loadCallbacks' = loadCallbacks
    <3>1. \A d \in Caches : loadCallbacks[d] \in 0..loads'
      BY <1>1, <2>1
    <3>2. QED
      BY <2>1, <2>2, <3>1
  <2>3. CASE loads' = loads + 1 /\ loadCallbacks' = [loadCallbacks EXCEPT ![c] = @ + 1]
    <3>1. \A d \in Caches : loadCallbacks[d] \in 0..loads' /\ loadCallbacks[d] + 1 \in 0..loads'
      BY <2>1, <2>3
    <3>2. QED
      BY <2>1, <2>3, <3>1
  <2>4. QED
    BY <1>1, <2>2, <2>3
<1>4. CacheTypes'
  BY <1>1, <1>2, <1>3 DEF CachesInv, CacheTypes, Created, Places
<1>5. ReadInv'
  BY <1>1, <1>2 DEF CachesInv, ReadInv
<1>6. QED
  BY <1>2, <1>4, <1>5 DEF CachesInv

\* What will be freed is cached.
LEMMA BeginCaches ==
  ASSUME CachesInv, NEW call, NEW stopped, NEW removed \in SUBSET cached,
         Begin(call, stopped, removed)
  PROVE  CachesInv'
<1>1. /\ UNCHANGED <<cacheVars, tasks, stop, task, functions, cache, loads>>
      /\ toFree' = removed /\ main' # "waitTask"
  BY DEF Begin
<1>2. UNCHANGED <<state, streams, cached, freed, doomedCaches, finished, skipped, loadCallbacks>>
  BY <1>1 DEF cacheVars
<1>3. CacheTypes'
  BY <1>1, <1>2 DEF CachesInv, CacheTypes, Created
<1>4. TasksInv' /\ ReadInv'
  BY <1>1, <1>2 DEF CachesInv, TasksInv, ReadInv, Created, Busy
<1>5. QED
  BY <1>3, <1>4 DEF CachesInv

\* The end of a frame calls the callbacks of caches, and the destructor of the pool begins.
LEMMA PerformCaches == ASSUME CachesInv, PerformFunctions PROVE CachesInv'
<1>1. /\ UNCHANGED <<state, streams, cached, freed, doomedCaches, finished, skipped, tasks, stop,
                     task, toFree, loads>>
      /\ functions' = << >> /\ main' = "idle" /\ cache' = 0
      /\ \E done : loadCallbacks' = [c \in Caches |-> IF c \in done THEN 0 ELSE loadCallbacks[c]]
  BY DEF PerformFunctions, BackToIdle
<1>2. loadCallbacks' \in [Caches -> 0..loads']
  BY <1>1, SizesAssumption DEF CachesInv, CacheTypes
<1>3. cache' \in 0..MaxCaches
  BY <1>1, SizesAssumption
<1>4. CacheTypes'
  BY <1>1, <1>2, <1>3 DEF CachesInv, CacheTypes, Created
<1>5. TasksInv' /\ ReadInv'
  BY <1>1 DEF CachesInv, TasksInv, ReadInv, Created, Busy
<1>6. QED
  BY <1>4, <1>5 DEF CachesInv

\* A cache is freed when its task is over.
LEMMA FreeCaches == ASSUME CachesInv, DestroyCache \/ FreeCache \/ AllFreed PROVE CachesInv'
<1>1. CASE DestroyCache
  <2>1. PICK c \in toFree : cache' = c /\ doomedCaches' = doomedCaches \cup {c}
    BY <1>1 DEF DestroyCache
  <2>2. UNCHANGED <<state, streams, cached, freed, finished, skipped, loadCallbacks, tasks, stop,
                    task, toFree, loads, functions>>
    BY <1>1 DEF DestroyCache
  <2>3. c \in cached /\ c \in 0..MaxCaches
    BY <2>1, SizesAssumption DEF CachesInv, CacheTypes, Caches
  <2>4. CacheTypes'
    BY <2>1, <2>2, <2>3 DEF CachesInv, CacheTypes, Created
  <2>5. TasksInv' /\ ReadInv'
    BY <2>2 DEF CachesInv, TasksInv, ReadInv, Created, Busy
  <2>6. QED
    BY <2>4, <2>5 DEF CachesInv
<1>2. CASE FreeCache
  <2>1. /\ main = "waitTask" /\ main' = "free" /\ cache \in finished \cup skipped
        /\ ReadMutexFree(cache) /\ freed' = freed \cup {cache} /\ cached' = cached \ {cache}
        /\ toFree' = toFree \ {cache}
        /\ UNCHANGED <<state, streams, doomedCaches, finished, skipped, loadCallbacks, tasks, stop,
                       task, cache, loads, functions>>
    BY <1>2 DEF FreeCache, ReadLeft
  <2>2. cache \in cached /\ cache \in Caches
    BY <2>1 DEF CachesInv, CacheTypes
  <2>3. Created' = Created
    BY <2>1, <2>2 DEF Created
  <2>4. task[cache] = "over"
    BY <2>1, <2>2 DEF CachesInv, ReadInv, ReadMutexFree
  <2>5. ReadInv'
    BY <2>1, <2>2, <2>4 DEF CachesInv, ReadInv
  <2>6. TasksInv'
    BY <2>1, <2>3 DEF CachesInv, TasksInv, Busy
  <2>7. CacheTypes'
    BY <2>1, <2>2, <2>3 DEF CachesInv, CacheTypes
  <2>8. QED
    BY <2>5, <2>6, <2>7 DEF CachesInv
<1>3. CASE AllFreed
  <2>1. /\ UNCHANGED <<cacheVars, tasks, stop, task, toFree, loads, functions>>
        /\ main' # "waitTask" /\ cache' \in {cache, 0}
    BY <1>3 DEF AllFreed, BackToIdle
  <2>2. cache' \in 0..MaxCaches
    BY <2>1, SizesAssumption DEF CachesInv, CacheTypes
  <2>3. UNCHANGED <<state, streams, cached, freed, doomedCaches, finished, skipped, loadCallbacks>>
    BY <2>1 DEF cacheVars
  <2>4. CacheTypes'
    BY <2>1, <2>2, <2>3 DEF CachesInv, CacheTypes, Created
  <2>5. TasksInv' /\ ReadInv'
    BY <2>1, <2>3 DEF CachesInv, TasksInv, ReadInv, Created, Busy
  <2>6. QED
    BY <2>4, <2>5 DEF CachesInv
<1>4. QED
  BY <1>1, <1>2, <1>3

\* What update() goes on with.
LEMMA UpdateReturnsCaches == ASSUME CachesInv, UpdateReturns PROVE CachesInv'
<1>1. /\ UNCHANGED <<cacheVars, tasks, task, toFree, loads, functions>>
      /\ stop' \in BOOLEAN /\ cache' \in {cache, 0}
      /\ main' \in {"idle", AfterUpdate}
  BY DEF UpdateReturns, BackToIdle
<1>2. main' # "waitTask"
  BY <1>1 DEF AfterUpdate
<1>3. cache' \in 0..MaxCaches
  BY <1>1, SizesAssumption DEF CachesInv, CacheTypes
<1>4. UNCHANGED <<state, streams, cached, freed, doomedCaches, finished, skipped, loadCallbacks>>
  BY <1>1 DEF cacheVars
<1>5. CacheTypes'
  BY <1>1, <1>2, <1>3, <1>4 DEF CachesInv, CacheTypes, Created
<1>6. TasksInv' /\ ReadInv'
  BY <1>1, <1>4 DEF CachesInv, TasksInv, ReadInv, Created, Busy
<1>7. QED
  BY <1>5, <1>6 DEF CachesInv

\* The steps about players leave the caches alone.
LEMMA PlayersLeaveCaches ==
  ASSUME CachesInv,
         \/ \E p \in Plays : RotateStops(p) \/ StreamEnds(p) \/ SourceEnds(p)
         \/ AddPlayCallback \/ CallPlay
         \/ DestroyNext \/ SetDestroyed \/ TestInitial \/ WaitLoaded \/ Silence \/ Destroyed
         \/ UpdateErases \/ UpdatePasses \/ JoinPool
         \/ UNCHANGED vars
  PROVE  CachesInv'
<1>1. stop \in BOOLEAN /\ functions \in Seq(Caches) /\ 0 \in 0..MaxCaches
  BY SizesAssumption DEF CachesInv, CacheTypes
<1>2. CASE \E p \in Plays : RotateStops(p) \/ StreamEnds(p) \/ SourceEnds(p)
  BY <1>1, <1>2, SameCaches DEF RotateStops, StreamEnds, SourceEnds, mainVars
<1>3. CASE AddPlayCallback \/ CallPlay
  <2>1. /\ UNCHANGED <<cacheVars, tasks, stop, task, toFree, loads, functions>>
        /\ main' # "waitTask" /\ cache' \in {cache, 0}
    BY <1>3 DEF AddPlayCallback, CallPlay, BackToIdle
  <2>2. UNCHANGED <<state, streams, cached, freed, doomedCaches, finished, skipped, loadCallbacks>>
    BY <2>1 DEF cacheVars
  <2>3. CacheTypes'
    BY <1>1, <2>1, <2>2 DEF CachesInv, CacheTypes, Created
  <2>4. TasksInv' /\ ReadInv'
    BY <2>1, <2>2 DEF CachesInv, TasksInv, ReadInv, Created, Busy
  <2>5. QED
    BY <2>3, <2>4 DEF CachesInv
<1>4. CASE DestroyNext \/ SetDestroyed \/ TestInitial \/ WaitLoaded \/ Silence \/ Destroyed
  BY <1>1, <1>4, SameCaches DEF DestroyNext, SetDestroyed, TestInitial, WaitLoaded, Silence, Destroyed
<1>5. CASE UpdateErases \/ UpdatePasses \/ JoinPool
  BY <1>1, <1>5, SameCaches DEF UpdateErases, UpdatePasses, JoinPool
<1>6. CASE UNCHANGED vars
  BY <1>1, <1>6, SameCaches DEF vars, mainVars
<1>7. QED
  BY <1>2, <1>3, <1>4, <1>5, <1>6

LEMMA InitCaches == ASSUME Init PROVE CachesInv
<1>1. /\ state = [c \in Caches |-> "INITIAL"] /\ task = [c \in Caches |-> "none"]
      /\ loadCallbacks = [c \in Caches |-> 0] /\ loads = 0 /\ cache = 0 /\ main = "idle"
      /\ tasks = << >> /\ functions = << >> /\ stop = FALSE /\ cached = {} /\ freed = {}
      /\ streams = {} /\ doomedCaches = {} /\ finished = {} /\ skipped = {} /\ toFree = {}
  BY DEF Init
<1>2. CacheTypes
  <2>1. loads \in 0..MaxLoads /\ cache \in 0..MaxCaches /\ 0 \in 0..loads
    BY <1>1, SizesAssumption
  <2>2. loadCallbacks \in [Caches -> 0..loads]
    BY <1>1, <2>1
  <2>3. functions \in Seq(Caches)
    BY <1>1
  <2>4. QED
    BY <1>1, <2>1, <2>2, <2>3 DEF CacheTypes, Created
<1>3. Busy = {} /\ Cardinality(Busy) = 0
  BY <1>1, FS_EmptySet DEF Busy
<1>4. Created = 1..0 /\ 0 \in 0..MaxCaches
  BY <1>1, SizesAssumption DEF Created
<1>5. tasks \in Seq(Caches) /\ DOMAIN tasks = {}
  BY <1>1
<1>6. TasksInv
  BY <1>1, <1>3, <1>4, <1>5, SizesAssumption DEF TasksInv
<1>7. ReadInv
  BY <1>1 DEF ReadInv
<1>8. QED
  BY <1>2, <1>6, <1>7 DEF CachesInv

\* Each step keeps the caches and their tasks in order.
LEMMA NextCaches == ASSUME CachesInv, [Next]_vars PROVE CachesInv'
<1>1. CASE \E c \in Caches : Work(c)
  BY <1>1, WorkCaches
<1>2. CASE Call \/ Frame
  <2>1. CASE \E c \in Caches : Preload(c) \/ Play(c)
    BY <2>1, AskCaches
  <2>2. CASE \E c \in Caches : Uncache(c)
    <3>1. PICK c \in Caches : c \in cached /\ Begin("uncache", {p \in info : cacheOf[p] = c}, {c})
      BY <2>2 DEF Uncache
    <3>2. {c} \in SUBSET cached
      BY <3>1
    <3>3. QED
      BY <3>1, <3>2, BeginCaches
  <2>3. CASE \E p \in Plays : Stop(p)
    <3>1. PICK p \in Plays : Begin("stop", {p}, {})
      BY <2>3 DEF Stop
    <3>2. {} \in SUBSET cached
      OBVIOUS
    <3>3. QED
      BY <3>1, <3>2, BeginCaches
  <2>4. CASE StopAll \/ UncacheAll \/ End \/ Frame
    <3>1. {} \in SUBSET cached /\ cached \in SUBSET cached
      OBVIOUS
    <3>2. QED
      BY <2>4, <3>1, BeginCaches DEF StopAll, UncacheAll, End, Frame
  <2>5. QED
    BY <1>2, <2>1, <2>2, <2>3, <2>4 DEF Call
<1>3. CASE Continue
  BY <1>3, PerformCaches, FreeCaches, UpdateReturnsCaches, PlayersLeaveCaches DEF Continue
<1>4. CASE (\E p \in Plays : RotateStops(p) \/ StreamEnds(p) \/ SourceEnds(p)) \/ Quiet \/ UNCHANGED vars
  BY <1>4, PlayersLeaveCaches DEF Quiet
<1>5. QED
  BY <1>1, <1>2, <1>3, <1>4 DEF Next

-----------------------------------------------------------------------------
(***************************************************************************)
(* The players: what most steps share.                                     *)
(***************************************************************************)
LEMMA Numbers ==
  ASSUME CachesInv, PlayerTypes
  PROVE  /\ plays \in Nat /\ player \in Nat /\ 1..plays \subseteq Plays
         /\ Created \subseteq Caches /\ \A p \in 1..plays : cacheOf[p] \in Caches
<1>1. plays \in Nat /\ plays <= MaxPlays /\ player \in Nat
  BY SizesAssumption DEF PlayerTypes
<1>2. 1..plays \subseteq Plays
  BY <1>1, SizesAssumption DEF Plays
<1>3. Created \subseteq Caches
  BY DEF CachesInv, CacheTypes, Created
<1>4. QED
  BY <1>1, <1>2, <1>3 DEF PlayerTypes

\* The callbacks that are left when the first has been called.
LEMMA LaterCallbacks ==
  ASSUME CallbacksInv, NEW c \in Caches, playCallbacks[c] # << >>, NextCallback(c),
         UNCHANGED <<plays, cacheOf>>
  PROVE  /\ playCallbacks' \in [Caches -> Seq(Plays)]
         /\ \A d \in Caches : \A i \in DOMAIN playCallbacks'[d] :
              playCallbacks'[d][i] \in 1..plays' /\ cacheOf'[playCallbacks'[d][i]] = d
         /\ \A d \in Caches : d # c => playCallbacks'[d] = playCallbacks[d]
<1>1. /\ playCallbacks \in [Caches -> Seq(Plays)]
      /\ playCallbacks' = [playCallbacks EXCEPT ![c] = Tail(@)]
  BY DEF CallbacksInv, NextCallback
<1>2. DEFINE callbacks == playCallbacks[c]
<1>3. /\ callbacks \in Seq(Plays) /\ Tail(callbacks) \in Seq(Plays)
      /\ \A i \in DOMAIN Tail(callbacks) : i + 1 \in DOMAIN callbacks /\ Tail(callbacks)[i] = callbacks[i + 1]
  BY <1>1
<1>4. playCallbacks'[c] = Tail(callbacks) /\ \A d \in Caches : d # c => playCallbacks'[d] = playCallbacks[d]
  BY <1>1
<1>5. playCallbacks' \in [Caches -> Seq(Plays)]
  BY <1>1, <1>3
<1>6. \A i \in DOMAIN callbacks : callbacks[i] \in 1..plays /\ cacheOf[callbacks[i]] = c
  BY DEF CallbacksInv
<1>7. \A i \in DOMAIN playCallbacks'[c] : playCallbacks'[c][i] \in 1..plays' /\ cacheOf'[playCallbacks'[c][i]] = c
  BY <1>3, <1>4, <1>6
<1>8. \A d \in Caches : d # c => \A i \in DOMAIN playCallbacks'[d] :
        playCallbacks'[d][i] \in 1..plays' /\ cacheOf'[playCallbacks'[d][i]] = d
  BY <1>4 DEF CallbacksInv
<1>9. QED
  BY <1>4, <1>5, <1>7, <1>8

\* The first callback is of a player of the cache.
LEMMA FirstCallback ==
  ASSUME CallbacksInv, NEW c \in Caches, playCallbacks[c] # << >>
  PROVE  Head(playCallbacks[c]) \in 1..plays /\ cacheOf[Head(playCallbacks[c])] = c
<1>1. playCallbacks[c] \in Seq(Plays)
  BY DEF CallbacksInv
<1>2. 1 \in DOMAIN playCallbacks[c] /\ Head(playCallbacks[c]) = playCallbacks[c][1]
  BY <1>1
<1>3. QED
  BY <1>2 DEF CallbacksInv

\* No player is touched, found or started, and a file that was read stays so.
LEMMA SamePlayers ==
  ASSUME CachesInv, PlayersInv,
         UNCHANGED <<playCallbacks, playerVars, main, op, player, toStop, toFree, scan, plays, freed>>,
         cached \subseteq cached',
         \A c \in Caches : task'[c] \in {"found", "starting"} => task'[c] = task[c],
         \A c \in Caches : state[c] = "READY" => state'[c] = "READY"
  PROVE  PlayersInv'
<1>1. UNCHANGED <<players, cacheOf, destroyed, toRemove, ready, source, rotating, info>>
  BY DEF playerVars
<1>2. Created \subseteq Created'
  BY DEF Created
<1>3. PlayerTypes'
  BY <1>1, <1>2 DEF PlayersInv, PlayerTypes
<1>4. CallbacksInv'
  BY <1>1 DEF PlayersInv, CallbacksInv
<1>5. DestroyInv'
  <2>1. \A p \in Plays : source[p] # "silent" \/ p \in rotating => p \in 1..plays /\ state'[cacheOf[p]] = "READY"
    BY Numbers DEF PlayersInv, DestroyInv
  <2>2. \A c \in Caches : task'[c] = "starting" => MayStart(Head(playCallbacks[c]))
    BY DEF PlayersInv, DestroyInv
  <2>3. QED
    BY <1>1, <2>1, <2>2 DEF PlayersInv, DestroyInv, MayStart, Gone
<1>6. LeavingInv'
  BY <1>1 DEF PlayersInv, LeavingInv, Leaving, Destroying
<1>7. SoundsHaveTheirPlayer'
  BY <1>1 DEF PlayersInv, SoundsHaveTheirPlayer
<1>8. QED
  BY <1>3, <1>4, <1>5, <1>6, <1>7 DEF PlayersInv

\* A player is to be removed.
LEMMA MoreToRemove ==
  ASSUME PlayersInv, toRemove \subseteq toRemove', toRemove' \subseteq 1..plays,
         UNCHANGED <<players, cacheOf, info, main, op, player, toStop, toFree, scan, plays, freed>>
  PROVE  LeavingInv'
<1>1. Destroying' = Destroying
  BY DEF Destroying
<1>2. \A p \in players : Leaving(p) => Leaving(p)'
  BY <1>1 DEF Leaving
<1>3. \A p \in players' : cacheOf'[p] \in toFree' => p \in toStop' \/ Leaving(p)'
  BY <1>2 DEF PlayersInv, LeavingInv
<1>4. \A p \in players' \ info' : Leaving(p)' \/ (p = player' /\ main' \in {"add", "call"})
  BY <1>2 DEF PlayersInv, LeavingInv
<1>5. QED
  BY <1>1, <1>3, <1>4 DEF PlayersInv, LeavingInv

-----------------------------------------------------------------------------
(***************************************************************************)
(* The players and the threads.                                            *)
(***************************************************************************)
\* A thread finds the player of a callback.
LEMMA FindPlayerPlayers ==
  ASSUME CachesInv, PlayersInv, NEW c \in Caches, FindPlayer(c) PROVE PlayersInv'
<1>1. /\ task[c] = "calling" /\ playCallbacks[c] # << >>
      /\ UNCHANGED <<state, cached, freed, players, cacheOf, destroyed, toRemove, ready, source, rotating, info,
                     main, op, player, toStop, toFree, scan, plays>>
      /\ task \in [Caches -> Places]
  BY DEF FindPlayer, cacheVars, playerVars, mainVars, CachesInv, CacheTypes, Places
<1>2. \/ /\ Head(playCallbacks[c]) \in players /\ task' = [task EXCEPT ![c] = "found"]
         /\ playCallbacks' = playCallbacks
      \/ NextCallback(c) /\ task' = task
  BY DEF FindPlayer, Goto
<1>3. PlayerTypes'
  BY <1>1 DEF PlayersInv, PlayerTypes, Created
<1>4. CASE Head(playCallbacks[c]) \in players /\ task' = [task EXCEPT ![c] = "found"] /\ playCallbacks' = playCallbacks
  <2>1. \A d \in Caches : d # c => task'[d] = task[d]
    BY <1>1, <1>4
  <2>2. task'[c] = "found"
    BY <1>1, <1>4
  <2>3. \A d \in Caches : task'[d] \in {"found", "starting"} =>
          playCallbacks'[d] # << >> /\ Head(playCallbacks'[d]) \in players'
    BY <1>1, <1>4, <2>1 DEF PlayersInv, CallbacksInv
  <2>4. CallbacksInv'
    BY <1>1, <1>4, <2>3 DEF PlayersInv, CallbacksInv
  <2>5. \A d \in Caches : task'[d] = "starting" => MayStart(Head(playCallbacks[d]))
    BY <2>1, <2>2 DEF PlayersInv, DestroyInv
  <2>6. DestroyInv'
    BY <1>1, <1>4, <2>5 DEF PlayersInv, DestroyInv, MayStart, Gone
  <2>7. SoundsHaveTheirPlayer'
    BY <1>1, <2>3 DEF PlayersInv, SoundsHaveTheirPlayer
  <2>8. QED
    BY <1>1, <1>3, <2>4, <2>6, <2>7, MoreToRemove DEF PlayersInv, PlayerTypes
<1>5. CASE NextCallback(c) /\ task' = task
  <2>1. /\ playCallbacks' \in [Caches -> Seq(Plays)]
        /\ \A d \in Caches : \A i \in DOMAIN playCallbacks'[d] :
             playCallbacks'[d][i] \in 1..plays' /\ cacheOf'[playCallbacks'[d][i]] = d
        /\ \A d \in Caches : d # c => playCallbacks'[d] = playCallbacks[d]
    BY <1>1, <1>5, LaterCallbacks DEF PlayersInv
  <2>2. \A d \in Caches : task'[d] \in {"found", "starting"} =>
          task[d] = task'[d] /\ playCallbacks'[d] = playCallbacks[d]
    BY <1>1, <1>5, <2>1
  <2>3. CallbacksInv'
    BY <1>1, <2>1, <2>2 DEF PlayersInv, CallbacksInv
  <2>4. \A d \in Caches : task'[d] = "starting" => MayStart(Head(playCallbacks'[d]))
    BY <2>2 DEF PlayersInv, DestroyInv
  <2>5. DestroyInv'
    BY <1>1, <2>4 DEF PlayersInv, DestroyInv, MayStart, Gone
  <2>6. SoundsHaveTheirPlayer'
    BY <1>1, <2>2 DEF PlayersInv, SoundsHaveTheirPlayer
  <2>7. QED
    BY <1>1, <1>3, <2>3, <2>5, <2>6, MoreToRemove DEF PlayersInv, PlayerTypes
<1>6. QED
  BY <1>2, <1>4, <1>5

\* A callback is over, with the player to be removed or not.
LEMMA CallbackOver ==
  ASSUME CachesInv, PlayersInv, NEW c \in Caches, playCallbacks[c] # << >>, NextCallback(c),
         UNCHANGED <<players, cacheOf, destroyed, info, main, op, player, toStop, toFree, scan, plays,
                     state, cached, freed>>,
         toRemove \subseteq toRemove', toRemove' \subseteq 1..plays, ready' \subseteq 1..plays,
         \A d \in Caches : d # c => task'[d] = task[d], task'[c] = "calling",
         source' \in [Plays -> {"silent", "playing", "stopped"}], rotating' \subseteq 1..plays,
         \A p \in Plays : source'[p] # source[p] \/ p \in rotating' \ rotating =>
           p = Head(playCallbacks[c]) /\ task[c] = "starting"
  PROVE  PlayersInv'
<1>1. /\ playCallbacks' \in [Caches -> Seq(Plays)]
      /\ \A d \in Caches : \A i \in DOMAIN playCallbacks'[d] :
           playCallbacks'[d][i] \in 1..plays' /\ cacheOf'[playCallbacks'[d][i]] = d
      /\ \A d \in Caches : d # c => playCallbacks'[d] = playCallbacks[d]
  BY LaterCallbacks DEF PlayersInv
<1>2. \A d \in Caches : task'[d] \in {"found", "starting"} =>
        task[d] = task'[d] /\ playCallbacks'[d] = playCallbacks[d]
  BY <1>1
<1>3. PlayerTypes'
  BY DEF PlayersInv, PlayerTypes, Created
<1>4. CallbacksInv'
  <2>1. \A d \in Caches : task'[d] \in {"found", "starting"} =>
          playCallbacks'[d] # << >> /\ Head(playCallbacks'[d]) \in players'
    BY <1>2 DEF PlayersInv, CallbacksInv
  <2>2. QED
    BY <1>1, <2>1 DEF CallbacksInv
<1>5. LeavingInv'
  BY MoreToRemove
<1>6. ASSUME NEW p \in Plays, source'[p] # source[p] \/ p \in rotating' \ rotating
      PROVE  p \in players /\ p \in 1..plays /\ MayStart(p) /\ state[cacheOf[p]] = "READY"
  <2>1. p = Head(playCallbacks[c]) /\ task[c] = "starting"
    BY <1>6
  <2>2. p \in 1..plays /\ cacheOf[p] = c
    BY <2>1, FirstCallback DEF PlayersInv
  <2>3. state[c] = "READY"
    BY <2>1 DEF CachesInv, ReadInv
  <2>4. QED
    BY <2>1, <2>2, <2>3 DEF PlayersInv, CallbacksInv, DestroyInv
<1>7. DestroyInv'
  <2>1. \A d \in Caches : task'[d] = "starting" => MayStart(Head(playCallbacks'[d]))
    BY <1>2 DEF PlayersInv, DestroyInv
  <2>2. destroyed \subseteq Plays /\ (main \in {"test", "wait", "silence", "destroyed"} => player \in Plays)
    BY Numbers DEF PlayersInv, PlayerTypes, DestroyInv
  <2>3. \A p \in destroyed : Gone(p)' \/ (p = player /\ main \in {"test", "wait", "silence"})
    <3>1. SUFFICES ASSUME NEW p \in destroyed, ~(p = player /\ main \in {"test", "wait", "silence"})
                   PROVE  Gone(p)'
      OBVIOUS
    <3>2. Gone(p) /\ ~MayStart(p) /\ p \in Plays
      BY <2>2, <3>1 DEF PlayersInv, DestroyInv, MayStart
    <3>3. QED
      BY <1>6, <3>2 DEF Gone
  <2>4. \A p \in Plays : source'[p] # "silent" \/ p \in rotating' => p \in 1..plays /\ state[cacheOf[p]] = "READY"
    BY <1>6 DEF PlayersInv, DestroyInv
  <2>5. main \in {"silence", "destroyed"} => player \notin rotating'
    BY <1>6, <2>2 DEF PlayersInv, DestroyInv, MayStart
  <2>6. QED
    BY <2>1, <2>3, <2>4, <2>5 DEF PlayersInv, DestroyInv, MayStart
<1>8. SoundsHaveTheirPlayer'
  <2>1. \A p \in Plays : source'[p] = "playing" \/ p \in rotating' =>
          p \in players \/ (p = player /\ main \in {"destroy", "test", "wait", "silence"})
    BY <1>6 DEF PlayersInv, SoundsHaveTheirPlayer
  <2>2. QED
    BY <1>2, <2>1 DEF PlayersInv, SoundsHaveTheirPlayer
<1>9. QED
  BY <1>3, <1>4, <1>5, <1>7, <1>8 DEF PlayersInv

\* A thread finds the player of a callback that is to be removed, or none.
LEMMA LookUpPlayerPlayers ==
  ASSUME CachesInv, PlayersInv, NEW c \in Caches, LookUpPlayer(c) PROVE PlayersInv'
<1>1. /\ task[c] = "calling" /\ playCallbacks[c] # << >>
      /\ UNCHANGED <<state, cached, freed, playerVars, main, op, player, toStop, toFree, scan, plays>>
      /\ task \in [Caches -> Places]
  BY DEF LookUpPlayer, cacheVars, mainVars, CachesInv, CacheTypes, Places
<1>2. CASE Head(playCallbacks[c]) \in players
  <2>1. task' = [task EXCEPT ![c] = "marking"] /\ playCallbacks' = playCallbacks
    BY <1>2 DEF LookUpPlayer, Goto
  <2>2. \A d \in Caches : task'[d] \in {"found", "starting"} => task'[d] = task[d]
    BY <1>1, <2>1
  <2>3. QED
    BY <1>1, <2>1, <2>2, SamePlayers
<1>3. CASE Head(playCallbacks[c]) \notin players
  <2>1. NextCallback(c) /\ task' = task
    BY <1>3 DEF LookUpPlayer
  <2>2. /\ toRemove \subseteq 1..plays /\ ready \subseteq 1..plays /\ rotating \subseteq 1..plays
        /\ source \in [Plays -> {"silent", "playing", "stopped"}]
    BY DEF PlayersInv, PlayerTypes
  <2>3. UNCHANGED <<players, cacheOf, destroyed, toRemove, ready, source, rotating, info>>
    BY <1>1 DEF playerVars
  <2>4. QED
    BY <1>1, <2>1, <2>2, <2>3, CallbackOver
<1>4. QED
  BY <1>2, <1>3

\* What it writes to is that player, or one that was played since and is there.
LEMMA MarkPlayerPlayers ==
  ASSUME CachesInv, PlayersInv, MarkInv, NEW c \in Caches, MarkPlayer(c) PROVE PlayersInv'
<1>1. /\ task[c] = "marking" /\ NextCallback(c) /\ task' = [task EXCEPT ![c] = "calling"]
      /\ UNCHANGED <<players, cacheOf, destroyed, info, main, op, player, toStop, toFree, scan, plays,
                     state, cached, freed, ready, source, rotating>>
      /\ task \in [Caches -> Places]
  BY DEF MarkPlayer, Goto, cacheVars, mainVars, CachesInv, CacheTypes, Places
<1>2. playCallbacks[c] # << >>
  BY <1>1 DEF MarkInv
<1>3. PICK p \in Reached(Head(playCallbacks[c])) : toRemove' = toRemove \cup {p}
  BY DEF MarkPlayer
<1>4. p \in 1..plays
  BY <1>2, <1>3, FirstCallback DEF Reached, PlayersInv, PlayerTypes
<1>5. /\ toRemove' \subseteq 1..plays /\ ready \subseteq 1..plays /\ rotating \subseteq 1..plays
      /\ source \in [Plays -> {"silent", "playing", "stopped"}]
  BY <1>3, <1>4 DEF PlayersInv, PlayerTypes
<1>6. task'[c] = "calling" /\ \A d \in Caches : d # c => task'[d] = task[d]
  BY <1>1
<1>7. QED
  BY <1>1, <1>2, <1>3, <1>5, <1>6, CallbackOver

\* The player that was found is being destroyed, or will be started.
LEMMA TestPlayerPlayers ==
  ASSUME CachesInv, PlayersInv, NEW c \in Caches, TestPlayer(c) PROVE PlayersInv'
<1>1. /\ task[c] = "found"
      /\ UNCHANGED <<players, cacheOf, destroyed, info, main, op, player, toStop, toFree, scan, plays,
                     state, cached, freed, ready, source, rotating>>
      /\ task \in [Caches -> Places]
  BY DEF TestPlayer, cacheVars, mainVars, CachesInv, CacheTypes, Places
<1>2. /\ toRemove \subseteq 1..plays /\ ready \subseteq 1..plays /\ rotating \subseteq 1..plays
      /\ source \in [Plays -> {"silent", "playing", "stopped"}]
  BY DEF PlayersInv, PlayerTypes
<1>3. playCallbacks[c] # << >> /\ Head(playCallbacks[c]) \in players
  BY <1>1 DEF PlayersInv, CallbacksInv
<1>4. CASE Head(playCallbacks[c]) \in destroyed
  <2>1. /\ toRemove' = toRemove \cup {Head(playCallbacks[c])} /\ NextCallback(c)
        /\ task' = [task EXCEPT ![c] = "calling"]
    BY <1>4 DEF TestPlayer, Goto
  <2>2. toRemove' \subseteq 1..plays
    BY <1>2, <1>3, <2>1, FirstCallback DEF PlayersInv
  <2>3. task'[c] = "calling" /\ \A d \in Caches : d # c => task'[d] = task[d]
    BY <1>1, <2>1
  <2>4. QED
    BY <1>1, <1>2, <1>3, <2>1, <2>2, <2>3, CallbackOver
<1>5. CASE Head(playCallbacks[c]) \notin destroyed
  <2>1. task' = [task EXCEPT ![c] = "starting"] /\ UNCHANGED <<toRemove, playCallbacks>>
    BY <1>5 DEF TestPlayer, Goto
  <2>2. task'[c] = "starting" /\ \A d \in Caches : d # c => task'[d] = task[d]
    BY <1>1, <2>1
  <2>3. PlayerTypes'
    BY <1>1, <2>1 DEF PlayersInv, PlayerTypes, Created
  <2>4. \A d \in Caches : task'[d] \in {"found", "starting"} =>
          playCallbacks'[d] # << >> /\ Head(playCallbacks'[d]) \in players'
    BY <1>1, <1>3, <2>1, <2>2 DEF PlayersInv, CallbacksInv
  <2>5. CallbacksInv'
    BY <1>1, <2>1, <2>4 DEF PlayersInv, CallbacksInv
  <2>6. \A d \in Caches : task'[d] = "starting" => MayStart(Head(playCallbacks[d]))
    BY <1>5, <2>2 DEF PlayersInv, DestroyInv, MayStart
  <2>7. DestroyInv'
    BY <1>1, <2>1, <2>6 DEF PlayersInv, DestroyInv, MayStart, Gone
  <2>8. SoundsHaveTheirPlayer'
    BY <1>1, <2>4 DEF PlayersInv, SoundsHaveTheirPlayer
  <2>9. LeavingInv'
    BY <1>1, <1>2, <2>1, MoreToRemove
  <2>10. QED
    BY <2>3, <2>5, <2>7, <2>8, <2>9 DEF PlayersInv
<1>6. QED
  BY <1>4, <1>5

LEMMA StartPlayerPlayers ==
  ASSUME CachesInv, PlayersInv, NEW c \in Caches, StartPlayer(c) PROVE PlayersInv'
<1>1. /\ task[c] = "starting" /\ NextCallback(c) /\ task' = [task EXCEPT ![c] = "calling"]
      /\ UNCHANGED <<players, cacheOf, destroyed, info, main, op, player, toStop, toFree, scan, plays,
                     state, cached, freed>>
      /\ task \in [Caches -> Places]
  BY DEF StartPlayer, Goto, cacheVars, mainVars, CachesInv, CacheTypes, Places
<1>2. /\ toRemove \subseteq 1..plays /\ ready \subseteq 1..plays /\ rotating \subseteq 1..plays
      /\ source \in [Plays -> {"silent", "playing", "stopped"}]
  BY DEF PlayersInv, PlayerTypes
<1>3. playCallbacks[c] # << >>
  BY <1>1 DEF PlayersInv, CallbacksInv
<1>4. PICK p \in 1..plays : p = Head(playCallbacks[c])
  BY <1>3, FirstCallback DEF PlayersInv
<1>5. StartsOrNot(p, c)
  BY <1>4 DEF StartPlayer
<1>6. /\ toRemove \subseteq toRemove' /\ toRemove' \subseteq 1..plays /\ ready' \subseteq 1..plays
      /\ rotating' \subseteq rotating \cup {p}
      /\ source' = source \/ source' = [source EXCEPT ![p] = "playing"]
  BY <1>2, <1>5 DEF StartsOrNot
<1>7. /\ source' \in [Plays -> {"silent", "playing", "stopped"}] /\ rotating' \subseteq 1..plays
      /\ \A q \in Plays : source'[q] # source[q] \/ q \in rotating' \ rotating => q = p
  BY <1>2, <1>6
<1>8. task'[c] = "calling" /\ \A d \in Caches : d # c => task'[d] = task[d]
  BY <1>1
<1>9. QED
  BY <1>1, <1>3, <1>4, <1>6, <1>7, <1>8, CallbackOver

LEMMA WorkPlayers ==
  ASSUME CachesInv, PlayersInv, MarkInv, NEW c \in Caches, Work(c) PROVE PlayersInv'
<1>1. /\ state \in [Caches -> {"INITIAL", "LOADING", "READY", "FAILED"}]
      /\ task \in [Caches -> Places]
      /\ task[c] = "taken" => state[c] = "INITIAL"
      /\ task[c] = "reading" => state[c] = "LOADING"
  BY DEF CachesInv, CacheTypes, ReadInv, Places
<1>2. ASSUME NEW place \in Places \ {"found", "starting"}, Goto(c, place),
             UNCHANGED <<playCallbacks, playerVars, mainVars, cached, freed>>,
             state' = state \/ (state[c] # "READY" /\ \E s : state' = [state EXCEPT ![c] = s])
      PROVE  PlayersInv'
  <2>1. \A d \in Caches : state[d] = "READY" => state'[d] = "READY"
    BY <1>1, <1>2
  <2>2. \A d \in Caches : task'[d] \in {"found", "starting"} => task'[d] = task[d]
    BY <1>1, <1>2 DEF Goto
  <2>3. QED
    BY <1>2, <2>1, <2>2, SamePlayers DEF mainVars
<1>3. CASE TakeTask(c)
  BY <1>2, <1>3 DEF TakeTask, cacheVars, Places
<1>4. CASE SkipTask(c)
  BY <1>2, <1>4 DEF SkipTask, Places
<1>5. CASE ReadData(c)
  BY <1>1, <1>2, <1>5 DEF ReadData, Places
<1>6. CASE DataRead(c)
  BY <1>1, <1>2, <1>6 DEF DataRead, Places
<1>7. CASE LockCallbacks(c)
  BY <1>2, <1>7 DEF LockCallbacks, cacheVars, Places
<1>8. CASE CallbacksDone(c)
  BY <1>2, <1>8 DEF CallbacksDone, cacheVars, Places
<1>9. CASE PostLoaded(c)
  BY <1>2, <1>9 DEF PostLoaded, cacheVars, Places
<1>10. CASE FinishLoading(c)
  BY <1>2, <1>10 DEF FinishLoading, Places
<1>11. CASE UnlockRead(c)
  BY <1>2, <1>11 DEF UnlockRead, cacheVars, Places
<1>12. QED
  BY <1>3, <1>4, <1>5, <1>6, <1>7, <1>8, <1>9, <1>10, <1>11, FindPlayerPlayers,
     LookUpPlayerPlayers, MarkPlayerPlayers, TestPlayerPlayers, StartPlayerPlayers DEF Work

\* The thread of a source ends, or the source.
LEMMA SourcePlayers ==
  ASSUME CachesInv, PlayersInv, NEW p \in Plays, RotateStops(p) \/ StreamEnds(p) \/ SourceEnds(p)
  PROVE  PlayersInv'
<1>1. /\ UNCHANGED <<playCallbacks, task, state, cached, freed, players, cacheOf, destroyed, toRemove, ready,
                     info, main, op, player, toStop, toFree, scan, plays>>
      /\ rotating' \subseteq rotating
      /\ source' = source \/ (source[p] = "playing" /\ source' = [source EXCEPT ![p] = "stopped"])
  BY DEF RotateStops, StreamEnds, SourceEnds, cacheVars, mainVars
<1>2. source \in [Plays -> {"silent", "playing", "stopped"}] /\ toRemove \subseteq 1..plays
  BY DEF PlayersInv, PlayerTypes
<1>3. /\ source' \in [Plays -> {"silent", "playing", "stopped"}]
      /\ \A q \in Plays : /\ source'[q] = "silent" <=> source[q] = "silent"
                          /\ source'[q] = "playing" => source[q] = "playing"
  BY <1>1, <1>2
<1>4. PlayerTypes'
  BY <1>1, <1>3 DEF PlayersInv, PlayerTypes, Created
<1>5. CallbacksInv'
  BY <1>1 DEF PlayersInv, CallbacksInv
<1>6. DestroyInv'
  <2>1. destroyed \subseteq Plays
    BY Numbers DEF PlayersInv, PlayerTypes
  <2>2. \A q \in Plays : Gone(q) => Gone(q)'
    BY <1>1, <1>3 DEF Gone
  <2>3. \A q \in destroyed : Gone(q)' \/ (q = player /\ main \in {"test", "wait", "silence"})
    BY <2>1, <2>2 DEF PlayersInv, DestroyInv
  <2>4. QED
    BY <1>1, <1>3, <2>3 DEF PlayersInv, DestroyInv, MayStart
<1>7. LeavingInv'
  BY <1>1, <1>2, MoreToRemove
<1>8. SoundsHaveTheirPlayer'
  BY <1>1, <1>3 DEF PlayersInv, SoundsHaveTheirPlayer
<1>9. QED
  BY <1>4, <1>5, <1>6, <1>7, <1>8 DEF PlayersInv

-----------------------------------------------------------------------------
(***************************************************************************)
(* The players and the calls that begin.                                   *)
(***************************************************************************)
LEMMA PreloadPlayers ==
  ASSUME CachesInv, PlayersInv, NEW c \in Caches, Preload(c) PROVE PlayersInv'
<1>1. /\ UNCHANGED <<playCallbacks, playerVars, main, op, player, toStop, toFree, scan, plays, freed, state>>
      /\ Cache(c)
  BY DEF Preload
<1>2. cached \subseteq cached' /\ \A d \in Caches : task'[d] = task[d] \/ task'[d] = "queued"
  BY <1>1, CacheEffect
<1>3. QED
  BY <1>1, <1>2, SamePlayers

\* A new player is neither flagged nor heard.
LEMMA PlayPlayers ==
  ASSUME CachesInv, PlayersInv, NEW c \in Caches, Play(c) PROVE PlayersInv'
<1>1. /\ main = "idle" /\ main' = "add" /\ plays < MaxPlays /\ Cache(c) /\ ThreadMutexFree
      /\ plays' = plays + 1 /\ player' = plays + 1
      /\ cacheOf' = [cacheOf EXCEPT ![plays + 1] = c] /\ players' = players \cup {plays + 1}
      /\ UNCHANGED <<state, freed, playCallbacks, destroyed, toRemove, ready, source, rotating, info, op,
                     toStop, toFree, scan>>
  BY DEF Play
<1>2. /\ plays \in Nat /\ 1..plays \subseteq Plays /\ Created \subseteq Caches
      /\ cacheOf \in [Plays -> 0..MaxCaches]
  BY Numbers DEF PlayersInv, PlayerTypes
<1>3. /\ 1..plays' = 1..plays \cup {plays + 1} /\ plays + 1 \in Plays /\ plays + 1 \notin 1..plays
      /\ plays' \in 0..MaxPlays /\ player' \in 0..plays'
  BY <1>1, <1>2, SizesAssumption DEF Plays
<1>4. /\ c \in cached' /\ cached \subseteq cached' /\ cached' \cap freed' = {}
      /\ \A d \in Caches : task'[d] = task[d] \/ task'[d] = "queued"
  BY <1>1, CacheEffect
<1>5. \A d \in Caches : task'[d] \notin {"found", "starting"}
  BY <1>1, <1>4 DEF ThreadMutexFree
<1>6. c \in Created' /\ Created \subseteq Created' /\ c \in 0..MaxCaches
  <2>1. c \in 0..MaxCaches
    BY SizesAssumption DEF Caches
  <2>2. freed' = freed
    BY <1>1
  <2>3. QED
    BY <1>4, <2>1, <2>2 DEF Created
<1>7. /\ cacheOf' \in [Plays -> 0..MaxCaches] /\ cacheOf'[plays + 1] = c
      /\ \A p \in 1..plays : cacheOf'[p] = cacheOf[p]
  BY <1>1, <1>2, <1>3, <1>6
<1>8. PlayerTypes'
  <2>1. players \cup destroyed \cup toRemove \cup ready \cup rotating \cup info \subseteq 1..plays
    BY DEF PlayersInv, PlayerTypes
  <2>2. players' \cup destroyed' \cup toRemove' \cup ready' \cup rotating' \cup info' \subseteq 1..plays'
    BY <1>1, <1>3, <2>1
  <2>3. \A p \in 1..plays' : cacheOf'[p] \in Created'
    BY <1>3, <1>6, <1>7 DEF PlayersInv, PlayerTypes
  <2>4. toStop' \subseteq players' /\ scan' \subseteq players' /\ info' \subseteq players'
    BY <1>1 DEF PlayersInv, PlayerTypes
  <2>5. QED
    BY <1>1, <1>3, <1>7, <2>2, <2>3, <2>4 DEF PlayersInv, PlayerTypes
<1>9. CallbacksInv'
  <2>1. \A d \in Caches : \A i \in DOMAIN playCallbacks[d] :
          playCallbacks[d][i] \in 1..plays /\ cacheOf[playCallbacks[d][i]] = d
    BY DEF PlayersInv, CallbacksInv
  <2>2. \A d \in Caches : \A i \in DOMAIN playCallbacks'[d] :
          playCallbacks'[d][i] \in 1..plays' /\ cacheOf'[playCallbacks'[d][i]] = d
    BY <1>1, <1>3, <1>7, <2>1
  <2>3. QED
    BY <1>1, <1>5, <2>2 DEF PlayersInv, CallbacksInv
<1>10. DestroyInv'
  <2>1. destroyed \subseteq 1..plays /\ \A p \in destroyed : Gone(p)
    BY <1>1 DEF PlayersInv, PlayerTypes, DestroyInv
  <2>2. \A p \in Plays : source[p] # "silent" \/ p \in rotating =>
          p \in 1..plays' /\ state[cacheOf'[p]] = "READY"
    BY <1>3, <1>7 DEF PlayersInv, DestroyInv
  <2>3. QED
    BY <1>1, <1>3, <1>5, <2>1, <2>2 DEF PlayersInv, DestroyInv, MayStart, Gone
<1>11. players = info /\ toFree = {} /\ op = "none" /\ players \subseteq 1..plays
  BY <1>1 DEF PlayersInv, PlayerTypes, LeavingInv, Leaving, Destroying
<1>12. LeavingInv'
  <2>1. \A p \in players' : cacheOf'[p] \notin freed'
    BY <1>1, <1>3, <1>4, <1>7, <1>11 DEF PlayersInv, LeavingInv
  <2>2. \A p \in players' \ info' : p = player'
    BY <1>1, <1>11
  <2>3. QED
    BY <1>1, <1>11, <2>1, <2>2 DEF LeavingInv, Destroying
<1>13. SoundsHaveTheirPlayer'
  BY <1>1, <1>5 DEF PlayersInv, SoundsHaveTheirPlayer
<1>14. QED
  BY <1>8, <1>9, <1>10, <1>12, <1>13 DEF PlayersInv

\* The callback is kept, or called by the cocos thread.
LEMMA AddPlayers == ASSUME CachesInv, PlayersInv, AddPlayCallback PROVE PlayersInv'
<1>1. /\ main = "add" /\ CallbackMutexFree(cacheOf[player])
      /\ UNCHANGED <<state, cached, freed, task, players, cacheOf, destroyed, toRemove, ready, source,
                     rotating, toStop, toFree, scan, plays>>
  BY DEF AddPlayCallback, cacheVars
<1>2. /\ player \in players /\ player \in 1..plays /\ player \in Plays /\ cacheOf[player] \in Caches
      /\ player \notin destroyed /\ plays \in Nat /\ players \subseteq 1..plays
      /\ playCallbacks \in [Caches -> Seq(Plays)]
  BY <1>1, Numbers DEF PlayersInv, PlayerTypes, DestroyInv, CallbacksInv
<1>3. \A p \in players : p \in info \/ p = player
  BY <1>1 DEF PlayersInv, LeavingInv, Leaving, Destroying
<1>4. op = "none" /\ toFree = {}
  BY <1>1 DEF PlayersInv, LeavingInv
<1>5. CASE Keeps(cacheOf[player])
  <2>1. DEFINE c == cacheOf[player]
  <2>2. /\ playCallbacks' = [playCallbacks EXCEPT ![c] = Append(@, player)]
        /\ info' = info \cup {player} /\ main' = "idle" /\ op' = "none" /\ player' = 0
    BY <1>5 DEF AddPlayCallback, BackToIdle
  <2>3. /\ playCallbacks' \in [Caches -> Seq(Plays)]
        /\ playCallbacks'[c] = Append(playCallbacks[c], player)
        /\ \A d \in Caches : d # c => playCallbacks'[d] = playCallbacks[d]
    BY <1>2, <2>2, AppendProperties
  <2>4. \A i \in DOMAIN playCallbacks'[c] :
          playCallbacks'[c][i] = player \/ (i \in DOMAIN playCallbacks[c] /\ playCallbacks'[c][i] = playCallbacks[c][i])
    BY <1>2, <2>3, AppendProperties
  <2>5. PlayerTypes'
    BY <1>1, <1>2, <2>2 DEF PlayersInv, PlayerTypes, Created
  <2>6. \A d \in Caches : \A i \in DOMAIN playCallbacks'[d] :
          playCallbacks'[d][i] \in 1..plays /\ cacheOf[playCallbacks'[d][i]] = d
    <3>1. \A d \in Caches : \A i \in DOMAIN playCallbacks[d] :
            playCallbacks[d][i] \in 1..plays /\ cacheOf[playCallbacks[d][i]] = d
      BY DEF PlayersInv, CallbacksInv
    <3>2. \A i \in DOMAIN playCallbacks'[c] :
            playCallbacks'[c][i] \in 1..plays /\ cacheOf[playCallbacks'[c][i]] = c
      BY <1>2, <2>4, <3>1
    <3>3. \A d \in Caches : d # c => \A i \in DOMAIN playCallbacks'[d] :
            playCallbacks'[d][i] \in 1..plays /\ cacheOf[playCallbacks'[d][i]] = d
      BY <2>3, <3>1
    <3>4. QED
      BY <3>2, <3>3
  <2>7. \A d \in Caches : task[d] \in {"found", "starting"} => playCallbacks'[d] = playCallbacks[d]
    BY <1>1, <2>3 DEF CallbackMutexFree
  <2>8. \A d \in Caches : task[d] \in {"found", "starting"} =>
          playCallbacks'[d] # << >> /\ Head(playCallbacks'[d]) \in players
    BY <2>7 DEF PlayersInv, CallbacksInv
  <2>9. CallbacksInv'
    BY <1>1, <2>3, <2>6, <2>8 DEF CallbacksInv
  <2>10. \A d \in Caches : task[d] = "starting" => Head(playCallbacks'[d]) \notin destroyed
    BY <1>1, <2>7 DEF PlayersInv, DestroyInv, MayStart
  <2>11. DestroyInv'
    BY <1>1, <2>2, <2>10 DEF PlayersInv, DestroyInv, MayStart, Gone
  <2>12. LeavingInv'
    BY <1>1, <1>3, <1>4, <2>2 DEF PlayersInv, LeavingInv, Destroying
  <2>13. SoundsHaveTheirPlayer'
    BY <1>1, <2>2, <2>8 DEF PlayersInv, SoundsHaveTheirPlayer
  <2>14. QED
    BY <2>5, <2>9, <2>11, <2>12, <2>13 DEF PlayersInv
<1>6. CASE ~Keeps(cacheOf[player])
  <2>1. main' = "call" /\ UNCHANGED <<playCallbacks, info, op, player>>
    BY <1>6 DEF AddPlayCallback
  <2>2. PlayerTypes'
    BY <1>1, <2>1 DEF PlayersInv, PlayerTypes, Created
  <2>3. CallbacksInv' /\ SoundsHaveTheirPlayer'
    BY <1>1, <2>1 DEF PlayersInv, CallbacksInv, SoundsHaveTheirPlayer
  <2>4. DestroyInv'
    BY <1>1, <2>1 DEF PlayersInv, DestroyInv, MayStart, Gone
  <2>5. LeavingInv'
    BY <1>1, <1>3, <1>4, <2>1 DEF PlayersInv, LeavingInv, Destroying
  <2>6. QED
    BY <2>2, <2>3, <2>4, <2>5 DEF PlayersInv
<1>7. QED
  BY <1>5, <1>6

\* The cocos thread starts the sound, or has it removed.
LEMMA CallPlayers == ASSUME CachesInv, PlayersInv, CallPlay PROVE PlayersInv'
<1>1. /\ main = "call" /\ info' = info \cup {player} /\ main' = "idle" /\ op' = "none" /\ player' = 0
      /\ UNCHANGED <<state, cached, freed, task, players, cacheOf, destroyed, playCallbacks,
                     toStop, toFree, scan, plays>>
  BY DEF CallPlay, BackToIdle, cacheVars
<1>2. /\ player \in players /\ player \in 1..plays /\ player \in Plays /\ plays \in Nat
      /\ player \notin destroyed /\ players \subseteq 1..plays
  BY <1>1, Numbers DEF PlayersInv, PlayerTypes, DestroyInv
<1>3. /\ source' = source \/ source' = [source EXCEPT ![player] = "playing"]
      /\ rotating' \subseteq rotating \cup {player} /\ ready' \subseteq ready \cup {player}
      /\ toRemove \subseteq toRemove' /\ toRemove' \subseteq toRemove \cup {player}
      /\ (source' = source /\ rotating' = rotating) \/ state[cacheOf[player]] = "READY"
  BY DEF CallPlay, StartsOrNot, MayPlay
<1>4. source \in [Plays -> {"silent", "playing", "stopped"}]
  BY DEF PlayersInv, PlayerTypes
<1>5. /\ source' \in [Plays -> {"silent", "playing", "stopped"}]
      /\ \A p \in Plays : p # player => source'[p] = source[p] /\ (p \in rotating' => p \in rotating)
  BY <1>3, <1>4
<1>6. \A p \in players : p \in info \/ p = player
  BY <1>1 DEF PlayersInv, LeavingInv, Leaving, Destroying
<1>7. op = "none" /\ toFree = {}
  BY <1>1 DEF PlayersInv, LeavingInv
<1>8. PlayerTypes'
  BY <1>1, <1>2, <1>3, <1>5 DEF PlayersInv, PlayerTypes, Created
<1>9. CallbacksInv'
  BY <1>1 DEF PlayersInv, CallbacksInv
<1>10. DestroyInv'
  <2>1. \A c \in Caches : task[c] = "starting" => Head(playCallbacks[c]) \notin destroyed
    BY <1>1 DEF PlayersInv, DestroyInv, MayStart
  <2>2. destroyed \subseteq Plays /\ \A p \in destroyed : Gone(p)
    BY <1>1, Numbers DEF PlayersInv, PlayerTypes, DestroyInv
  <2>3. \A p \in destroyed : Gone(p)'
    BY <1>2, <1>3, <1>5, <2>2 DEF Gone
  <2>4. \A p \in Plays : source'[p] # "silent" \/ p \in rotating' => p \in 1..plays /\ state[cacheOf[p]] = "READY"
    BY <1>2, <1>3, <1>5 DEF PlayersInv, DestroyInv
  <2>5. QED
    BY <1>1, <2>1, <2>3, <2>4 DEF DestroyInv, MayStart
<1>11. LeavingInv'
  BY <1>1, <1>6, <1>7 DEF PlayersInv, LeavingInv, Destroying
<1>12. SoundsHaveTheirPlayer'
  BY <1>1, <1>2, <1>5 DEF PlayersInv, SoundsHaveTheirPlayer
<1>13. QED
  BY <1>8, <1>9, <1>10, <1>11, <1>12 DEF PlayersInv

\* A call that stops the players of the caches it frees.
LEMMA BeginPlayers ==
  ASSUME CachesInv, PlayersInv,
         NEW call \in {"stop", "stopAll", "uncache", "uncacheAll", "end", "frame"},
         NEW stopped \in SUBSET players, NEW removed,
         call \in {"stop", "stopAll", "frame"} => removed = {},
         \A p \in players : cacheOf[p] \in removed => p \in stopped,
         Begin(call, stopped, removed)
  PROVE  PlayersInv'
<1>1. /\ main = "idle" /\ op' = call /\ toStop' = stopped /\ toFree' = removed /\ scan' = players
      /\ main' = IF stopped # {} THEN "stop" ELSE IF call = "uncache" THEN "free" ELSE "update"
      /\ UNCHANGED <<state, cached, freed, playCallbacks, task, players, cacheOf, destroyed, toRemove,
                     ready, source, rotating, info, player, plays>>
  BY DEF Begin, cacheVars, playerVars
<1>2. main' \in {"stop", "free", "update"} /\ (main' = "free" => toStop' = {})
  BY <1>1
<1>3. PlayerTypes'
  BY <1>1, <1>2 DEF PlayersInv, PlayerTypes, Created
<1>4. CallbacksInv'
  BY <1>1 DEF PlayersInv, CallbacksInv
<1>5. DestroyInv'
  BY <1>1, <1>2 DEF PlayersInv, DestroyInv, MayStart, Gone
<1>6. players = info
  BY <1>1 DEF PlayersInv, PlayerTypes, LeavingInv, Leaving, Destroying
<1>7. LeavingInv'
  BY <1>1, <1>2, <1>6 DEF PlayersInv, LeavingInv, Destroying
<1>8. SoundsHaveTheirPlayer'
  BY <1>1 DEF PlayersInv, SoundsHaveTheirPlayer
<1>9. QED
  BY <1>3, <1>4, <1>5, <1>7, <1>8 DEF PlayersInv

LEMMA CallsPlayers == ASSUME CachesInv, PlayersInv, Call \/ Frame PROVE PlayersInv'
<1>1. CASE \E c \in Caches : Preload(c) \/ Play(c)
  BY <1>1, PreloadPlayers, PlayPlayers
<1>2. CASE \E c \in Caches : Uncache(c)
  <2>1. PICK c \in Caches : Begin("uncache", {p \in info : cacheOf[p] = c}, {c})
    BY <1>2 DEF Uncache
  <2>2. main = "idle"
    BY <2>1 DEF Begin
  <2>3. players = info
    BY <2>2 DEF PlayersInv, PlayerTypes, LeavingInv, Leaving, Destroying
  <2>4. /\ {p \in info : cacheOf[p] = c} \in SUBSET players
        /\ \A p \in players : cacheOf[p] \in {c} => p \in {q \in info : cacheOf[q] = c}
    BY <2>3
  <2>5. QED
    BY <2>1, <2>4, BeginPlayers
<1>3. CASE \E p \in Plays : Stop(p)
  <2>1. PICK p \in Plays : p \in info /\ Begin("stop", {p}, {})
    BY <1>3 DEF Stop
  <2>2. {p} \in SUBSET players
    BY <2>1 DEF PlayersInv, PlayerTypes
  <2>3. QED
    BY <2>1, <2>2, BeginPlayers
<1>4. CASE StopAll \/ UncacheAll \/ End \/ Frame
  <2>1. {} \in SUBSET players /\ players \in SUBSET players
    OBVIOUS
  <2>2. QED
    BY <1>4, <2>1, BeginPlayers DEF StopAll, UncacheAll, End, Frame
<1>5. QED
  BY <1>1, <1>2, <1>3, <1>4 DEF Call

-----------------------------------------------------------------------------
(***************************************************************************)
(* The players and destroy().                                              *)
(***************************************************************************)
\* What the steps of destroy() and update() have in common: no player is created, found
\* or started, nor are callbacks added.
LEMMA OtherPlayers ==
  ASSUME PlayersInv, UNCHANGED <<playCallbacks, task, cacheOf, plays>>, players' \subseteq players,
         ThreadMutexFree \/ players' = players
  PROVE  CallbacksInv'
<1>1. \A c \in Caches : task[c] \in {"found", "starting"} => Head(playCallbacks[c]) \in players'
  BY DEF PlayersInv, CallbacksInv, ThreadMutexFree
<1>2. QED
  BY <1>1 DEF PlayersInv, CallbacksInv

LEMMA DestroyNextPlayers == ASSUME CachesInv, PlayersInv, DestroyNext PROVE PlayersInv'
<1>1. PICK p \in toStop : player' = p /\ toStop' = toStop \ {p} /\ info' = info \ {p}
  BY DEF DestroyNext
<1>2. /\ main = "stop" /\ main' = "destroy"
      /\ UNCHANGED <<state, cached, freed, playCallbacks, task, players, cacheOf, destroyed, toRemove,
                     ready, source, rotating, op, toFree, scan, plays>>
  BY DEF DestroyNext, cacheVars
<1>3. p \in players /\ p \in 1..plays /\ p \in 0..plays /\ cacheOf[p] \notin freed
  BY Numbers DEF PlayersInv, PlayerTypes, LeavingInv
<1>4. PlayerTypes'
  BY <1>1, <1>2, <1>3 DEF PlayersInv, PlayerTypes, Created
<1>5. CallbacksInv'
  BY <1>2, OtherPlayers
<1>6. DestroyInv'
  BY <1>1, <1>2 DEF PlayersInv, DestroyInv, MayStart, Gone
<1>7. LeavingInv'
  <2>1. \A q \in players : Leaving(q) \/ q = p => Leaving(q)'
    BY <1>1, <1>2, <1>3 DEF Leaving, Destroying
  <2>2. \A q \in players' : cacheOf'[q] \in toFree' => q \in toStop' \/ Leaving(q)'
    BY <1>1, <1>2, <2>1 DEF PlayersInv, LeavingInv
  <2>3. \A q \in players' \ info' : Leaving(q)'
    BY <1>1, <1>2, <2>1 DEF PlayersInv, LeavingInv
  <2>4. QED
    BY <1>1, <1>2, <1>3, <2>2, <2>3 DEF PlayersInv, LeavingInv, Destroying
<1>8. SoundsHaveTheirPlayer'
  BY <1>1, <1>2 DEF PlayersInv, SoundsHaveTheirPlayer
<1>9. QED
  BY <1>4, <1>5, <1>6, <1>7, <1>8 DEF PlayersInv

\* Inside destroy() nothing changes about which players are leaving.
LEMMA DestroyKeepsLeaving ==
  ASSUME CachesInv, PlayersInv, Destroying, Destroying', toRemove \subseteq toRemove',
         UNCHANGED <<freed, players, cacheOf, info, op, player, toStop, toFree, scan, plays>>
  PROVE  LeavingInv'
<1>1. \A q \in players : Leaving(q) => Leaving(q)'
  BY DEF Leaving, Destroying
<1>2. \A q \in players' : cacheOf'[q] \in toFree' => q \in toStop' \/ Leaving(q)'
  BY <1>1 DEF PlayersInv, LeavingInv
<1>3. \A q \in players' \ info' : Leaving(q)'
  BY <1>1 DEF PlayersInv, LeavingInv, Destroying
<1>4. QED
  BY <1>2, <1>3 DEF PlayersInv, LeavingInv, Destroying

LEMMA SetDestroyedPlayers == ASSUME CachesInv, PlayersInv, SetDestroyed PROVE PlayersInv'
<1>1. /\ main = "destroy" /\ destroyed' = destroyed \cup {player}
      /\ main' = IF player \in destroyed THEN "destroyed" ELSE "test"
      /\ UNCHANGED <<state, cached, freed, playCallbacks, task, players, cacheOf, toRemove,
                     ready, source, rotating, info, op, player, toStop, toFree, scan, plays>>
  BY DEF SetDestroyed, Flagged, cacheVars
<1>2. player \in 1..plays /\ player \in Plays
  BY <1>1, Numbers DEF PlayersInv, LeavingInv, Destroying
<1>3. PlayerTypes'
  BY <1>1, <1>2 DEF PlayersInv, PlayerTypes, Created
<1>4. CallbacksInv'
  BY <1>1, OtherPlayers
<1>5. \A p \in destroyed : Gone(p)
  BY <1>1 DEF PlayersInv, DestroyInv
<1>6. CASE player \in destroyed
  <2>1. main' = "destroyed" /\ destroyed' = destroyed /\ Gone(player)
    BY <1>1, <1>5, <1>6
  <2>2. DestroyInv'
    BY <1>1, <1>5, <1>6, <2>1 DEF PlayersInv, DestroyInv, MayStart, Gone
  <2>3. SoundsHaveTheirPlayer'
    BY <1>1, <2>1 DEF PlayersInv, SoundsHaveTheirPlayer, Gone
  <2>4. LeavingInv'
    BY <1>1, <2>1, DestroyKeepsLeaving DEF Destroying
  <2>5. QED
    BY <1>3, <1>4, <2>2, <2>3, <2>4 DEF PlayersInv
<1>7. CASE player \notin destroyed
  <2>1. main' = "test"
    BY <1>1, <1>7
  <2>2. DestroyInv'
    BY <1>1, <1>5, <2>1 DEF PlayersInv, DestroyInv, MayStart, Gone
  <2>3. SoundsHaveTheirPlayer'
    BY <1>1, <2>1 DEF PlayersInv, SoundsHaveTheirPlayer
  <2>4. LeavingInv'
    BY <1>1, <2>1, DestroyKeepsLeaving DEF Destroying
  <2>5. QED
    BY <1>3, <1>4, <2>2, <2>3, <2>4 DEF PlayersInv
<1>8. QED
  BY <1>6, <1>7

\* A player whose task has not begun has no source that plays, and will not be started
\* any more; neither will one whose file has been read.
LEMMA WaitPlayers == ASSUME CachesInv, PlayersInv, TestInitial \/ WaitLoaded PROVE PlayersInv'
<1>1. /\ main \in {"test", "wait"} /\ main' \in {"wait", "silence"}
      /\ UNCHANGED <<state, cached, freed, playCallbacks, task, players, cacheOf, destroyed, toRemove,
                     ready, source, rotating, info, op, player, toStop, toFree, scan, plays>>
      /\ main' = "silence" => \/ state[cacheOf[player]] = "INITIAL"
                              \/ cacheOf[player] \in finished /\ player \notin rotating
  BY DEF TestInitial, WaitLoaded, LoadingFinished, cacheVars, playerVars
<1>2. player \in 1..plays /\ player \in Plays /\ cacheOf[player] \in Caches /\ player \in destroyed
  BY <1>1, Numbers DEF PlayersInv, LeavingInv, DestroyInv, Destroying
<1>3. main' = "silence" => player \notin rotating /\ task[cacheOf[player]] # "starting"
  BY <1>1, <1>2 DEF PlayersInv, DestroyInv, CachesInv, ReadInv
<1>4. \A c \in Caches : task[c] = "starting" => cacheOf[Head(playCallbacks[c])] = c
  BY FirstCallback DEF PlayersInv, CallbacksInv
<1>5. \A c \in Caches : task[c] = "starting" => MayStart(Head(playCallbacks[c]))'
  BY <1>1, <1>3, <1>4 DEF PlayersInv, DestroyInv, MayStart
<1>6. PlayerTypes'
  BY <1>1 DEF PlayersInv, PlayerTypes, Created
<1>7. CallbacksInv'
  BY <1>1, OtherPlayers
<1>8. DestroyInv'
  BY <1>1, <1>2, <1>3, <1>5 DEF PlayersInv, DestroyInv, Gone
<1>9. LeavingInv'
  BY <1>1, DestroyKeepsLeaving DEF Destroying
<1>10. SoundsHaveTheirPlayer'
  BY <1>1 DEF PlayersInv, SoundsHaveTheirPlayer
<1>11. QED
  BY <1>6, <1>7, <1>8, <1>9, <1>10 DEF PlayersInv

LEMMA SilencePlayers == ASSUME CachesInv, PlayersInv, Silence PROVE PlayersInv'
<1>1. /\ main = "silence" /\ main' = "destroyed" /\ destroyed' = destroyed
      /\ source' = [source EXCEPT ![player] = "silent"] /\ toRemove' = toRemove \cup {player}
      /\ ready' \subseteq ready
      /\ UNCHANGED <<state, cached, freed, playCallbacks, task, players, cacheOf, rotating, info,
                     op, player, toStop, toFree, scan, plays>>
  BY DEF Silence, Flagged, cacheVars
<1>2. PICK q \in Plays : q = player /\ player \in 1..plays /\ player \in destroyed /\ player \notin rotating
  BY <1>1, Numbers DEF PlayersInv, LeavingInv, DestroyInv, Destroying
<1>3. source \in [Plays -> {"silent", "playing", "stopped"}]
  BY DEF PlayersInv, PlayerTypes
<1>4. /\ source' \in [Plays -> {"silent", "playing", "stopped"}] /\ source'[player] = "silent"
      /\ \A p \in Plays : p # player => source'[p] = source[p]
      /\ destroyed' = destroyed
  BY <1>1, <1>2, <1>3
<1>5. PlayerTypes'
  BY <1>1, <1>2, <1>4 DEF PlayersInv, PlayerTypes, Created
<1>6. CallbacksInv'
  BY <1>1, OtherPlayers
<1>7. DestroyInv'
  <2>1. destroyed \subseteq Plays
    BY Numbers DEF PlayersInv, PlayerTypes
  <2>2. \A p \in destroyed : Gone(p)'
    BY <1>1, <1>2, <1>4, <2>1 DEF PlayersInv, DestroyInv, Gone
  <2>3. \A c \in Caches : task[c] = "starting" => MayStart(Head(playCallbacks[c]))'
    BY <1>1, <1>4 DEF PlayersInv, DestroyInv, MayStart
  <2>4. QED
    BY <1>1, <1>2, <1>4, <2>2, <2>3 DEF PlayersInv, DestroyInv
<1>8. LeavingInv'
  BY <1>1, DestroyKeepsLeaving DEF Destroying
<1>9. SoundsHaveTheirPlayer'
  BY <1>1, <1>2, <1>4 DEF PlayersInv, SoundsHaveTheirPlayer
<1>10. QED
  BY <1>5, <1>6, <1>7, <1>8, <1>9 DEF PlayersInv

\* The player that was destroyed is to be removed, if it is still there.
LEMMA DestroyedPlayers == ASSUME CachesInv, PlayersInv, Destroyed PROVE PlayersInv'
<1>1. /\ main = "destroyed" /\ main' \in {"stop", "update"}
      /\ player \notin players => main' = "update" /\ scan' = scan
      /\ player \in players => scan' = players
      /\ UNCHANGED <<state, cached, freed, playCallbacks, task, players, cacheOf, destroyed, toRemove,
                     ready, source, rotating, info, op, player, toStop, toFree, plays>>
  BY DEF Destroyed, cacheVars, playerVars
<1>2. player \in destroyed /\ \A p \in destroyed : Gone(p)
  BY <1>1 DEF PlayersInv, DestroyInv
<1>3. PlayerTypes'
  BY <1>1 DEF PlayersInv, PlayerTypes, Created
<1>4. CallbacksInv'
  BY <1>1, OtherPlayers
<1>5. DestroyInv'
  BY <1>1, <1>2 DEF PlayersInv, DestroyInv, MayStart, Gone
<1>6. \A p \in players : Leaving(p) => Leaving(p)'
  BY <1>1, <1>2 DEF Leaving, Destroying, Gone
<1>7. LeavingInv'
  <2>1. \A q \in players' : cacheOf'[q] \in toFree' => q \in toStop' \/ Leaving(q)'
    BY <1>1, <1>6 DEF PlayersInv, LeavingInv
  <2>2. \A q \in players' \ info' : Leaving(q)'
    BY <1>1, <1>6 DEF PlayersInv, LeavingInv
  <2>3. QED
    BY <1>1, <2>1, <2>2 DEF PlayersInv, LeavingInv, Destroying
<1>8. SoundsHaveTheirPlayer'
  BY <1>1 DEF PlayersInv, SoundsHaveTheirPlayer
<1>9. QED
  BY <1>3, <1>4, <1>5, <1>7, <1>8 DEF PlayersInv

-----------------------------------------------------------------------------
(***************************************************************************)
(* The players, update() and what follows it.                              *)
(***************************************************************************)
\* The mutex keeps a player that a thread has found.
LEMMA UpdateErasesPlayers == ASSUME CachesInv, PlayersInv, UpdateErases PROVE PlayersInv'
<1>1. PICK p \in scan : /\ scan' = scan \ {p} /\ info' = info \ {p} /\ players' = players \ {p}
                        /\ toStop' = toStop \ {p} /\ player' = p /\ ThreadMutexFree
  BY DEF UpdateErases, InfoLeft, StopsValid
<1>2. /\ main = "update" /\ main' = "destroy"
      /\ UNCHANGED <<state, cached, freed, playCallbacks, task, cacheOf, destroyed, toRemove,
                     ready, source, rotating, op, toFree, plays>>
  BY DEF UpdateErases, cacheVars
<1>3. p \in players /\ p \in 1..plays /\ p \in 0..plays /\ cacheOf[p] \notin freed
  BY Numbers DEF PlayersInv, PlayerTypes, LeavingInv
<1>4. PlayerTypes'
  BY <1>1, <1>2, <1>3 DEF PlayersInv, PlayerTypes, Created
<1>5. CallbacksInv'
  BY <1>1, <1>2, OtherPlayers
<1>6. DestroyInv'
  BY <1>1, <1>2 DEF PlayersInv, DestroyInv, MayStart, Gone
<1>7. \A q \in players' : Leaving(q) => Leaving(q)'
  BY <1>1, <1>2 DEF Leaving, Destroying
<1>8. LeavingInv'
  <2>1. \A q \in players' : cacheOf'[q] \in toFree' => q \in toStop' \/ Leaving(q)'
    BY <1>1, <1>2, <1>7 DEF PlayersInv, LeavingInv
  <2>2. \A q \in players' \ info' : Leaving(q)'
    BY <1>1, <1>2, <1>7 DEF PlayersInv, LeavingInv
  <2>3. QED
    BY <1>1, <1>2, <1>3, <2>1, <2>2 DEF PlayersInv, LeavingInv, Destroying
<1>9. SoundsHaveTheirPlayer'
  <2>1. \A c \in Caches : task[c] \notin {"found", "starting"}
    BY <1>1 DEF ThreadMutexFree
  <2>2. \A q \in Plays : source[q] = "playing" \/ q \in rotating => q \in players' \/ q = p
    BY <1>1, <1>2 DEF PlayersInv, SoundsHaveTheirPlayer
  <2>3. QED
    BY <1>1, <1>2, <2>1, <2>2 DEF SoundsHaveTheirPlayer
<1>10. QED
  BY <1>4, <1>5, <1>6, <1>8, <1>9 DEF PlayersInv

LEMMA UpdatePassesPlayers == ASSUME CachesInv, PlayersInv, UpdatePasses PROVE PlayersInv'
<1>1. PICK p \in scan : p \notin toRemove /\ scan' = scan \ {p}
  BY DEF UpdatePasses, Over
<1>2. /\ main = "update"
      /\ UNCHANGED <<state, cached, freed, playCallbacks, task, players, cacheOf, destroyed, toRemove,
                     ready, source, rotating, info, main, op, player, toStop, toFree, plays>>
  BY DEF UpdatePasses, cacheVars, playerVars
<1>3. PlayerTypes'
  BY <1>1, <1>2 DEF PlayersInv, PlayerTypes, Created
<1>4. CallbacksInv' /\ SoundsHaveTheirPlayer'
  BY <1>2 DEF PlayersInv, CallbacksInv, SoundsHaveTheirPlayer
<1>5. DestroyInv'
  BY <1>2 DEF PlayersInv, DestroyInv, MayStart, Gone
<1>6. \A q \in players : Leaving(q) => Leaving(q)'
  BY <1>1, <1>2 DEF Leaving, Destroying
<1>7. LeavingInv'
  <2>1. \A q \in players' : cacheOf'[q] \in toFree' => q \in toStop' \/ Leaving(q)'
    BY <1>2, <1>6 DEF PlayersInv, LeavingInv
  <2>2. \A q \in players' \ info' : Leaving(q)'
    BY <1>2, <1>6 DEF PlayersInv, LeavingInv
  <2>3. QED
    BY <1>2, <2>1, <2>2 DEF PlayersInv, LeavingInv, Destroying
<1>8. QED
  BY <1>3, <1>4, <1>5, <1>7 DEF PlayersInv

\* When update() has looked at all players, those that had to go have gone.
LEMMA UpdateReturnsPlayers == ASSUME CachesInv, PlayersInv, UpdateReturns PROVE PlayersInv'
<1>1. /\ main = "update" /\ scan = {}
      /\ IF AfterUpdate = "idle" THEN main' = "idle" /\ op' = "none" /\ player' = 0
         ELSE main' = AfterUpdate /\ UNCHANGED <<op, player>>
      /\ UNCHANGED <<state, cached, freed, playCallbacks, task, players, cacheOf, destroyed, toRemove,
                     ready, source, rotating, info, toStop, toFree, scan, plays>>
  BY DEF UpdateReturns, BackToIdle, cacheVars, playerVars
<1>2. op \in {"none", "stop", "stopAll", "uncache", "uncacheAll", "end", "frame"}
  BY DEF PlayersInv, PlayerTypes
<1>3. /\ AfterUpdate \in {"stop", "perform", "joinPool", "free", "idle"}
      /\ AfterUpdate # "stop" => toStop = {}
      /\ AfterUpdate = "perform" => op = "frame"
      /\ AfterUpdate = "idle" => op \in {"none", "stop", "stopAll"}
  BY <1>2 DEF AfterUpdate
<1>4. /\ main' \in {"stop", "perform", "joinPool", "free", "idle"}
      /\ main' # "stop" => toStop = {}
      /\ main' = "perform" => op' = "frame"
      /\ main' = "idle" => toFree = {} /\ op' = "none"
      /\ op' = op \/ (op' = "none" /\ toFree = {})
      /\ player' = player \/ player' = 0
  BY <1>1, <1>3 DEF PlayersInv, LeavingInv
<1>5. \A p \in players : p \in info /\ (cacheOf[p] \in toFree => p \in toStop)
  BY <1>1 DEF PlayersInv, LeavingInv, Leaving, Destroying
<1>6. PlayerTypes'
  BY <1>1, <1>2, <1>4, Numbers DEF PlayersInv, PlayerTypes, Created
<1>7. CallbacksInv'
  BY <1>1, OtherPlayers
<1>8. DestroyInv'
  BY <1>1, <1>4 DEF PlayersInv, DestroyInv, MayStart, Gone
<1>9. LeavingInv'
  BY <1>1, <1>4, <1>5 DEF PlayersInv, LeavingInv, Destroying
<1>10. SoundsHaveTheirPlayer'
  BY <1>1 DEF PlayersInv, SoundsHaveTheirPlayer
<1>11. QED
  BY <1>6, <1>7, <1>8, <1>9, <1>10 DEF PlayersInv

\* The end of a call; only caches without a player are freed.
LEMMA EndPlayers ==
  ASSUME CachesInv, PlayersInv,
         PerformFunctions \/ JoinPool \/ DestroyCache \/ FreeCache \/ AllFreed
  PROVE  PlayersInv'
<1>1. /\ main \in {"perform", "joinPool", "free", "waitTask"}
      /\ main' \in {"idle", "free", "waitTask", "ended"}
      /\ main' # "idle" => main # "perform" /\ UNCHANGED <<op, player>>
      /\ main' = "idle" => op' = "none" /\ player' = 0 /\ (main = "perform" \/ toFree = {})
      /\ toFree' \subseteq toFree /\ cached' \cup freed' = cached \cup freed
      /\ freed' = freed \/ (cache \in toFree /\ freed' = freed \cup {cache})
      /\ UNCHANGED <<state, playCallbacks, task, players, cacheOf, destroyed, toRemove,
                     ready, source, rotating, info, toStop, scan, plays>>
  <2>1. toFree \subseteq cached /\ (main = "waitTask" => cache \in toFree)
    BY DEF CachesInv, CacheTypes
  <2>2. CASE PerformFunctions \/ JoinPool \/ DestroyCache \/ AllFreed
    BY <2>2 DEF PerformFunctions, JoinPool, DestroyCache, AllFreed, BackToIdle, cacheVars, playerVars
  <2>3. CASE FreeCache
    BY <2>1, <2>3 DEF FreeCache, playerVars
  <2>4. QED
    BY <2>2, <2>3
<1>2. /\ \A p \in players : p \in info /\ (cacheOf[p] \in toFree => p \in toStop)
      /\ main # "perform" => toStop = {} /\ \A p \in players : cacheOf[p] \notin toFree
  BY <1>1 DEF PlayersInv, LeavingInv, Leaving, Destroying
<1>3. \A p \in players : cacheOf[p] \notin freed'
  <2>1. freed' # freed => main # "perform"
    BY <1>1 DEF PerformFunctions, PlayersInv, LeavingInv
  <2>2. QED
    BY <1>1, <1>2, <2>1 DEF PlayersInv, LeavingInv
<1>4. /\ main' # "idle" => toStop = {}
      /\ main' = "idle" => toFree' = {}
      /\ op' = op \/ (op' = "none" /\ toFree' = {})
  BY <1>1, <1>2 DEF PlayersInv, LeavingInv
<1>5. PlayerTypes'
  <2>1. player' = player \/ player' = 0
    BY <1>1
  <2>2. Created' = Created
    BY <1>1 DEF Created
  <2>3. QED
    BY <1>1, <1>4, <2>1, <2>2, Numbers DEF PlayersInv, PlayerTypes
<1>6. CallbacksInv'
  BY <1>1, OtherPlayers
<1>7. DestroyInv'
  BY <1>1 DEF PlayersInv, DestroyInv, MayStart, Gone
<1>8. LeavingInv'
  BY <1>1, <1>2, <1>3, <1>4 DEF PlayersInv, LeavingInv, Destroying
<1>9. SoundsHaveTheirPlayer'
  BY <1>1 DEF PlayersInv, SoundsHaveTheirPlayer
<1>10. QED
  BY <1>5, <1>6, <1>7, <1>8, <1>9 DEF PlayersInv

LEMMA NextPlayers == ASSUME CachesInv, PlayersInv, MarkInv, [Next]_vars PROVE PlayersInv'
<1>1. CASE \E c \in Caches : Work(c)
  BY <1>1, WorkPlayers
<1>2. CASE \E p \in Plays : RotateStops(p) \/ StreamEnds(p) \/ SourceEnds(p)
  BY <1>2, SourcePlayers
<1>3. CASE Continue
  BY <1>3, AddPlayers, CallPlayers, DestroyNextPlayers, SetDestroyedPlayers, WaitPlayers, SilencePlayers,
     DestroyedPlayers, UpdateErasesPlayers, UpdatePassesPlayers, UpdateReturnsPlayers, EndPlayers
     DEF Continue
<1>4. CASE Call \/ Frame
  BY <1>4, CallsPlayers
<1>5. CASE Quiet \/ UNCHANGED vars
  <2>1. UNCHANGED vars
    BY <1>5 DEF Quiet
  <2>2. UNCHANGED <<state, cached, freed, task, playCallbacks, playerVars, main, op, player, toStop,
                    toFree, scan, plays>>
    BY <2>1 DEF vars, cacheVars, mainVars
  <2>3. QED
    BY <2>2, SamePlayers
<1>6. QED
  BY <1>1, <1>2, <1>3, <1>4, <1>5 DEF Next

LEMMA InitPlayers == ASSUME Init PROVE PlayersInv
<1>1. /\ state = [c \in Caches |-> "INITIAL"] /\ task = [c \in Caches |-> "none"]
      /\ playCallbacks = [c \in Caches |-> << >>] /\ cacheOf = [p \in Plays |-> 0]
      /\ source = [p \in Plays |-> "silent"] /\ players = {} /\ destroyed = {} /\ toRemove = {}
      /\ ready = {} /\ rotating = {} /\ info = {} /\ main = "idle" /\ op = "none" /\ player = 0
      /\ toStop = {} /\ toFree = {} /\ scan = {} /\ plays = 0 /\ freed = {}
  BY DEF Init
<1>2. PlayerTypes
  <2>1. 0 \in 0..MaxCaches /\ 0 \in 0..MaxPlays /\ 0 \in 0..plays /\ 1..plays = {}
    BY <1>1, SizesAssumption
  <2>2. QED
    BY <1>1, <2>1 DEF PlayerTypes
<1>3. CallbacksInv
  <2>1. << >> \in Seq(Plays) /\ DOMAIN << >> = {}
    OBVIOUS
  <2>2. QED
    BY <1>1, <2>1 DEF CallbacksInv
<1>4. DestroyInv
  BY <1>1 DEF DestroyInv
<1>5. LeavingInv
  BY <1>1 DEF LeavingInv, Destroying
<1>6. SoundsHaveTheirPlayer
  BY <1>1 DEF SoundsHaveTheirPlayer
<1>7. QED
  BY <1>2, <1>3, <1>4, <1>5, <1>6 DEF PlayersInv

-----------------------------------------------------------------------------
(***************************************************************************)
(* The players that are marked.                                            *)
(***************************************************************************)
\* No player comes or goes, and destroy() is not about to wait.
LEMMA SameMarks ==
  ASSUME MarkInv, UNCHANGED <<unwaited, destroyed, players, plays, cacheOf>>, finished \subseteq finished',
         UNCHANGED <<main, player>> \/ main \notin {"destroy", "test", "wait"},
         \A c \in Caches : task'[c] = "marking" => playCallbacks'[c] # << >>
  PROVE  MarkInv'
<1>1. \A p \in destroyed : Waited(p) => Waited(p)'
  BY DEF Waited
<1>2. \A p \in destroyed : Waited(p)' \/ (p = player' /\ main' \in {"test", "wait"})
  BY <1>1 DEF MarkInv
<1>3. \A p \in 1..plays : p \in players \cup destroyed \/ (p = player' /\ main' = "destroy")
  BY DEF MarkInv
<1>4. QED
  BY <1>2, <1>3 DEF MarkInv

LEMMA WorkMarks == ASSUME CachesInv, PlayersInv, MarkInv, NEW c \in Caches, Work(c) PROVE MarkInv'
<1>1. task \in [Caches -> Places] /\ playCallbacks \in [Caches -> Seq(Plays)]
  BY DEF CachesInv, CacheTypes, Places, PlayersInv, CallbacksInv
<1>2. /\ UNCHANGED <<unwaited, destroyed, players, plays, cacheOf, main, player>>
      /\ finished \subseteq finished'
  BY DEF Work, TakeTask, SkipTask, ReadData, DataRead, LockCallbacks, FindPlayer, LookUpPlayer, MarkPlayer,
         TestPlayer, StartPlayer, CallbacksDone, PostLoaded, FinishLoading, UnlockRead, cacheVars,
         playerVars, mainVars
<1>3. \/ Goto(c, "marking") /\ playCallbacks[c] # << >> /\ UNCHANGED playCallbacks
      \/ task' = task /\ task[c] # "marking" /\ (NextCallback(c) \/ UNCHANGED playCallbacks)
      \/ \E place \in Places \ {"marking"} : Goto(c, place) /\ (NextCallback(c) \/ UNCHANGED playCallbacks)
  <2>1. CASE LookUpPlayer(c) \/ FindPlayer(c)
    BY <2>1 DEF LookUpPlayer, FindPlayer, Places
  <2>2. CASE MarkPlayer(c) \/ TestPlayer(c) \/ StartPlayer(c)
    BY <2>2 DEF MarkPlayer, TestPlayer, StartPlayer, Places
  <2>3. CASE TakeTask(c) \/ SkipTask(c) \/ ReadData(c) \/ DataRead(c) \/ LockCallbacks(c)
    BY <2>3 DEF TakeTask, SkipTask, ReadData, DataRead, LockCallbacks, Places
  <2>4. CASE CallbacksDone(c) \/ PostLoaded(c) \/ FinishLoading(c) \/ UnlockRead(c)
    BY <2>4 DEF CallbacksDone, PostLoaded, FinishLoading, UnlockRead, Places
  <2>5. QED
    BY <2>1, <2>2, <2>3, <2>4 DEF Work
<1>4. \A d \in Caches : task'[d] = "marking" =>
        playCallbacks'[d] = playCallbacks[d] /\ (task[d] = "marking" \/ playCallbacks[d] # << >>)
  BY <1>1, <1>3 DEF Goto, NextCallback
<1>5. \A d \in Caches : task'[d] = "marking" => playCallbacks'[d] # << >>
  BY <1>4 DEF MarkInv
<1>6. QED
  BY <1>2, <1>5, SameMarks

\* A cache that is new is marking nobody.
LEMMA CacheMarks ==
  ASSUME CachesInv, MarkInv, NEW c \in Caches, Cache(c), UNCHANGED playCallbacks
  PROVE  \A d \in Caches : task'[d] = "marking" => playCallbacks'[d] # << >>
<1>1. task \in [Caches -> Places]
  BY DEF CachesInv, CacheTypes, Places
<1>2. task' = task \/ task' = [task EXCEPT ![c] = "queued"]
  BY DEF Cache, Goto
<1>3. \A d \in Caches : task'[d] = "marking" => task[d] = "marking"
  BY <1>1, <1>2
<1>4. QED
  BY <1>3 DEF MarkInv

LEMMA AskMarks ==
  ASSUME CachesInv, PlayersInv, MarkInv, NEW c \in Caches, Preload(c) \/ Play(c) PROVE MarkInv'
<1>1. \A d \in Caches : task'[d] = "marking" => playCallbacks'[d] # << >>
  BY CacheMarks DEF Preload, Play
<1>2. CASE Preload(c)
  BY <1>1, <1>2, SameMarks DEF Preload, playerVars
<1>3. CASE Play(c)
  <2>1. /\ main = "idle" /\ main' = "add" /\ plays' = plays + 1 /\ players' = players \cup {plays + 1}
        /\ cacheOf' = [cacheOf EXCEPT ![plays + 1] = c]
        /\ UNCHANGED <<unwaited, destroyed, finished>>
    BY <1>3 DEF Play
  <2>2. plays \in Nat /\ destroyed \subseteq 1..plays /\ cacheOf \in [Plays -> 0..MaxCaches] /\ 1..plays \subseteq Plays
    BY Numbers DEF PlayersInv, PlayerTypes
  <2>3. \A p \in destroyed : cacheOf'[p] = cacheOf[p]
    BY <2>1, <2>2
  <2>4. \A p \in destroyed : Waited(p)'
    BY <2>1, <2>3 DEF MarkInv, Waited
  <2>5. \A p \in 1..(plays + 1) : p \in players' \cup destroyed
    BY <2>1, <2>2 DEF MarkInv
  <2>6. unwaited \in [Plays -> 0..(plays + 1)]
    BY <2>2 DEF MarkInv
  <2>7. QED
    BY <1>1, <2>1, <2>4, <2>5, <2>6 DEF MarkInv
<1>4. QED
  BY <1>2, <1>3

LEMMA AddMarks == ASSUME PlayersInv, MarkInv, AddPlayCallback PROVE MarkInv'
<1>1. /\ main = "add"
      /\ UNCHANGED <<unwaited, destroyed, players, plays, cacheOf, finished, task>>
      /\ \/ UNCHANGED playCallbacks
         \/ playCallbacks' = [playCallbacks EXCEPT ![cacheOf[player]] = Append(@, player)]
  BY DEF AddPlayCallback, cacheVars
<1>2. playCallbacks \in [Caches -> Seq(Plays)]
  BY DEF PlayersInv, CallbacksInv
<1>3. \A c \in Caches : playCallbacks[c] # << >> => playCallbacks'[c] # << >>
  <2>1. \A c \in Caches : playCallbacks[c] \in Seq(Plays) /\ Append(playCallbacks[c], player) # << >>
    BY <1>2
  <2>2. QED
    BY <1>1, <1>2, <2>1
<1>4. QED
  BY <1>1, <1>3, SameMarks DEF MarkInv

LEMMA DestroyMarks ==
  ASSUME CachesInv, PlayersInv, MarkInv, SetDestroyed \/ TestInitial \/ WaitLoaded PROVE MarkInv'
<1>1. /\ UNCHANGED <<player, players, plays, cacheOf, finished, task, playCallbacks>>
      /\ main \in {"destroy", "test", "wait"}
  BY DEF SetDestroyed, TestInitial, WaitLoaded, cacheVars, playerVars
<1>2. player \in 1..plays /\ player \in Plays /\ plays \in Nat
  BY <1>1, Numbers DEF PlayersInv, LeavingInv, PlayerTypes, Destroying
<1>3. CASE SetDestroyed
  <2>1. /\ main = "destroy" /\ main' = IF player \in destroyed THEN "destroyed" ELSE "test"
        /\ destroyed' = destroyed \cup {player} /\ UNCHANGED unwaited
    BY <1>3 DEF SetDestroyed, Flagged
  <2>2. \A p \in destroyed : Waited(p)'
    BY <1>1, <2>1 DEF MarkInv, Waited
  <2>3. \A p \in destroyed' : Waited(p)' \/ (p = player' /\ main' \in {"test", "wait"})
    BY <1>1, <2>1, <2>2
  <2>4. QED
    BY <1>1, <2>1, <2>3 DEF MarkInv
<1>4. CASE TestInitial
  <2>1. /\ main = "test" /\ destroyed' = destroyed
        /\ \/ main' = "silence" /\ unwaited' = [unwaited EXCEPT ![player] = plays]
           \/ main' = "wait" /\ unwaited' = unwaited
    BY <1>4 DEF TestInitial, playerVars
  <2>2. unwaited \in [Plays -> 0..plays] /\ plays # 0
    BY <1>2 DEF MarkInv
  <2>3. /\ unwaited' \in [Plays -> 0..plays]
        /\ \A p \in Plays : unwaited[p] # 0 => unwaited'[p] # 0
        /\ main' = "silence" => unwaited'[player] # 0
    BY <1>2, <2>1, <2>2
  <2>4. destroyed \subseteq Plays
    BY Numbers DEF PlayersInv, PlayerTypes
  <2>5. \A p \in destroyed : Waited(p)' \/ (p = player' /\ main' \in {"test", "wait"})
    BY <1>1, <2>1, <2>3, <2>4 DEF MarkInv, Waited
  <2>6. QED
    BY <1>1, <2>1, <2>3, <2>5 DEF MarkInv
<1>5. CASE WaitLoaded
  <2>1. main = "wait" /\ main' = "silence" /\ UNCHANGED <<destroyed, unwaited>> /\ cacheOf[player] \in finished
    BY <1>5 DEF WaitLoaded, LoadingFinished, playerVars
  <2>2. \A p \in destroyed : Waited(p)'
    BY <1>1, <2>1 DEF MarkInv, Waited
  <2>3. QED
    BY <1>1, <2>1, <2>2 DEF MarkInv
<1>6. QED
  BY <1>3, <1>4, <1>5

LEMMA UpdateErasesMarks == ASSUME MarkInv, UpdateErases PROVE MarkInv'
<1>1. PICK p : players' = players \ {p} /\ player' = p
  BY DEF UpdateErases
<1>2. /\ main = "update" /\ main' = "destroy"
      /\ UNCHANGED <<unwaited, destroyed, plays, cacheOf, finished, task, playCallbacks>>
  BY DEF UpdateErases, cacheVars
<1>3. \A q \in destroyed : Waited(q)'
  BY <1>2 DEF MarkInv, Waited
<1>4. QED
  BY <1>1, <1>2, <1>3 DEF MarkInv

\* The other steps touch neither players nor callbacks.
LEMMA OtherMarks ==
  ASSUME MarkInv, UNCHANGED <<unwaited, destroyed, players, plays, cacheOf, finished, task, playCallbacks>>,
         UNCHANGED <<main, player>> \/ main \notin {"destroy", "test", "wait"}
  PROVE  MarkInv'
BY SameMarks DEF MarkInv

LEMMA NextMarks == ASSUME CachesInv, PlayersInv, MarkInv, [Next]_vars PROVE MarkInv'
<1>1. CASE \E c \in Caches : Work(c)
  BY <1>1, WorkMarks
<1>2. CASE \E p \in Plays : RotateStops(p) \/ StreamEnds(p) \/ SourceEnds(p)
  BY <1>2, OtherMarks DEF RotateStops, StreamEnds, SourceEnds, cacheVars, mainVars
<1>3. CASE Continue
  <2>1. CASE CallPlay \/ DestroyNext \/ Silence \/ Destroyed
    BY <2>1, OtherMarks DEF CallPlay, DestroyNext, Silence, Flagged, Destroyed, cacheVars, playerVars
  <2>2. CASE UpdatePasses \/ UpdateReturns
    BY <2>2, OtherMarks DEF UpdatePasses, UpdateReturns, cacheVars, playerVars
  <2>3. CASE PerformFunctions \/ JoinPool \/ DestroyCache \/ FreeCache \/ AllFreed
    BY <2>3, OtherMarks DEF PerformFunctions, JoinPool, DestroyCache, FreeCache, AllFreed, cacheVars, playerVars
  <2>4. QED
    BY <1>3, <2>1, <2>2, <2>3, AddMarks, DestroyMarks, UpdateErasesMarks DEF Continue
<1>4. CASE Call \/ Frame
  <2>1. CASE \E c \in Caches : Preload(c) \/ Play(c)
    BY <2>1, AskMarks
  <2>2. ASSUME NEW call, NEW stopped, NEW removed, Begin(call, stopped, removed) PROVE MarkInv'
    BY <2>2, OtherMarks DEF Begin, cacheVars, playerVars
  <2>3. QED
    BY <1>4, <2>1, <2>2 DEF Call, Stop, StopAll, Uncache, UncacheAll, End, Frame
<1>5. CASE Quiet \/ UNCHANGED vars
  BY <1>5, OtherMarks DEF Quiet, vars, cacheVars, playerVars, mainVars
<1>6. QED
  BY <1>1, <1>2, <1>3, <1>4, <1>5 DEF Next

LEMMA InitMarks == ASSUME Init PROVE MarkInv
<1>1. /\ unwaited = [p \in Plays |-> 0] /\ plays = 0 /\ destroyed = {}
      /\ task = [c \in Caches |-> "none"]
  BY DEF Init
<1>2. QED
  BY <1>1 DEF MarkInv

\* A task that marks a player is not over, so that whoever waited for it has not gone on.
LEMMA AudioMarks == ASSUME CachesInv, PlayersInv, MarkInv PROVE MarkedPlayerIsThere
<1>1. SUFFICES ASSUME NEW c \in Caches, task[c] = "marking"
               PROVE  LET p == Head(playCallbacks[c])
                      IN  \/ p \in players
                          \/ p = player /\ main \in {"destroy", "test", "wait", "silence", "destroyed"}
                          \/ unwaited[p] # 0
  BY DEF MarkedPlayerIsThere
<1>2. PICK p \in 1..plays : p = Head(playCallbacks[c]) /\ cacheOf[p] = c
  BY <1>1, FirstCallback DEF MarkInv, PlayersInv
<1>3. c \notin finished
  BY <1>1 DEF CachesInv, ReadInv
<1>4. QED
  BY <1>2, <1>3 DEF MarkInv, Waited

-----------------------------------------------------------------------------
(***************************************************************************)
(* What every behaviour of the engine keeps.                               *)
(***************************************************************************)
LEMMA AudioInductive == AudioInv /\ [Next]_vars => AudioInv'
BY NextCaches, NextPlayers, NextMarks DEF AudioInv

\* The inductive invariant holds of every behaviour of AudioEngine.
THEOREM AudioInvariant == Spec => []AudioInv
<1>1. Init => AudioInv
  BY InitCaches, InitPlayers, InitMarks DEF AudioInv
<1>2. QED
  BY <1>1, AudioInductive, PTL DEF Spec

LEMMA AudioTypes == AudioInv => TypeOK
<1>1. SUFFICES ASSUME AudioInv PROVE TypeOK
  OBVIOUS
<1>2. loadCallbacks \in [Caches -> 0..MaxLoads]
  <2>1. loads <= MaxLoads /\ loads \in Nat /\ loadCallbacks \in [Caches -> 0..loads]
    BY <1>1, SizesAssumption DEF AudioInv, CachesInv, CacheTypes
  <2>2. 0..loads \subseteq 0..MaxLoads
    BY <2>1, SizesAssumption
  <2>3. QED
    BY <2>1, <2>2
<1>3. CacheTypes /\ TasksInv /\ PlayerTypes /\ CallbacksInv /\ unwaited \in [Plays -> 0..plays]
  BY <1>1 DEF AudioInv, CachesInv, PlayersInv, MarkInv
<1>4. QED
  BY <1>2, <1>3 DEF TypeOK, CacheTypes, TasksInv, PlayerTypes, CallbacksInv, Created

\* A cache that is freed has neither a task nor a player, nor the thread of one.
LEMMA AudioCaches == AudioInv => SoundsKeepWhatTheyUse
<1>1. SUFFICES ASSUME AudioInv PROVE SoundsKeepWhatTheyUse
  OBVIOUS
<1>2. SoundsHaveTheirPlayer
  BY <1>1 DEF AudioInv, PlayersInv
<1>3. \A c \in freed : task[c] = "over"
  BY <1>1 DEF AudioInv, CachesInv, CacheTypes, ReadInv
<1>4. \A p \in players : cacheOf[p] \notin freed
  BY <1>1 DEF AudioInv, PlayersInv, LeavingInv
<1>5. \A p \in rotating : cacheOf[p] \notin freed
  <2>1. rotating \subseteq Plays
    BY <1>1, Numbers DEF AudioInv, PlayersInv, PlayerTypes
  <2>2. \A p \in rotating : p \in players \/ (p = player /\ Destroying)
    BY <1>2, <2>1 DEF SoundsHaveTheirPlayer, Destroying
  <2>3. QED
    BY <1>1, <1>4, <2>2 DEF AudioInv, PlayersInv, LeavingInv
<1>6. QED
  BY <1>1, <1>2, <1>3, <1>4, <1>5, AudioMarks DEF AudioInv, SoundsKeepWhatTheyUse, CachesOutliveTheirUse

LEMMA AudioInfos == AudioInv => NoInstanceIsLeaked
BY DEF AudioInv, PlayersInv, PlayerTypes, LeavingInv, Leaving, Destroying, NoInstanceIsLeaked

\* The frames of MCFrames are steps of the engine, or leave it alone.
LEMMA FramesKeepAudio == FramesSpec => []AudioInv
<1>1. FramesInit => AudioInv
  BY InitCaches, InitPlayers, InitMarks DEF FramesInit, AudioInv
<1>2. [FramesNext]_allVars => [Next]_vars
  BY DEF FramesNext, TimersStep, AudioStep, allVars
<1>3. AudioInv /\ [FramesNext]_allVars => AudioInv'
  BY <1>2, AudioInductive
<1>4. QED
  BY <1>1, <1>3, PTL DEF FramesSpec

\* Every variable of the engine has its type, and no more threads work than the pool has.
THEOREM AudioTypesHold == FramesSpec => []TypeOK
BY FramesKeepAudio, AudioTypes, PTL

\* No sound is heard, or fed by a thread, without a player by which it can be stopped; no
\* thread starts a player that update() has deleted, nor marks one unless destroy() found the
\* cache INITIAL and waited for nothing (which the code does not exclude); and the memory of a cache outlives its
\* task, its players and their threads, whatever the threads do while the cocos thread
\* stops, erases and frees.
THEOREM SoundsAreKept == FramesSpec => []SoundsKeepWhatTheyUse
BY FramesKeepAudio, AudioCaches, PTL

\* Between the calls of the engine there is one AudioInfo for each player.
THEOREM NoInstanceLeaks == FramesSpec => []NoInstanceIsLeaked
BY FramesKeepAudio, AudioInfos, PTL
=============================================================================
