# TLA+ models of the concurrent core of cocos2d-x-lite

The engine draws and animates on one thread, the *cocos thread* or main thread, and hands
slow work to others: downloads, decompression, sockets, audio decoding, and the GPU, which
is frames behind.  What it draws is numerical and is not modelled.  What this project models
is the part where order matters: the scheduler whose frame loop runs user callbacks that
change the scheduler, the queue by which other threads get functions performed on the main
thread, the two pools of threads, the downloader, WebSocket and HttpClient with their threads,
the audio engine, the assets manager that updates an application across failures and
crashes, and the memory a Vulkan device may use again once the GPU is done with it.  Sources
are named relative to `src/`.

## 1. The system

### Inventory

| Component | State | Operations | Talks to | Hard because |
|---|---|---|---|---|
| **Scheduler** `cocos/base/Scheduler.cpp` | hash of elements per target, array of reference-counted timers in each, loop index, salvage flags | schedule, unschedule, unscheduleAllForTarget, pause, resume, update | every component with a timer | callbacks call it from the middle of its loop |
| **performFunctionInCocosThread** (same file) | queue, mutex | post (any thread), remove all, drain at the end of update | downloader, HttpClient, WebSocket, AsyncTaskPool, audio | test without the lock, copy and clear, posts during the drain |
| **Downloader** `cocos/network/Downloader-curl.cpp` | request, processing and finished queues, a thread object, a static set of paths, files | create a task, worker loop, `_onSchedule` | Scheduler (polling), assets manager | queues with a mutex each, a thread that ends while work arrives, partial files |
| **AssetsManagerEx, Manifest** `extensions/assets-manager` | update state, three manifests two of which may be one object, units, counters, files | checkUpdate, update, downloadFailedAssets, callbacks of downloads | Downloader, AsyncTaskPool, server, application | crash at any point, resume, retry, aliasing |
| **ThreadPool** `cocos/base/ThreadPool.cpp` | task queue, idle count, flags per thread | push, stretch, shrink, stop | audio | joins busy threads, a queue refilled without a wake-up |
| **AsyncTaskPool** `extensions/assets-manager/AsyncTaskPool.h` | a task queue and a callback queue per type | enqueue, stopTasks, destruction | Scheduler | two queues in step |
| **WebSocket** `cocos/network/WebSocket-libwebsockets.cpp` | ready state, close state, message queue | open, send, close, closeAsync, callbacks of libwebsockets | Scheduler | close handshake over two mutexes and a condition variable |
| **HttpClient** `cocos/network/HttpClient.cpp` | request and response queues, thread count | send, sendImmediate, destroyInstance | Scheduler | who deletes the client |
| EventDispatcher `cocos/bindings/event` | linked lists of listeners, id counter | add, remove, removeAll, dispatch | script | removal during a dispatch |
| **AudioEngine, oalsoft** `cocos/audio` | audio ids, caches, players | play, stop, preload, end, background | a pool of its own, Scheduler | cache destroyed while a task reads it, stop() inside update() |
| Android audio `cocos/audio/android` | preload map, tracks, mixer | preload, play, mix | own threads | lost wake-ups, callbacks of failed preloads |
| Ref, AutoreleasePool `cocos/base` | reference counts, a stack of pools | retain, release, autorelease, clear | all | autorelease while a pool is cleared |
| **Vulkan pools** `cocos/renderer/gfx-vulkan` | per back buffer: command buffers, fences, staging memory, recycle bin, descriptor sets and the updates they wait for | request, yield, collect, record, acquire, submit, present | script, render pipeline, GPU | reuse before the GPU is done, a swapchain recreated in between |
| Render backends and pipeline, bindings, platform, storage, ui, spine and dragonbones, math | – | – | – | no protocol of their own; see section 8 |

### What makes each right

* **Scheduler.** No callback makes the loop touch freed memory, skip a timer or tick one
  twice; a timer ends after `repeat + 1` triggers; a frame ends.
* **Main-thread functions.** Performed once, in order of posting, none lost, none waiting
  for ever.
* **Downloader.** Every task is in exactly one place and is reported exactly once; a task the
  main thread reports is no longer the worker's; success means the file is whole.
* **AssetsManagerEx.** An update ends; the counters that end it are right; progress on disk is
  true; the version that the cached manifest names is complete.
* **ThreadPool, AsyncTaskPool.** A task runs once or is dropped while it waits; none waits for
  a busy thread while another sleeps; no thread is lost; each task's callback is its own.
* **WebSocket.** Events in order, the end told once, `close()` and the last destructor return,
  no thread uses a socket that is gone. **HttpClient.** Each request is answered once; the
  last user deletes the client, and nobody uses it after that.
* **Audio.** No sound without a player by which it can be stopped, no cache freed in use; the
  waits of destructors end. **Vulkan.** Nothing is changed or handed out while the GPU uses it;
  a frame draws with the descriptors as they were last set.
* **EventDispatcher.** A dispatch touches live nodes only (not modelled).

### How they interact

A download ends on the Downloader's worker, which moves it to a queue; the main thread's
`_onSchedule`, a Scheduler timer, fetches it and calls AssetsManagerEx, which may hand a zip to
AsyncTaskPool; that pool's thread posts `decompressFinished` with
performFunctionInCocosThread, and Scheduler::update drains it.  So AssetsManager (model) stands
on the guarantee of Downloader (each task reported once), of AsyncTaskPool (one callback per
task) and of the function queue (each function performed).  WebSocket, HttpClient and the audio
caches post their events with the same queue; a restart of the virtual machine
(`Application::restartVM`) ends all of them in one call of the cocos thread.  The scripts and
ForwardPipeline use the device between `acquire()` and `present()`.

## 2. Modules

| Module | What | Used by |
|---|---|---|
| `Scheduler` | timers and the frame loop | `MCScheduler`, `MCUpdates_proofs` |
| `CocosThreadCalls` | abstract: one sequence of calls | `FunctionQueue`, `AsyncTaskPool` (`INSTANCE`) |
| `FunctionQueue` | the scheduler's queue of functions, its mutex and its drain | `MCPools`, `MCPools_proofs` |
| `TaskService` | abstract: a task waits, runs once, or is dropped while it waits | `ThreadPool`, `AsyncTaskPool` (`INSTANCE`) |
| `ThreadPool` | the worker threads with their flags, push, stretch, shrink, stop | `MCPools`, `ThreadPool_proofs` |
| `AsyncTaskPool` | a thread, a queue of tasks and one of callbacks for each type | `MCPools`, `MCPools_proofs` |
| `Downloader` | the two threads, queues and files of DownloaderCURL | `MCDownloader` |
| `AssetsManager` | AssetsManagerEx, Manifest, the disk and the server | `MCAssetsManager`, `MCAssets_proofs` |
| `WebSocket` | sockets, the websocket thread, both closes, the script's references, the restart | `MCServices`, `MCServices_proofs` |
| `HttpClient` | the network thread, threads of single requests, destroyInstance | `MCServices`, `MCServices_proofs` |
| `AudioEngine` | sounds, caches, the pool that reads them, and the calls that wait for it | `MCFrames`, `MCFrames_proofs` |
| `FramesInFlight` | the Vulkan device's memory per back buffer and the GPU behind it | `MCUpdates`, `FramesInFlight_proofs` |
| `…_proofs` | the theorems about a module; those of `MCUpdates`, `MCPools`, `MCServices`, `MCFrames`, `MCDownloads` and `MCAssets` also prove the modules these extend or, for AsyncTaskPool, compose | – |
| `MCScheduler`, `MCDownloader`, `MCAssetsManager` | constants of the instances and symmetry | the `.cfg` files |
| `MCUpdates`, `MCPools`, `MCFrames`, `MCServices`, `MCDownloads`, `MCAssets` | several components, or several instances of one, checked in one run | the `.cfg` files |

The modules of the last row have a variable `part`, chosen in the first state, that says which
component a behaviour is about; the others stay in their initial states.  The components of such
a module share no state, so that the states are a sum, not a product, and a property of one part
is not weakened by the others.  An interaction is modelled inside a module instead:
AsyncTaskPool over CocosThreadCalls, WebSocket and HttpClient with the functions they post and
the restart that ends them.

Definitions named "Mutant" in a comment are variants of the definition that follows, as a
plausible mistake would make it.  No specification uses them; substituted for the original
they make the property of section 4 fail, which is how it is known to depend on the code.

## 3. How state and actions correspond to the code

**Scheduler.** `hash` is the order of `_hashForTimers`; `timers[t]` the array of element t;
`heap` and `refs` the timer objects with their reference counts.  A cell whose count is 0 is
freed memory that schedule() may use again, which makes a use after free visible.  The
operations are one action each and run when `pc` is "idle" (between frames) or "callback"
(in a timer's callback): on one thread nothing else can come in.  `update()` is cut at the
callbacks: `StartFrame`, `TickTimer` (Timer::update to the first trigger), `CallbackReturns`
(the rest of the loop of Timer::update to the next trigger or its end, with cancel()),
`FinishTimer`, `LeaveElement`.  `due` is a history variable.  Elapsed time is a whole number.

**FunctionQueue.** Every step between two accesses to shared state is an action: lock, push,
unlock; the test without the lock (`TestQueue`, which reads either answer while another thread
changes the vector: it is a data race), lock, copy, clear and unlock, and each function.  A
function may post or remove: `MayCall`.  `CocosThreadCalls` is the promise: post, perform the
oldest, remove the newest; `Pending` maps the queue and the copy to its sequence.

**Downloader.** The worker's program counter is `worker`, the main thread's `main`; the
critical sections on `_requestMutex`, `_processMutex`, `_finishedMutex`, `_threadMutex` are one
action each, and `PushFinished` is apart from `Finish` because two mutexes are taken one after
the other.  A file is named by the task that created it and its contents are the numbers of
the chunks in it, which is enough to see a gap, a repetition or a mix of two writers.
`missed` records the tasks that the code itself strands, at the three places where it does.

**AssetsManager.** All runs on the main thread; `pc` is the next of the functions that call
each other, so that a crash can come between any two.  A manifest object has the flag
`_updating` apart from its JSON, as in the code; `temp` says whether `_tempManifest` is its own
object or `_remoteManifest`.  The disk is the storage, the temporary directory and the manifest
in each.  `Crash` keeps the disk, perhaps breaks a manifest file that was being written, and
restarts the program, perhaps of a newer package.

**ThreadPool.** A thread is at `worker`: it pops without the pool's mutex (the queue has its own),
runs, locks, sets its flag, tests, sleeps and wakes, one action per access of what others see.
The cocos thread is in `op`; `tryShrinkPool` reads one flag per step, since flags change under it;
stopTasksByType pops one task per step.  The destructor runs at most once, and as
the cocos thread makes all calls, no two calls overlap.

**AsyncTaskPool.** What holds `_queueMutex` is one step; notifications come after the unlock and
are steps of their own, so that a thread can be between its test and its sleep only if the code
lets it.  `toCall` maps the functions posted to the callbacks they will call.

**WebSocket.** `tpc` is where the thread is in the handlers of libwebsockets, `main` where the
cocos thread is in `close()`, a destructor or closeAllConnections.  The two mutexes held over
more than one step are read off the program counters.  `refs` counts the creation and the
bindings' reference, `held` what keeps the script's object; `Finalize` is the garbage collector,
which may come as soon as nothing holds it.  libwebsockets itself is external: `wire` says what it
still has to report of a connection, and it reports an end exactly once.

**HttpClient.** The network thread's `net`, the threads of immediate requests `alone`, the cocos
thread's `main` in destroyInstance.  "undefined" is a thread that first runs when the client is gone.

**AudioEngine.** A cache has one task, hence `task[c]` is the place of the thread that works on
c.  `update()` goes over the players one by one and may be entered from stop(), as in the code
(`op` says from where).  Functions posted when a cache has been read are performed between frames.
A thread that finds a file unreadable looks the player up without the engine's mutex
(`LookUpPlayer`) and writes to what it found (`MarkPlayer`), which may be deleted between.
`unwaited` records the players whose destroy() waited for nothing, and how many sounds had been
played then: a write to such a player, once deleted, changes nothing or a player that was put in
its place since (`Reached`).  The lookup itself is one step; that it reads a map another thread may be
changing is a race whose other outcomes are left out.

**FramesInFlight.** Objects are VkBuffers, command buffers and descriptor set instances, numbered;
`gpu` is the sequence of submissions not completed, each with all it refers to.  A frame is
`Acquire` (or `Recreate`, then `Recreated` when the hub's own submission is over), the script's
calls and `Begin`, `Render`, `Present`, and `Waited` when the fences of the next back buffer have
been signalled.  One queue, whose submissions complete in order.

## 4. What the runs check

| Run | Instance | Properties |
|---|---|---|
| `updates` (MCUpdates) | timers: 2 targets, 2 keys, 3 timers, 2 calls per callback; device: 2 back buffers, 1 buffer, 1 set, 1 recreation | `TypeOK`, `MemorySafe`, `IndexAtCurrentTimer`, `EveryDueTimerTicked`, `SpentTimerIsGone`, `TickedAtMostOncePerFrame`, `NothingPendingIsReused`, `DescriptorsAreCurrent` |
| `pools` (MCPools) | queue: 2 workers, 3 posts; ThreadPool: 1 to 2 threads, 3 tasks of 2 types, 1 other call; AsyncTaskPool: 2 types, 4 tasks, 1 stopTasks | `PoolsTypeOK`, `MutexOwned`, `PerformedInOrder`, `NoneIsLost`, `EveryTaskHasAThread`, `NoThreadIsLost`, `QueuesInStep`, `ImplementsCalls`, `ImplementsService`, `EverythingIsHandled` (fair) |
| `services` (MCServices) | 2 sockets, 1 message; 3 requests | `ServicesTypeOK`, `EventsInOrder`, `EndToldOnce`, `ThreadsUseLiveObjects`, `ResponsesHandedOver`, `EverythingIsAnswered`, `DestroyingEnds` (fair) |
| `frames` (MCFrames) | timers: 2 targets, 1 key, 3 timers; audio: 2 caches and 1 sound, or 1 cache and 2 sounds; 1 load callback, 1 pool thread | `TypeOK`, `SoundsKeepWhatTheyUse`, `NoInstanceIsLeaked`, `CocosThreadGoesOn`, `SoundsAndLoadsAreAnswered` (fair) |
| `downloads` (MCDownloads) | 2 data tasks; or 2 tasks for one path, 2 chunks, 1 crash, limit 1 | `TypeOK`, `EachTaskInOnePlace`, `SuccessMeansComplete`, `DataTasksReported` (fair) |
| `assets` (MCAssets) | 3 assets, 3 versions, 2 downloads at a time; checks after failures and 1 crash, or no such check and 2 crashes | `TypeOK`, `CountersMatch`, `SavedProgressIsTrue`, `RemoteManifestKept`, `UpdatesAreComplete`, `UpdateEnds` (fair) |

* `updates`: whatever two calls a callback makes – remove earlier, later, its own or all timers,
  of its own or another target, and schedule again – the running timer is found alive at
  `timerIndex`, each timer the frame began with is ticked once or was removed or paused.  And
  whatever the script does with a buffer and a descriptor set while the GPU is behind, what is
  submitted stays as it was – but for two cases after a recreated swapchain, in which the code
  does reuse it (section 5) – and a frame sees the latest descriptors.
* `pools`: the lock of the scheduler's queue protects copy and clear together, and the test
  without the lock delays a post by a frame at most.  Both pools implement TaskService.  A cached
  ThreadPool shrinks and stretches without losing a thread or leaving one asleep over a task,
  and what it is given is run or stopped – unless stopTasksByType puts it back without waking
  anybody, which the history variable `silent` records.  Tasks and callbacks of AsyncTaskPool stay
  in step, also while stopTasks or the destructor clears them and a task runs.
* `services`: open, error and close come to a delegate in order and the end once, with close,
  closeAsync, an end by the server and a garbage collection in any order; both references of a
  socket are accounted for.  Responses and the functions posted for them match, the client
  is deleted by the last of its users, and a restart of the virtual machine ends both.
* `frames`: a timer added in a frame does not trigger in it, so the frame ends.  A sound that is
  stopped, finished or failed while its file is read, or whose cache is removed at the same time,
  has its player, its cache and its AudioInfo as long as anybody uses them and no longer – but for
  one case, in which the code does write to a deleted player (section 5).
* `downloads`: in every order of the two threads' critical sections a task is requested,
  processed, finished, fetched or reported, and only one of these.  It is reported unless the
  code strands it (`missed`).  A crash in the middle of a file, and the next download of it.
* `assets`: the two halves of the assets manager.  They are two parts because a check after a
  failed update makes the code finish an incomplete one (section 5).

### Bounds, and why they are enough

* Two targets and three timers have a timer before, at and behind the running one, and
  another element before and behind; two calls of one callback include unschedule and
  schedule anew.  Plans (`MCScheduler`) include a timer that triggers twice in a frame, one
  with a delay, one with one trigger and one whose count wraps (`UIntMax` is 3).
  `FrameTimes = {2}` with intervals of 1 makes the catch-up loop run.
* Two workers and three posts: one post in the copy, one during the clear, one after.
* A pool of one to two threads has one that can be shrunk while the other is busy; three tasks
  fill both and leave one waiting; one call besides pushTask (shrink, stretch or stopTasksByType)
  meets every state of the threads.  Four tasks of two types: two queues of two.
* Two sockets: the last one and one that is not; closeAllConnections closes both.  Three requests:
  one that is worked on, one that waits, one sent immediately.
* Two sounds of a file, or two files: one that is destroyed while the other is read or started.
* Two back buffers are the fewest a swapchain can have and the tightest, since the next turn of
  a back buffer comes soonest; three command buffers: one recorded, one pending, one of the
  transport hub.  Two VkBuffers are enough for a resize while the old one is pending.
* Two tasks: one the worker finishes while the other is requested.  A limit of 0 (none) and 1.
* Three assets: one whose contents change in each version, one that changes and then is deleted,
  one that is added and is a zip; of the three units two are under way and one waits.  Three
  versions: one newer version while an older one is half downloaded.  `AssetFailures`, `CrashPoints`, `Calls` select what the environment does.

TLC's deadlock check is off for Downloader and AssetsManager, where the application may have
nothing left to call: all tasks are created, all versions are published, all crashes used.
In all other runs it is on: when a component has nothing to do it can still perform an empty
frame, or stutters by an action of its own that the code has (`Quiet`, `IdleFrame`).

### Fairness

* Scheduler: weak fairness of `FrameStep`, i.e. the main thread goes on in a frame it began.
  Nothing obliges the application to call or to begin a frame.
* FunctionQueue: strong fairness of the steps of `update()`.  The engine calls it in every frame, and the
  mutex is held for a few instructions, so the main thread gets it in the end; the model needs
  strong fairness because other threads can take the mutex again and again.
* ThreadPool, AsyncTaskPool, HttpClient, AudioEngine: weak fairness of each thread, which the
  operating system runs, and of the cocos thread in a call it has begun.  Tasks end.
* WebSocket: weak fairness of the thread and of the cocos thread in a call; strong fairness of what
  libwebsockets owes of each connection, since `lws_service` serves all connections in turn.
* Downloader: the timer and the worker go on; every transfer ends, since curl is given
  `LOW_SPEED_LIMIT` and `LOW_SPEED_TIME`.
* AssetsManager: the main thread goes on (`Continue`); each download and decompression ends
  (`Finish`), by the property of Downloader.

In MCServices and MCFrames weak fairness is stated of the disjunction of the parts' steps: as a
behaviour has one part, that is the fairness of this part.

## 5. Where code and comments differ

Each is a run in which TLC finds the statement violated.

* `scheduler_pause_doc`: `Scheduler.h` says a paused target is not ticked until it is resumed.
  `update()` reads the flag before the element's first timer, so a target that a callback
  pauses is still triggered in this frame.
* `scheduler_zero_interval_doc`: "if _interval == 0, should trigger once every frame".  In the
  frame a delay ends it triggers twice.
* `downloader_path_doc`: "if more than one task write to one file, cause file broken, so use a
  set to check this situation".  The destructor of a task that was refused takes the path out of
  the set, and the next task opens the file a second time.
* `assets_recheck_doc`: "Every thing is correctly downloaded".  An update fails; checkUpdate()
  downloads the manifest anew and parses it into the object that `_tempManifest` still points to;
  `Manifest::clear` leaves `_updating`, so prepareUpdate resumes a download in which no asset is
  marked, and the update succeeds without the assets.
* `assets_merge_doc`: "merge temporary storage path to storage path so that temporary version
  turns to cached version".  The manifest may be moved before the files: after a crash in
  between the next start finds the new version cached, and deletes the files with the
  temporary directory.

* `websocket_close_doc`: "it means that onConnectionClosed was invoked in websocket thread, but the
  callback of performInCocosThread has not been triggered".  close() finds CLOSED also when the
  callback was performed and the script's object only waits for the garbage collector; it then
  tells the end a second time and releases the reference of that object.

Seen while modelling, and in the models unless said otherwise, without a run of their own:

* Scheduler: a callback that unschedules itself is called again by the catch-up loop; a spent
  timer's cancel() removes a timer its callback scheduled under the same key; a removal during
  the drain leaves the functions already copied.
* Downloader: a task's destructor may run on the worker; the limit of tasks in process is tested
  against a count that is not updated.
* AssetsManagerEx: checkUpdate() in READY_TO_UPDATE and update() in FAIL_TO_UPDATE leave
  `_updateEntry` set, after which both are refused.  An asset of an update that
  equals the package's is not downloaded; if a newer package, older than the cached version, is
  then installed in which that asset differs, the cached version is kept but finds the package's
  file (TLC shows it with contents that come back, v0 = v2 # v1; those of the instance do not).
* ThreadPool: after a stopTasksByType that put tasks back, a thread that found the queue empty
  meanwhile sees `_isDone` next and is over, so the destructor may delete tasks unrun, against the
  comment at `ThreadPool.cpp:103`.
* WebSocket: close() or closeAsync() before the thread has begun to open the socket sets CLOSING,
  which the thread overwrites with CONNECTING; close() and so restartVM then wait for ever, and a
  closeAsync() is ignored.  The wrapper finds the socket in the vector of instances and calls it
  without a lock, while the cocos thread may change that vector and destroy the socket; the model
  has the thread use a socket it found only as long as its end is not reported, and assumes that
  the 5 ms sleep of close() is long enough.  After closeAllConnections two destructors may meet
  a null `__wsHelper`; unsent messages of a destroyed socket stay in the queue; onMessage may
  come without onOpen.
* HttpClient: a thread that has not begun when the client is deleted is not counted yet
  ("undefined" in the model); requests and responses in the queues leak at a restart.
* AudioEngine: end() waits for ever if it dropped a task a cache waits for (`Dropped`).  The pool
  may write to a deleted player: a sound is played and its thread takes the task; stop() or
  uncache() finds the cache INITIAL and waits for nothing (`AudioPlayer.cpp:82`); the file cannot be
  read; the thread looks the player up without `_threadMutex` and finds it
  (`AudioEngine-soft.cpp:267`); update() erases and deletes it; then the thread writes
  `_removeByAudioEngine`.  If a sound was played meanwhile whose player got that memory, that sound
  ends without a reason.  Both are behaviours of the model; `MarkedPlayerIsThere`
  exempts them with its last disjunct, without which TLC finds it violated.  Not in
  the model: a finish callback inside update() may enter the engine again; a sound that is INITIALIZING when the
  application goes to the background is not paused, and all sounds are resumed when it is back.
* Vulkan: checkSwapchainStatus sets the back buffer to the first and asks its command pool,
  which it may reset, before it waits; what was recorded for another back buffer and is submitted
  after that is protected by the fences of the first only, so that its staging memory or bin may
  be reused early.  `NothingPendingIsReused` exempts these two.  Not in the model: one pool of
  semaphores serves all frames in flight; when acquire() returns early the semaphore of the last
  frame is still there, so that "don't present if not acquired" (`VKDevice.cpp:505`) presents;
  the hub keeps a destroyed set among those of a buffer (`disengage` with a descriptor does
  not remove it), and a resize of that buffer then updates freed memory; a new view at the address
  of an old one counts as the same binding; the destruction of the window waits for the fences of
  one back buffer.

## 6. What is proved

Eight modules hold the theorems.  The assumptions are those of the modules (a null value is no
member of the set it stands for, bounds are numbers) and the hypotheses named below.  Each
invariant was an invariant of a TLC run before it was proved.  A module of proofs has a lemma for
each kind of change (a queue grows, an element is erased, a set is given one more member), one for
each action and part of the invariant, and combines them.

| Module | Theorems about a property that a run checks | Others |
|---|---|---|
| `MCUpdates_proofs` | `TypeOK`, `MemorySafe`, `IndexAtCurrentTimer`, `EveryDueTimerTicked`, `SpentTimerIsGone`, `TickedAtMostOncePerFrame`; of the composition `NothingPendingIsReused`, `DescriptorsAreCurrent` | `Invariance` |
| `MCPools_proofs` | `MutexOwned`, `PerformedInOrder`, `NoneIsLost`, `ImplementsCalls`; of the composition `PoolsTypeOK`, `EveryTaskHasAThread`, `NoThreadIsLost`, `QueuesInStep`, `ImplementsService` | `QueueInvariance`, `AsyncInvariance` |
| `MCServices_proofs` | `EventsInOrder`, `EndToldOnce`; of the composition `ServicesTypeOK`, `ThreadsUseLiveObjects`, `ResponsesHandedOver` | `InvariantHolds`, `ClientInvariant` |
| `MCDownloads_proofs` | `TypeOK`, `EachTaskInOnePlace`; of the composition `SuccessMeansComplete` | `InvariantHolds` |
| `MCAssets_proofs` | `TypeOK`, `CountersMatch`, `RemoteManifestKept`, `SavedProgressIsTrue`, `UpdatesAreComplete` | `UpdatesInOrder` |
| `MCFrames_proofs` | `TypeOK`, `SoundsKeepWhatTheyUse`, `NoInstanceIsLeaked` | `AudioInvariant` |
| `ThreadPool_proofs`, `FramesInFlight_proofs` | (used by the compositions) | the layers, refinements and properties of the component |

A theorem about a composition is not proved anew.  The proofs of the component are instantiated
(`PoolProofs == INSTANCE ThreadPool_proofs`), and a lemma shows that the composition behaves as the
component: the definitions of the two instances are the same once expanded, and a step of
another part leaves the variables alone.

**Scheduler**, for any targets, keys, timers, plans and frame times and any number of calls per
callback.  `IndexAtCurrentTimer` says nothing about a retained timer, yet when the callback
removes a timer of its own array the index must be known to be in that array; `MemorySafe` needs to
know that a timer is in one place only, or removing it from one would free it in another.
`SchedulerInv` adds: `NothingTwice` (no target is twice in the hash, no timer twice in the arrays),
`References` (a count is 1 for a timer that is in an array or retained, else 0), `Elements` (an
element not being visited is in the hash exactly while it has timers), `RunningTimer` (an emptied
current element is marked; the running timer is at the index unless retained) and `StepLocals`
(which locals are set at which `pc`).  `timerIndex >= -1` matters: the index really becomes -1
when a callback removes the first timer, and comes back to 0 with `++timerIndex`.  That a
spent timer is in no array follows from its `cancel()` by key, if no other timer of the target has
its key.  So `SpentTimerIsGone` says both (`KeysApart`, `TriggersLeft`).  It does not say that
cancel() removes nothing else: if the callback took the spent timer out and scheduled anew under
its key, it is the new one that goes (section 5).  `FrameInv` is about the order of the loop: what is due and not ticked lies ahead of the
place the frame has reached, in this array behind the index or in an element behind this one, and
what is not due was added in this frame.  That no timer is left out and none is ticked twice
follow from it.

**FunctionQueue**, for any number of threads and posts.  `QueueInv` is `MutexOwned` and two facts on
the copy: between the copy and the clear it equals the queue, since anyone else who changes the
queue would own the mutex; before the drain it is empty.  With it, one lemma per kind of step says
what happens to `Pending`: a post appends to it (`PostStep`), a removal cuts it behind the copy
(`RemoveStep`), a performed function was its head (`PerformStep`), and every other step leaves it
alone (`OtherStep`).  The refinement follows from the four at once.

**ThreadPool**, for any sizes with MinThreads <= MaxThreads (which init() sees to).  Four layers,
each proved under the first: `ShapeInv` (the mutex is held by the one thread in its critical
section, the idle threads are counted, who has a task in hand), `FlagsInv` (an idle flag says so
only from when its thread sets it until it clears it; a thread is over only if it was told; those told
to abort are those about to be joined, and no more than the pool can spare), `TasksInv` (a
task is in the queue, put aside, in one thread's hands, done or dropped) and `WakeInv` (while
a thread sleeps unnotified, no more tasks wait than threads look for one, unless `silent`).
That the destructor joins the last thread only when every task has run or was stopped is proved for
MinThreads > 0.  For 0 it is false, as TLC shows: pushTask itself shrinks the last thread away
and queues its task, which stop() then leaves there.  The engine's pools keep one thread
(`AudioPlayerProvider.cpp:76`), four (`ThreadPool.cpp:56`) or are fixed (`jsb_global.cpp:983`).

**AsyncTaskPool**, for any number of types (at least one), tasks and calls.  That tasks and
callbacks are equal queues is inductive, but neither that a callback is called once nor the
refinement follows from it.  `AsyncInv` adds that a task is in one place: once in one queue and
neither run nor cleared (`QueuedOnce`), or with one thread (`HeldOnce`), which has it in `ran`
exactly between its end and the posting of its callback, when no posted function has that callback
yet (`RunThenPosted`).  For the refinement the tasks that wait are the union of the queues and
those that run are with the threads at `run`.

**Downloader**, for any tasks, paths and file sizes and any crashes.  `EachTaskInOnePlace` is
a disjunction of places; what is inductive is that they exclude each other (`Apart`, for the
queues, the two maps, the worker's hands and the reports), that no queue has a task twice
(`OnceInv`), that a task not created yet is nowhere (`FreshInv`), that what the timer has
gone through is reported (`ScheduleInv`) and that a worker outlives only a downloader that was
destroyed (`WorkerInv`).  The last is why run() finds the maps empty.

`SuccessMeansComplete` is proved for any sizes, tasks and crashes when the server accepts ranges
(`Ranges = {TRUE}`; if it does not, the code appends the content to what is there).  `FileInv`
relates three things the code keeps apart: the open file is the one under the
temporary name (`OpenInv`), a file is a prefix of the content (`ChunksInv`, which a crash keeps
whatever part it leaves), and what the worker counts as received is the length of the file from
the header on, so that a task which ends without an error has all of it (`FileOf`).  A task's
file stays open while the task has a place, since every place holds a reference.  The two steps
that change a file for others, writing and renaming, need that each file has one writer, which
the code does not ensure (section 5): it is the hypothesis of `OneWriterLeavesWholeFiles`.
`TwoTasksLeaveWholeFiles` needs no such hypothesis: with at most two tasks of a path, the
destructor that wrongly clears the entry is that of the other task, and there is no third to
profit from it (`PathsInv`).

**AssetsManager**, for any finite set of assets, any contents and versions, any `Calls`, failures
and crashes.  `FlowInv`: which function may run next in which state, that the version, the
manifest and the assets are never downloaded at the same time, and that nothing of an update is
queued or under way outside it – without that a late callback would make a counter negative.
`KeptInv`: while `_tempManifest` is the remote manifest its `_updating` is set; the flag survives
clear and parse.  `ProgressInv`: what is marked SUCCESSED in memory is in the temporary directory
unless that was just given away, what is still to be downloaded is marked SUCCESSED nowhere, and
during an update both manifests are of one version.  Only then does it follow that what a *saved*
manifest says stays true when it is overwritten, renamed or read back.

`UpdatesAreComplete` is proved from `CompleteInv`, under three hypotheses.  Two are the bugs of
section 5: no update that failed is checked anew (part "update"), and no crash comes in the middle
of a merge (`"merging" \notin CrashPoints`).  The third, `ContentsAreNew`, is a limit of the
design: files that agree in two versions agree in every version between them.  Without it a new
package could replace what the cached version shares with the old one, and the cached manifest
would still be used if it is newer.  `CompleteInv` says what "complete" means in
the middle of an update: before the merge the program finds every file of the local version;
an asset that the manifest of the update does not mark is not downloaded and needs no download
(`Covered`), which is also true of the manifest on disk for the local version of the next start;
what is marked as not done is unfinished.  Hence, when nothing is unfinished, what is not
in the temporary directory is found already, and the merge may move the files in any order.

**WebSocket**, for any number of sockets and messages.  `WsInv` follows a socket through the queue
of the thread (a request to open it is there once, before it has a connection: `ThreadInv`), its
connection and the functions posted about it (`StartInv`: none before its handshake; `OrderInv`: no
open behind another, nothing behind a close).  That the end is told once is arithmetic on the
references: `EndInv` says there is one until the end is told and one until the script's object is
finalized.  Restarting the virtual machine breaks that, since close() tells the end itself, so
these parts hold until it begins, and `CloseInv` and `CountInv` carry what is needed after.

**HttpClient**, for any number of requests.  `UsersInv`: `_threadCount` is the number of those who
use the client – the network thread, threads of immediate requests that began, the instance itself
– and whoever uses it finds it not deleted.  `AnswersInv`: the requests of the queue stay in their
order from the queue over the thread's hands, the responses and the posted calls to the answers,
each in one of them, and each response has its call.

**AudioEngine**, for any numbers of pool threads, caches, sounds and callbacks.  `CachesInv`: a cache
has its task from its creation, in the queue once or at one place, and that place says what the
cache is (a player is found and started only when its file was read; a cache is freed only when
its task is over).  `DestroyInv` is why destroy() may end: a thread that is starting a player
either found it unflagged, or it is the one destroy() is about to wait for (`MayStart`); if
nothing had begun then nothing can be starting, since READY comes before; and once flagged and
waited for it is silent (`Gone`).  `CallbacksInv` has the player a thread found under the
mutex stay in `_audioPlayers`: update() erases under that mutex too.  `MarkInv` is for one it found without:
a player that is gone was destroyed, and destroy() had waited for the cache's task, which is
then not at its write any more, unless the cache was INITIAL.  That exception is the code's and is in the
theorem.  `LeavingInv` says which players
`update()` will have erased before the call goes on (`Leaving`): hence, when uncache() or end()
comes to free a cache, no player has it, and between calls each player has its AudioInfo.

**FramesInFlight**, for any number of back buffers, buffers and sets.  `TurnsInv`: while back buffer
i is the current one and the script runs, no submission of i is pending, since its fences were
waited for.  `CommandsInv`: a command buffer is available, used, being recorded or the hub's, and one
of a pending submission is in `used` of its back buffer.  `SetsInv`: an instance has one holder,
a set of one back buffer or its market; it is up to date or in `toUpdate`.  `MemoryInv`: what a
pending submission refers to is in use or in a bin whose turn comes no sooner than its own
(`KeptFor`, which counts turns modulo the number of back buffers).  A submission recorded for
another back buffer before a recreation, and what it keeps in staging memory or a bin, is exempt,
as in the property: the theorem does not cover these two, since the code reuses them (section 5).

Only model-checked: liveness (`CocosThreadGoesOn`, `EverythingIsHandled`, `EverythingIsAnswered`, `DestroyingEnds`,
`SoundsAndLoadsAreAnswered`, `DataTasksReported`, `UpdateEnds`), which the proof system cannot
handle under fairness.

## 7. Plan

Done: all modules of section 2, and the proofs of section 6.  Next, in this order:

1. The semaphores of the device and a surface that has no extent for a while.
2. Several Downloaders over one set of paths; calls to AssetsManagerEx from its event callbacks.

## 8. What is not modelled, and why

The render backends and pipeline translate calls to the driver or compute a frame anew: what
could be wrong in them is numerical or in the driver; of the Vulkan backend, what is kept from
frame to frame is modelled.  The bindings are largely generated and depend on a garbage
collector that is not in the repository.  Storage, platform, ui and the skeleton
runtimes are I/O, platform services or vendored code.  These make up by far the most of the
sources – generated bindings, the Vulkan memory allocator, images as arrays of bytes, three more
render backends – so that the modelled components, though they are those with a protocol, are a
small share of all lines.

* EventDispatcher runs on one thread.  A listener that removes the next one makes the loop use a
  freed node, and after removeAllEventListeners ids begin at 1 again, so that an old id removes
  a new listener; no comment promises otherwise and nothing else in it takes more than one step.
* AutoreleasePool: whether counts are right is decided by each user; a model of the pool alone
  would assume what it has to show.
* SocketIO hands on the events of WebSocket; WebSocketServer is one thread around its library; the
  Android player repeats AudioEngine over another library.
* Spurious wake-ups of condition variables: each wait has a predicate or is in a loop that
  tests again, except that of WebSocket's close(), which such a wake-up would end too early.

Inside the modelled parts: reports of progress and percentages (they decide nothing), messages and
logging, floating-point time, manifests the application itself supplies, calls to the assets
manager from inside its own event callbacks, several Downloaders at once, fragments of
WebSocket messages, cookies and options of curl, pause and volume of sounds, textures and samplers
of descriptor sets (handled like buffers), secondary command buffers, and BufferHub, whose use is
commented out (`VKCommands.cpp:200`).
