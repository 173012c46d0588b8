--------------------------- MODULE FramesInFlight ---------------------------
(***************************************************************************)
(* What the Vulkan device keeps for each back buffer, while the GPU is     *)
(* frames behind the thread that draws them: fences, the recycle bin,      *)
(* staging memory, command buffers and instances of descriptor sets        *)
(* (gfx-vulkan/VKGPUObjects.h, VKDevice.cpp, VKQueue.cpp).                 *)
(*                                                                         *)
(* The GPU performs the submissions in their order.  A frame is acquire(), *)
(* one render() of the pipeline and present(), called by the script, which *)
(* uses the resources in between.  The semaphores and a surface without    *)
(* extent are left out: see the README.                                    *)
(***************************************************************************)
EXTENDS Integers, SequencesExt

CONSTANTS
  BackBuffers,  (* backBufferCount: the images of the swapchain, > 1 *)
  Buffers,      (* the buffers of the script                        *)
  Sets,         (* its descriptor sets                              *)
  None,         (* no buffer, or nothing recorded                   *)
  MaxObjects,   (* bound: the VkBuffers there are at the same time  *)
  MaxCommands,  (* bound: the VkCommandBuffers                      *)
  MaxUploads,   (* bound: staging memory allocated in a frame       *)
  MaxRecreates  (* bound: the times the swapchain is recreated      *)

Index   == 0..(BackBuffers - 1)
Objects == 1..MaxObjects

VARIABLES
  cur,        (* curBackBufferIndex                                                  *)
  phase,      (* where the frame is                                                  *)
  gpu,        (* the submissions the GPU has not completed                           *)
  fences,     (* of each back buffer: the fences allocated since the last reset      *)
  obj,        (* the VkBuffer of each buffer                                         *)
  bin,        (* of each back buffer: the VkBuffers in its recycle bin               *)
  staged,     (* of each back buffer: the offset in its staging memory               *)
  available,  (* of each back buffer: the VkCommandBuffers to be requested ...       *)
  used,       (* ... and those that were yielded since                               *)
  lastIndex,  (* _lastBackBufferIndex of the pool of command buffers                 *)
  commands,   (* the number of VkCommandBuffers                                      *)
  recording,  (* what the device's command buffer has recorded since begin()         *)
  transfer,   (* the command buffer of the transport hub                             *)
  bound,      (* the buffer each descriptor set refers to                            *)
  infos,      (* the VkBuffer in its descriptorInfos, which its instances are given  *)
  instances,  (* its VkDescriptorSets, one of each back buffer; << >> when destroyed *)
  written,    (* the VkBuffer in each VkDescriptorSet                                *)
  toUpdate,   (* of each back buffer: _setsToBeUpdated                               *)
  markets,    (* of each back buffer: the VkDescriptorSets that were given back      *)
  recreated   (* the times the swapchain was recreated                               *)

poolVars     == <<available, used, lastIndex, commands>>
setVars      == <<bound, infos, instances, written, toUpdate, markets>>
resourceVars == <<obj, bin, staged, recording>>
frameVars    == <<cur, phase, gpu, fences, transfer, recreated>>
vars         == <<frameVars, resourceVars, poolVars, setVars>>

Init ==
  /\ cur = 0 /\ phase = "script" /\ gpu = << >> /\ transfer = 0 /\ recreated = 0
  /\ fences = [i \in Index |-> 0] /\ staged = [i \in Index |-> 0]
  /\ obj = [b \in Buffers |-> 0] /\ bin = [i \in Index |-> {}]
  /\ available = [i \in Index |-> {}] /\ used = [i \in Index |-> {}]
  /\ lastIndex = 0 /\ commands = 0 /\ recording = None
  /\ bound = [d \in Sets |-> None] /\ infos = [d \in Sets |-> 0]
  /\ instances = [d \in Sets |-> << >>] /\ written = << >>
  /\ toUpdate = [i \in Index |-> {}]
  /\ markets = [i \in Index |-> << >>]

\* The script runs between the frames, and before it draws.
ScriptRuns == phase \in {"script", "acquired"}

-----------------------------------------------------------------------------
(***************************************************************************)
(* Command buffers.                                                        *)
(***************************************************************************)
\* CCVKGPUCommandBufferPool::request for back buffer i: a command buffer that is available,
\* or a new one.  The first one in its turn makes those that were used in the last turn
\* available: reset().
Requested(i, cb) ==
  LET free == available[i] \cup IF i # lastIndex THEN used[i] ELSE {}
  IN  /\ IF free # {} THEN cb \in free ELSE cb = commands + 1
      /\ cb <= MaxCommands
      /\ available' = [available EXCEPT ![i] = free \ {cb}]
      /\ used' = [used EXCEPT ![i] = IF i # lastIndex THEN {} ELSE @]
      /\ commands' = IF free # {} THEN commands ELSE cb
      /\ lastIndex' = i

\* CommandBuffer::begin() of the device's command buffer, by an upload or by render().
Begin ==
  /\ ScriptRuns /\ recording = None
  /\ \E cb \in 1..MaxCommands :
       /\ Requested(cur, cb)
       /\ recording' = [begun |-> cur, buffer |-> cb, objects |-> {}, copies |-> {}]
  /\ UNCHANGED <<obj, bin, staged, frameVars, setVars>>

-----------------------------------------------------------------------------
(***************************************************************************)
(* The resources of the script.                                            *)
(***************************************************************************)
\* The driver gives a VkBuffer that is not there yet.
Fresh == Objects \ ({obj[b] : b \in Buffers} \cup UNION {bin[i] : i \in Index})

CreateBuffer(b) ==
  /\ ScriptRuns /\ obj[b] = 0
  /\ \E o \in Fresh : obj' = [obj EXCEPT ![b] = o]
  /\ UNCHANGED <<bin, staged, recording, frameVars, poolVars, setVars>>

\* Mutant: the bin that is emptied next.
NextBin == (cur + 1) % BackBuffers

\* gpuRecycleBin()
Bin == cur

Collected(b) == bin' = [bin EXCEPT ![Bin] = @ \cup {obj[b]}]

\* Buffer::destroy.  The script has no descriptor set any more that refers to it.
DestroyBuffer(b) ==
  /\ ScriptRuns /\ obj[b] # 0
  /\ \A d \in Sets : bound[d] # b
  /\ Collected(b)
  /\ obj' = [obj EXCEPT ![b] = 0]
  /\ UNCHANGED <<staged, recording, frameVars, poolVars, setVars>>

\* Buffer::update: the data goes to staging memory, and a copy of it is recorded.
Upload(b) ==
  /\ ScriptRuns /\ recording # None /\ obj[b] # 0 /\ staged[cur] < MaxUploads
  /\ recording' = [recording EXCEPT !.objects = @ \cup {obj[b]},
                                    !.copies = @ \cup {<<cur, staged[cur]>>}]
  /\ staged' = [staged EXCEPT ![cur] = @ + 1]
  /\ UNCHANGED <<obj, bin, frameVars, poolVars, setVars>>

-----------------------------------------------------------------------------
(***************************************************************************)
(* Descriptor sets.                                                        *)
(***************************************************************************)
Alive(d) == instances[d] # << >>

Instance(d, i) == instances[d][i + 1]

\* update() of the sets ds: the instances of back buffer i are given what is in infos'.
Written(i, ds) ==
  written' = [v \in DOMAIN written |->
    IF \E d \in ds : Instance(d, i) = v
    THEN infos'[CHOOSE d \in ds : Instance(d, i) = v] ELSE written[v]]

\* Mutant: the other instances are left as they are.
NoneOf(ds) == {}

\* The sets whose other instances are to be updated when their turn comes.
AllOf(ds) == ds

\* CCVKGPUDescriptorSetHub::record
Record(ds) ==
  /\ Written(cur, ds)
  /\ toUpdate' = [i \in Index |-> IF i = cur THEN toUpdate[i] \ ds ELSE toUpdate[i] \cup AllOf(ds)]

\* DescriptorSet::initialize: each instance is one that was given back, or a new one.
CreateSet(d) ==
  /\ ScriptRuns /\ ~Alive(d)
  /\ LET Has(i) == markets[i] # << >>
         n == Len(written)
     IN  /\ instances' = [instances EXCEPT ![d] =
              [k \in 1..BackBuffers |-> IF Has(k - 1) THEN Last(markets[k - 1]) ELSE n + k]]
         /\ written' = IF \A i \in Index : Has(i) THEN written
                       ELSE written \o [k \in 1..BackBuffers |-> 0]
         /\ markets' = [i \in Index |-> IF Has(i) THEN Front(markets[i]) ELSE << >>]
  /\ UNCHANGED <<bound, infos, toUpdate, frameVars, resourceVars, poolVars>>

\* DescriptorSet::update, with another buffer bound.
Bind(d, b) ==
  /\ ScriptRuns /\ Alive(d) /\ obj[b] # 0 /\ bound[d] # b
  /\ bound' = [bound EXCEPT ![d] = b]
  /\ infos' = [infos EXCEPT ![d] = obj[b]]
  /\ Record({d})
  /\ UNCHANGED <<instances, markets, frameVars, resourceVars, poolVars>>

\* DescriptorSet::destroy: each instance is given back for its back buffer.
DestroySet(d) ==
  /\ ScriptRuns /\ Alive(d)
  /\ markets' = [i \in Index |-> Append(markets[i], Instance(d, i))]
  /\ toUpdate' = [i \in Index |-> toUpdate[i] \ {d}]
  /\ instances' = [instances EXCEPT ![d] = << >>]
  /\ bound' = [bound EXCEPT ![d] = None] /\ infos' = [infos EXCEPT ![d] = 0]
  /\ UNCHANGED <<written, frameVars, resourceVars, poolVars>>

\* Buffer::resize: a new VkBuffer takes the place of the old one, in the sets as well.
\* (The hub does not forget a set that was destroyed; see the README.)
Resize(b) ==
  /\ ScriptRuns /\ obj[b] # 0
  /\ Collected(b)
  /\ \E o \in Fresh : obj' = [obj EXCEPT ![b] = o]
  /\ infos' = [d \in Sets |-> IF bound[d] = b THEN obj'[b] ELSE infos[d]]
  /\ Record({d \in Sets : bound[d] = b})
  /\ UNCHANGED <<staged, recording, bound, instances, markets, frameVars, poolVars>>

-----------------------------------------------------------------------------
(***************************************************************************)
(* The frame.                                                              *)
(***************************************************************************)
\* CCVKGPUDescriptorSetHub::flush, for back buffer i.
Flush(i) ==
  /\ UNCHANGED infos
  /\ Written(i, toUpdate[i])
  /\ toUpdate' = [toUpdate EXCEPT ![i] = {}]

\* acquire(), with the swapchain as it should be.
Acquire ==
  /\ phase = "script"
  /\ Flush(cur)
  /\ phase' = "acquired"
  /\ UNCHANGED <<cur, gpu, fences, transfer, recreated, bound, instances, markets, resourceVars,
                 poolVars>>

\* acquire(), with another size of the surface: the swapchain is recreated and begins with
\* its first image.  The transport hub submits the transition of the images ...
Recreate ==
  /\ phase = "script" /\ recreated < MaxRecreates
  /\ cur' = 0
  /\ \E cb \in 1..MaxCommands : Requested(0, cb) /\ transfer' = cb
  /\ phase' = "recreate"
  /\ recreated' = recreated + 1
  /\ UNCHANGED <<gpu, fences, resourceVars, setVars>>

\* ... and waits for it, and so for all that was submitted before.
Recreated ==
  /\ phase = "recreate" /\ gpu = << >>
  /\ used' = [used EXCEPT ![0] = @ \cup {transfer}]
  /\ transfer' = 0
  /\ Flush(0)
  /\ phase' = "acquired"
  /\ UNCHANGED <<cur, gpu, fences, recreated, bound, instances, markets, resourceVars, available,
                 lastIndex, commands>>

\* ForwardPipeline::render, which reads the buffers bs and the sets ds, and Queue::submit.
Render(bs, ds) ==
  /\ phase = "acquired" /\ recording # None
  /\ \A b \in bs : obj[b] # 0
  /\ \A d \in ds : bound[d] # None
  /\ LET reads == {<<Instance(d, cur), written[Instance(d, cur)]>> : d \in ds}
     IN  gpu' = Append(gpu,
           [index |-> cur, fence |-> fences[cur], begun |-> recording.begun,
            buffer |-> recording.buffer, copies |-> recording.copies, reads |-> reads,
            objects |-> recording.objects \cup {obj[b] : b \in bs} \cup {r[2] : r \in reads}])
  /\ used' = [used EXCEPT ![cur] = @ \cup {recording.buffer}]
  /\ fences' = [fences EXCEPT ![cur] = @ + 1]
  /\ recording' = None
  /\ phase' = "submitted"
  /\ UNCHANGED <<cur, transfer, recreated, obj, bin, staged, available, lastIndex, commands,
                 setVars>>

\* present(): it is the turn of the next back buffer ...
Present ==
  /\ phase = "submitted"
  /\ cur' = (cur + 1) % BackBuffers
  /\ phase' = "wait"
  /\ UNCHANGED <<gpu, fences, transfer, recreated, resourceVars, poolVars, setVars>>

InPool(s, i) == s.index = i /\ s.fence < fences[i]

\* ... whose fences are waited for and reset.
Waited ==
  /\ phase = "wait"
  /\ \A k \in DOMAIN gpu : ~InPool(gpu[k], cur)
  /\ fences' = [fences EXCEPT ![cur] = 0]
  /\ bin' = [bin EXCEPT ![cur] = {}]
  /\ staged' = [staged EXCEPT ![cur] = 0]
  /\ phase' = "script"
  /\ UNCHANGED <<cur, gpu, transfer, recreated, obj, recording, poolVars, setVars>>

\* The GPU completes the oldest submission and signals its fence.
Complete ==
  /\ gpu # << >>
  /\ gpu' = Tail(gpu)
  /\ UNCHANGED <<cur, phase, fences, transfer, recreated, resourceVars, poolVars, setVars>>

-----------------------------------------------------------------------------
Script ==
  \/ \E b \in Buffers : CreateBuffer(b) \/ DestroyBuffer(b) \/ Upload(b) \/ Resize(b)
  \/ \E d \in Sets : CreateSet(d) \/ DestroySet(d) \/ \E b \in Buffers : Bind(d, b)

Frame ==
  \/ Acquire \/ Recreate \/ Recreated \/ Begin \/ Present \/ Waited
  \/ \E bs \in SUBSET Buffers, ds \in SUBSET Sets : Render(bs, ds)

Next == Script \/ Frame \/ Complete

Spec == Init /\ [][Next]_vars

-----------------------------------------------------------------------------
(***************************************************************************)
(* Properties.                                                             *)
(***************************************************************************)
\* Every variable has its type.
TypeOK ==
  /\ cur \in Index /\ lastIndex \in Index
  /\ phase \in {"script", "acquired", "recreate", "submitted", "wait"}
  /\ fences \in [Index -> Nat] /\ staged \in [Index -> 0..MaxUploads]
  /\ obj \in [Buffers -> Objects \cup {0}] /\ bin \in [Index -> SUBSET Objects]
  /\ available \in [Index -> SUBSET (1..commands)] /\ used \in [Index -> SUBSET (1..commands)]
  /\ commands \in 0..MaxCommands /\ transfer \in 0..commands /\ recreated \in 0..MaxRecreates
  /\ bound \in [Sets -> Buffers \cup {None}] /\ infos \in [Sets -> Objects \cup {0}]
  /\ instances \in [Sets -> {<< >>} \cup [1..BackBuffers -> DOMAIN written]]
  /\ written \in Seq(Objects \cup {0}) /\ toUpdate \in [Index -> SUBSET Sets]
  /\ markets \in [Index -> Seq(DOMAIN written)]

Pending == ToSet(gpu)

Exists(o) == (\E b \in Buffers : obj[b] = o) \/ (\E i \in Index : o \in bin[i])

IsRequested(cb) == transfer = cb \/ (recording # None /\ recording.buffer = cb)

\* What is submitted can be used until the GPU has completed it: its fence is not reset,
\* the memory of its buffers is not freed, and its staging memory, its command buffer and
\* the instances of the descriptor sets it reads are not given to something else or
\* changed.  (Not so a command buffer while the swapchain is recreated, nor what was
\* recorded before that and submitted with the first back buffer: see the README.)
NothingPendingIsReused ==
  \A s \in Pending :
    /\ s.fence < fences[s.index]
    /\ s.begun = s.index =>
         /\ \A o \in s.objects : Exists(o)
         /\ \A c \in s.copies : c[2] < staged[c[1]]
         /\ \A r \in s.reads : written[r[1]] = r[2]
         /\ phase = "recreate" \/ ~IsRequested(s.buffer)

\* What a frame draws with refers to the buffers as they are: the instance of the current
\* back buffer has all the updates of its set when it is used, whichever of the back
\* buffers was current when they were made.
DescriptorsAreCurrent ==
  phase = "acquired" => \A d \in Sets : bound[d] # None => written[Instance(d, cur)] = obj[bound[d]]
=============================================================================
