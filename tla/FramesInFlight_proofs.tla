------------------------ MODULE FramesInFlight_proofs ------------------------
(***************************************************************************)
(* Proofs about FramesInFlight, for any number of back buffers, of buffers *)
(* and of descriptor sets.                                                 *)
(*                                                                         *)
(* Nothing the GPU may still use is given away because it is kept by turn: *)
(* while back buffer i is the current one, no submission of i is pending,  *)
(* so that what is changed at once, the instances and command buffers of   *)
(* i, is used by nobody; and what is thrown away goes to the bin that is   *)
(* emptied last, after the turns of all that is pending.  A swapchain that *)
(* is recreated breaks the turns, and is waited for until nothing is       *)
(* pending.                                                                *)
(***************************************************************************)
EXTENDS FramesInFlight, TLAPS, SequenceTheorems

-----------------------------------------------------------------------------
(***************************************************************************)
(* The inductive invariant, in four layers: the turns of the back buffers, *)
(* the command buffers, the descriptor sets, and the memory.               *)
(***************************************************************************)
DeviceAssumption ==
  /\ BackBuffers \in Nat \ {0} /\ None \notin Buffers
  /\ MaxObjects \in Nat /\ MaxCommands \in Nat /\ MaxUploads \in Nat /\ MaxRecreates \in Nat

\* The VkDescriptorSets there are.
Numbers == 1..Len(written)

Copies == Index \X Nat

Recordings ==
  [begun : Index, buffer : Nat, objects : SUBSET Objects, copies : SUBSET Copies]

\* Every fence in use is one that was allocated and not reset.  While the script runs, the
\* GPU has completed the last submission of the current back buffer, and what is recorded
\* is recorded for it, unless the swapchain is recreated.
TurnsInv ==
  /\ cur \in Index /\ recreated \in 0..MaxRecreates /\ fences \in [Index -> Nat]
  /\ phase \in {"script", "acquired", "recreate", "submitted", "wait"}
  /\ obj \in [Buffers -> Objects \cup {0}] /\ staged \in [Index -> 0..MaxUploads]
  /\ recording \in Recordings \cup {None} /\ gpu \in Seq(Pending)
  /\ \A s \in Pending : s.index \in Index /\ s.fence \in Nat /\ s.fence < fences[s.index]
  /\ ScriptRuns => \A s \in Pending : s.index # cur
  /\ recording # None => phase \in {"script", "acquired", "recreate"}
  /\ phase = "script" /\ recording # None => recording.begun = cur
  /\ phase = "recreate" => cur = 0

\* A command buffer that was yielded is in one place.
PoolInv ==
  /\ lastIndex \in Index /\ commands \in 0..MaxCommands
  /\ available \in [Index -> SUBSET (1..commands)] /\ used \in [Index -> SUBSET (1..commands)]
  /\ \A i, j \in Index : \A c \in available[i] : c \notin used[j] /\ (c \in available[j] => i = j)
  /\ \A i, j \in Index : \A c \in used[i] : c \in used[j] => i = j

InPools(c) == \E i \in Index : c \in available[i] \/ c \in used[i]

\* So is one that was requested, and that of a pending submission is among those to be used
\* again when its back buffer has its turn.
CommandsInv ==
  /\ PoolInv
  /\ transfer \in 0..commands /\ ~InPools(transfer) /\ (transfer # 0 <=> phase = "recreate")
  /\ recording # None =>
       /\ recording.buffer \in 1..commands /\ recording.buffer # transfer
       /\ ~InPools(recording.buffer)
  /\ phase # "recreate" => \A s \in Pending : s.begun = s.index => s.buffer \in used[s.index]

IsBound(d) == bound[d] # None

\* The instance of d for back buffer i has the last update of d.
IsCurrent(d, i) == written[Instance(d, i)] = infos[d]

\* v is an instance for back buffer i, of a set or in the market.
InColumn(v, i) ==
  (\E d \in Sets : Alive(d) /\ Instance(d, i) = v) \/ (\E k \in DOMAIN markets[i] : markets[i][k] = v)

\* An instance is that of one set and one back buffer, or is in the market of one.
OneHolder ==
  /\ \A d, e \in Sets, i, j \in Index :
       Alive(d) /\ Alive(e) /\ Instance(d, i) = Instance(e, j) => d = e /\ i = j
  /\ \A d \in Sets, i, j \in Index : \A k \in DOMAIN markets[j] :
       Alive(d) => Instance(d, i) # markets[j][k]
  /\ \A i, j \in Index : \A k \in DOMAIN markets[i], l \in DOMAIN markets[j] :
       markets[i][k] = markets[j][l] => i = j /\ k = l

\* Each instance of a set has its last update, or will have it before it is used.
Updated ==
  /\ \A d \in Sets : IsBound(d) => Alive(d) /\ obj[bound[d]] # 0 /\ infos[d] = obj[bound[d]]
  /\ \A i \in Index : \A d \in toUpdate[i] : IsBound(d)
  /\ \A d \in Sets, i \in Index : IsBound(d) => d \in toUpdate[i] \/ IsCurrent(d, i)
  /\ phase = "acquired" => toUpdate[cur] = {}

ReadsKept == \A s \in Pending : \A r \in s.reads : InColumn(r[1], s.index) /\ written[r[1]] = r[2]

SetTypes ==
  /\ bound \in [Sets -> Buffers \cup {None}] /\ infos \in [Sets -> Objects \cup {0}]
  /\ instances \in [Sets -> {<< >>} \cup [1..BackBuffers -> Numbers]]
  /\ written \in Seq(Objects \cup {0}) /\ toUpdate \in [Index -> SUBSET Sets]
  /\ markets \in [Index -> Seq(Numbers)]

SetsInv == SetTypes /\ OneHolder /\ Updated /\ ReadsKept

\* The back buffer that is waited for next, and how many are before i.
NextTurn == IF phase = "wait" THEN cur ELSE IF cur = BackBuffers - 1 THEN 0 ELSE cur + 1

TurnsTo(i) == IF i >= NextTurn THEN i - NextTurn ELSE i - NextTurn + BackBuffers

InUse(o) == \E b \in Buffers : obj[b] = o

\* The VkBuffer o is in use, or in a bin that is not emptied before the turn of i.
KeptFor(o, i) == InUse(o) \/ (\E j \in Index : o \in bin[j] /\ TurnsTo(j) >= TurnsTo(i))

\* What a submission, pending or being recorded, reads is kept until the turn of its back
\* buffer comes again.
MemoryInv ==
  /\ bin \in [Index -> SUBSET Objects]
  /\ recording # None /\ recording.begun = cur =>
       /\ \A o \in recording.objects : InUse(o) \/ o \in bin[cur]
       /\ \A c \in recording.copies : c[1] = cur /\ c[2] < staged[cur]
  /\ \A s \in Pending : s.begun = s.index =>
       /\ \A o \in s.objects : o # 0 /\ IF phase = "recreate" THEN Exists(o) ELSE KeptFor(o, s.index)
       /\ \A c \in s.copies : c[1] = s.index /\ c[2] < staged[s.index]

DeviceInv == TurnsInv /\ CommandsInv /\ SetsInv /\ MemoryInv

-----------------------------------------------------------------------------
(***************************************************************************)
(* The sequence of submissions.                                            *)
(***************************************************************************)
LEMMA PendingGrown ==
  ASSUME NEW q, q \in Seq(ToSet(q)), NEW s
  PROVE  ToSet(Append(q, s)) = ToSet(q) \cup {s} /\ Append(q, s) \in Seq(ToSet(Append(q, s)))
<1> DEFINE S == ToSet(q) \cup {s}
<1>1. q \in Seq(S) /\ s \in S /\ DOMAIN q = 1..Len(q) /\ Len(q) \in Nat
  OBVIOUS
<1>2. /\ Append(q, s) \in Seq(S) /\ Len(Append(q, s)) = Len(q) + 1
      /\ \A i \in 1..Len(q) : Append(q, s)[i] = q[i]
      /\ Append(q, s)[Len(q) + 1] = s
  BY <1>1, AppendProperties
<1>3. DOMAIN Append(q, s) = 1..Len(q) \cup {Len(q) + 1}
  BY <1>1, <1>2
<1>4. ToSet(Append(q, s)) = S
  BY <1>1, <1>2, <1>3 DEF ToSet
<1>5. QED
  BY <1>2, <1>4

LEMMA PendingShrunk ==
  ASSUME NEW q, q \in Seq(ToSet(q)), q # << >>
  PROVE  Tail(q) \in Seq(ToSet(Tail(q))) /\ ToSet(Tail(q)) \subseteq ToSet(q)
<1> DEFINE S == ToSet(q)
           t == Tail(q)
<1>1. /\ t \in Seq(S) /\ Len(t) = Len(q) - 1 /\ Len(q) \in Nat /\ Len(t) \in Nat
      /\ \A i \in 1..Len(t) : t[i] = q[i + 1]
  BY HeadTailProperties
<1>2. DOMAIN q = 1..Len(q) /\ DOMAIN t = 1..Len(t)
  BY <1>1
<1> HIDE DEF t
<1>3. ToSet(t) = {t[i] : i \in 1..Len(t)}
  BY <1>2 DEF ToSet
<1>4. t \in Seq(ToSet(t))
  <2>1. \A i \in 1..Len(t) : t[i] \in ToSet(t)
    BY <1>3
  <2>2. t = [i \in 1..Len(t) |-> t[i]]
    BY <1>1, <1>2
  <2>3. QED
    BY <1>1, <2>1, <2>2, SeqDef
<1>5. ToSet(t) \subseteq ToSet(q)
  BY <1>1, <1>2, <1>3 DEF ToSet
<1>6. QED
  BY <1>4, <1>5 DEF t

\* The next of the back buffers.
LEMMA NextIndex ==
  ASSUME DeviceAssumption, NEW c \in Index
  PROVE  (c + 1) % BackBuffers = IF c = BackBuffers - 1 THEN 0 ELSE c + 1
<1> DEFINE n == BackBuffers
<1>1. n \in Nat \ {0} /\ c \in 0..(n - 1)
  BY DEF DeviceAssumption, Index
<1> HIDE DEF n
<1>2. CASE c = n - 1
  <2>1. n % n = 0
    BY <1>1
  <2>2. QED
    BY <1>1, <1>2, <2>1 DEF n
<1>3. CASE c # n - 1
  <2>1. c + 1 \in 0..(n - 1)
    BY <1>1, <1>3
  <2>2. ASSUME NEW x \in 0..(n - 1) PROVE x % n = x
    BY <1>1
  <2>3. QED
    BY <1>1, <1>3, <2>1, <2>2 DEF n
<1>4. QED
  BY <1>2, <1>3

-----------------------------------------------------------------------------
(***************************************************************************)
(* The turns of the back buffers.                                          *)
(***************************************************************************)
LEMMA RenderTurns ==
  ASSUME DeviceAssumption, TurnsInv, NEW bs \in SUBSET Buffers, NEW ds \in SUBSET Sets, Render(bs, ds)
  PROVE  TurnsInv'
<1>1. PICK s : /\ gpu' = Append(gpu, s) /\ s.index = cur /\ s.fence = fences[cur]
  BY DEF Render
<1>2. /\ phase' = "submitted" /\ recording' = None /\ fences' = [fences EXCEPT ![cur] = @ + 1]
      /\ UNCHANGED <<cur, recreated, obj, staged>>
  BY DEF Render
<1>3. Pending' = Pending \cup {s} /\ gpu' \in Seq(Pending')
  BY <1>1, PendingGrown DEF Pending, TurnsInv
<1>4. /\ cur \in Index /\ fences \in [Index -> Nat]
      /\ \A p \in Pending : p.index \in Index /\ p.fence \in Nat /\ p.fence < fences[p.index]
  BY DEF TurnsInv
<1>5. fences' \in [Index -> Nat]
  BY <1>2, <1>4
<1>6. ASSUME NEW p \in Pending' PROVE p.index \in Index /\ p.fence \in Nat /\ p.fence < fences'[p.index]
  <2>1. CASE p \in Pending
    BY <1>2, <1>4, <2>1
  <2>2. CASE p = s
    BY <1>1, <1>2, <1>4, <2>2
  <2>3. QED
    BY <1>3, <1>6, <2>1, <2>2
<1>7. QED
  BY <1>2, <1>3, <1>5, <1>6 DEF TurnsInv, ScriptRuns

\* The fences that are reset are no pending submission's.
LEMMA WaitedTurns == ASSUME DeviceAssumption, TurnsInv, Waited PROVE TurnsInv'
<1>1. /\ phase = "wait" /\ phase' = "script" /\ fences' = [fences EXCEPT ![cur] = 0]
      /\ staged' = [staged EXCEPT ![cur] = 0]
      /\ UNCHANGED <<cur, gpu, recreated, obj, recording>>
      /\ \A k \in DOMAIN gpu : ~InPool(gpu[k], cur)
  BY DEF Waited
<1>2. Pending' = Pending
  BY <1>1 DEF Pending
<1>3. ASSUME NEW s \in Pending PROVE s.index # cur
  <2>1. ~InPool(s, cur)
    BY <1>1 DEF Pending, ToSet
  <2>2. QED
    BY <2>1 DEF InPool, TurnsInv
<1>4. recording' = None
  BY <1>1 DEF TurnsInv
<1>5. \A s \in Pending : s.fence < fences'[s.index]
  BY <1>1, <1>3 DEF TurnsInv
<1>6. fences' \in [Index -> Nat] /\ staged' \in [Index -> 0..MaxUploads]
  BY <1>1 DEF TurnsInv, DeviceAssumption
<1>7. QED
  BY <1>1, <1>2, <1>3, <1>4, <1>5, <1>6 DEF TurnsInv

LEMMA CompleteTurns == ASSUME TurnsInv, Complete PROVE TurnsInv'
<1>1. /\ gpu # << >> /\ gpu' = Tail(gpu)
      /\ UNCHANGED <<cur, phase, fences, recreated, obj, staged, recording>>
  BY DEF Complete, resourceVars
<1>2. gpu' \in Seq(Pending') /\ Pending' \subseteq Pending
  BY <1>1, PendingShrunk DEF TurnsInv, Pending
<1>3. QED
  BY <1>1, <1>2 DEF TurnsInv, ScriptRuns

\* The other steps of the frame.
LEMMA FrameTurns ==
  ASSUME DeviceAssumption, TurnsInv, Acquire \/ Recreate \/ Recreated \/ Begin \/ Present
  PROVE  TurnsInv'
<1>1. UNCHANGED <<gpu, fences, obj, staged>> /\ Pending' = Pending
  BY DEF Acquire, Recreate, Recreated, Begin, Present, frameVars, resourceVars, Pending
<1>2. 0 \in Index
  BY DEF DeviceAssumption, Index
<1>3. CASE Acquire
  <2>1. phase = "script" /\ phase' = "acquired" /\ UNCHANGED <<cur, recreated, recording>>
    BY <1>3 DEF Acquire, resourceVars
  <2>2. QED
    BY <1>1, <2>1 DEF TurnsInv, ScriptRuns
<1>4. CASE Recreate
  <2>1. /\ phase = "script" /\ phase' = "recreate" /\ cur' = 0 /\ recreated < MaxRecreates
        /\ recreated' = recreated + 1 /\ UNCHANGED recording
    BY <1>4 DEF Recreate, resourceVars
  <2>2. recreated' \in 0..MaxRecreates
    BY <2>1 DEF TurnsInv, DeviceAssumption
  <2>3. QED
    BY <1>1, <1>2, <2>1, <2>2 DEF TurnsInv, ScriptRuns
<1>5. CASE Recreated
  <2>1. phase = "recreate" /\ phase' = "acquired" /\ gpu = << >> /\ UNCHANGED <<cur, recreated, recording>>
    BY <1>5 DEF Recreated, resourceVars
  <2>2. Pending = {}
    BY <2>1 DEF Pending, ToSet
  <2>3. QED
    BY <1>1, <2>1, <2>2 DEF TurnsInv, ScriptRuns
<1>6. CASE Begin
  <2>1. ScriptRuns /\ UNCHANGED <<cur, phase, recreated>>
    BY <1>6 DEF Begin, frameVars
  <2>2. PICK cb \in 1..MaxCommands : recording' = [begun |-> cur, buffer |-> cb, objects |-> {}, copies |-> {}]
    BY <1>6 DEF Begin
  <2>3. recording' \in Recordings /\ recording'.begun = cur
    BY <2>2 DEF TurnsInv, Recordings
  <2>4. QED
    BY <1>1, <2>1, <2>3 DEF TurnsInv, ScriptRuns
<1>7. CASE Present
  <2>1. /\ phase = "submitted" /\ phase' = "wait" /\ cur' = (cur + 1) % BackBuffers
        /\ UNCHANGED <<recreated, recording>>
    BY <1>7 DEF Present, resourceVars
  <2>2. cur' \in Index
    BY <2>1, NextIndex DEF TurnsInv, Index, DeviceAssumption
  <2>3. recording = None
    BY <2>1 DEF TurnsInv
  <2>4. QED
    BY <1>1, <2>1, <2>2, <2>3 DEF TurnsInv, ScriptRuns
<1>8. QED
  BY <1>3, <1>4, <1>5, <1>6, <1>7

LEMMA ScriptTurns == ASSUME DeviceAssumption, TurnsInv, Script \/ UNCHANGED vars PROVE TurnsInv'
<1>1. UNCHANGED <<cur, phase, recreated, gpu, fences>> /\ Pending' = Pending
  BY DEF Script, CreateBuffer, DestroyBuffer, Upload, Resize, CreateSet, DestroySet, Bind,
         frameVars, vars, Pending
<1>2. CASE \E b \in Buffers : Upload(b)
  <2>1. PICK b \in Buffers : Upload(b)
    BY <1>2
  <2>2. /\ recording # None /\ obj[b] # 0 /\ staged[cur] < MaxUploads
        /\ recording' = [recording EXCEPT !.objects = @ \cup {obj[b]},
                                          !.copies = @ \cup {<<cur, staged[cur]>>}]
        /\ staged' = [staged EXCEPT ![cur] = @ + 1] /\ UNCHANGED obj
    BY <2>1 DEF Upload
  <2>3. recording \in Recordings /\ cur \in Index /\ obj[b] \in Objects /\ staged \in [Index -> 0..MaxUploads]
    BY <2>2 DEF TurnsInv
  <2>4. staged' \in [Index -> 0..MaxUploads] /\ <<cur, staged[cur]>> \in Copies
    BY <2>2, <2>3 DEF DeviceAssumption, Copies
  <2>5. recording' \in Recordings /\ recording'.begun = recording.begun
    BY <2>2, <2>3, <2>4 DEF Recordings
  <2>6. QED
    BY <1>1, <2>2, <2>4, <2>5 DEF TurnsInv, ScriptRuns
<1>3. CASE ~\E b \in Buffers : Upload(b)
  <2>1. UNCHANGED <<staged, recording>>
    BY <1>3 DEF Script, CreateBuffer, DestroyBuffer, Resize, CreateSet, DestroySet, Bind,
                resourceVars, vars
  <2>2. obj' \in [Buffers -> Objects \cup {0}]
    <3>1. UNCHANGED obj \/ \E b \in Buffers, o \in Objects \cup {0} : obj' = [obj EXCEPT ![b] = o]
      BY <1>3 DEF Script, CreateBuffer, DestroyBuffer, Resize, CreateSet, DestroySet, Bind,
                  resourceVars, vars, Fresh
    <3>2. QED
      BY <3>1 DEF TurnsInv
  <2>3. QED
    BY <1>1, <2>1, <2>2 DEF TurnsInv, ScriptRuns
<1>4. QED
  BY <1>2, <1>3

LEMMA InitTurns == ASSUME DeviceAssumption, Init PROVE TurnsInv
<1>1. /\ cur = 0 /\ phase = "script" /\ gpu = << >> /\ recreated = 0 /\ recording = None
      /\ fences = [i \in Index |-> 0] /\ staged = [i \in Index |-> 0] /\ obj = [b \in Buffers |-> 0]
  BY DEF Init
<1>2. cur \in Index /\ recreated \in 0..MaxRecreates
  BY <1>1 DEF Index, DeviceAssumption
<1>3. Pending = {} /\ gpu \in Seq(Pending)
  BY <1>1 DEF Pending, ToSet
<1>4. /\ fences \in [Index -> Nat] /\ staged \in [Index -> 0..MaxUploads]
      /\ obj \in [Buffers -> Objects \cup {0}]
  BY <1>1 DEF DeviceAssumption
<1>5. QED
  BY <1>1, <1>2, <1>3, <1>4 DEF TurnsInv

LEMMA NextTurns == ASSUME DeviceAssumption, TurnsInv, [Next]_vars PROVE TurnsInv'
BY RenderTurns, WaitedTurns, CompleteTurns, FrameTurns, ScriptTurns DEF Next, Frame

-----------------------------------------------------------------------------
(***************************************************************************)
(* The command buffers.                                                    *)
(***************************************************************************)
\* What is requested was yielded for the same back buffer, or is new, and is in the pools
\* no more.
LEMMA RequestKeeps ==
  ASSUME DeviceAssumption, PoolInv, NEW i \in Index, NEW cb \in 1..MaxCommands, Requested(i, cb)
  PROVE  /\ PoolInv' /\ cb \in 1..commands' /\ ~InPools(cb)' /\ commands <= commands'
         /\ \A c \in 0..commands : InPools(c)' => InPools(c)
         /\ \A j \in Index \ {i} : used'[j] = used[j]
         /\ InPools(cb) \/ cb \notin 0..commands
<1> DEFINE freed == IF i # lastIndex THEN used[i] ELSE {}
           free  == available[i] \cup freed
<1>1. /\ IF free # {} THEN cb \in free ELSE cb = commands + 1
      /\ available' = [available EXCEPT ![i] = free \ {cb}]
      /\ used' = [used EXCEPT ![i] = IF i # lastIndex THEN {} ELSE @]
      /\ commands' = IF free # {} THEN commands ELSE cb
      /\ lastIndex' = i
  BY DEF Requested
<1>2. /\ available \in [Index -> SUBSET (1..commands)] /\ used \in [Index -> SUBSET (1..commands)]
      /\ commands \in 0..MaxCommands /\ MaxCommands \in Nat
      /\ \A k, j \in Index : \A c \in available[k] : c \notin used[j] /\ (c \in available[j] => k = j)
      /\ \A k, j \in Index : \A c \in used[k] : c \in used[j] => k = j
  BY DEF PoolInv, DeviceAssumption
<1>3. freed \subseteq used[i] /\ used'[i] = used[i] \ freed /\ (freed = {} \/ freed = used[i])
  <2>1. CASE i # lastIndex
    BY <1>1, <1>2, <2>1
  <2>2. CASE i = lastIndex
    BY <1>1, <1>2, <2>2
  <2>3. QED
    BY <2>1, <2>2
<1>4. /\ available'[i] = free \ {cb}
      /\ \A j \in Index \ {i} : used'[j] = used[j] /\ available'[j] = available[j]
      /\ DOMAIN available' = Index /\ DOMAIN used' = Index
      /\ available' = [j \in Index |-> available'[j]] /\ used' = [j \in Index |-> used'[j]]
  BY <1>1, <1>2
<1> HIDE DEF freed
<1>5. free \subseteq 1..commands
  BY <1>2, <1>3
<1>6. commands' \in 0..MaxCommands /\ commands <= commands' /\ cb \in 1..commands'
      /\ (cb \in free \/ cb = commands + 1)
  BY <1>1, <1>2, <1>5
<1>7. \A j \in Index : available'[j] \subseteq 1..commands' /\ used'[j] \subseteq 1..commands'
  <2> SUFFICES ASSUME NEW j \in Index
               PROVE  available'[j] \subseteq 1..commands /\ used'[j] \subseteq 1..commands
    BY <1>2, <1>6
  <2>1. CASE j = i
    BY <1>2, <1>3, <1>4, <1>5, <2>1
  <2>2. CASE j # i
    BY <1>2, <1>4, <2>2
  <2>3. QED
    BY <2>1, <2>2
<1>8. /\ available' \in [Index -> SUBSET (1..commands')] /\ used' \in [Index -> SUBSET (1..commands')]
  BY <1>4, <1>7
<1>9. ASSUME NEW k \in Index, NEW j \in Index, NEW c \in available'[k]
      PROVE  c \notin used'[j] /\ (c \in available'[j] => k = j)
  BY <1>2, <1>3, <1>4, <1>9
<1>10. ASSUME NEW k \in Index, NEW j \in Index, NEW c \in used'[k]
       PROVE  c \in used'[j] => k = j
  BY <1>2, <1>3, <1>4, <1>10
<1>11. PoolInv'
  BY <1>1, <1>6, <1>8, <1>9, <1>10 DEF PoolInv
<1>12. \A j \in Index : cb \notin available'[j] /\ cb \notin used'[j]
  BY <1>2, <1>3, <1>4, <1>6
<1>13. \A c : InPools(c)' => InPools(c)
  BY <1>3, <1>4 DEF InPools
<1>14. InPools(cb) \/ cb \notin 0..commands
  BY <1>2, <1>3, <1>6 DEF InPools
<1>15. QED
  BY <1>4, <1>6, <1>11, <1>12, <1>13, <1>14 DEF InPools

\* What is yielded is requested again in the next turn of its back buffer at the soonest.
LEMMA YieldKeeps ==
  ASSUME PoolInv, NEW i \in Index, NEW cb \in 1..commands, ~InPools(cb),
         used' = [used EXCEPT ![i] = @ \cup {cb}], UNCHANGED <<available, lastIndex, commands>>
  PROVE  /\ PoolInv' /\ \A c : InPools(c)' => InPools(c) \/ c = cb
         /\ \A j \in Index : used[j] \subseteq used'[j]
         /\ cb \in used'[i]
<1>1. /\ available \in [Index -> SUBSET (1..commands)] /\ used \in [Index -> SUBSET (1..commands)]
      /\ \A j \in Index : cb \notin available[j] /\ cb \notin used[j]
  BY DEF PoolInv, InPools
<1>2. \A j \in Index : used'[j] = IF j = i THEN used[j] \cup {cb} ELSE used[j]
  BY <1>1
<1>3. used' \in [Index -> SUBSET (1..commands)]
  BY <1>1
<1>4. ASSUME NEW k \in Index, NEW j \in Index, NEW c \in available[k] PROVE c \notin used'[j]
  BY <1>1, <1>2 DEF PoolInv
<1>5. ASSUME NEW k \in Index, NEW j \in Index, NEW c \in used'[k] PROVE c \in used'[j] => k = j
  BY <1>1, <1>2, <1>5 DEF PoolInv
<1>6. PoolInv'
  BY <1>3, <1>4, <1>5 DEF PoolInv
<1>7. QED
  BY <1>1, <1>2, <1>6 DEF InPools

LEMMA BeginKeepsCommands ==
  ASSUME DeviceAssumption, TurnsInv, CommandsInv, Begin PROVE CommandsInv'
<1>1. PICK cb \in 1..MaxCommands : /\ Requested(cur, cb)
        /\ recording' = [begun |-> cur, buffer |-> cb, objects |-> {}, copies |-> {}]
  BY DEF Begin
<1>2. ScriptRuns /\ UNCHANGED <<phase, gpu, transfer>> /\ Pending' = Pending
  BY DEF Begin, frameVars, Pending
<1>3. /\ PoolInv' /\ cb \in 1..commands' /\ ~InPools(cb)' /\ commands <= commands'
      /\ \A c \in 0..commands : InPools(c)' => InPools(c)
      /\ \A j \in Index \ {cur} : used'[j] = used[j]
      /\ InPools(cb) \/ cb \notin 0..commands
  BY <1>1, RequestKeeps DEF CommandsInv, TurnsInv
<1>4. transfer \in 0..commands' /\ ~InPools(transfer)' /\ cb # transfer
  <2>1. commands \in Nat /\ commands' \in Nat
    BY <1>3 DEF CommandsInv, PoolInv, DeviceAssumption
  <2>2. transfer \in 0..commands /\ ~InPools(transfer)
    BY DEF CommandsInv
  <2>3. QED
    BY <1>2, <1>3, <2>1, <2>2
<1>5. recording'.buffer = cb
  BY <1>1
<1>6. \A s \in Pending : s.begun = s.index => s.buffer \in used'[s.index]
  BY <1>2, <1>3 DEF CommandsInv, TurnsInv, ScriptRuns
<1>7. QED
  BY <1>2, <1>3, <1>4, <1>5, <1>6 DEF CommandsInv

LEMMA RecreateKeepsCommands ==
  ASSUME DeviceAssumption, TurnsInv, CommandsInv, Recreate PROVE CommandsInv'
<1>1. PICK cb \in 1..MaxCommands : Requested(0, cb) /\ transfer' = cb
  BY DEF Recreate
<1>2. phase' = "recreate" /\ UNCHANGED recording
  BY DEF Recreate, resourceVars
<1>3. /\ PoolInv' /\ cb \in 1..commands' /\ ~InPools(cb)' /\ commands <= commands'
      /\ \A c \in 0..commands : InPools(c)' => InPools(c)
      /\ InPools(cb) \/ cb \notin 0..commands
  <2>1. 0 \in Index
    BY DEF DeviceAssumption, Index
  <2>2. QED
    BY <1>1, <2>1, RequestKeeps DEF CommandsInv
<1>4. transfer' \in 0..commands'
  BY <1>1, <1>3
<1>5. recording # None =>
        recording.buffer \in 1..commands' /\ recording.buffer # cb /\ ~InPools(recording.buffer)'
  <2>1. commands \in Nat /\ commands' \in Nat
    BY <1>3 DEF CommandsInv, PoolInv, DeviceAssumption
  <2>2. recording # None => recording.buffer \in 1..commands /\ ~InPools(recording.buffer)
    BY DEF CommandsInv
  <2>3. 1..commands \subseteq 0..commands /\ 1..commands \subseteq 1..commands'
    BY <1>3, <2>1
  <2>4. SUFFICES ASSUME recording # None
                 PROVE  recording.buffer \in 1..commands' /\ recording.buffer # cb /\ ~InPools(recording.buffer)'
    OBVIOUS
  <2>5. ~InPools(recording.buffer)'
    BY <1>2, <1>3, <2>2, <2>3, <2>4
  <2>6. QED
    BY <1>3, <2>2, <2>3, <2>4, <2>5
<1>6. QED
  BY <1>1, <1>2, <1>3, <1>4, <1>5 DEF CommandsInv

LEMMA RecreatedKeepsCommands ==
  ASSUME DeviceAssumption, TurnsInv, CommandsInv, Recreated PROVE CommandsInv'
<1>1. /\ gpu = << >> /\ used' = [used EXCEPT ![0] = @ \cup {transfer}] /\ transfer' = 0
      /\ phase' = "acquired" /\ UNCHANGED <<gpu, recording, available, lastIndex, commands>>
  BY DEF Recreated, resourceVars
<1>2. Pending' = {}
  BY <1>1 DEF Pending, ToSet
<1>3. 0 \in Index /\ transfer \in 1..commands /\ PoolInv /\ ~InPools(transfer)
  <2>1. phase = "recreate"
    BY DEF Recreated
  <2>2. commands \in Nat /\ transfer \in 0..commands /\ transfer # 0
    BY <2>1 DEF CommandsInv, PoolInv, DeviceAssumption
  <2>3. QED
    BY <2>2 DEF DeviceAssumption, Index, CommandsInv
<1>4. /\ PoolInv' /\ \A c : InPools(c)' => InPools(c) \/ c = transfer
  BY <1>1, <1>3, YieldKeeps
<1>5. ~InPools(0)'
  BY <1>4 DEF InPools, PoolInv
<1>6. commands' \in Nat
  BY <1>4 DEF PoolInv, DeviceAssumption
<1>7. recording' # None =>
        /\ recording'.buffer \in 1..commands' /\ recording'.buffer # 0 /\ ~InPools(recording.buffer)'
  BY <1>1, <1>3, <1>4 DEF CommandsInv
<1>8. QED
  BY <1>1, <1>2, <1>4, <1>5, <1>6, <1>7 DEF CommandsInv

LEMMA RenderKeepsCommands ==
  ASSUME DeviceAssumption, TurnsInv, CommandsInv, NEW bs \in SUBSET Buffers, NEW ds \in SUBSET Sets,
         Render(bs, ds)
  PROVE  CommandsInv'
<1>1. PICK s : /\ gpu' = Append(gpu, s) /\ s.index = cur /\ s.buffer = recording.buffer
  BY DEF Render
<1>2. /\ phase = "acquired" /\ phase' = "submitted" /\ recording # None /\ recording' = None
      /\ used' = [used EXCEPT ![cur] = @ \cup {recording.buffer}]
      /\ UNCHANGED <<transfer, available, lastIndex, commands>>
  BY DEF Render
<1>3. Pending' = Pending \cup {s}
  BY <1>1, PendingGrown DEF Pending, TurnsInv
<1>4. /\ cur \in Index /\ recording.buffer \in 1..commands /\ ~InPools(recording.buffer)
      /\ PoolInv /\ transfer = 0 /\ ~InPools(transfer) /\ recording.buffer # transfer
  BY <1>2 DEF CommandsInv, TurnsInv
<1>5. /\ PoolInv' /\ \A c : InPools(c)' => InPools(c) \/ c = recording.buffer
      /\ \A j \in Index : used[j] \subseteq used'[j]
      /\ recording.buffer \in used'[cur]
  BY <1>2, <1>4, YieldKeeps
<1>6. ASSUME NEW p \in Pending', p.begun = p.index PROVE p.buffer \in used'[p.index]
  <2>1. CASE p = s
    BY <1>1, <1>5, <2>1
  <2>2. CASE p \in Pending
    <3>1. p.index \in Index /\ p.buffer \in used[p.index]
      BY <1>2, <1>6, <2>2 DEF CommandsInv, TurnsInv
    <3>2. QED
      BY <1>5, <3>1
  <2>3. QED
    BY <1>3, <2>1, <2>2
<1>7. transfer' \in 0..commands'
  BY <1>2 DEF CommandsInv
<1>8. QED
  BY <1>2, <1>4, <1>5, <1>6, <1>7 DEF CommandsInv

\* The steps that leave the command buffers alone.
LEMMA OthersKeepCommands ==
  ASSUME DeviceAssumption, TurnsInv, CommandsInv,
         Script \/ Acquire \/ Present \/ Waited \/ Complete \/ UNCHANGED vars
  PROVE  CommandsInv'
<1>1. /\ UNCHANGED <<poolVars, transfer>> /\ (phase' = "recreate" <=> phase = "recreate")
      /\ recording' = recording \/ (recording # None /\ recording'.buffer = recording.buffer)
  <2>1. CASE \E b \in Buffers : Upload(b)
    <3>1. UNCHANGED <<poolVars, frameVars>> /\ recording # None
      BY <2>1 DEF Upload
    <3>2. recording \in Recordings
      BY <3>1 DEF TurnsInv
    <3>3. recording'.buffer = recording.buffer
      BY <2>1, <3>2 DEF Upload, Recordings
    <3>4. QED
      BY <3>1, <3>3 DEF frameVars
  <2>2. CASE ~\E b \in Buffers : Upload(b)
    BY <2>2 DEF Script, CreateBuffer, DestroyBuffer, Resize, CreateSet, DestroySet, Bind, Acquire,
                Present, Waited, Complete, frameVars, resourceVars, vars
  <2>3. QED
    BY <2>1, <2>2
<1>2. Pending' \subseteq Pending
  <2>1. CASE Complete
    BY <2>1, PendingShrunk DEF Complete, Pending, TurnsInv
  <2>2. CASE ~Complete
    BY <2>2 DEF Script, CreateBuffer, DestroyBuffer, Upload, Resize, CreateSet, DestroySet, Bind, Acquire,
                Present, Waited, frameVars, vars, Pending
  <2>3. QED
    BY <2>1, <2>2
<1>3. UNCHANGED <<available, used, lastIndex, commands, transfer>>
  BY <1>1 DEF poolVars
<1>4. PoolInv' /\ \A c : InPools(c)' <=> InPools(c)
  BY <1>3 DEF CommandsInv, PoolInv, InPools
<1>5. recording' # None =>
        /\ recording'.buffer \in 1..commands' /\ recording'.buffer # transfer'
        /\ ~InPools(recording.buffer)'
  BY <1>1, <1>3, <1>4 DEF CommandsInv
<1>6. ~InPools(transfer)' /\ transfer' \in 0..commands' /\ (transfer' # 0 <=> phase' = "recreate")
  BY <1>1, <1>3, <1>4 DEF CommandsInv
<1>7. phase' # "recreate" => \A s \in Pending' : s.begun = s.index => s.buffer \in used'[s.index]
  BY <1>1, <1>2, <1>3 DEF CommandsInv
<1>8. QED
  BY <1>4, <1>5, <1>6, <1>7 DEF CommandsInv

LEMMA InitCommands == ASSUME DeviceAssumption, Init PROVE CommandsInv
<1>1. /\ available = [i \in Index |-> {}] /\ used = [i \in Index |-> {}] /\ lastIndex = 0
      /\ commands = 0 /\ transfer = 0 /\ recording = None /\ phase = "script" /\ gpu = << >>
  BY DEF Init
<1>2. 0 \in Index /\ 0 \in 0..MaxCommands /\ 0 \in 0..commands
  BY <1>1 DEF DeviceAssumption, Index
<1>3. PoolInv /\ \A c : ~InPools(c)
  BY <1>1, <1>2 DEF PoolInv, InPools
<1>4. Pending = {}
  BY <1>1 DEF Pending, ToSet
<1>5. QED
  BY <1>1, <1>2, <1>3, <1>4 DEF CommandsInv

LEMMA NextCommands ==
  ASSUME DeviceAssumption, TurnsInv, CommandsInv, [Next]_vars PROVE CommandsInv'
BY BeginKeepsCommands, RecreateKeepsCommands, RecreatedKeepsCommands, RenderKeepsCommands,
   OthersKeepCommands DEF Next, Frame

-----------------------------------------------------------------------------
(***************************************************************************)
(* The descriptor sets.                                                    *)
(***************************************************************************)
LEMMA Places ==
  ASSUME DeviceAssumption, SetTypes
  PROVE  /\ \A d \in Sets, i \in Index : Alive(d) => Instance(d, i) \in Numbers
         /\ \A i \in Index : /\ DOMAIN markets[i] = 1..Len(markets[i]) /\ Len(markets[i]) \in Nat
                             /\ \A k \in DOMAIN markets[i] : markets[i][k] \in Numbers
         /\ \A v, i : i \in Index /\ InColumn(v, i) => v \in Numbers
         /\ DOMAIN written = Numbers /\ Len(written) \in Nat
<1>1. ASSUME NEW d \in Sets, NEW i \in Index, Alive(d) PROVE Instance(d, i) \in Numbers
  <2>1. instances[d] \in [1..BackBuffers -> Numbers]
    BY <1>1 DEF SetTypes, Alive
  <2>2. i + 1 \in 1..BackBuffers
    BY DEF Index, DeviceAssumption
  <2>3. QED
    BY <2>1, <2>2 DEF Instance
<1>2. ASSUME NEW i \in Index
      PROVE  /\ DOMAIN markets[i] = 1..Len(markets[i]) /\ Len(markets[i]) \in Nat
             /\ \A k \in DOMAIN markets[i] : markets[i][k] \in Numbers
  <2>1. markets[i] \in Seq(Numbers)
    BY DEF SetTypes
  <2> HIDE DEF Numbers
  <2>2. QED
    BY <2>1
<1>3. DOMAIN written = Numbers /\ Len(written) \in Nat
  BY DEF SetTypes, Numbers
<1>4. QED
  BY <1>1, <1>2, <1>3 DEF InColumn

\* The instances of back buffer i of the sets ds are given their infos, and no others.
LEMMA WrittenEffect ==
  ASSUME DeviceAssumption, SetTypes, OneHolder, NEW i \in Index, NEW ds \in SUBSET Sets,
         \A d \in ds : Alive(d), infos' \in [Sets -> Objects \cup {0}], Written(i, ds)
  PROVE  /\ written' \in Seq(Objects \cup {0}) /\ Numbers' = Numbers
         /\ \A d \in ds : written'[Instance(d, i)] = infos'[d]
         /\ \A d \in Sets, j \in Index : Alive(d) /\ (d \notin ds \/ j # i) =>
              written'[Instance(d, j)] = written[Instance(d, j)]
         /\ \A v, j : j \in Index \ {i} /\ InColumn(v, j) => written'[v] = written[v]
<1>1. /\ \A d \in Sets, j \in Index : Alive(d) => Instance(d, j) \in Numbers
      /\ \A v, j : j \in Index /\ InColumn(v, j) => v \in Numbers
      /\ DOMAIN written = Numbers /\ Len(written) \in Nat /\ written \in Seq(Objects \cup {0})
  BY Places DEF SetTypes
<1>2. written' = [v \in Numbers |->
        IF \E d \in ds : Instance(d, i) = v
        THEN infos'[CHOOSE d \in ds : Instance(d, i) = v] ELSE written[v]]
  BY <1>1 DEF Written
<1>3. ASSUME NEW v \in Numbers PROVE written'[v] \in Objects \cup {0}
  <2>1. CASE \E d \in ds : Instance(d, i) = v
    <3>1. (CHOOSE d \in ds : Instance(d, i) = v) \in ds
      BY <2>1
    <3>2. QED
      BY <1>2, <2>1, <3>1
  <2>2. CASE ~\E d \in ds : Instance(d, i) = v
    BY <1>1, <1>2, <2>2 DEF Numbers
  <2>3. QED
    BY <2>1, <2>2
<1>4. written' \in Seq(Objects \cup {0}) /\ Numbers' = Numbers
  <2>1. written' \in [1..Len(written) -> Objects \cup {0}]
    BY <1>2, <1>3 DEF Numbers
  <2>2. written' \in Seq(Objects \cup {0})
    BY <1>1, <2>1, SeqDef
  <2>3. Len(written') = Len(written)
    BY <1>1, <2>1, <2>2
  <2>4. QED
    BY <2>2, <2>3 DEF Numbers
<1>5. ASSUME NEW d \in ds PROVE written'[Instance(d, i)] = infos'[d]
  <2>1. \A e \in ds : Instance(e, i) = Instance(d, i) => e = d
    BY DEF OneHolder
  <2>2. (CHOOSE e \in ds : Instance(e, i) = Instance(d, i)) = d
    BY <2>1
  <2>3. Instance(d, i) \in Numbers
    BY <1>1
  <2>4. QED
    BY <1>2, <2>2, <2>3
<1>6. ASSUME NEW d \in Sets, NEW j \in Index, Alive(d), d \notin ds \/ j # i
      PROVE  written'[Instance(d, j)] = written[Instance(d, j)]
  <2>1. ~\E e \in ds : Instance(e, i) = Instance(d, j)
    BY <1>6 DEF OneHolder
  <2>2. QED
    BY <1>1, <1>2, <1>6, <2>1
<1>7. ASSUME NEW v, NEW j \in Index \ {i}, InColumn(v, j) PROVE written'[v] = written[v]
  <2>1. ~\E e \in ds : Instance(e, i) = v
    BY <1>7 DEF OneHolder, InColumn
  <2>2. v \in Numbers
    BY <1>1, <1>7
  <2>3. QED
    BY <1>2, <2>1, <2>2
<1>8. QED
  BY <1>4, <1>5, <1>6, <1>7

\* An update of sets that are bound is seen at once by the current back buffer, and by the
\* others when their turn comes.
LEMMA RecordKeeps ==
  ASSUME DeviceAssumption, TurnsInv, SetsInv, ScriptRuns, NEW ds \in SUBSET Sets, Record(ds),
         UNCHANGED <<instances, markets, phase, cur, gpu>>,
         infos' \in [Sets -> Objects \cup {0}], bound' \in [Sets -> Buffers \cup {None}],
         \A d \in ds : Alive(d) /\ IsBound(d)',
         \A d \in Sets \ ds : infos'[d] = infos[d] /\ bound'[d] = bound[d],
         \A d \in Sets : IsBound(d)' => obj'[bound'[d]] # 0 /\ infos'[d] = obj'[bound'[d]]
  PROVE  SetsInv'
<1>1. SetTypes /\ OneHolder /\ Updated /\ ReadsKept /\ cur \in Index
  BY DEF SetsInv, TurnsInv
<1>2. /\ Written(cur, ds)
      /\ toUpdate' = [i \in Index |-> IF i = cur THEN toUpdate[i] \ ds ELSE toUpdate[i] \cup ds]
  BY DEF Record, AllOf
<1>3. /\ written' \in Seq(Objects \cup {0}) /\ Numbers' = Numbers
      /\ \A d \in ds : written'[Instance(d, cur)] = infos'[d]
      /\ \A d \in Sets, j \in Index : Alive(d) /\ (d \notin ds \/ j # cur) =>
           written'[Instance(d, j)] = written[Instance(d, j)]
      /\ \A v, j : j \in Index \ {cur} /\ InColumn(v, j) => written'[v] = written[v]
  BY <1>1, <1>2, WrittenEffect
<1>4. toUpdate' \in [Index -> SUBSET Sets]
  BY <1>1, <1>2 DEF SetTypes
<1>5. SetTypes'
  BY <1>1, <1>3, <1>4 DEF SetTypes
<1>6. /\ \A d : Alive(d)' <=> Alive(d)
      /\ \A d, i : Instance(d, i)' = Instance(d, i)
      /\ \A v, i : InColumn(v, i) => InColumn(v, i)'
  BY DEF Alive, Instance, InColumn
<1>7. OneHolder'
  BY <1>1, <1>6 DEF OneHolder
<1>8. ASSUME NEW d \in Sets, IsBound(d)' PROVE Alive(d)'
  BY <1>1, <1>6, <1>8 DEF Updated, IsBound
<1>9. ASSUME NEW i \in Index, NEW d \in toUpdate'[i] PROVE IsBound(d)'
  <2>1. d \in Sets /\ (d \in ds \/ d \in toUpdate[i])
    BY <1>2, <1>4, <1>9
  <2>2. QED
    BY <1>1, <2>1 DEF Updated, IsBound
<1>10. ASSUME NEW d \in Sets, NEW i \in Index, IsBound(d)' PROVE d \in toUpdate'[i] \/ IsCurrent(d, i)'
  <2>1. CASE d \in ds /\ i = cur
    BY <1>3, <1>6, <2>1 DEF IsCurrent
  <2>2. CASE d \in ds /\ i # cur
    BY <1>2, <2>2
  <2>3. CASE d \notin ds
    <3>1. IsBound(d) /\ Alive(d) /\ (d \in toUpdate[i] \/ IsCurrent(d, i))
      BY <1>1, <1>10, <2>3 DEF Updated, IsBound
    <3>2. CASE d \in toUpdate[i]
      BY <1>2, <2>3, <3>2
    <3>3. CASE IsCurrent(d, i)
      BY <1>3, <1>6, <2>3, <3>1, <3>3 DEF IsCurrent
    <3>4. QED
      BY <3>1, <3>2, <3>3
  <2>4. QED
    BY <2>1, <2>2, <2>3
<1>11. phase' = "acquired" => toUpdate'[cur'] = {}
  BY <1>1, <1>2 DEF Updated
<1>12. Updated'
  BY <1>8, <1>9, <1>10, <1>11 DEF Updated
<1>13. ReadsKept'
  <2>1. Pending' = Pending
    BY DEF Pending
  <2>2. SUFFICES ASSUME NEW s \in Pending, NEW r \in s.reads
                 PROVE  InColumn(r[1], s.index)' /\ written'[r[1]] = r[2]
    BY <2>1 DEF ReadsKept
  <2>3. InColumn(r[1], s.index) /\ written[r[1]] = r[2] /\ s.index \in Index \ {cur}
    BY <1>1 DEF ReadsKept, TurnsInv
  <2>4. QED
    BY <1>3, <1>6, <2>3
<1>14. QED
  BY <1>5, <1>7, <1>12, <1>13 DEF SetsInv

\* What was left to be updated for back buffer i is updated before it is used.
LEMMA FlushKeeps ==
  ASSUME DeviceAssumption, TurnsInv, SetsInv, NEW i \in Index, Flush(i), cur' = i,
         UNCHANGED <<bound, instances, markets, obj, gpu>>, \A s \in Pending : s.index # i
  PROVE  SetsInv'
<1>1. SetTypes /\ OneHolder /\ Updated /\ ReadsKept
  BY DEF SetsInv
<1>2. /\ infos' = infos /\ Written(i, toUpdate[i]) /\ toUpdate' = [toUpdate EXCEPT ![i] = {}]
      /\ toUpdate[i] \in SUBSET Sets /\ \A d \in toUpdate[i] : Alive(d)
      /\ infos' \in [Sets -> Objects \cup {0}]
  BY <1>1 DEF Flush, SetTypes, Updated
<1>3. /\ written' \in Seq(Objects \cup {0}) /\ Numbers' = Numbers
      /\ \A d \in toUpdate[i] : written'[Instance(d, i)] = infos'[d]
      /\ \A d \in Sets, j \in Index : Alive(d) /\ (d \notin toUpdate[i] \/ j # i) =>
           written'[Instance(d, j)] = written[Instance(d, j)]
      /\ \A v, j : j \in Index \ {i} /\ InColumn(v, j) => written'[v] = written[v]
  BY <1>1, <1>2, WrittenEffect
<1>4. SetTypes'
  BY <1>1, <1>2, <1>3 DEF SetTypes
<1>5. /\ \A d : (Alive(d)' <=> Alive(d)) /\ (IsBound(d)' <=> IsBound(d))
      /\ \A d, j : Instance(d, j)' = Instance(d, j)
      /\ \A v, j : InColumn(v, j) => InColumn(v, j)'
  BY DEF Alive, Instance, InColumn, IsBound
<1>6. OneHolder'
  BY <1>1, <1>5 DEF OneHolder
<1>7. \A j \in Index : toUpdate'[j] = IF j = i THEN {} ELSE toUpdate[j]
  BY <1>1, <1>2 DEF SetTypes
<1>8. ASSUME NEW d \in Sets, NEW j \in Index, IsBound(d)' PROVE d \in toUpdate'[j] \/ IsCurrent(d, j)'
  <2>1. Alive(d) /\ (d \in toUpdate[j] \/ IsCurrent(d, j))
    BY <1>1, <1>5, <1>8 DEF Updated
  <2>2. CASE d \in toUpdate[i] /\ j = i
    BY <1>3, <1>5, <2>2 DEF IsCurrent
  <2>3. CASE d \notin toUpdate[i] \/ j # i
    BY <1>2, <1>3, <1>5, <1>7, <2>1, <2>3 DEF IsCurrent
  <2>4. QED
    BY <2>2, <2>3
<1>9. \A d \in Sets : IsBound(d)' => Alive(d)' /\ obj'[bound'[d]] # 0 /\ infos'[d] = obj'[bound'[d]]
  BY <1>1, <1>2, <1>5 DEF Updated
<1>10. Updated'
  BY <1>1, <1>5, <1>7, <1>8, <1>9 DEF Updated
<1>11. ReadsKept'
  <2>1. Pending' = Pending
    BY DEF Pending
  <2>2. SUFFICES ASSUME NEW s \in Pending, NEW r \in s.reads
                 PROVE  InColumn(r[1], s.index)' /\ written'[r[1]] = r[2]
    BY <2>1 DEF ReadsKept
  <2>3. InColumn(r[1], s.index) /\ written[r[1]] = r[2] /\ s.index \in Index \ {i}
    BY <1>1 DEF ReadsKept, TurnsInv
  <2>4. QED
    BY <1>3, <1>5, <2>3
<1>12. QED
  BY <1>4, <1>6, <1>10, <1>11 DEF SetsInv

LEMMA BindKeepsSets ==
  ASSUME DeviceAssumption, TurnsInv, SetsInv, NEW d \in Sets, NEW b \in Buffers, Bind(d, b)
  PROVE  SetsInv'
<1>1. /\ ScriptRuns /\ Alive(d) /\ obj[b] # 0 /\ Record({d})
      /\ bound' = [bound EXCEPT ![d] = b] /\ infos' = [infos EXCEPT ![d] = obj[b]]
      /\ UNCHANGED <<instances, markets, phase, cur, gpu, obj>>
  BY DEF Bind, frameVars, resourceVars
<1>2. /\ bound \in [Sets -> Buffers \cup {None}] /\ infos \in [Sets -> Objects \cup {0}]
      /\ obj[b] \in Objects \cup {0} /\ b # None /\ Updated
  BY DEF SetsInv, SetTypes, TurnsInv, DeviceAssumption
<1>3. /\ infos' \in [Sets -> Objects \cup {0}] /\ bound' \in [Sets -> Buffers \cup {None}]
      /\ bound'[d] = b /\ infos'[d] = obj[b]
      /\ \A e \in Sets \ {d} : infos'[e] = infos[e] /\ bound'[e] = bound[e]
  BY <1>1, <1>2
<1>4. \A e \in Sets : IsBound(e)' => obj'[bound'[e]] # 0 /\ infos'[e] = obj'[bound'[e]]
  BY <1>1, <1>2, <1>3 DEF Updated, IsBound
<1>5. IsBound(d)'
  BY <1>2, <1>3 DEF IsBound
<1>6. QED
  BY <1>1, <1>3, <1>4, <1>5, RecordKeeps

LEMMA ResizeKeepsSets ==
  ASSUME DeviceAssumption, TurnsInv, SetsInv, NEW b \in Buffers, Resize(b)
  PROVE  SetsInv'
<1> DEFINE ds == {d \in Sets : bound[d] = b}
<1>1. PICK o \in Fresh : obj' = [obj EXCEPT ![b] = o]
  BY DEF Resize
<1>2. /\ ScriptRuns /\ Record(ds) /\ UNCHANGED <<instances, markets, phase, cur, gpu, bound>>
      /\ infos' = [d \in Sets |-> IF bound[d] = b THEN obj'[b] ELSE infos[d]]
  BY DEF Resize, frameVars
<1>3. /\ bound \in [Sets -> Buffers \cup {None}] /\ infos \in [Sets -> Objects \cup {0}]
      /\ obj \in [Buffers -> Objects \cup {0}] /\ o \in Objects /\ o # 0 /\ b # None /\ Updated
  BY DEF SetsInv, SetTypes, TurnsInv, DeviceAssumption, Fresh, Objects
<1>4. obj'[b] = o /\ \A c \in Buffers \ {b} : obj'[c] = obj[c]
  BY <1>1, <1>3
<1>5. /\ infos' \in [Sets -> Objects \cup {0}] /\ \A d \in ds : infos'[d] = o
      /\ \A d \in Sets \ ds : infos'[d] = infos[d]
  BY <1>2, <1>3, <1>4
<1>6. \A d \in ds : Alive(d) /\ IsBound(d)'
  BY <1>2, <1>3 DEF Updated, IsBound
<1>7. ASSUME NEW d \in Sets, IsBound(d)' PROVE obj'[bound'[d]] # 0 /\ infos'[d] = obj'[bound'[d]]
  <2>1. CASE d \in ds
    BY <1>2, <1>3, <1>4, <1>5, <2>1
  <2>2. CASE d \notin ds
    <3>1. bound[d] \in Buffers \ {b} /\ infos[d] = obj[bound[d]] /\ obj[bound[d]] # 0
      BY <1>2, <1>3, <1>7, <2>2 DEF Updated, IsBound
    <3>2. QED
      BY <1>2, <1>4, <1>5, <2>2, <3>1
  <2>3. QED
    BY <2>1, <2>2
<1> HIDE DEF ds
<1>8. ds \in SUBSET Sets /\ bound' \in [Sets -> Buffers \cup {None}]
      /\ \A d \in Sets \ ds : infos'[d] = infos[d] /\ bound'[d] = bound[d]
  BY <1>2, <1>3, <1>5 DEF ds
<1>9. QED
  BY <1>2, <1>5, <1>6, <1>7, <1>8, RecordKeeps

LEMMA LastAndFront ==
  ASSUME NEW S, NEW s \in Seq(S), s # << >>
  PROVE  /\ Last(s) = s[Len(s)] /\ Last(s) \in S /\ Len(s) \in DOMAIN s
         /\ Front(s) \in Seq(S) /\ Len(Front(s)) = Len(s) - 1
         /\ \A k \in DOMAIN Front(s) : k \in DOMAIN s /\ k # Len(s) /\ Front(s)[k] = s[k]
         /\ \A k \in DOMAIN s : k # Len(s) => k \in DOMAIN Front(s)
<1>1. Len(s) \in Nat \ {0} /\ DOMAIN s = 1..Len(s)
  BY EmptySeq
<1>2. /\ SubSeq(s, 1, Len(s) - 1) \in Seq(S) /\ Len(SubSeq(s, 1, Len(s) - 1)) = Len(s) - 1
      /\ \A k \in 1..(Len(s) - 1) : SubSeq(s, 1, Len(s) - 1)[k] = s[k]
  BY <1>1
<1>3. DOMAIN SubSeq(s, 1, Len(s) - 1) = 1..(Len(s) - 1)
  BY <1>2
<1>4. s[Len(s)] \in S
  BY <1>1
<1>5. QED
  BY <1>1, <1>2, <1>3, <1>4 DEF Last, Front

\* A set is given instances that no other has, of the market or new.
LEMMA CreateKeepsSets ==
  ASSUME DeviceAssumption, TurnsInv, SetsInv, NEW d \in Sets, CreateSet(d)
  PROVE  SetsInv'
<1> DEFINE Has(i) == markets[i] # << >>
           n == Len(written)
<1>1. /\ ~Alive(d) /\ UNCHANGED <<bound, infos, toUpdate, phase, cur, gpu, obj>>
      /\ instances' = [instances EXCEPT ![d] =
           [k \in 1..BackBuffers |-> IF Has(k - 1) THEN Last(markets[k - 1]) ELSE n + k]]
      /\ written' = IF \A i \in Index : Has(i) THEN written
                    ELSE written \o [k \in 1..BackBuffers |-> 0]
      /\ markets' = [i \in Index |-> IF Has(i) THEN Front(markets[i]) ELSE << >>]
  BY DEF CreateSet, frameVars, resourceVars
<1>2. SetTypes /\ OneHolder /\ Updated /\ ReadsKept
  BY DEF SetsInv
<1>3. /\ \A e \in Sets, i \in Index : Alive(e) => Instance(e, i) \in Numbers
      /\ \A i \in Index : /\ DOMAIN markets[i] = 1..Len(markets[i]) /\ Len(markets[i]) \in Nat
                          /\ \A k \in DOMAIN markets[i] : markets[i][k] \in Numbers
      /\ \A v, i : i \in Index /\ InColumn(v, i) => v \in Numbers
      /\ DOMAIN written = Numbers /\ n \in Nat /\ written \in Seq(Objects \cup {0})
  BY <1>2, Places DEF SetTypes
<1>4. BackBuffers \in Nat \ {0} /\ \A i \in Index : i + 1 \in 1..BackBuffers /\ (i + 1) - 1 = i /\ i \in Nat
  BY DEF DeviceAssumption, Index
<1>5. \A k \in 1..BackBuffers : k - 1 \in Index
  BY <1>4 DEF Index
\* The instances that are written or not.
<1>6. /\ written' \in Seq(Objects \cup {0}) /\ n <= Len(written') /\ Len(written') \in Nat
      /\ \A v \in Numbers : written'[v] = written[v]
      /\ (\E i \in Index : ~Has(i)) => Len(written') = n + BackBuffers
  <2>1. CASE \A i \in Index : Has(i)
    BY <1>1, <1>3, <2>1
  <2>2. CASE ~\A i \in Index : Has(i)
    <3> DEFINE z == [k \in 1..BackBuffers |-> 0]
    <3>1. z \in Seq(Objects \cup {0}) /\ Len(z) = BackBuffers
      BY <1>4
    <3>2. written' = written \o z
      BY <1>1, <2>2
    <3> HIDE DEF z
    <3>3. /\ written' \in Seq(Objects \cup {0}) /\ Len(written') = n + BackBuffers
          /\ \A v \in 1..n : written'[v] = written[v]
      <4>1. written \in Seq(Objects \cup {0}) /\ BackBuffers \in Nat
        BY <1>3, <1>4
      <4>2. /\ written \o z \in Seq(Objects \cup {0}) /\ Len(written \o z) = Len(written) + Len(z)
            /\ \A v \in 1..(Len(written) + Len(z)) :
                 (written \o z)[v] = IF v <= Len(written) THEN written[v] ELSE z[v - Len(written)]
        BY <3>1, <4>1, ConcatProperties
      <4>3. QED
        BY <1>3, <3>1, <3>2, <4>1, <4>2
    <3>4. QED
      BY <1>3, <1>4, <3>3 DEF Numbers
  <2>3. QED
    BY <2>1, <2>2
<1>7. \A v \in Numbers : v \in Numbers' /\ v <= n
  BY <1>3, <1>6 DEF Numbers
\* The new instances of d.
<1>8. ASSUME NEW i \in Index
      PROVE  Instance(d, i)' = IF Has(i) THEN Last(markets[i]) ELSE n + (i + 1)
  <2>1. instances'[d] = [k \in 1..BackBuffers |-> IF Has(k - 1) THEN Last(markets[k - 1]) ELSE n + k]
    BY <1>1, <1>2 DEF SetTypes
  <2>2. QED
    BY <1>4, <2>1 DEF Instance
<1>9. ASSUME NEW i \in Index, Has(i)
      PROVE  /\ Last(markets[i]) = markets[i][Len(markets[i])] /\ Len(markets[i]) \in DOMAIN markets[i]
             /\ Last(markets[i]) \in Numbers /\ markets'[i] \in Seq(Numbers)
             /\ \A k \in DOMAIN markets'[i] :
                  k \in DOMAIN markets[i] /\ k # Len(markets[i]) /\ markets'[i][k] = markets[i][k]
             /\ \A k \in DOMAIN markets[i] : k # Len(markets[i]) => k \in DOMAIN markets'[i] /\ markets'[i][k] = markets[i][k]
  <2>1. markets[i] \in Seq(Numbers) /\ markets'[i] = Front(markets[i])
    BY <1>1, <1>2, <1>9 DEF SetTypes
  <2> HIDE DEF Numbers
  <2>2. QED
    BY <1>9, <2>1, LastAndFront
<1>10. ASSUME NEW i \in Index, ~Has(i)
       PROVE  markets'[i] = << >> /\ DOMAIN markets'[i] = {} /\ DOMAIN markets[i] = {}
  BY <1>1, <1>10
<1>11. ASSUME NEW i \in Index PROVE Instance(d, i)' \in Numbers'
  <2>1. CASE Has(i)
    BY <1>7, <1>8, <1>9, <2>1
  <2>2. CASE ~Has(i)
    BY <1>3, <1>4, <1>6, <1>8, <2>2 DEF Numbers
  <2>3. QED
    BY <2>1, <2>2
<1>12. \A e \in Sets \ {d} : instances'[e] = instances[e]
  BY <1>1, <1>2 DEF SetTypes
<1>13. instances'[d] \in [1..BackBuffers -> Numbers'] /\ instances'[d] # << >>
  <2>1. instances'[d] = [k \in 1..BackBuffers |-> IF Has(k - 1) THEN Last(markets[k - 1]) ELSE n + k]
    BY <1>1, <1>2 DEF SetTypes
  <2>2. ASSUME NEW k \in 1..BackBuffers PROVE instances'[d][k] \in Numbers'
    <3>1. k - 1 \in Index /\ (k - 1) + 1 = k
      BY <1>5, <2>2
    <3>2. QED
      BY <1>11, <3>1 DEF Instance
  <2>3. 1 \in DOMAIN instances'[d]
    BY <1>4, <2>1
  <2>4. QED
    BY <2>1, <2>2, <2>3
<1>14. \A e \in Sets : (Alive(e)' <=> Alive(e) \/ e = d)
  BY <1>12, <1>13 DEF Alive
<1>15. \A e \in Sets \ {d}, i \in Index : Instance(e, i)' = Instance(e, i)
  BY <1>12 DEF Instance
<1>16. SetTypes'
  <2>1. \A e \in Sets : instances'[e] \in {<< >>} \cup [1..BackBuffers -> Numbers']
    <3>1. SUFFICES ASSUME NEW e \in Sets \ {d}, instances[e] # << >>
                   PROVE  instances[e] \in [1..BackBuffers -> Numbers']
      BY <1>12, <1>13
    <3>2. instances[e] \in [1..BackBuffers -> Numbers]
      BY <1>2, <3>1 DEF SetTypes
    <3>3. QED
      BY <1>7, <3>2
  <2>2. instances' \in [Sets -> {<< >>} \cup [1..BackBuffers -> Numbers']]
    BY <1>1, <1>2, <2>1 DEF SetTypes
  <2>3. ASSUME NEW i \in Index PROVE markets'[i] \in Seq(Numbers')
    <3>1. CASE Has(i)
      <4>1. markets'[i] \in Seq(Numbers) /\ Numbers \subseteq Numbers'
        BY <1>7, <1>9, <3>1
      <4> HIDE DEF Numbers
      <4>2. QED
        BY <4>1
    <3>2. CASE ~Has(i)
      <4>1. markets'[i] = << >>
        BY <1>10, <3>2
      <4>2. QED
        BY <4>1, EmptySeq
    <3>3. QED
      BY <3>1, <3>2
  <2>4. markets' \in [Index -> Seq(Numbers')]
    BY <1>1, <2>3
  <2>5. QED
    BY <1>1, <1>2, <1>6, <2>2, <2>4 DEF SetTypes
<1>17. OneHolder'
  <2>1. ASSUME NEW e \in Sets \ {d}, NEW i \in Index, NEW j \in Index, Alive(e)
        PROVE  Instance(d, i)' # Instance(e, j)
    <3>1. Instance(e, j) \in Numbers
      BY <1>3, <2>1
    <3>2. CASE Has(i)
      BY <1>2, <1>8, <1>9, <2>1, <3>2 DEF OneHolder
    <3>3. CASE ~Has(i)
      BY <1>3, <1>4, <1>7, <1>8, <3>1, <3>3 DEF Numbers
    <3>4. QED
      BY <3>2, <3>3
  <2>2. ASSUME NEW i \in Index, NEW j \in Index, Instance(d, i)' = Instance(d, j)' PROVE i = j
    <3>1. CASE Has(i) /\ Has(j)
      BY <1>2, <1>8, <1>9, <2>2, <3>1 DEF OneHolder
    <3>2. CASE Has(i) /\ ~Has(j)
      BY <1>3, <1>4, <1>7, <1>8, <1>9, <2>2, <3>2 DEF Numbers
    <3>3. CASE ~Has(i) /\ Has(j)
      BY <1>3, <1>4, <1>7, <1>8, <1>9, <2>2, <3>3 DEF Numbers
    <3>4. CASE ~Has(i) /\ ~Has(j)
      BY <1>3, <1>4, <1>8, <2>2, <3>4
    <3>5. QED
      BY <3>1, <3>2, <3>3, <3>4
  <2>3. ASSUME NEW i \in Index, NEW j \in Index, NEW k \in DOMAIN markets'[j]
        PROVE  /\ k \in DOMAIN markets[j] /\ markets'[j][k] = markets[j][k]
               /\ Instance(d, i)' # markets'[j][k]
    <3>1. Has(j) /\ k \in DOMAIN markets[j] /\ k # Len(markets[j]) /\ markets'[j][k] = markets[j][k]
      BY <1>9, <1>10, <2>3
    <3>2. CASE Has(i)
      BY <1>2, <1>8, <1>9, <3>1, <3>2 DEF OneHolder
    <3>3. CASE ~Has(i)
      BY <1>3, <1>4, <1>7, <1>8, <3>1, <3>3 DEF Numbers
    <3>4. QED
      BY <3>1, <3>2, <3>3
  <2>4. \A e, f \in Sets, i, j \in Index :
          Alive(e)' /\ Alive(f)' /\ Instance(e, i)' = Instance(f, j)' => e = f /\ i = j
    BY <1>2, <1>14, <1>15, <2>1, <2>2 DEF OneHolder
  <2>5. \A e \in Sets, i, j \in Index : \A k \in DOMAIN markets'[j] :
          Alive(e)' => Instance(e, i)' # markets'[j][k]
    BY <1>2, <1>14, <1>15, <2>3 DEF OneHolder
  <2>6. \A i, j \in Index : \A k \in DOMAIN markets'[i], l \in DOMAIN markets'[j] :
          markets'[i][k] = markets'[j][l] => i = j /\ k = l
    BY <1>2, <2>3 DEF OneHolder
  <2>7. QED
    BY <2>4, <2>5, <2>6 DEF OneHolder
<1>18. Updated'
  <2>1. ~IsBound(d) /\ \A e : IsBound(e)' <=> IsBound(e)
    BY <1>1, <1>2 DEF Updated, IsBound
  <2>2. ASSUME NEW e \in Sets, NEW i \in Index, IsBound(e), IsCurrent(e, i) PROVE IsCurrent(e, i)'
    <3>1. Alive(e) /\ Instance(e, i) \in Numbers /\ e # d
      BY <1>2, <1>3, <2>1, <2>2 DEF Updated
    <3>2. QED
      BY <1>1, <1>6, <1>15, <2>2, <3>1 DEF IsCurrent
  <2>3. \A e \in Sets : IsBound(e)' => Alive(e)' /\ obj'[bound'[e]] # 0 /\ infos'[e] = obj'[bound'[e]]
    BY <1>1, <1>2, <1>14, <2>1 DEF Updated
  <2>4. QED
    BY <1>1, <1>2, <2>1, <2>2, <2>3 DEF Updated
<1>19. ReadsKept'
  <2>1. Pending' = Pending
    BY <1>1 DEF Pending
  <2>2. SUFFICES ASSUME NEW s \in Pending, NEW r \in s.reads
                 PROVE  InColumn(r[1], s.index)' /\ written'[r[1]] = r[2]
    BY <2>1 DEF ReadsKept
  <2>3. InColumn(r[1], s.index) /\ written[r[1]] = r[2] /\ s.index \in Index
    BY <1>2 DEF ReadsKept, TurnsInv
  <2>4. written'[r[1]] = r[2]
    BY <1>3, <1>6, <2>3
  <2>5. CASE \E e \in Sets : Alive(e) /\ Instance(e, s.index) = r[1]
    BY <1>1, <1>14, <1>15, <2>3, <2>4, <2>5 DEF InColumn
  <2>6. CASE \E k \in DOMAIN markets[s.index] : markets[s.index][k] = r[1]
    <3>1. PICK k \in DOMAIN markets[s.index] : markets[s.index][k] = r[1]
      BY <2>6
    <3>2. Has(s.index)
      BY <1>10, <2>3, <3>1
    <3>3. CASE k = Len(markets[s.index])
      <4>1. Instance(d, s.index)' = r[1] /\ Alive(d)'
        BY <1>8, <1>9, <1>14, <2>3, <3>1, <3>2, <3>3
      <4>2. QED
        BY <2>4, <4>1 DEF InColumn
    <3>4. CASE k # Len(markets[s.index])
      <4>1. k \in DOMAIN markets'[s.index] /\ markets'[s.index][k] = r[1]
        BY <1>9, <2>3, <3>1, <3>2, <3>4
      <4>2. QED
        BY <2>4, <4>1 DEF InColumn
    <3>5. QED
      BY <3>3, <3>4
  <2>7. QED
    BY <2>3, <2>4, <2>5, <2>6 DEF InColumn
<1>20. QED
  BY <1>16, <1>17, <1>18, <1>19 DEF SetsInv

\* The instances of a set that is destroyed are kept for others, each for its back buffer.
LEMMA DestroyKeepsSets ==
  ASSUME DeviceAssumption, TurnsInv, SetsInv, NEW d \in Sets, DestroySet(d)
  PROVE  SetsInv'
<1>1. /\ Alive(d) /\ UNCHANGED <<written, phase, cur, gpu, obj>>
      /\ markets' = [i \in Index |-> Append(markets[i], Instance(d, i))]
      /\ toUpdate' = [i \in Index |-> toUpdate[i] \ {d}]
      /\ instances' = [instances EXCEPT ![d] = << >>]
      /\ bound' = [bound EXCEPT ![d] = None] /\ infos' = [infos EXCEPT ![d] = 0]
  BY DEF DestroySet, frameVars, resourceVars
<1>2. SetTypes /\ OneHolder /\ Updated /\ ReadsKept
  BY DEF SetsInv
<1>3. /\ \A e \in Sets, i \in Index : Alive(e) => Instance(e, i) \in Numbers
      /\ \A i \in Index : DOMAIN markets[i] = 1..Len(markets[i]) /\ Len(markets[i]) \in Nat
  BY <1>2, Places
<1>4. ASSUME NEW i \in Index
      PROVE  /\ markets'[i] \in Seq(Numbers) /\ Len(markets[i]) + 1 \in DOMAIN markets'[i]
             /\ markets'[i][Len(markets[i]) + 1] = Instance(d, i)
             /\ \A k \in DOMAIN markets[i] : k \in DOMAIN markets'[i] /\ markets'[i][k] = markets[i][k]
             /\ \A k \in DOMAIN markets'[i] : k \in DOMAIN markets[i] \/ k = Len(markets[i]) + 1
  <2>1. /\ markets[i] \in Seq(Numbers) /\ markets'[i] = Append(markets[i], Instance(d, i))
        /\ Instance(d, i) \in Numbers /\ DOMAIN markets[i] = 1..Len(markets[i]) /\ Len(markets[i]) \in Nat
    BY <1>1, <1>2, <1>3 DEF SetTypes
  <2> HIDE DEF Numbers
  <2>2. /\ markets'[i] \in Seq(Numbers) /\ Len(markets'[i]) = Len(markets[i]) + 1
        /\ \A k \in 1..Len(markets[i]) : markets'[i][k] = markets[i][k]
        /\ markets'[i][Len(markets[i]) + 1] = Instance(d, i)
    BY <2>1, AppendProperties
  <2>3. DOMAIN markets'[i] = 1..(Len(markets[i]) + 1)
    BY <2>2
  <2>4. QED
    BY <2>1, <2>2, <2>3
<1>5. /\ instances'[d] = << >> /\ \A e \in Sets \ {d} : instances'[e] = instances[e]
      /\ \A e \in Sets : Alive(e)' <=> Alive(e) /\ e # d
      /\ \A e \in Sets \ {d} : \A i : Instance(e, i)' = Instance(e, i)
  BY <1>1, <1>2 DEF SetTypes, Alive, Instance
<1>6. Numbers' = Numbers
  BY <1>1 DEF Numbers
<1>7. SetTypes'
  <2>1. instances' \in [Sets -> {<< >>} \cup [1..BackBuffers -> Numbers]]
    BY <1>1, <1>2 DEF SetTypes
  <2>2. markets' \in [Index -> Seq(Numbers)]
    BY <1>1, <1>4
  <2>3. toUpdate' \in [Index -> SUBSET Sets]
    BY <1>1, <1>2 DEF SetTypes
  <2>4. bound' \in [Sets -> Buffers \cup {None}] /\ infos' \in [Sets -> Objects \cup {0}]
    BY <1>1, <1>2 DEF SetTypes
  <2>5. QED
    BY <1>1, <1>2, <1>6, <2>1, <2>2, <2>3, <2>4 DEF SetTypes
<1>8. OneHolder'
  <2>1. ASSUME NEW i \in Index, NEW k \in DOMAIN markets'[i]
        PROVE  \/ k \in DOMAIN markets[i] /\ markets'[i][k] = markets[i][k]
               \/ k = Len(markets[i]) + 1 /\ markets'[i][k] = Instance(d, i)
    BY <1>4
  <2>2. \A e, f \in Sets, i, j \in Index :
          Alive(e)' /\ Alive(f)' /\ Instance(e, i)' = Instance(f, j)' => e = f /\ i = j
    BY <1>2, <1>5 DEF OneHolder
  <2>3. ASSUME NEW e \in Sets, NEW i \in Index, NEW j \in Index, NEW k \in DOMAIN markets'[j], Alive(e)'
        PROVE  Instance(e, i)' # markets'[j][k]
    <3>1. Alive(e) /\ e # d /\ Instance(e, i)' = Instance(e, i)
      BY <1>5, <2>3
    <3>2. QED
      BY <1>1, <1>2, <2>1, <3>1 DEF OneHolder
  <2>4. ASSUME NEW i \in Index, NEW j \in Index, NEW k \in DOMAIN markets'[i], NEW l \in DOMAIN markets'[j],
               markets'[i][k] = markets'[j][l]
        PROVE  i = j /\ k = l
    BY <1>1, <1>2, <2>1, <2>4 DEF OneHolder
  <2>5. QED
    BY <2>2, <2>3, <2>4 DEF OneHolder
<1>9. Updated'
  <2>1. \A e \in Sets : IsBound(e)' <=> IsBound(e) /\ e # d
    BY <1>1, <1>2 DEF SetTypes, IsBound
  <2>2. \A e \in Sets \ {d} : infos'[e] = infos[e] /\ bound'[e] = bound[e]
    BY <1>1, <1>2 DEF SetTypes
  <2>3. \A e \in Sets \ {d}, i \in Index : IsCurrent(e, i) => IsCurrent(e, i)'
    BY <1>1, <1>5, <2>2 DEF IsCurrent
  <2>4. \A i \in Index : toUpdate'[i] = toUpdate[i] \ {d} /\ toUpdate[i] \subseteq Sets
    BY <1>1, <1>2 DEF SetTypes
  <2>5. \A e \in Sets : IsBound(e)' => Alive(e)' /\ obj'[bound'[e]] # 0 /\ infos'[e] = obj'[bound'[e]]
    BY <1>1, <1>2, <1>5, <2>1, <2>2 DEF Updated
  <2>6. \A e \in Sets, i \in Index : IsBound(e)' => e \in toUpdate'[i] \/ IsCurrent(e, i)'
    BY <1>2, <2>1, <2>3, <2>4 DEF Updated
  <2>7. phase' = "acquired" => toUpdate'[cur'] = {}
    BY <1>1, <1>2, <2>4 DEF Updated, TurnsInv
  <2>8. \A i \in Index : \A e \in toUpdate'[i] : IsBound(e)'
    BY <1>2, <2>1, <2>4 DEF Updated
  <2>9. QED
    BY <2>5, <2>6, <2>7, <2>8 DEF Updated
<1>10. ReadsKept'
  <2>1. Pending' = Pending
    BY <1>1 DEF Pending
  <2>2. SUFFICES ASSUME NEW s \in Pending, NEW r \in s.reads
                 PROVE  InColumn(r[1], s.index)' /\ written'[r[1]] = r[2]
    BY <2>1 DEF ReadsKept
  <2>3. InColumn(r[1], s.index) /\ written[r[1]] = r[2] /\ s.index \in Index
    BY <1>2 DEF ReadsKept, TurnsInv
  <2>4. InColumn(r[1], s.index)'
    <3>1. CASE \E e \in Sets : Alive(e) /\ Instance(e, s.index) = r[1]
      <4>1. PICK e \in Sets : Alive(e) /\ Instance(e, s.index) = r[1]
        BY <3>1
      <4>2. CASE e = d
        BY <1>4, <2>3, <4>1, <4>2 DEF InColumn
      <4>3. CASE e # d
        BY <1>5, <4>1, <4>3 DEF InColumn
      <4>4. QED
        BY <4>2, <4>3
    <3>2. CASE \E k \in DOMAIN markets[s.index] : markets[s.index][k] = r[1]
      BY <1>4, <2>3, <3>2 DEF InColumn
    <3>3. QED
      BY <2>3, <3>1, <3>2 DEF InColumn
  <2>5. QED
    BY <1>1, <2>3, <2>4
<1>11. QED
  BY <1>7, <1>8, <1>9, <1>10 DEF SetsInv

\* What a frame is drawn with is the current buffers' VkBuffers.
LEMMA AcquiredIsCurrent ==
  ASSUME SetsInv, TurnsInv, phase = "acquired", NEW d \in Sets, bound[d] # None
  PROVE  Alive(d) /\ written[Instance(d, cur)] = obj[bound[d]] /\ obj[bound[d]] # 0 /\ bound[d] \in Buffers
BY DEF SetsInv, SetTypes, Updated, TurnsInv, IsBound, IsCurrent

LEMMA RenderKeepsSets ==
  ASSUME DeviceAssumption, TurnsInv, SetsInv, NEW bs \in SUBSET Buffers, NEW ds \in SUBSET Sets, Render(bs, ds)
  PROVE  SetsInv'
<1>1. PICK s : /\ gpu' = Append(gpu, s) /\ s.index = cur
               /\ s.reads = {<<Instance(d, cur), written[Instance(d, cur)]>> : d \in ds}
  BY DEF Render
<1>2. /\ phase = "acquired" /\ phase' = "submitted" /\ UNCHANGED <<setVars, obj>>
      /\ \A d \in ds : bound[d] # None
  BY DEF Render
<1>3. Pending' = Pending \cup {s}
  BY <1>1, PendingGrown DEF Pending, TurnsInv
<1>4. UNCHANGED <<bound, infos, instances, written, toUpdate, markets, obj>>
  BY <1>2 DEF setVars
<1>5. SetTypes' /\ OneHolder'
  BY <1>4 DEF SetsInv, SetTypes, OneHolder, Numbers, Alive, Instance
<1>6. Updated'
  BY <1>2, <1>4 DEF SetsInv, Updated, IsBound, IsCurrent, Alive, Instance
<1>7. \A v, i : InColumn(v, i) => InColumn(v, i)'
  BY <1>4 DEF InColumn, Alive, Instance
<1>8. ASSUME NEW p \in Pending', NEW r \in p.reads
      PROVE  InColumn(r[1], p.index)' /\ written'[r[1]] = r[2]
  <2>1. CASE p \in Pending
    BY <1>4, <1>7, <1>8, <2>1 DEF SetsInv, ReadsKept
  <2>2. CASE p = s
    <3>1. PICK d \in ds : r = <<Instance(d, cur), written[Instance(d, cur)]>>
      BY <1>1, <1>8, <2>2
    <3>2. Alive(d)
      BY <1>2, AcquiredIsCurrent
    <3>3. InColumn(Instance(d, cur), cur)
      BY <3>2 DEF InColumn
    <3>4. QED
      BY <1>1, <1>4, <1>7, <2>2, <3>1, <3>3
  <2>3. QED
    BY <1>3, <1>8, <2>1, <2>2
<1>9. QED
  BY <1>5, <1>6, <1>8 DEF SetsInv, ReadsKept

LEMMA BuffersKeepSets ==
  ASSUME DeviceAssumption, TurnsInv, SetsInv, NEW b \in Buffers, CreateBuffer(b) \/ DestroyBuffer(b)
  PROVE  SetsInv'
<1>1. UNCHANGED <<bound, infos, instances, written, toUpdate, markets, phase, cur, gpu>>
  BY DEF CreateBuffer, DestroyBuffer, frameVars, setVars
<1>2. Updated /\ \A d \in Sets : IsBound(d) => obj'[bound[d]] = obj[bound[d]]
  <2>1. /\ SetTypes /\ Updated /\ obj \in [Buffers -> Objects \cup {0}]
    BY DEF SetsInv, TurnsInv
  <2>2. \A d \in Sets : IsBound(d) => bound[d] \in Buffers \ {b}
    BY <2>1 DEF CreateBuffer, DestroyBuffer, Updated, SetTypes, IsBound
  <2>3. \A c \in Buffers \ {b} : obj'[c] = obj[c]
    BY <2>1 DEF CreateBuffer, DestroyBuffer
  <2>4. QED
    BY <2>1, <2>2, <2>3
<1>3. Pending' = Pending
  BY <1>1 DEF Pending
<1>4. SetTypes' /\ OneHolder' /\ ReadsKept'
  BY <1>1, <1>3 DEF SetsInv, SetTypes, OneHolder, ReadsKept, Numbers, InColumn, Alive, Instance
<1>5. Updated'
  BY <1>1, <1>2 DEF Updated, IsBound, IsCurrent, Alive, Instance
<1>6. QED
  BY <1>4, <1>5 DEF SetsInv

LEMMA OthersKeepSets ==
  ASSUME DeviceAssumption, TurnsInv, SetsInv,
         \/ \E b \in Buffers : Upload(b)
         \/ Begin \/ Recreate \/ Present \/ Waited \/ Complete \/ UNCHANGED vars
  PROVE  SetsInv'
<1>1. /\ UNCHANGED <<bound, infos, instances, written, toUpdate, markets, obj>>
      /\ (phase' = "acquired" => phase = "acquired" /\ cur' = cur)
  BY DEF Upload, Begin, Recreate, Present, Waited, Complete, frameVars, resourceVars, setVars, vars
<1>2. Pending' \subseteq Pending
  <2>1. CASE Complete
    BY <2>1, PendingShrunk DEF Complete, Pending, TurnsInv
  <2>2. CASE ~Complete
    BY <2>2 DEF Upload, Begin, Recreate, Present, Waited, frameVars, vars, Pending
  <2>3. QED
    BY <2>1, <2>2
<1>3. SetTypes' /\ OneHolder' /\ ReadsKept'
  BY <1>1, <1>2 DEF SetsInv, SetTypes, OneHolder, ReadsKept, Numbers, InColumn, Alive, Instance
<1>4. Updated'
  BY <1>1 DEF SetsInv, Updated, IsBound, IsCurrent, Alive, Instance
<1>5. QED
  BY <1>3, <1>4 DEF SetsInv

LEMMA AcquireKeepsSets ==
  ASSUME DeviceAssumption, TurnsInv, SetsInv, Acquire \/ Recreated PROVE SetsInv'
<1>1. CASE Acquire
  <2>1. /\ Flush(cur) /\ UNCHANGED <<cur, bound, instances, markets, obj, gpu>> /\ phase = "script"
    BY <1>1 DEF Acquire, resourceVars
  <2>2. QED
    BY <2>1, FlushKeeps DEF TurnsInv, ScriptRuns
<1>2. CASE Recreated
  <2>1. /\ Flush(0) /\ gpu = << >> /\ UNCHANGED <<cur, bound, instances, markets, obj, gpu>>
        /\ phase = "recreate"
    BY <1>2 DEF Recreated, resourceVars
  <2>2. Pending = {} /\ cur = 0
    BY <2>1 DEF Pending, ToSet, TurnsInv
  <2>3. QED
    BY <2>1, <2>2, FlushKeeps DEF TurnsInv
<1>3. QED
  BY <1>1, <1>2

LEMMA InitSets == ASSUME DeviceAssumption, Init PROVE SetsInv
<1>1. /\ phase = "script" /\ gpu = << >> /\ bound = [d \in Sets |-> None]
      /\ infos = [d \in Sets |-> 0] /\ instances = [d \in Sets |-> << >>] /\ written = << >>
      /\ toUpdate = [i \in Index |-> {}] /\ markets = [i \in Index |-> << >>]
  BY DEF Init
<1>2. Pending = {}
  BY <1>1 DEF Pending, ToSet
<1>3. SetTypes
  <2>1. written \in Seq(Objects \cup {0}) /\ << >> \in Seq(Numbers)
    BY <1>1, EmptySeq
  <2>2. markets \in [Index -> Seq(Numbers)]
    BY <1>1, <2>1
  <2>3. QED
    BY <1>1, <2>1, <2>2 DEF SetTypes
<1>4. \A d \in Sets : ~Alive(d) /\ ~IsBound(d)
  BY <1>1 DEF Alive, IsBound
<1>5. \A i \in Index : DOMAIN markets[i] = {}
  BY <1>1
<1>6. OneHolder
  BY <1>4, <1>5 DEF OneHolder
<1>7. Updated
  BY <1>1, <1>4 DEF Updated
<1>8. QED
  BY <1>2, <1>3, <1>6, <1>7 DEF SetsInv, ReadsKept

LEMMA NextSets == ASSUME DeviceAssumption, TurnsInv, SetsInv, [Next]_vars PROVE SetsInv'
BY BindKeepsSets, ResizeKeepsSets, CreateKeepsSets, DestroyKeepsSets, RenderKeepsSets,
   BuffersKeepSets, OthersKeepSets, AcquireKeepsSets DEF Next, Script, Frame

-----------------------------------------------------------------------------
(***************************************************************************)
(* The memory.                                                             *)
(***************************************************************************)
LEMMA Turns ==
  ASSUME DeviceAssumption, TurnsInv
  PROVE  /\ \A i \in Index : TurnsTo(i) \in 0..(BackBuffers - 1)
         /\ phase # "wait" => TurnsTo(cur) = BackBuffers - 1
         /\ phase = "wait" => \A i \in Index : TurnsTo(i) = 0 => i = cur
<1> DEFINE n == BackBuffers
           t == NextTurn
<1>1. n \in Nat \ {0} /\ Index = 0..(n - 1) /\ cur \in 0..(n - 1)
  BY DEF DeviceAssumption, Index, TurnsInv
<1>2. t = IF phase = "wait" THEN cur ELSE IF cur = n - 1 THEN 0 ELSE cur + 1
  BY DEF NextTurn
<1>3. \A i : TurnsTo(i) = IF i >= t THEN i - t ELSE i - t + n
  BY DEF TurnsTo
<1> HIDE DEF n, t
<1>4. t \in 0..(n - 1)
  BY <1>1, <1>2
<1>5. \A i \in 0..(n - 1) : TurnsTo(i) \in 0..(n - 1) /\ (TurnsTo(i) = 0 => i = t)
  BY <1>1, <1>3, <1>4
<1>6. phase # "wait" => TurnsTo(cur) = n - 1
  BY <1>1, <1>2, <1>3
<1>7. QED
  BY <1>1, <1>2, <1>5, <1>6 DEF n

LEMMA SameTurns ==
  ASSUME UNCHANGED cur, phase # "wait", phase' # "wait"
  PROVE  \A i : TurnsTo(i)' = TurnsTo(i)
BY DEF TurnsTo, NextTurn

LEMMA PresentTurns ==
  ASSUME DeviceAssumption, TurnsInv, Present PROVE \A i : TurnsTo(i)' = TurnsTo(i)
<1>1. phase = "submitted" /\ phase' = "wait" /\ cur' = (cur + 1) % BackBuffers
  BY DEF Present
<1>2. cur' = IF cur = BackBuffers - 1 THEN 0 ELSE cur + 1
  BY <1>1, NextIndex DEF TurnsInv
<1>3. NextTurn' = NextTurn
  BY <1>1, <1>2 DEF NextTurn
<1>4. QED
  BY <1>3 DEF TurnsTo

LEMMA WaitedTurnsTo ==
  ASSUME DeviceAssumption, TurnsInv, Waited
  PROVE  \A i \in Index \ {cur} : TurnsTo(i)' = TurnsTo(i) - 1
<1> DEFINE n == BackBuffers
           t == NextTurn
<1>1. n \in Nat \ {0} /\ Index = 0..(n - 1) /\ cur \in 0..(n - 1)
  BY DEF DeviceAssumption, Index, TurnsInv
<1>2. phase = "wait" /\ phase' = "script" /\ cur' = cur
  BY DEF Waited
<1>3. t = cur /\ NextTurn' = IF cur = n - 1 THEN 0 ELSE cur + 1
  BY <1>2 DEF NextTurn
<1> DEFINE u == IF cur = n - 1 THEN 0 ELSE cur + 1
<1>4. \A i : /\ TurnsTo(i) = IF i >= cur THEN i - cur ELSE i - cur + n
             /\ TurnsTo(i)' = IF i >= u THEN i - u ELSE i - u + n
  BY <1>3 DEF TurnsTo
<1>5. ASSUME NEW i \in Index \ {cur} PROVE TurnsTo(i)' = TurnsTo(i) - 1
  <2>1. i \in 0..(n - 1) /\ i # cur
    BY <1>1
  <2> HIDE DEF n
  <2>2. CASE cur = n - 1
    <3>1. u = 0 /\ TurnsTo(i) = i - cur + n /\ TurnsTo(i)' = i - 0
      BY <1>1, <1>4, <2>1, <2>2
    <3>2. QED
      BY <1>1, <2>1, <2>2, <3>1
  <2>3. CASE cur # n - 1
    <3>1. u = cur + 1
      BY <2>3
    <3>2. QED
      BY <1>1, <1>4, <2>1, <3>1
  <2>4. QED
    BY <2>2, <2>3
<1>6. QED
  BY <1>5

\* While the script runs, VkBuffers go to the bin that is emptied last.
LEMMA ScriptKeepsMemory ==
  ASSUME DeviceAssumption, TurnsInv, MemoryInv, ScriptRuns, bin' \in [Index -> SUBSET Objects],
         UNCHANGED <<phase, cur, gpu, staged, recording>>,
         \A j \in Index : bin[j] \subseteq bin'[j],
         \A o : o # 0 /\ InUse(o) => InUse(o)' \/ o \in bin'[cur]
  PROVE  MemoryInv'
<1>1. Pending' = Pending
  BY DEF Pending
<1>2. phase \notin {"wait", "recreate"}
  BY DEF ScriptRuns
<1>3. \A i : TurnsTo(i)' = TurnsTo(i)
  BY <1>2, SameTurns
<1>4. cur \in Index /\ \A i \in Index : TurnsTo(cur) >= TurnsTo(i)
  BY <1>2, Turns DEF TurnsInv, DeviceAssumption
<1>5. ASSUME recording # None, recording.begun = cur
      PROVE  \A o \in recording.objects : InUse(o)' \/ o \in bin'[cur]
  <2>1. recording.objects \subseteq Objects
    BY <1>5 DEF TurnsInv, Recordings
  <2>2. \A o \in recording.objects : o # 0 /\ (InUse(o) \/ o \in bin[cur])
    BY <1>5, <2>1 DEF MemoryInv, Objects
  <2>3. QED
    BY <1>4, <2>2
<1>6. ASSUME NEW s \in Pending, s.begun = s.index, NEW o \in s.objects PROVE o # 0 /\ KeptFor(o, s.index)'
  <2>1. o # 0 /\ KeptFor(o, s.index) /\ s.index \in Index
    BY <1>2, <1>6 DEF MemoryInv, TurnsInv
  <2>2. CASE InUse(o)
    <3>1. InUse(o)' \/ (o \in bin'[cur] /\ TurnsTo(cur)' >= TurnsTo(s.index)')
      BY <1>3, <1>4, <2>1, <2>2
    <3>2. QED
      BY <1>4, <2>1, <3>1 DEF KeptFor
  <2>3. CASE \E j \in Index : o \in bin[j] /\ TurnsTo(j) >= TurnsTo(s.index)
    BY <1>3, <2>1, <2>3 DEF KeptFor
  <2>4. QED
    BY <2>1, <2>2, <2>3 DEF KeptFor
<1>7. QED
  BY <1>1, <1>2, <1>5, <1>6 DEF MemoryInv

LEMMA BuffersKeepMemory ==
  ASSUME DeviceAssumption, TurnsInv, MemoryInv, NEW b \in Buffers,
         CreateBuffer(b) \/ DestroyBuffer(b) \/ Resize(b)
  PROVE  MemoryInv'
<1>1. ScriptRuns /\ UNCHANGED <<phase, cur, gpu, staged, recording>>
  BY DEF CreateBuffer, DestroyBuffer, Resize, frameVars
<1>2. /\ bin \in [Index -> SUBSET Objects] /\ obj \in [Buffers -> Objects \cup {0}] /\ cur \in Index
  BY DEF MemoryInv, TurnsInv
<1>3. \A c \in Buffers \ {b} : obj'[c] = obj[c]
  BY <1>2 DEF CreateBuffer, DestroyBuffer, Resize
<1>4. CASE CreateBuffer(b)
  <2>1. bin' = bin /\ obj[b] = 0
    BY <1>4 DEF CreateBuffer
  <2>2. \A o : o # 0 /\ InUse(o) => InUse(o)'
    BY <1>3, <2>1 DEF InUse
  <2>3. QED
    BY <1>1, <1>2, <2>1, <2>2, ScriptKeepsMemory
<1>5. CASE DestroyBuffer(b) \/ Resize(b)
  <2>1. bin' = [bin EXCEPT ![cur] = @ \cup {obj[b]}] /\ obj[b] # 0
    BY <1>5 DEF DestroyBuffer, Resize, Collected, Bin
  <2>2. /\ bin' \in [Index -> SUBSET Objects] /\ obj[b] \in bin'[cur]
        /\ \A j \in Index : bin[j] \subseteq bin'[j]
    BY <1>2, <2>1
  <2>3. \A o : InUse(o) => InUse(o)' \/ o \in bin'[cur]
    BY <1>3, <2>2 DEF InUse
  <2>4. QED
    BY <1>1, <2>2, <2>3, ScriptKeepsMemory
<1>6. QED
  BY <1>4, <1>5

LEMMA UploadKeepsMemory ==
  ASSUME DeviceAssumption, TurnsInv, MemoryInv, NEW b \in Buffers, Upload(b)
  PROVE  MemoryInv'
<1>1. /\ ScriptRuns /\ recording # None /\ UNCHANGED <<phase, cur, gpu, bin, obj>>
      /\ recording' = [recording EXCEPT !.objects = @ \cup {obj[b]},
                                        !.copies = @ \cup {<<cur, staged[cur]>>}]
      /\ staged' = [staged EXCEPT ![cur] = @ + 1]
  BY DEF Upload, frameVars
<1>2. recording \in Recordings /\ cur \in Index /\ staged \in [Index -> 0..MaxUploads] /\ MaxUploads \in Nat
  BY <1>1 DEF TurnsInv, DeviceAssumption
<1>3. /\ recording'.objects = recording.objects \cup {obj[b]} /\ recording'.begun = recording.begun
      /\ recording'.copies = recording.copies \cup {<<cur, staged[cur]>>}
      /\ recording.copies \subseteq Copies
  BY <1>1, <1>2 DEF Recordings
<1>4. staged'[cur] = staged[cur] + 1 /\ \A i \in Index : staged[i] <= staged'[i] /\ staged[i] \in Nat /\ staged'[i] \in Nat
  BY <1>1, <1>2
<1>5. phase \notin {"wait", "recreate"} /\ Pending' = Pending
  BY <1>1 DEF ScriptRuns, Pending
<1>6. /\ \A i : TurnsTo(i)' = TurnsTo(i)
      /\ \A o : InUse(o)' <=> InUse(o)
  BY <1>1, <1>5, SameTurns DEF InUse
<1>7. ASSUME recording.begun = cur
      PROVE  /\ \A o \in recording'.objects : InUse(o)' \/ o \in bin'[cur]
             /\ \A c \in recording'.copies : c[1] = cur /\ c[2] < staged'[cur]
  <2>1. InUse(obj[b])
    BY DEF InUse
  <2>2. \A o \in recording'.objects : InUse(o) \/ o \in bin[cur]
    BY <1>1, <1>3, <1>7, <2>1 DEF MemoryInv
  <2>3. ASSUME NEW c \in recording'.copies PROVE c[1] = cur /\ c[2] < staged'[cur]
    <3>1. CASE c \in recording.copies
      <4>1. c[1] = cur /\ c[2] < staged[cur] /\ c[2] \in Nat
        BY <1>1, <1>3, <1>7, <3>1 DEF MemoryInv, Copies
      <4>2. QED
        BY <1>2, <1>4, <4>1
    <3>2. CASE c = <<cur, staged[cur]>>
      BY <1>2, <1>4, <3>2
    <3>3. QED
      BY <1>3, <2>3, <3>1, <3>2
  <2>4. QED
    BY <1>1, <1>6, <2>2, <2>3
<1>8. ASSUME NEW s \in Pending, s.begun = s.index
      PROVE  /\ \A o \in s.objects : o # 0 /\ KeptFor(o, s.index)'
             /\ \A c \in s.copies : c[1] = s.index /\ c[2] < staged'[s.index]
  <2>1. s.index \in Index /\ s.index # cur
    BY <1>1, <1>8 DEF TurnsInv
  <2>2. staged'[s.index] = staged[s.index]
    BY <1>1, <1>2, <2>1
  <2>3. QED
    BY <1>1, <1>5, <1>6, <1>8, <2>2 DEF MemoryInv, KeptFor
<1>9. QED
  BY <1>1, <1>3, <1>5, <1>7, <1>8 DEF MemoryInv

LEMMA RenderKeepsMemory ==
  ASSUME DeviceAssumption, TurnsInv, SetsInv, MemoryInv, NEW bs \in SUBSET Buffers,
         NEW ds \in SUBSET Sets, Render(bs, ds)
  PROVE  MemoryInv'
<1> DEFINE reads == {<<Instance(d, cur), written[Instance(d, cur)]>> : d \in ds}
           objects == recording.objects \cup {obj[b] : b \in bs} \cup {r[2] : r \in reads}
<1>1. PICK s : /\ gpu' = Append(gpu, s) /\ s.index = cur /\ s.begun = recording.begun
               /\ s.copies = recording.copies /\ s.objects = objects
  BY DEF Render
<1>2. /\ phase = "acquired" /\ phase' = "submitted" /\ recording # None /\ recording' = None
      /\ UNCHANGED <<cur, obj, bin, staged>>
      /\ \A b \in bs : obj[b] # 0
      /\ \A d \in ds : bound[d] # None
  BY DEF Render
<1>3. Pending' = Pending \cup {s}
  BY <1>1, PendingGrown DEF Pending, TurnsInv
<1>4. /\ \A i : TurnsTo(i)' = TurnsTo(i)
      /\ \A o : InUse(o)' <=> InUse(o)
  BY <1>2, SameTurns DEF InUse
<1>5. \A o, i : KeptFor(o, i)' <=> KeptFor(o, i)
  BY <1>2, <1>4 DEF KeptFor
<1>6. cur \in Index /\ TurnsTo(cur) >= TurnsTo(cur) /\ recording \in Recordings
  BY <1>2, Turns DEF TurnsInv, DeviceAssumption
<1>7. \A r \in reads : \E d \in ds : r[2] = written[Instance(d, cur)]
  OBVIOUS
<1> HIDE DEF reads
<1>8. ASSUME recording.begun = cur, NEW o \in objects PROVE o # 0 /\ KeptFor(o, cur)
  <2>1. CASE o \in recording.objects
    <3>1. o \in Objects /\ (InUse(o) \/ o \in bin[cur])
      BY <1>2, <1>6, <1>8, <2>1 DEF MemoryInv, Recordings
    <3>2. QED
      BY <1>6, <3>1 DEF KeptFor, Objects
  <2>2. CASE \E b \in bs : o = obj[b]
    BY <1>2, <2>2 DEF KeptFor, InUse
  <2>3. CASE \E r \in reads : o = r[2]
    <3>1. PICK d \in ds : o = written[Instance(d, cur)]
      BY <1>7, <2>3
    <3>2. o = obj[bound[d]] /\ o # 0 /\ bound[d] \in Buffers
      BY <1>2, <3>1, AcquiredIsCurrent
    <3>3. QED
      BY <3>2 DEF KeptFor, InUse
  <2>4. QED
    BY <1>8, <2>1, <2>2, <2>3
<1> HIDE DEF objects
<1>9. ASSUME NEW p \in Pending', p.begun = p.index
      PROVE  /\ \A o \in p.objects : o # 0 /\ KeptFor(o, p.index)'
             /\ \A c \in p.copies : c[1] = p.index /\ c[2] < staged'[p.index]
  <2>1. CASE p \in Pending
    BY <1>2, <1>5, <1>9, <2>1 DEF MemoryInv
  <2>2. CASE p = s
    BY <1>1, <1>2, <1>5, <1>8, <1>9, <2>2 DEF MemoryInv
  <2>3. QED
    BY <1>3, <1>9, <2>1, <2>2
<1>10. QED
  BY <1>2, <1>9 DEF MemoryInv

\* What is in the bin of the back buffer that is waited for is kept for no pending submission.
LEMMA WaitedKeepsMemory ==
  ASSUME DeviceAssumption, TurnsInv, MemoryInv, Waited PROVE MemoryInv'
<1>1. /\ phase = "wait" /\ phase' = "script" /\ bin' = [bin EXCEPT ![cur] = {}]
      /\ staged' = [staged EXCEPT ![cur] = 0]
      /\ UNCHANGED <<cur, gpu, obj, recording>>
      /\ \A k \in DOMAIN gpu : ~InPool(gpu[k], cur)
  BY DEF Waited
<1>2. Pending' = Pending /\ recording = None
  BY <1>1 DEF Pending, TurnsInv
<1>3. ASSUME NEW s \in Pending PROVE s.index \in Index \ {cur}
  <2>1. ~InPool(s, cur)
    BY <1>1 DEF Pending, ToSet
  <2>2. QED
    BY <2>1 DEF InPool, TurnsInv
<1>4. bin \in [Index -> SUBSET Objects] /\ staged \in [Index -> 0..MaxUploads] /\ cur \in Index
  BY DEF MemoryInv, TurnsInv
<1>5. bin' \in [Index -> SUBSET Objects] /\ \A j \in Index \ {cur} : bin'[j] = bin[j] /\ staged'[j] = staged[j]
  BY <1>1, <1>4
<1>6. /\ \A i \in Index : TurnsTo(i) \in Nat /\ (TurnsTo(i) = 0 => i = cur)
      /\ \A i \in Index \ {cur} : TurnsTo(i)' = TurnsTo(i) - 1
      /\ TurnsTo(cur) = 0
  <2>1. NextTurn = cur /\ cur \in Nat
    BY <1>1, <1>4 DEF NextTurn, Index, DeviceAssumption
  <2>2. TurnsTo(cur) = 0
    BY <2>1 DEF TurnsTo
  <2>3. \A i \in Index : TurnsTo(i) \in Nat
    BY Turns DEF DeviceAssumption
  <2>4. QED
    BY <1>1, <2>2, <2>3, Turns, WaitedTurnsTo
<1>7. ASSUME NEW s \in Pending, s.begun = s.index, NEW o \in s.objects
      PROVE  o # 0 /\ KeptFor(o, s.index)'
  <2>1. o # 0 /\ KeptFor(o, s.index) /\ s.index \in Index \ {cur}
    BY <1>1, <1>3, <1>7 DEF MemoryInv
  <2>2. CASE InUse(o)
    BY <1>1, <2>1, <2>2 DEF KeptFor, InUse
  <2>3. CASE \E j \in Index : o \in bin[j] /\ TurnsTo(j) >= TurnsTo(s.index)
    <3>1. PICK j \in Index : o \in bin[j] /\ TurnsTo(j) >= TurnsTo(s.index)
      BY <2>3
    <3>2. TurnsTo(s.index) # 0 /\ TurnsTo(s.index) \in Nat /\ TurnsTo(j) \in Nat
      BY <1>6, <2>1
    <3>3. j # cur
      BY <1>6, <3>1, <3>2
    <3>4. TurnsTo(j)' >= TurnsTo(s.index)' /\ o \in bin'[j]
      BY <1>5, <1>6, <2>1, <3>1, <3>2, <3>3
    <3>5. QED
      BY <2>1, <3>4 DEF KeptFor
  <2>4. QED
    BY <2>1, <2>2, <2>3 DEF KeptFor
<1>8. ASSUME NEW s \in Pending, s.begun = s.index
      PROVE  \A c \in s.copies : c[1] = s.index /\ c[2] < staged'[s.index]
  BY <1>3, <1>5, <1>8 DEF MemoryInv
<1>9. QED
  BY <1>1, <1>2, <1>5, <1>7, <1>8 DEF MemoryInv

\* The other steps, by which nothing is emptied.
LEMMA OthersKeepMemory ==
  ASSUME DeviceAssumption, TurnsInv, MemoryInv,
         \/ \E d \in Sets : CreateSet(d) \/ DestroySet(d) \/ \E b \in Buffers : Bind(d, b)
         \/ Acquire \/ Recreate \/ Recreated \/ Begin \/ Present \/ Complete \/ UNCHANGED vars
  PROVE  MemoryInv'
<1>1. UNCHANGED <<obj, bin, staged>>
  BY DEF CreateSet, DestroySet, Bind, Acquire, Recreate, Recreated, Begin, Present, Complete,
         resourceVars, vars
<1>2. \A o : (InUse(o)' <=> InUse(o)) /\ (Exists(o)' <=> Exists(o))
  BY <1>1 DEF InUse, Exists
<1>3. \A o, i : KeptFor(o, i) => Exists(o)
  BY DEF KeptFor, InUse, Exists
<1>4. CASE Recreate
  <2>1. /\ phase = "script" /\ phase' = "recreate" /\ cur' = 0 /\ UNCHANGED <<gpu, recording>>
    BY <1>4 DEF Recreate, resourceVars
  <2>2. recording # None => recording.begun = cur
    BY <2>1 DEF TurnsInv
  <2>3. Pending' = Pending
    BY <2>1 DEF Pending
  <2>4. \A s \in Pending : s.begun = s.index =>
          /\ \A o \in s.objects : o # 0 /\ Exists(o)'
          /\ \A c \in s.copies : c[1] = s.index /\ c[2] < staged'[s.index]
    BY <1>1, <1>2, <1>3, <2>1 DEF MemoryInv
  <2>5. recording' # None /\ recording'.begun = cur' =>
          /\ \A o \in recording'.objects : InUse(o)' \/ o \in bin'[cur']
          /\ \A c \in recording'.copies : c[1] = cur' /\ c[2] < staged'[cur']
    BY <1>1, <1>2, <2>1, <2>2 DEF MemoryInv
  <2>6. QED
    BY <1>1, <2>1, <2>3, <2>4, <2>5 DEF MemoryInv
<1>5. CASE Recreated
  <2>1. gpu = << >> /\ UNCHANGED <<cur, gpu, recording>>
    BY <1>5 DEF Recreated, resourceVars
  <2>2. Pending' = {}
    BY <2>1 DEF Pending, ToSet
  <2>3. QED
    BY <1>1, <1>2, <2>1, <2>2 DEF MemoryInv
<1>6. CASE Present
  <2>1. /\ phase = "submitted" /\ phase' = "wait" /\ UNCHANGED <<gpu, recording>>
    BY <1>6 DEF Present, resourceVars
  <2>2. recording' = None /\ Pending' = Pending
    BY <2>1 DEF TurnsInv, Pending
  <2>3. \A o, i : KeptFor(o, i)' <=> KeptFor(o, i)
    BY <1>1, <1>2, <1>6, PresentTurns DEF KeptFor
  <2>4. QED
    BY <1>1, <2>1, <2>2, <2>3 DEF MemoryInv
<1>7. CASE Complete
  <2>1. UNCHANGED <<cur, phase, recording>> /\ Pending' \subseteq Pending
    BY <1>7, PendingShrunk DEF Complete, Pending, TurnsInv, resourceVars
  <2>2. \A i : TurnsTo(i)' = TurnsTo(i)
    BY <2>1 DEF TurnsTo, NextTurn
  <2>3. \A o, i : KeptFor(o, i)' <=> KeptFor(o, i)
    BY <1>1, <1>2, <2>2 DEF KeptFor
  <2>4. QED
    BY <1>1, <1>2, <2>1, <2>3 DEF MemoryInv
<1>8. CASE \/ \E d \in Sets : CreateSet(d) \/ DestroySet(d) \/ \E b \in Buffers : Bind(d, b)
           \/ Acquire \/ Begin
  <2>1. /\ UNCHANGED <<cur, gpu>> /\ phase \notin {"wait", "recreate"} /\ phase' \notin {"wait", "recreate"}
        /\ recording' = recording \/ (recording'.objects = {} /\ recording'.copies = {})
    <3>1. CASE Begin
      <4>1. PICK cb : recording' = [begun |-> cur, buffer |-> cb, objects |-> {}, copies |-> {}]
        BY <3>1 DEF Begin
      <4>2. QED
        BY <3>1, <4>1 DEF Begin, ScriptRuns, frameVars
    <3>2. CASE ~Begin
      BY <1>8, <3>2 DEF CreateSet, DestroySet, Bind, Acquire, ScriptRuns, frameVars, resourceVars
    <3>3. QED
      BY <3>1, <3>2
  <2>2. Pending' = Pending /\ \A i : TurnsTo(i)' = TurnsTo(i)
    BY <2>1, SameTurns DEF Pending
  <2>3. \A o, i : KeptFor(o, i)' <=> KeptFor(o, i)
    BY <1>1, <1>2, <2>2 DEF KeptFor
  <2>4. QED
    BY <1>1, <1>2, <2>1, <2>2, <2>3 DEF MemoryInv
<1>9. CASE UNCHANGED vars
  <2>1. UNCHANGED <<cur, phase, gpu, recording>> /\ Pending' = Pending
    BY <1>9 DEF vars, frameVars, resourceVars, Pending
  <2>2. \A i : TurnsTo(i)' = TurnsTo(i)
    BY <2>1 DEF TurnsTo, NextTurn
  <2>3. \A o, i : KeptFor(o, i)' <=> KeptFor(o, i)
    BY <1>1, <1>2, <2>2 DEF KeptFor
  <2>4. QED
    BY <1>1, <1>2, <2>1, <2>3 DEF MemoryInv
<1>10. QED
  BY <1>4, <1>5, <1>6, <1>7, <1>8, <1>9

LEMMA InitMemory == ASSUME DeviceAssumption, Init PROVE MemoryInv
<1>1. gpu = << >> /\ bin = [i \in Index |-> {}] /\ recording = None
  BY DEF Init
<1>2. Pending = {}
  BY <1>1 DEF Pending, ToSet
<1>3. QED
  BY <1>1, <1>2 DEF MemoryInv

LEMMA NextMemory ==
  ASSUME DeviceAssumption, TurnsInv, SetsInv, MemoryInv, [Next]_vars PROVE MemoryInv'
BY BuffersKeepMemory, UploadKeepsMemory, RenderKeepsMemory, WaitedKeepsMemory, OthersKeepMemory
   DEF Next, Script, Frame

-----------------------------------------------------------------------------
(***************************************************************************)
(* The theorems.                                                           *)
(***************************************************************************)
\* The invariant holds always, for any number of back buffers, of buffers and of sets.
THEOREM DeviceInvariant == ASSUME DeviceAssumption PROVE Spec => []DeviceInv
<1>1. Init => DeviceInv
  BY InitTurns, InitCommands, InitSets, InitMemory DEF DeviceInv
<1>2. DeviceInv /\ [Next]_vars => DeviceInv'
  BY NextTurns, NextCommands, NextSets, NextMemory DEF DeviceInv
<1>3. QED
  BY <1>1, <1>2, PTL DEF Spec

\* Every variable has its type.
THEOREM DeviceTypesHold == ASSUME DeviceAssumption PROVE Spec => []TypeOK
<1>1. DeviceInv => TypeOK
  <2>1. SUFFICES ASSUME DeviceInv PROVE TypeOK
    OBVIOUS
  <2>2. Numbers = DOMAIN written
    BY <2>1, Places DEF DeviceInv, SetsInv
  <2>3. QED
    BY <2>1, <2>2 DEF DeviceInv, TurnsInv, CommandsInv, PoolInv, SetsInv, SetTypes, MemoryInv, TypeOK
<1>2. QED
  BY <1>1, DeviceInvariant, PTL

\* What is submitted can be used until the GPU has completed it: no fence is reset, no
\* memory is freed, no staging memory, command buffer or descriptor set is given to something
\* else or changed, however far the GPU is behind.  Exempt, as in the property, are a command
\* buffer requested while the swapchain is recreated, and what was recorded for one back
\* buffer and submitted, after a recreation, with another: the code does reuse those.
THEOREM NothingIsReusedEarly == ASSUME DeviceAssumption PROVE Spec => []NothingPendingIsReused
<1>1. DeviceInv => NothingPendingIsReused
  <2>1. SUFFICES ASSUME DeviceInv, NEW s \in Pending
                 PROVE  /\ s.fence < fences[s.index]
                        /\ s.begun = s.index =>
                             /\ \A o \in s.objects : Exists(o)
                             /\ \A c \in s.copies : c[2] < staged[c[1]]
                             /\ \A r \in s.reads : written[r[1]] = r[2]
                             /\ phase = "recreate" \/ ~IsRequested(s.buffer)
    BY DEF NothingPendingIsReused
  <2>2. TurnsInv /\ CommandsInv /\ SetsInv /\ MemoryInv
    BY <2>1 DEF DeviceInv
  <2>3. s.fence < fences[s.index] /\ s.index \in Index
    BY <2>2 DEF TurnsInv
  <2>4. \A r \in s.reads : written[r[1]] = r[2]
    BY <2>2 DEF SetsInv, ReadsKept
  <2>5. ASSUME s.begun = s.index PROVE \A o \in s.objects : Exists(o)
    BY <2>2, <2>5 DEF MemoryInv, KeptFor, InUse, Exists
  <2>6. ASSUME s.begun = s.index PROVE \A c \in s.copies : c[2] < staged[c[1]]
    BY <2>2, <2>6 DEF MemoryInv
  <2>7. ASSUME s.begun = s.index, phase # "recreate" PROVE ~IsRequested(s.buffer)
    <3>1. InPools(s.buffer)
      BY <2>2, <2>3, <2>7 DEF CommandsInv, InPools
    <3>2. QED
      BY <2>2, <3>1 DEF CommandsInv, IsRequested
  <2>8. QED
    BY <2>3, <2>4, <2>5, <2>6, <2>7
<1>2. QED
  BY <1>1, DeviceInvariant, PTL

\* What a frame draws with has all the updates of its sets, whichever back buffer was
\* current when they were made.
THEOREM FramesAreCurrent == ASSUME DeviceAssumption PROVE Spec => []DescriptorsAreCurrent
<1>1. DeviceInv => DescriptorsAreCurrent
  BY AcquiredIsCurrent DEF DeviceInv, DescriptorsAreCurrent
<1>2. QED
  BY <1>1, DeviceInvariant, PTL
=============================================================================
