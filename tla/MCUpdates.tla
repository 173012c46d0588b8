------------------------------ MODULE MCUpdates ------------------------------
(***************************************************************************)
(* What a frame may meet in its callbacks and on the device, for TLC: the  *)
(* update() of the scheduler with repeating timers, and the frames of the  *)
(* Vulkan device.  They share no state, so that a behaviour is about one   *)
(* of them, `part`.  Only safety is checked.                               *)
(***************************************************************************)
EXTENDS MCScheduler

CONSTANTS BackBuffers, Buffers, Sets, None, MaxObjects, MaxCommands, MaxUploads, MaxRecreates

VARIABLES
  part,
  cur, phase, gpu, fences, obj, bin, staged, available, used, lastIndex, commands, recording,
  transfer, bound, infos, instances, written, toUpdate, markets, recreated

Device == INSTANCE FramesInFlight

deviceVars ==
  <<cur, phase, gpu, fences, obj, bin, staged, available, used, lastIndex, commands, recording,
    transfer, bound, infos, instances, written, toUpdate, markets, recreated>>

allVars == <<part, vars, deviceVars>>

TimersStep(A) == part = "timers" /\ A /\ UNCHANGED <<part, deviceVars>>
DeviceStep(A) == part = "device" /\ A /\ UNCHANGED <<part, vars>>

UpdatesInit == part \in {"timers", "device"} /\ Init /\ Device!Init

UpdatesNext == TimersStep(Next) \/ DeviceStep(Device!Next)

UpdatesSpec == UpdatesInit /\ [][UpdatesNext]_allVars

-----------------------------------------------------------------------------
(***************************************************************************)
(* The properties of the device, under their names; those of Scheduler are *)
(* there by EXTENDS.                                                       *)
(***************************************************************************)
\* The GPU finds everything a frame was submitted with, in variables of their types.
NothingPendingIsReused == Device!TypeOK /\ Device!NothingPendingIsReused

\* A frame draws with what its descriptor sets were last given.
DescriptorsAreCurrent == Device!DescriptorsAreCurrent
=============================================================================
