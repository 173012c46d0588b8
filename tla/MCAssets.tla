------------------------------- MODULE MCAssets -------------------------------
(***************************************************************************)
(* AssetsManager for TLC.  A behaviour is of one of two parts, `part`: in  *)
(* "recheck" the application also calls checkUpdate() after an update has  *)
(* failed; in "update" it does not, and there may be more than one crash.  *)
(***************************************************************************)
EXTENDS MCAssetsManager

VARIABLE part

allVars == <<part, vars>>

\* The step is checkUpdate() after an update has failed.
Rechecks == updateState = "FAIL_TO_UPDATE" /\ updateState' = "DOWNLOADING_VERSION"

PartStep(A) ==
  /\ A
  /\ IF part = "update" THEN ~Rechecks ELSE crashes' <= 1
  /\ UNCHANGED part

PartsInit == part \in {"recheck", "update"} /\ Init

\* The fairness of FairSpec, for each part.
PartsSpec ==
  /\ PartsInit /\ [][PartStep(Next)]_allVars
  /\ WF_allVars(PartStep(Continue)) /\ WF_allVars(PartStep(Finish))

\* Unless checkUpdate() is called after a failed update, the cached manifest describes
\* the files that the program finds, in the version that it says.
UpdatesAreComplete == part = "update" => CachedVersionIsComplete
=============================================================================
