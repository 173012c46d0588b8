--------------------------- MODULE AssetsManager ---------------------------
(***************************************************************************)
(* AssetsManagerEx (extensions/assets-manager/AssetsManagerEx.cpp): finds  *)
(* out whether the server has a newer version of the assets, downloads the *)
(* files that differ to a temporary directory and merges it into the       *)
(* storage directory.  Progress is saved in a temporary manifest, from     *)
(* which an update goes on after a crash.                                  *)
(*                                                                         *)
(* All of it runs on the main thread, as calls of the application and      *)
(* callbacks of the Downloader; pc is the function that runs next of those *)
(* that call each other, so a crash can come between any two.  A version   *)
(* is a number, the contents of an asset in it are Md5[version][asset].    *)
(* The application calls nothing from inside an event callback.            *)
(***************************************************************************)
EXTENDS Integers, FiniteSets, FiniteSetsExt

CONSTANTS
  Assets,        (* the keys of assets                                           *)
  MaxVersion,    (* bound: the latest version the server publishes               *)
  Md5,           (* the contents of each asset in each version                   *)
  NoFile,        (* the contents of a file that is not there                     *)
  Broken,        (* the contents of a file that was written in part              *)
  NoManifest,    (* a manifest file that is not there                            *)
  Compressed,    (* the assets that are downloaded as a zip                      *)
  MaxConcurrent, (* _maxConcurrentTask                                           *)
  Calls,         (* what the application calls: "checkUpdate", "recheck" (the    *)
                 (* same when an update has failed), "update", "retry"           *)
  AssetFailures, (* whether the download of an asset may fail                    *)
  CrashPoints,   (* when a crash may come: "running", "merging"                  *)
  MaxCrashes     (* bound: crashes of the program                                *)

Versions == 0..MaxVersion

ASSUME VersionAssumption == MaxVersion \in Nat /\ DOMAIN Md5 = Versions
ASSUME AssetsAssumption  == IsFiniteSet(Assets) /\ Compressed \subseteq Assets
ASSUME BoundAssumption   == MaxConcurrent \in Nat \ {0} /\ MaxCrashes \in Nat
ASSUME EnvAssumption     == AssetFailures \in BOOLEAN

VARIABLES
  (* the manager *)
  updateState,        (* _updateState                                            *)
  updateEntry,        (* _updateEntry                                            *)
  local,              (* the version of _localManifest                           *)
  remote,             (* _remoteManifest                                         *)
  own,                (* the manifest _tempManifest was created with             *)
  temp,               (* what _tempManifest points to                            *)
  downloadUnits,      (* _downloadUnits                                          *)
  failedUnits,        (* _failedUnits                                            *)
  queue,              (* _queue                                                  *)
  totalWaitToDownload, totalToDownload, currConcurrentTask,
  percentByFile,      (* _percentByFile, as a number of files                    *)
  nextSavePoint,      (* _nextSavePoint, in tenths                               *)
  pc,                 (* the function the main thread is in                      *)
  doubleRelease,      (* history: prepareUpdate released _remoteManifest         *)
  (* the downloads and the threads that decompress *)
  downloads, arrived, (* tasks under way, and finished but not reported          *)
  unzipping,
  (* the disk *)
  package,            (* the version in the application package                  *)
  storageManifest,    (* the version of project.manifest in the storage          *)
  storageFiles,
  tempManifest,       (* project.manifest.temp in the temporary directory        *)
  renamedManifest,    (* the version of project.manifest there                   *)
  tempFiles,
  (* the environment *)
  published,          (* the version the server has                              *)
  crashes

stateVars    == <<updateState, updateEntry, local, remote, own, temp>>
countVars    == <<totalWaitToDownload, totalToDownload, currConcurrentTask, percentByFile,
                  nextSavePoint>>
unitVars     == <<downloadUnits, failedUnits, queue, countVars>>
downloadVars == <<downloads, arrived, unzipping>>
storageVars  == <<storageManifest, storageFiles>>
tempDirVars  == <<tempManifest, renamedManifest, tempFiles>>
worldVars    == <<package, published, crashes>>
vars == <<stateVars, unitVars, pc, doubleRelease, downloadVars, storageVars, tempDirVars, worldVars>>

Version  == "@version"
Manifest == "@manifest"

\* They are the identifiers of tasks, as the keys of assets are.
ASSUME NamesAssumption == Version \notin Assets /\ Manifest \notin Assets

-----------------------------------------------------------------------------
(***************************************************************************)
(* Manifests.  A Manifest object keeps the flag it was given by            *)
(* setUpdating apart from the one in its JSON, which is what is saved.     *)
(***************************************************************************)
Marks == {"UNMARKED", "UNSTARTED", "DOWNLOADING", "SUCCESSED"}

\* What a manifest file says, and a Manifest object.
ManifestFile   == [version : Versions, updating : BOOLEAN, state : [Assets -> Marks]]
ManifestObject == [loaded : BOOLEAN, version : Versions, updating : BOOLEAN, json : BOOLEAN,
                   state : [Assets -> Marks]]

\* No manifest file says what stands for one that is not there or is broken.
ASSUME ManifestAssumption ==
  /\ NoManifest # Broken /\ NoManifest \notin Versions
  /\ {NoManifest, Broken} \cap ManifestFile = {}

Unmarked == [a \in Assets |-> "UNMARKED"]

NewManifest == [loaded |-> FALSE, version |-> 0, updating |-> FALSE, json |-> FALSE,
                state |-> Unmarked]

\* Mutant: clear() resets the flag too.
ClearedAll(m) == NewManifest

\* clear(), with which every parse begins: the flag _updating is left.
Cleared(m) == [NewManifest EXCEPT !.updating = m.updating]

\* parseVersion of version v.
WithVersion(m, v) == [Cleared(m) EXCEPT !.version = v]

\* parseFile of a manifest file: an absent "updating" leaves the flag.
Parsed(m, file) == [loaded |-> TRUE, version |-> file.version, json |-> file.updating,
                    updating |-> file.updating \/ Cleared(m).updating, state |-> file.state]

\* saveToFile
Saved(m) == [version |-> m.version, updating |-> m.json, state |-> m.state]

\* The manifest file of version v as the server has it.
ServerFile(v) == [version |-> v, updating |-> FALSE, state |-> Unmarked]

Marked(m, S, state) == [m EXCEPT !.state = [a \in Assets |-> IF a \in S THEN state ELSE @[a]]]

WithUpdating(m, b) == IF m.loaded THEN [m EXCEPT !.updating = b, !.json = b] ELSE m

TempManifest == IF temp = "own" THEN own ELSE remote

SetTempManifest(m) ==
  IF temp = "own" THEN own' = m /\ UNCHANGED remote ELSE remote' = m /\ UNCHANGED own

\* genDiff of two versions, and the assets of the newer one in it.
Diff(v, w)     == {a \in Assets : Md5[v][a] # Md5[w][a]}
Updated(v, w)  == {a \in Diff(v, w) : Md5[w][a] # NoFile}

\* Mutant: what is being downloaded is not resumed.
ResumeUnstarted(m) == {a \in Assets : m.state[a] = "UNSTARTED"}

\* genResumeAssetsList
ResumeAssets(m) == {a \in Assets : m.state[a] \notin {"SUCCESSED", "UNMARKED"}}

-----------------------------------------------------------------------------
(***************************************************************************)
(* The program starts: loadLocalManifest and initManifests.  The cached    *)
(* manifest is used unless the package is newer, which empties the         *)
(* storage; a temporary manifest that cannot be parsed is removed with the *)
(* temporary directory.                                                    *)
(***************************************************************************)
RemoveTempDir ==
  /\ tempManifest' = NoManifest
  /\ renamedManifest' = NoManifest
  /\ tempFiles' = [a \in Assets |-> NoFile]

StartManager ==
  /\ updateState = "UNCHECKED" /\ updateEntry = "NONE"
  /\ remote = NewManifest
  /\ downloadUnits = {} /\ failedUnits = {} /\ queue = {}
  /\ totalWaitToDownload = 0 /\ totalToDownload = 0 /\ currConcurrentTask = 0
  /\ percentByFile = 0 /\ nextSavePoint = 0
  /\ pc = "idle"
  /\ downloads = {} /\ arrived = {} /\ unzipping = {}

Init ==
  /\ StartManager
  /\ local = 0 /\ own = NewManifest /\ temp = "own"
  /\ doubleRelease = FALSE
  /\ package = 0 /\ published = 0 /\ crashes = 0
  /\ storageManifest = NoManifest /\ storageFiles = [a \in Assets |-> NoFile]
  /\ tempManifest = NoManifest /\ renamedManifest = NoManifest
  /\ tempFiles = [a \in Assets |-> NoFile]

\* The package, an older cached version of which is thrown away.
LoadLocalManifest(packaged) ==
  /\ package' = packaged
  /\ IF storageManifest = NoManifest
     THEN local' = packaged /\ UNCHANGED storageVars
     ELSE IF packaged > storageManifest
     THEN /\ local' = packaged
          /\ storageManifest' = NoManifest
          /\ storageFiles' = [a \in Assets |-> NoFile]
     ELSE local' = storageManifest /\ UNCHANGED storageVars

\* initManifests, with the temporary manifest file that the crash left.
InitManifests(file) ==
  IF file = Broken
  THEN own' = NewManifest /\ temp' = "none" /\ RemoveTempDir
  ELSE /\ own' = IF file = NoManifest THEN NewManifest ELSE Parsed(NewManifest, file)
       /\ temp' = "own"
       /\ UNCHANGED tempDirVars

RestartManager ==
  /\ updateState' = "UNCHECKED" /\ updateEntry' = "NONE"
  /\ remote' = NewManifest
  /\ downloadUnits' = {} /\ failedUnits' = {} /\ queue' = {}
  /\ totalWaitToDownload' = 0 /\ totalToDownload' = 0 /\ currConcurrentTask' = 0
  /\ percentByFile' = 0 /\ nextSavePoint' = 0
  /\ pc' = "idle"
  /\ downloads' = {} /\ arrived' = {} /\ unzipping' = {}

Saving  == pc \in {"prepare", "queue", "finished"}
Merging == pc = "merge"

\* A crash and the next start, perhaps of a newer package.  A manifest file that was
\* being saved may be broken.
Crash ==
  /\ crashes < MaxCrashes
  /\ (IF Merging THEN "merging" ELSE "running") \in CrashPoints
  /\ crashes' = crashes + 1
  /\ \E packaged \in package..published : LoadLocalManifest(packaged)
  /\ \E file \in {tempManifest} \cup (IF Saving THEN {Broken} ELSE {}) : InitManifests(file)
  /\ RestartManager
  /\ UNCHANGED <<doubleRelease, published>>

-----------------------------------------------------------------------------
(***************************************************************************)
(* The calls of the application.                                           *)
(***************************************************************************)
Call(name) == pc = "idle" /\ name \in Calls

\* createDownloadFileTask
Download(S) ==
  /\ downloads' = downloads \cup S
  /\ UNCHANGED <<arrived, unzipping>>

DownloadVersion ==
  /\ updateState' = "DOWNLOADING_VERSION"
  /\ Download({Version})

DownloadManifest ==
  /\ updateState' = "DOWNLOADING_MANIFEST"
  /\ Download({Manifest})

CheckUpdate ==
  /\ Call(IF updateState = "FAIL_TO_UPDATE" THEN "recheck" ELSE "checkUpdate")
  /\ updateEntry = "NONE"
  /\ updateEntry' = IF updateState = "UP_TO_DATE" THEN "NONE" ELSE "CHECK_UPDATE"
  /\ IF updateState \in {"UNCHECKED", "FAIL_TO_UPDATE"}
     THEN DownloadVersion
     ELSE UNCHANGED <<updateState, downloadVars>>
  /\ UNCHANGED <<local, remote, own, temp, unitVars, pc, doubleRelease, storageVars, tempDirVars,
                 worldVars>>

\* update(), with startUpdate() of an update that checkUpdate() prepared.
Update ==
  /\ Call("update")
  /\ updateEntry = "NONE"
  /\ updateEntry' = IF updateState \in {"UP_TO_DATE", "UPDATING"} THEN "NONE" ELSE "DO_UPDATE"
  /\ \/ /\ updateState = "UNCHECKED"
        /\ DownloadVersion
        /\ UNCHANGED pc
     \/ /\ updateState \in {"FAIL_TO_UPDATE", "READY_TO_UPDATE"} /\ ~remote.loaded
        /\ DownloadManifest
        /\ UNCHANGED pc
     \/ /\ updateState = "READY_TO_UPDATE" /\ remote.loaded
        /\ updateState' = "UPDATING"
        /\ pc' = "batch"
        /\ UNCHANGED downloadVars
     \/ /\ \/ updateState \notin {"UNCHECKED", "FAIL_TO_UPDATE", "READY_TO_UPDATE"}
           \/ updateState = "FAIL_TO_UPDATE" /\ remote.loaded
        /\ UNCHANGED <<updateState, downloadVars, pc>>
  /\ UNCHANGED <<local, remote, own, temp, unitVars, doubleRelease, storageVars, tempDirVars,
                 worldVars>>

\* downloadFailedAssets(), which the application calls when an update has failed.
DownloadFailedAssets ==
  /\ Call("retry")
  /\ updateState = "FAIL_TO_UPDATE" /\ failedUnits # {} /\ remote.loaded
  /\ updateState' = "UPDATING"
  /\ downloadUnits' = failedUnits
  /\ totalToDownload' = Cardinality(failedUnits)
  /\ totalWaitToDownload' = Cardinality(failedUnits)
  /\ percentByFile' = 0 /\ nextSavePoint' = 0
  /\ pc' = "batch"
  /\ UNCHANGED <<updateEntry, local, remote, own, temp, failedUnits, queue, currConcurrentTask,
                 doubleRelease, downloadVars, storageVars, tempDirVars, worldVars>>

-----------------------------------------------------------------------------
(***************************************************************************)
(* The version file and the manifest.                                      *)
(***************************************************************************)
Reported(id) == downloads' = downloads \ {id} /\ arrived' = arrived \ {id}

\* onSuccess or onError of the version file.  Without it, or when it cannot be
\* parsed, the manifest decides.
VersionFinished ==
  /\ pc = "idle" /\ Version \in downloads
  /\ \/ /\ remote' \in {remote, Cleared(remote)}
        /\ downloads' = (downloads \ {Version}) \cup {Manifest}
        /\ updateState' = "DOWNLOADING_MANIFEST"
        /\ UNCHANGED <<updateEntry, tempDirVars>>
     \/ /\ remote' = WithVersion(remote, published)
        /\ IF local >= published
           THEN /\ updateState' = "UP_TO_DATE"
                /\ updateEntry' = "NONE"
                /\ RemoveTempDir
                /\ downloads' = downloads \ {Version}
           ELSE /\ updateState' = "DOWNLOADING_MANIFEST"
                /\ downloads' = (downloads \ {Version}) \cup {Manifest}
                /\ UNCHANGED <<updateEntry, tempDirVars>>
  /\ UNCHANGED <<local, own, temp, unitVars, pc, doubleRelease, arrived, unzipping, storageVars,
                 worldVars>>

\* The Downloader puts the manifest file in its place, over one that is there.
ManifestArrives ==
  /\ Manifest \in downloads \ arrived
  /\ arrived' = arrived \cup {Manifest}
  /\ tempManifest' \in {ServerFile(published), Broken}
  /\ UNCHANGED <<stateVars, unitVars, pc, doubleRelease, downloads, unzipping, storageVars,
                 renamedManifest, tempFiles, worldVars>>

\* onError of the manifest.
ManifestFails ==
  /\ pc = "idle" /\ Manifest \in downloads \ arrived
  /\ Reported(Manifest)
  /\ tempManifest' \in {tempManifest, Broken}
  /\ updateState' = "FAIL_TO_UPDATE"
  /\ updateEntry' = "NONE"
  /\ UNCHANGED <<local, remote, own, temp, unitVars, pc, doubleRelease, unzipping, storageVars,
                 renamedManifest, tempFiles, worldVars>>

\* parseManifest, to where it calls prepareUpdate.
ParseManifest ==
  /\ pc = "idle" /\ Manifest \in arrived
  /\ Reported(Manifest)
  /\ \/ /\ tempManifest = Broken
        /\ remote' = Cleared(remote)
        /\ updateState' = "UNCHECKED"
        /\ updateEntry' = "NONE"
        /\ UNCHANGED <<pc, tempDirVars>>
     \/ /\ tempManifest # Broken
        /\ remote' = Parsed(remote, tempManifest)
        /\ IF local >= tempManifest.version
           THEN /\ updateState' = "UP_TO_DATE"
                /\ updateEntry' = "NONE"
                /\ RemoveTempDir
                /\ UNCHANGED pc
           ELSE /\ updateState' = "NEED_UPDATE"
                /\ pc' = "prepare"
                /\ UNCHANGED <<updateEntry, tempDirVars>>
  /\ UNCHANGED <<local, own, temp, unitVars, doubleRelease, unzipping, storageVars, worldVars>>

-----------------------------------------------------------------------------
(***************************************************************************)
(* prepareUpdate.                                                          *)
(***************************************************************************)
Resumable == /\ temp # "none"
             /\ TempManifest.loaded /\ TempManifest.updating
             /\ TempManifest.version = remote.version

\* The units of an update are set, and it begins if update() was called; after
\* checkUpdate() the application is told that there is a new version.
Prepared(units) ==
  /\ downloadUnits' = units
  /\ failedUnits' = {}
  /\ totalToDownload' = Cardinality(units)
  /\ totalWaitToDownload' = Cardinality(units)
  /\ percentByFile' = 0 /\ nextSavePoint' = 0
  /\ IF updateEntry = "DO_UPDATE"
     THEN updateState' = "UPDATING" /\ pc' = "batch" /\ UNCHANGED updateEntry
     ELSE updateState' = "READY_TO_UPDATE" /\ pc' = "idle" /\ updateEntry' = "NONE"

\* The temporary manifest is of this version: go on with what it does not have.
ResumeUpdate ==
  /\ pc = "prepare"
  /\ Resumable
  /\ tempManifest' = Saved(TempManifest)
  /\ Prepared(ResumeAssets(TempManifest))
  /\ UNCHANGED <<local, remote, own, temp, queue, currConcurrentTask, doubleRelease, downloadVars,
                 storageVars, renamedManifest, tempFiles, worldVars>>

\* Begin from nothing: the temporary directory is emptied, unless there is no
\* temporary manifest, and the remote manifest becomes the temporary one.
BeginUpdate ==
  /\ pc = "prepare"
  /\ ~Resumable
  /\ doubleRelease' = (doubleRelease \/ temp = "remote")
  /\ temp' = "remote"
  /\ IF temp = "none"
     THEN UNCHANGED <<renamedManifest, tempFiles>>
     ELSE renamedManifest' = NoManifest /\ tempFiles' = [a \in Assets |-> NoFile]
  /\ IF Diff(local, remote.version) = {}
     THEN /\ tempManifest' = IF temp = "none" THEN tempManifest ELSE Saved(remote)
          /\ pc' = "succeed"
          /\ downloadUnits' = {} /\ failedUnits' = {}
          /\ totalToDownload' = 0 /\ totalWaitToDownload' = 0
          /\ percentByFile' = 0 /\ nextSavePoint' = 0
          /\ UNCHANGED <<remote, updateState, updateEntry>>
     ELSE LET units  == Updated(local, remote.version)
              marked == WithUpdating(Marked(remote, units, "UNSTARTED"), TRUE)
          IN  /\ remote' = marked
              /\ tempManifest' = Saved(marked)
              /\ Prepared(units)
  /\ UNCHANGED <<local, own, queue, currConcurrentTask, downloadVars, storageVars, worldVars>>

-----------------------------------------------------------------------------
(***************************************************************************)
(* Downloading the units.                                                  *)
(***************************************************************************)
BatchDownload ==
  /\ pc = "batch"
  /\ queue' = downloadUnits
  /\ pc' = "queue"
  /\ UNCHANGED <<stateVars, downloadUnits, failedUnits, countVars, doubleRelease, downloadVars,
                 storageVars, tempDirVars, worldVars>>

\* Mutant: one task too many.
RoomAndOneMore == MaxConcurrent - currConcurrentTask + 1

Room == MaxConcurrent - currConcurrentTask

\* queueDowload: when all units are done, finish; else start as many as there may be
\* at once, and save the temporary manifest at every tenth.
QueueDownload ==
  /\ pc = "queue"
  /\ \/ /\ totalWaitToDownload = 0
        /\ pc' = "finished"
        /\ UNCHANGED <<remote, own, queue, currConcurrentTask, nextSavePoint, downloadVars,
                       tempManifest>>
     \/ /\ totalWaitToDownload # 0
        /\ \E S \in SUBSET queue :
             LET marked == Marked(TempManifest, S, "DOWNLOADING") IN
             /\ Cardinality(S) = Min({Cardinality(queue), Room})
             /\ queue' = queue \ S
             /\ currConcurrentTask' = currConcurrentTask + Cardinality(S)
             /\ Download(S)
             /\ SetTempManifest(marked)
             /\ IF 10 * percentByFile > totalToDownload * nextSavePoint
                THEN tempManifest' = Saved(marked) /\ nextSavePoint' = nextSavePoint + 1
                ELSE UNCHANGED <<tempManifest, nextSavePoint>>
        /\ pc' = "idle"
  /\ UNCHANGED <<updateState, updateEntry, local, temp, downloadUnits, failedUnits,
                 totalWaitToDownload, totalToDownload, percentByFile, doubleRelease, storageVars,
                 renamedManifest, tempFiles, worldVars>>

\* The Downloader puts the file of an asset in its place.
AssetArrives(a) ==
  /\ a \in downloads \ arrived
  /\ arrived' = arrived \cup {a}
  /\ tempFiles' = IF a \in Compressed THEN tempFiles
                  ELSE [tempFiles EXCEPT ![a] = Md5[remote.version][a]]
  /\ UNCHANGED <<stateVars, unitVars, pc, doubleRelease, downloads, unzipping, storageVars,
                 tempManifest, renamedManifest, worldVars>>

\* Mutant: the error does not count.
FailedForgotten(a) == failedUnits

Failed(a) == failedUnits \cup {a}

\* Mutant: the task keeps its place.
TaskNotEnded == UNCHANGED currConcurrentTask

TaskEnded == currConcurrentTask' = Max({0, currConcurrentTask - 1})

\* fileError
FileError(a) ==
  /\ totalWaitToDownload' = totalWaitToDownload - 1
  /\ failedUnits' = Failed(a)
  /\ updateEntry' = "NONE"
  /\ SetTempManifest(Marked(TempManifest, {a}, "UNSTARTED"))
  /\ TaskEnded
  /\ pc' = "queue"
  /\ UNCHANGED percentByFile

\* fileSuccess
FileSuccess(a) ==
  /\ SetTempManifest(Marked(TempManifest, {a}, "SUCCESSED"))
  /\ failedUnits' = failedUnits \ {a}
  /\ totalWaitToDownload' = totalWaitToDownload - 1
  /\ percentByFile' = totalToDownload - totalWaitToDownload'
  /\ TaskEnded
  /\ pc' = "queue"
  /\ UNCHANGED updateEntry

\* onError of an asset; part of it may be under its name.
AssetFails(a) ==
  /\ pc = "idle" /\ AssetFailures
  /\ a \in downloads \ arrived
  /\ Reported(a)
  /\ tempFiles' \in {tempFiles, [tempFiles EXCEPT ![a] = Broken]}
  /\ FileError(a)
  /\ UNCHANGED <<updateState, local, temp, downloadUnits, queue, totalToDownload, nextSavePoint,
                 doubleRelease, unzipping, storageVars, tempManifest, renamedManifest, worldVars>>

\* onSuccess of an asset: it is verified, then decompressed by a thread if need be.
AssetSucceeds(a) ==
  /\ pc = "idle"
  /\ a \in arrived
  /\ Reported(a)
  /\ \/ AssetFailures /\ FileError(a) /\ UNCHANGED unzipping
     \/ a \notin Compressed /\ FileSuccess(a) /\ UNCHANGED unzipping
     \/ /\ a \in Compressed
        /\ unzipping' = unzipping \cup {a}
        /\ UNCHANGED <<updateEntry, remote, own, failedUnits, totalWaitToDownload, percentByFile,
                       currConcurrentTask, pc>>
  /\ UNCHANGED <<updateState, local, temp, downloadUnits, queue, totalToDownload, nextSavePoint,
                 doubleRelease, storageVars, tempDirVars, worldVars>>

\* decompressFinished, performed in the main thread when decompress() is done.
DecompressFinished(a) ==
  /\ pc = "idle"
  /\ a \in unzipping
  /\ unzipping' = unzipping \ {a}
  /\ \/ FileSuccess(a) /\ tempFiles' = [tempFiles EXCEPT ![a] = Md5[remote.version][a]]
     \/ AssetFailures /\ FileError(a) /\ tempFiles' = [tempFiles EXCEPT ![a] = Broken]
  /\ UNCHANGED <<updateState, local, temp, downloadUnits, queue, totalToDownload, nextSavePoint,
                 doubleRelease, downloads, arrived, storageVars, tempManifest, renamedManifest,
                 worldVars>>

\* onDownloadUnitsFinished
DownloadUnitsFinished ==
  /\ pc = "finished"
  /\ tempManifest' = Saved(TempManifest)
  /\ IF failedUnits # {}
     THEN updateState' = "FAIL_TO_UPDATE" /\ updateEntry' = "NONE" /\ pc' = "idle"
     ELSE pc' = "succeed" /\ UNCHANGED <<updateState, updateEntry>>
  /\ UNCHANGED <<local, remote, own, temp, unitVars, doubleRelease, downloadVars, storageVars,
                 renamedManifest, tempFiles, worldVars>>

-----------------------------------------------------------------------------
(***************************************************************************)
(* updateSucceed.                                                          *)
(***************************************************************************)

\* Mutant: the temporary manifest keeps its name while the files are merged.
KeptTempManifest == tempManifest

\* The temporary manifest once it is renamed to project.manifest.
TempManifestRenamed == NoManifest

RenameTempManifest ==
  /\ pc = "succeed"
  /\ SetTempManifest(WithUpdating(TempManifest, FALSE))
  /\ IF tempManifest = NoManifest
     THEN UNCHANGED <<tempManifest, renamedManifest>>
     ELSE /\ renamedManifest' = IF tempManifest = Broken THEN NoManifest ELSE tempManifest.version
          /\ tempManifest' = TempManifestRenamed
  /\ pc' = "merge"
  /\ UNCHANGED <<updateState, updateEntry, local, temp, unitVars, doubleRelease, downloadVars,
                 storageVars, tempFiles, worldVars>>

\* The files of the temporary directory, in no certain order, replace those of the
\* storage.
MergeFile ==
  /\ pc = "merge"
  /\ \/ \E a \in Assets :
          /\ tempFiles[a] # NoFile
          /\ storageFiles' = [storageFiles EXCEPT ![a] = tempFiles[a]]
          /\ tempFiles' = [tempFiles EXCEPT ![a] = NoFile]
          /\ UNCHANGED <<storageManifest, renamedManifest>>
     \/ /\ renamedManifest # NoManifest
        /\ storageManifest' = renamedManifest
        /\ renamedManifest' = NoManifest
        /\ UNCHANGED <<storageFiles, tempFiles>>
  /\ UNCHANGED <<stateVars, unitVars, pc, doubleRelease, downloadVars, tempManifest, worldVars>>

\* Deleted assets are removed, the remote manifest becomes the local one, and the
\* temporary directory is removed.
SwapLocalManifest ==
  /\ pc = "merge"
  /\ renamedManifest = NoManifest /\ \A a \in Assets : tempFiles[a] = NoFile
  /\ storageFiles' = [a \in Assets |->
                        IF a \in Diff(local, remote.version) /\ Md5[remote.version][a] = NoFile
                        THEN NoFile ELSE storageFiles[a]]
  /\ RemoveTempDir
  /\ local' = remote.version
  /\ updateState' = "UP_TO_DATE"
  /\ updateEntry' = "NONE"
  /\ pc' = "idle"
  /\ UNCHANGED <<remote, own, temp, unitVars, doubleRelease, downloadVars, storageManifest,
                 worldVars>>

\* The server publishes the next version.
Publish ==
  /\ published < MaxVersion
  /\ published' = published + 1
  /\ UNCHANGED <<stateVars, unitVars, pc, doubleRelease, downloadVars, storageVars, tempDirVars,
                 package, crashes>>

-----------------------------------------------------------------------------
\* What the main thread goes on with.
Continue ==
  \/ ResumeUpdate \/ BeginUpdate
  \/ BatchDownload \/ QueueDownload \/ DownloadUnitsFinished
  \/ RenameTempManifest \/ MergeFile \/ SwapLocalManifest

\* What the Downloader and the thread that decompresses do and report.
Finish ==
  \/ VersionFinished
  \/ ManifestArrives \/ ManifestFails \/ ParseManifest
  \/ \E a \in Assets : AssetArrives(a) \/ AssetFails(a) \/ AssetSucceeds(a) \/ DecompressFinished(a)

Next ==
  \/ CheckUpdate \/ Update \/ DownloadFailedAssets
  \/ Continue
  \/ Finish
  \/ Publish
  \/ Crash

Spec == Init /\ [][Next]_vars

\* The main thread goes on, and every download and decompression ends.
FairSpec == Spec /\ WF_vars(Continue) /\ WF_vars(Finish)

-----------------------------------------------------------------------------
(***************************************************************************)
(* Properties.                                                             *)
(***************************************************************************)
States == {"UNCHECKED", "DOWNLOADING_VERSION", "DOWNLOADING_MANIFEST", "NEED_UPDATE",
           "READY_TO_UPDATE", "UPDATING", "UP_TO_DATE", "FAIL_TO_UPDATE"}

InFlight == (downloads \cap Assets) \cup unzipping

\* Every variable has its type.
TypeOK ==
  /\ updateState \in States
  /\ updateEntry \in {"NONE", "CHECK_UPDATE", "DO_UPDATE"}
  /\ local \in Versions /\ package \in Versions /\ published \in Versions
  /\ temp \in {"none", "own", "remote"}
  /\ downloadUnits \subseteq Assets /\ failedUnits \subseteq Assets /\ queue \subseteq Assets
  /\ downloads \subseteq Assets \cup {Version, Manifest} /\ arrived \subseteq downloads
  /\ unzipping \subseteq Compressed
  /\ pc \in {"idle", "prepare", "batch", "queue", "finished", "succeed", "merge"}
  /\ totalWaitToDownload \in 0..totalToDownload /\ percentByFile \in 0..totalToDownload
  /\ currConcurrentTask \in 0..MaxConcurrent

\* The counters that decide when an update ends and how much is downloaded at once
\* are right, whatever failed and was tried again: the tasks under way and the queue
\* are what is waited for, and no unit is there twice.
CountersMatch ==
  updateState = "UPDATING" /\ pc \in {"idle", "queue"} =>
    /\ totalWaitToDownload = Cardinality(queue) + Cardinality(InFlight)
    /\ currConcurrentTask = Cardinality(InFlight)
    /\ queue \cap InFlight = {}
    /\ pc = "idle" => totalWaitToDownload > 0

\* Saved progress can be trusted after a crash: an asset that the temporary manifest
\* on disk calls SUCCESSED is in the temporary directory, in that version.
SavedProgressIsTrue ==
  tempManifest \notin {NoManifest, Broken} =>
    \A a \in Assets : tempManifest.state[a] = "SUCCESSED" =>
                        tempFiles[a] = Md5[tempManifest.version][a]

\* What the program finds under the name of an asset.
Visible(a) == IF storageFiles[a] = NoFile THEN Md5[package][a] ELSE storageFiles[a]

\* "merge temporary storage path to storage path so that temporary version turns to
\* cached version": outside the merge, the cached manifest describes the files that
\* the program finds, in the version that it says.
CachedVersionIsComplete ==
  storageManifest # NoManifest /\ ~Merging =>
    \A a \in Assets : Md5[storageManifest][a] # NoFile => Visible(a) = Md5[storageManifest][a]

\* prepareUpdate never releases the remote manifest, which it is about to save, by way
\* of _tempManifest: when they are one object its stale _updating makes it resumable.
RemoteManifestKept == ~doubleRelease

\* An update ends, in success or in failure, unless the program crashes.
UpdateEnds == updateState = "UPDATING" ~> updateState # "UPDATING"

(***************************************************************************)
(* What comments say and the code does not do.                             *)
(***************************************************************************)
\* updateSucceed: "Every thing is correctly downloaded".  After a failed update,
\* checkUpdate() parses the manifest anew, with no asset marked, into the manifest it
\* then takes for the progress of an update to resume.
EverythingIsDownloaded ==
  pc = "succeed" => \A a \in Updated(local, remote.version) : tempFiles[a] = Md5[remote.version][a]
=============================================================================
