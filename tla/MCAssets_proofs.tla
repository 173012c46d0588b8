-------------------------- MODULE MCAssets_proofs --------------------------
(***************************************************************************)
(* Proofs about AssetsManager, for every set of assets, every contents of  *)
(* them in every version and any number of crashes.  There are four        *)
(* layers, each with an invariant of its own that rests on the ones        *)
(* before: what is under way (FlowInv), which manifest is the temporary    *)
(* one (KeptInv), what is known of the files that have been downloaded     *)
(* (ProgressInv), and, while no update that failed is checked anew, what   *)
(* they and the files of the program are a whole of (CompleteInv).         *)
(***************************************************************************)
EXTENDS MCAssets, TLAPS, FiniteSetTheorems

Contents == {NoFile, Broken} \cup {Md5[v][a] : v \in Versions, a \in Assets}

\* The manifests and the files, which TypeOK does not speak of.
FilesOK ==
  /\ own \in ManifestObject /\ remote \in ManifestObject
  /\ tempManifest \in ManifestFile \cup {NoManifest, Broken}
  /\ renamedManifest \in Versions \cup {NoManifest}
  /\ storageManifest \in Versions \cup {NoManifest}
  /\ tempFiles \in [Assets -> Contents] /\ storageFiles \in [Assets -> Contents]
  /\ totalToDownload \in Nat /\ nextSavePoint \in Nat

\* No asset has this mark.
Fresh(m) == \A a \in Assets : m.state[a] # "SUCCESSED"

\* The function that runs next belongs to the state of the update, and there is one
\* download at most of the version and the manifest, each in a state of its own.
StageOK ==
  /\ Version \notin arrived
  /\ Version \in downloads => updateState = "DOWNLOADING_VERSION"
  /\ Manifest \in downloads => updateState = "DOWNLOADING_MANIFEST"
  /\ Manifest \in arrived =>
       tempManifest = Broken \/ (tempManifest \in ManifestFile /\ Fresh(tempManifest))
  /\ pc = "prepare" => updateState = "NEED_UPDATE" /\ remote.loaded
  /\ pc \in {"batch", "queue", "finished"} => updateState = "UPDATING"
  /\ pc \in {"succeed", "merge"} => updateState \in {"UPDATING", "NEED_UPDATE"}
  /\ pc = "merge" => tempManifest = NoManifest

Working == updateState = "UPDATING" /\ pc \in {"idle", "queue"}

\* The units have been set, and none is queued yet.
UnitsSet == updateState = "READY_TO_UPDATE" \/ pc = "batch"

UnitsOK ==
  /\ downloads \cap unzipping = {}
  /\ ~Working => queue = {} /\ InFlight = {} /\ currConcurrentTask = 0
  /\ UnitsSet => totalWaitToDownload = Cardinality(downloadUnits)

FlowInv == TypeOK /\ FilesOK /\ StageOK /\ UnitsOK /\ CountersMatch

\* While the temporary manifest is the remote one, it says that it is being updated to.
KeptInv ==
  /\ temp = "remote" => remote.updating \/ pc \in {"succeed", "merge"} \/ updateState = "UP_TO_DATE"
  /\ RemoteManifestKept

\* What still has to be downloaded, in this update or when it is tried again.
Unfinished == queue \cup InFlight \cup failedUnits \cup (IF UnitsSet THEN downloadUnits ELSE {})

\* Progress in memory is true, until its files are thrown away or merged.
MemoryIsTrue ==
  updateState # "UP_TO_DATE" /\ pc # "merge" =>
    \A a \in Assets : TempManifest.state[a] = "SUCCESSED" =>
                        tempFiles[a] = Md5[TempManifest.version][a]

\* Nothing that is still downloaded is called done, in memory or on disk.
UnfinishedUnits ==
  \A a \in Unfinished :
    /\ TempManifest.state[a] # "SUCCESSED"
    /\ tempManifest \notin {NoManifest, Broken} => tempManifest.state[a] # "SUCCESSED"

\* An update is under way, or there is a failed one that may be tried again.
Underway ==
  \/ updateState \in {"UPDATING", "READY_TO_UPDATE"}
  \/ failedUnits # {} /\ remote.loaded /\ pc # "prepare" /\ updateState # "UP_TO_DATE"

\* Then the temporary manifest is of the version that is downloaded.
VersionsAgree == Underway => TempManifest.version = remote.version

ProgressInv ==
  /\ SavedProgressIsTrue /\ MemoryIsTrue /\ UnfinishedUnits /\ VersionsAgree
  /\ pc = "prepare" => Fresh(remote)
  /\ \A a \in (arrived \cap Assets) \ Compressed : tempFiles[a] = Md5[remote.version][a]

-----------------------------------------------------------------------------
(***************************************************************************)
(* What the operators on manifests return.                                 *)
(***************************************************************************)
LEMMA UnmarkedProperties ==
  /\ Unmarked \in [Assets -> Marks] /\ \A a \in Assets : Unmarked[a] = "UNMARKED"
  /\ 0 \in Versions
  /\ NewManifest \in ManifestObject
  /\ NewManifest.state = Unmarked /\ ~NewManifest.loaded /\ ~NewManifest.updating
<1>1. Unmarked = [a \in Assets |-> "UNMARKED"]
  BY DEF Unmarked
<1>2. Unmarked \in [Assets -> Marks] /\ \A a \in Assets : Unmarked[a] = "UNMARKED"
  BY <1>1 DEF Marks
<1>3. 0 \in Versions
  BY VersionAssumption DEF Versions
<1>4. QED
  BY <1>2, <1>3 DEF NewManifest, ManifestObject

\* clear() keeps the flag only.
LEMMA ClearedProperties ==
  ASSUME NEW m \in ManifestObject
  PROVE  /\ Cleared(m) \in ManifestObject
         /\ Cleared(m).loaded = FALSE /\ Cleared(m).updating = m.updating
         /\ Cleared(m).state = Unmarked
BY UnmarkedProperties DEF Cleared, NewManifest, ManifestObject

LEMMA WithVersionProperties ==
  ASSUME NEW m \in ManifestObject, NEW v \in Versions
  PROVE  /\ WithVersion(m, v) \in ManifestObject
         /\ WithVersion(m, v).loaded = FALSE /\ WithVersion(m, v).updating = m.updating
         /\ WithVersion(m, v).state = Unmarked
BY ClearedProperties DEF WithVersion, ManifestObject

\* A manifest that is parsed is loaded, and keeps a flag that was set.
LEMMA ParsedProperties ==
  ASSUME NEW m \in ManifestObject, NEW file \in ManifestFile
  PROVE  /\ Parsed(m, file) \in ManifestObject
         /\ Parsed(m, file).loaded
         /\ m.updating => Parsed(m, file).updating
         /\ Parsed(m, file).version = file.version /\ Parsed(m, file).state = file.state
<1>1. Cleared(m).updating = m.updating /\ m.updating \in BOOLEAN
  BY ClearedProperties DEF ManifestObject
<1>2. file.updating \in BOOLEAN /\ file.version \in Versions /\ file.state \in [Assets -> Marks]
  BY DEF ManifestFile
<1>3. (file.updating \/ Cleared(m).updating) \in BOOLEAN
  BY Zenon
<1>4. QED
  BY <1>1, <1>2, <1>3 DEF Parsed, ManifestObject

LEMMA SavedProperties ==
  ASSUME NEW m \in ManifestObject
  PROVE  /\ Saved(m) \in ManifestFile
         /\ Saved(m).version = m.version /\ Saved(m).state = m.state
BY DEF Saved, ManifestObject, ManifestFile

LEMMA ServerFileProperties ==
  ASSUME NEW v \in Versions
  PROVE  /\ ServerFile(v) \in ManifestFile /\ Fresh(ServerFile(v))
         /\ ServerFile(v).version = v
BY UnmarkedProperties DEF ServerFile, ManifestFile, Fresh

\* Marking assets changes their state and nothing else.
LEMMA MarkedProperties ==
  ASSUME NEW m \in ManifestObject, NEW S, NEW mark \in Marks
  PROVE  /\ Marked(m, S, mark) \in ManifestObject
         /\ Marked(m, S, mark).loaded = m.loaded /\ Marked(m, S, mark).updating = m.updating
         /\ Marked(m, S, mark).version = m.version
         /\ \A a \in Assets : Marked(m, S, mark).state[a] = IF a \in S THEN mark ELSE m.state[a]
<1>1. PICK st : st = [a \in Assets |-> IF a \in S THEN mark ELSE m.state[a]]
  OBVIOUS
<1>2. st \in [Assets -> Marks]
  BY <1>1 DEF ManifestObject
<1>3. Marked(m, S, mark) = [m EXCEPT !.state = st]
  BY <1>1 DEF Marked
<1>4. QED
  BY <1>1, <1>2, <1>3 DEF ManifestObject

LEMMA WithUpdatingProperties ==
  ASSUME NEW m \in ManifestObject, NEW b \in BOOLEAN
  PROVE  /\ WithUpdating(m, b) \in ManifestObject
         /\ WithUpdating(m, b).loaded = m.loaded
         /\ WithUpdating(m, b).version = m.version /\ WithUpdating(m, b).state = m.state
         /\ m.loaded => WithUpdating(m, b).updating = b
BY DEF WithUpdating, ManifestObject

LEMMA TempManifestObject ==
  FilesOK => TempManifest \in ManifestObject
BY DEF FilesOK, TempManifest

\* Marking the temporary manifest.
LEMMA MarkedTemp ==
  ASSUME FilesOK, NEW S, NEW mark \in Marks,
         SetTempManifest(Marked(TempManifest, S, mark)), temp' = temp
  PROVE  /\ own' \in ManifestObject /\ remote' \in ManifestObject
         /\ remote'.loaded = remote.loaded /\ remote'.version = remote.version
         /\ remote'.updating = remote.updating
         /\ TempManifest' = Marked(TempManifest, S, mark)
<1>1. PICK m : m = Marked(TempManifest, S, mark)
  OBVIOUS
<1>2. /\ m \in ManifestObject
      /\ m.loaded = TempManifest.loaded /\ m.updating = TempManifest.updating
      /\ m.version = TempManifest.version
  BY <1>1, MarkedProperties, TempManifestObject
<1>3. IF temp = "own" THEN own' = m /\ remote' = remote ELSE remote' = m /\ own' = own
  BY <1>1 DEF SetTempManifest
<1>4. QED
  BY <1>1, <1>2, <1>3 DEF FilesOK, TempManifest

-----------------------------------------------------------------------------
(***************************************************************************)
(* FlowInv.  Most steps leave the units and the tasks alone.               *)
(***************************************************************************)
LEMMA UnitSetsFinite ==
  ASSUME TypeOK
  PROVE  /\ IsFiniteSet(downloadUnits) /\ IsFiniteSet(failedUnits) /\ IsFiniteSet(queue)
         /\ IsFiniteSet(InFlight)
         /\ Cardinality(downloadUnits) \in Nat /\ Cardinality(failedUnits) \in Nat
         /\ Cardinality(queue) \in Nat /\ Cardinality(InFlight) \in Nat
<1>1. downloadUnits \subseteq Assets /\ failedUnits \subseteq Assets /\ queue \subseteq Assets
  BY DEF TypeOK
<1>2. InFlight \subseteq Assets
  BY AssetsAssumption DEF TypeOK, InFlight
<1>3. \A S : S \subseteq Assets => IsFiniteSet(S) /\ Cardinality(S) \in Nat
  BY AssetsAssumption, FS_Subset, FS_CardinalityType
<1>4. QED
  BY <1>1, <1>2, <1>3

\* A step in which no unit is queued, begun or ended.
LEMMA QuietFlow ==
  ASSUME FlowInv, UNCHANGED <<downloadUnits, queue, currConcurrentTask, totalWaitToDownload>>,
         UNCHANGED unzipping, downloads' \cap Assets = downloads \cap Assets,
         downloads' \cap unzipping = {},
         Working' <=> Working, UnitsSet' => UnitsSet, pc' = "idle" /\ Working => pc = "idle"
  PROVE  UnitsOK' /\ CountersMatch'
<1>1. UnitsOK /\ CountersMatch
  BY DEF FlowInv
<1>2. InFlight' = InFlight
  BY DEF InFlight
<1>3. UnitsOK'
  BY <1>1, <1>2 DEF UnitsOK
<1>4. CountersMatch'
  BY <1>1, <1>2 DEF CountersMatch, Working
<1>5. QED
  BY <1>3, <1>4

\* The version and the manifest are no assets.
LEMMA AssetDownloads ==
  ASSUME FlowInv
  PROVE  /\ (downloads \cup {Version}) \cap Assets = downloads \cap Assets
         /\ (downloads \cup {Manifest}) \cap Assets = downloads \cap Assets
         /\ ((downloads \ {Version}) \cup {Manifest}) \cap Assets = downloads \cap Assets
         /\ (downloads \ {Version}) \cap Assets = downloads \cap Assets
         /\ (downloads \ {Manifest}) \cap Assets = downloads \cap Assets
         /\ Version # Manifest /\ Version \notin unzipping /\ Manifest \notin unzipping
         /\ downloads \cap unzipping = {}
<1>1. Version \notin Assets /\ Manifest \notin Assets
  BY NamesAssumption
<1>2. unzipping \subseteq Assets /\ downloads \cap unzipping = {}
  BY AssetsAssumption DEF FlowInv, TypeOK, UnitsOK
<1>3. Version # Manifest
  BY DEF Version, Manifest
<1>4. QED
  BY <1>1, <1>2, <1>3

LEMMA CheckUpdateFlow == ASSUME FlowInv, CheckUpdate PROVE FlowInv'
<1>1. /\ UNCHANGED <<local, remote, own, temp, downloadUnits, failedUnits, queue,
                     totalWaitToDownload, totalToDownload, currConcurrentTask, percentByFile,
                     nextSavePoint, pc, doubleRelease, unzipping, arrived>>
      /\ UNCHANGED <<storageManifest, storageFiles, tempManifest, renamedManifest, tempFiles,
                     package, published, crashes>>
  BY DEF CheckUpdate, DownloadVersion, Download, unitVars, countVars, storageVars, tempDirVars,
         worldVars, downloadVars
<1>2. pc = "idle" /\ updateEntry' \in {"NONE", "CHECK_UPDATE"}
  BY DEF CheckUpdate, Call
<1>3. \/ /\ updateState \in {"UNCHECKED", "FAIL_TO_UPDATE"}
         /\ updateState' = "DOWNLOADING_VERSION" /\ downloads' = downloads \cup {Version}
      \/ updateState' = updateState /\ downloads' = downloads
  BY DEF CheckUpdate, DownloadVersion, Download, downloadVars
<1>4. TypeOK /\ FilesOK /\ StageOK /\ UnitsOK /\ CountersMatch
  BY DEF FlowInv
<1>5. TypeOK'
  BY <1>1, <1>2, <1>3, <1>4 DEF TypeOK, States
<1>6. FilesOK'
  BY <1>1, <1>4 DEF FilesOK
<1>7. StageOK'
  BY <1>1, <1>2, <1>3, <1>4, AssetDownloads DEF StageOK, Fresh
<1>8. (Working' <=> Working) /\ (UnitsSet' => UnitsSet)
  BY <1>1, <1>3 DEF Working, UnitsSet
<1>9. downloads' \cap Assets = downloads \cap Assets /\ downloads' \cap unzipping = {}
  BY <1>3, AssetDownloads
<1>10. UnitsOK' /\ CountersMatch'
  BY <1>1, <1>2, <1>8, <1>9, QuietFlow
<1>11. QED
  BY <1>5, <1>6, <1>7, <1>10 DEF FlowInv

LEMMA UpdateFlow == ASSUME FlowInv, Update PROVE FlowInv'
<1>1. /\ UNCHANGED <<local, remote, own, temp, downloadUnits, failedUnits, queue,
                     totalWaitToDownload, totalToDownload, currConcurrentTask, percentByFile,
                     nextSavePoint, doubleRelease, unzipping, arrived>>
      /\ UNCHANGED <<storageManifest, storageFiles, tempManifest, renamedManifest, tempFiles,
                     package, published, crashes>>
  BY DEF Update, DownloadVersion, DownloadManifest, Download, unitVars, countVars, storageVars,
         tempDirVars, worldVars, downloadVars
<1>2. pc = "idle" /\ updateEntry' \in {"NONE", "DO_UPDATE"}
  BY DEF Update, Call
<1>3. \/ /\ updateState = "UNCHECKED" /\ pc' = pc
         /\ updateState' = "DOWNLOADING_VERSION" /\ downloads' = downloads \cup {Version}
      \/ /\ updateState \in {"FAIL_TO_UPDATE", "READY_TO_UPDATE"} /\ pc' = pc
         /\ updateState' = "DOWNLOADING_MANIFEST" /\ downloads' = downloads \cup {Manifest}
      \/ /\ updateState = "READY_TO_UPDATE" /\ pc' = "batch"
         /\ updateState' = "UPDATING" /\ downloads' = downloads
      \/ updateState' = updateState /\ downloads' = downloads /\ pc' = pc
  BY DEF Update, DownloadVersion, DownloadManifest, Download, downloadVars
<1>4. TypeOK /\ FilesOK /\ StageOK /\ UnitsOK /\ CountersMatch
  BY DEF FlowInv
<1>5. TypeOK'
  BY <1>1, <1>2, <1>3, <1>4 DEF TypeOK, States
<1>6. FilesOK'
  BY <1>1, <1>4 DEF FilesOK
<1>7. StageOK'
  BY <1>1, <1>2, <1>3, <1>4, AssetDownloads DEF StageOK, Fresh
<1>8. (Working' <=> Working) /\ (UnitsSet' => UnitsSet)
  BY <1>1, <1>2, <1>3 DEF Working, UnitsSet
<1>9. downloads' \cap Assets = downloads \cap Assets /\ downloads' \cap unzipping = {}
  BY <1>3, AssetDownloads
<1>10. UnitsOK' /\ CountersMatch'
  BY <1>1, <1>2, <1>8, <1>9, QuietFlow
<1>11. QED
  BY <1>5, <1>6, <1>7, <1>10 DEF FlowInv

\* A step between two states in which no unit is being downloaded.
LEMMA RestingFlow ==
  ASSUME FlowInv, ~Working, ~Working', UNCHANGED <<queue, currConcurrentTask, unzipping>>,
         downloads' \cap Assets = downloads \cap Assets, downloads' \cap unzipping = {},
         UnitsSet' => totalWaitToDownload' = Cardinality(downloadUnits')
  PROVE  UnitsOK' /\ CountersMatch'
<1>1. queue = {} /\ InFlight = {} /\ currConcurrentTask = 0
  BY DEF FlowInv, UnitsOK
<1>2. InFlight' = InFlight
  BY DEF InFlight
<1>3. UnitsOK'
  BY <1>1, <1>2 DEF UnitsOK
<1>4. CountersMatch'
  BY DEF CountersMatch, Working
<1>5. QED
  BY <1>3, <1>4

LEMMA DownloadFailedAssetsFlow == ASSUME FlowInv, DownloadFailedAssets PROVE FlowInv'
<1>1. /\ UNCHANGED <<updateEntry, local, remote, own, temp, failedUnits, queue,
                     currConcurrentTask, doubleRelease, downloads, unzipping, arrived>>
      /\ UNCHANGED <<storageManifest, storageFiles, tempManifest, renamedManifest, tempFiles,
                     package, published, crashes>>
  BY DEF DownloadFailedAssets, storageVars, tempDirVars, worldVars, downloadVars
<1>2. /\ pc = "idle" /\ pc' = "batch"
      /\ updateState = "FAIL_TO_UPDATE" /\ updateState' = "UPDATING"
      /\ downloadUnits' = failedUnits
      /\ totalToDownload' = Cardinality(failedUnits)
      /\ totalWaitToDownload' = Cardinality(failedUnits)
      /\ percentByFile' = 0 /\ nextSavePoint' = 0
  BY DEF DownloadFailedAssets, Call
<1>3. TypeOK /\ FilesOK /\ StageOK
  BY DEF FlowInv
<1>4. Cardinality(failedUnits) \in Nat
  BY <1>3, UnitSetsFinite
<1>5. TypeOK'
  BY <1>1, <1>2, <1>3, <1>4 DEF TypeOK, States
<1>6. FilesOK'
  BY <1>1, <1>2, <1>3, <1>4 DEF FilesOK
<1>7. StageOK'
  BY <1>1, <1>2, <1>3 DEF StageOK, Fresh
<1>8. ~Working /\ ~Working'
  BY <1>2 DEF Working
<1>9. UnitsOK' /\ CountersMatch'
  BY <1>1, <1>2, <1>8, AssetDownloads, RestingFlow
<1>10. QED
  BY <1>5, <1>6, <1>7, <1>9 DEF FlowInv

LEMMA VersionFinishedFlow == ASSUME FlowInv, VersionFinished PROVE FlowInv'
<1>1. /\ UNCHANGED <<local, own, temp, downloadUnits, failedUnits, queue,
                     totalWaitToDownload, totalToDownload, currConcurrentTask, percentByFile,
                     nextSavePoint, pc, doubleRelease, unzipping, arrived>>
      /\ UNCHANGED <<storageManifest, storageFiles, package, published, crashes>>
  BY DEF VersionFinished, unitVars, countVars, storageVars, worldVars
<1>2. /\ pc = "idle" /\ Version \in downloads
      /\ updateEntry' \in {"NONE", updateEntry}
      /\ updateState' \in {"UP_TO_DATE", "DOWNLOADING_MANIFEST"}
      /\ downloads' = downloads \ {Version} \/
         (downloads' = (downloads \ {Version}) \cup {Manifest}
          /\ updateState' = "DOWNLOADING_MANIFEST")
      /\ remote' \in {remote, Cleared(remote), WithVersion(remote, published)}
      /\ \/ UNCHANGED <<tempManifest, renamedManifest, tempFiles>>
         \/ RemoveTempDir
  BY DEF VersionFinished, tempDirVars
<1>3. TypeOK /\ FilesOK /\ StageOK
  BY DEF FlowInv
<1>4. updateState = "DOWNLOADING_VERSION" /\ Manifest \notin downloads /\ Version \notin arrived'
      /\ Manifest \notin arrived
  <2>1. updateState = "DOWNLOADING_VERSION" /\ Manifest \notin downloads
    BY <1>2, <1>3 DEF StageOK
  <2>2. QED
    BY <2>1, <1>1, <1>3 DEF TypeOK, StageOK
<1>5. TypeOK'
  BY <1>1, <1>2, <1>3, <1>4 DEF TypeOK, States
<1>6. remote' \in ManifestObject
  BY <1>2, <1>3, ClearedProperties, WithVersionProperties DEF FilesOK, TypeOK
<1>7. FilesOK'
  BY <1>1, <1>2, <1>3, <1>6 DEF FilesOK, RemoveTempDir, Contents
<1>8. StageOK'
  BY <1>1, <1>2, <1>3, <1>4 DEF StageOK, Fresh
<1>9. ~Working /\ ~Working' /\ ~UnitsSet'
  BY <1>1, <1>2, <1>4 DEF Working, UnitsSet
<1>10. downloads' \cap Assets = downloads \cap Assets /\ downloads' \cap unzipping = {}
  BY <1>2, AssetDownloads
<1>11. UnitsOK' /\ CountersMatch'
  BY <1>1, <1>9, <1>10, RestingFlow
<1>12. QED
  BY <1>5, <1>7, <1>8, <1>11 DEF FlowInv

LEMMA ManifestArrivesFlow == ASSUME FlowInv, ManifestArrives PROVE FlowInv'
<1>1. /\ UNCHANGED <<updateState, updateEntry, local, remote, own, temp, downloadUnits,
                     failedUnits, queue, totalWaitToDownload, totalToDownload,
                     currConcurrentTask, percentByFile, nextSavePoint, pc, doubleRelease,
                     downloads, unzipping>>
      /\ UNCHANGED <<storageManifest, storageFiles, renamedManifest, tempFiles, package,
                     published, crashes>>
  BY DEF ManifestArrives, stateVars, unitVars, countVars, storageVars, worldVars
<1>2. /\ Manifest \in downloads /\ arrived' = arrived \cup {Manifest}
      /\ tempManifest' \in {ServerFile(published), Broken}
  BY DEF ManifestArrives
<1>3. TypeOK /\ FilesOK /\ StageOK /\ UnitsOK /\ CountersMatch
  BY DEF FlowInv
<1>4. ServerFile(published) \in ManifestFile /\ Fresh(ServerFile(published))
  BY <1>3, ServerFileProperties DEF TypeOK
<1>5. TypeOK'
  BY <1>1, <1>2, <1>3 DEF TypeOK, States
<1>6. FilesOK'
  BY <1>1, <1>2, <1>3, <1>4 DEF FilesOK
<1>7. tempManifest' = Broken \/ (tempManifest' \in ManifestFile /\ Fresh(tempManifest)')
  BY <1>2, <1>4 DEF Fresh
<1>8. updateState = "DOWNLOADING_MANIFEST"
  BY <1>2, <1>3 DEF StageOK
<1>9. StageOK'
  BY <1>1, <1>2, <1>3, <1>7, <1>8 DEF StageOK, Version, Manifest
<1>10. UnitsOK' /\ CountersMatch'
  BY <1>1, QuietFlow, AssetDownloads DEF Working, UnitsSet
<1>11. QED
  BY <1>5, <1>6, <1>9, <1>10 DEF FlowInv

LEMMA ManifestFailsFlow == ASSUME FlowInv, ManifestFails PROVE FlowInv'
<1>1. /\ UNCHANGED <<local, remote, own, temp, downloadUnits, failedUnits, queue,
                     totalWaitToDownload, totalToDownload, currConcurrentTask, percentByFile,
                     nextSavePoint, pc, doubleRelease, unzipping>>
      /\ UNCHANGED <<storageManifest, storageFiles, renamedManifest, tempFiles, package,
                     published, crashes>>
  BY DEF ManifestFails, unitVars, countVars, storageVars, worldVars
<1>2. /\ pc = "idle" /\ Manifest \in downloads
      /\ downloads' = downloads \ {Manifest} /\ arrived' = arrived \ {Manifest}
      /\ tempManifest' \in {tempManifest, Broken}
      /\ updateState' = "FAIL_TO_UPDATE" /\ updateEntry' = "NONE"
  BY DEF ManifestFails, Reported
<1>3. TypeOK /\ FilesOK /\ StageOK
  BY DEF FlowInv
<1>4. updateState = "DOWNLOADING_MANIFEST" /\ Version \notin downloads
  BY <1>2, <1>3 DEF StageOK
<1>5. TypeOK'
  BY <1>1, <1>2, <1>3 DEF TypeOK, States
<1>6. FilesOK'
  BY <1>1, <1>2, <1>3 DEF FilesOK
<1>7. StageOK'
  BY <1>1, <1>2, <1>3, <1>4 DEF StageOK
<1>8. ~Working /\ ~Working' /\ ~UnitsSet'
  BY <1>1, <1>2, <1>4 DEF Working, UnitsSet
<1>9. UnitsOK' /\ CountersMatch'
  BY <1>1, <1>2, <1>8, AssetDownloads, RestingFlow
<1>10. QED
  BY <1>5, <1>6, <1>7, <1>9 DEF FlowInv

LEMMA ParseManifestFlow == ASSUME FlowInv, ParseManifest PROVE FlowInv'
<1>1. /\ UNCHANGED <<local, own, temp, downloadUnits, failedUnits, queue, totalWaitToDownload,
                     totalToDownload, currConcurrentTask, percentByFile, nextSavePoint,
                     doubleRelease, unzipping>>
      /\ UNCHANGED <<storageManifest, storageFiles, package, published, crashes>>
  BY DEF ParseManifest, unitVars, countVars, storageVars, worldVars
<1>2. /\ pc = "idle" /\ Manifest \in arrived
      /\ downloads' = downloads \ {Manifest} /\ arrived' = arrived \ {Manifest}
      /\ updateEntry' \in {"NONE", updateEntry}
      /\ \/ UNCHANGED <<tempManifest, renamedManifest, tempFiles>>
         \/ RemoveTempDir
  BY DEF ParseManifest, Reported, tempDirVars
<1>3. \/ remote' = Cleared(remote) /\ updateState' = "UNCHECKED" /\ pc' = "idle"
      \/ /\ remote' = Parsed(remote, tempManifest) /\ tempManifest # Broken
         /\ \/ updateState' = "UP_TO_DATE" /\ pc' = "idle"
            \/ updateState' = "NEED_UPDATE" /\ pc' = "prepare"
  BY <1>2 DEF ParseManifest
<1>4. TypeOK /\ FilesOK /\ StageOK
  BY DEF FlowInv
<1>5. updateState = "DOWNLOADING_MANIFEST" /\ Version \notin downloads
  BY <1>2, <1>4 DEF StageOK, TypeOK
<1>6. tempManifest = Broken \/ tempManifest \in ManifestFile
  BY <1>2, <1>4 DEF StageOK
<1>7. remote' \in ManifestObject /\ (pc' = "prepare" => remote'.loaded)
  <2>1. CASE remote' = Cleared(remote) /\ pc' = "idle"
    BY <2>1, <1>4, ClearedProperties DEF FilesOK
  <2>2. CASE remote' = Parsed(remote, tempManifest) /\ tempManifest # Broken
    <3>1. remote \in ManifestObject /\ tempManifest \in ManifestFile
      BY <2>2, <1>4, <1>6 DEF FilesOK
    <3>2. Parsed(remote, tempManifest) \in ManifestObject /\ Parsed(remote, tempManifest).loaded
      BY <3>1, ParsedProperties
    <3>3. QED
      BY <2>2, <3>2
  <2>3. QED
    BY <1>3, <2>1, <2>2
<1>8. TypeOK'
  BY <1>1, <1>2, <1>3, <1>4 DEF TypeOK, States
<1>9. FilesOK'
  BY <1>1, <1>2, <1>4, <1>7 DEF FilesOK, RemoveTempDir, Contents
<1>10. StageOK'
  BY <1>1, <1>2, <1>3, <1>4, <1>5, <1>7 DEF StageOK
<1>11. ~Working /\ ~Working' /\ ~UnitsSet'
  BY <1>2, <1>3, <1>5 DEF Working, UnitsSet
<1>12. UnitsOK' /\ CountersMatch'
  BY <1>1, <1>2, <1>11, AssetDownloads, RestingFlow
<1>13. QED
  BY <1>8, <1>9, <1>10, <1>12 DEF FlowInv

\* The units of an update are set.
LEMMA PreparedFlow ==
  ASSUME FlowInv, pc = "prepare", NEW units \in SUBSET Assets, Prepared(units),
         UNCHANGED <<queue, currConcurrentTask, downloads, arrived, unzipping>>
  PROVE  /\ downloadUnits' = units /\ failedUnits' = {}
         /\ totalToDownload' \in Nat /\ totalWaitToDownload' = totalToDownload'
         /\ percentByFile' = 0 /\ nextSavePoint' = 0
         /\ \/ updateState' = "UPDATING" /\ pc' = "batch" /\ updateEntry' = updateEntry
            \/ updateState' = "READY_TO_UPDATE" /\ pc' = "idle" /\ updateEntry' = "NONE"
         /\ Version \notin downloads /\ Manifest \notin downloads /\ Manifest \notin arrived
         /\ UnitsOK' /\ CountersMatch'
<1>1. TypeOK /\ StageOK /\ updateState = "NEED_UPDATE"
  BY DEF FlowInv, StageOK
<1>2. Version \notin downloads /\ Manifest \notin downloads /\ Manifest \notin arrived
  BY <1>1 DEF StageOK, TypeOK
<1>3. Cardinality(units) \in Nat
  BY AssetsAssumption, FS_Subset, FS_CardinalityType
<1>4. /\ downloadUnits' = units /\ failedUnits' = {}
      /\ totalToDownload' = Cardinality(units) /\ totalWaitToDownload' = Cardinality(units)
      /\ percentByFile' = 0 /\ nextSavePoint' = 0
  BY DEF Prepared
<1>5. \/ updateState' = "UPDATING" /\ pc' = "batch" /\ updateEntry' = updateEntry
      \/ updateState' = "READY_TO_UPDATE" /\ pc' = "idle" /\ updateEntry' = "NONE"
  BY DEF Prepared
<1>6. ~Working /\ ~Working'
  BY <1>1, <1>5 DEF Working
<1>7. UnitsOK' /\ CountersMatch'
  BY <1>4, <1>6, AssetDownloads, RestingFlow
<1>8. QED
  BY <1>2, <1>3, <1>4, <1>5, <1>7

LEMMA ResumeUpdateFlow == ASSUME FlowInv, ResumeUpdate PROVE FlowInv'
<1>1. /\ UNCHANGED <<local, remote, own, temp, queue, currConcurrentTask, doubleRelease,
                     downloads, arrived, unzipping>>
      /\ UNCHANGED <<storageManifest, storageFiles, renamedManifest, tempFiles, package,
                     published, crashes>>
  BY DEF ResumeUpdate, storageVars, worldVars, downloadVars
<1>2. /\ pc = "prepare" /\ tempManifest' = Saved(TempManifest)
      /\ Prepared(ResumeAssets(TempManifest))
  BY DEF ResumeUpdate
<1>3. PICK units \in SUBSET Assets : units = ResumeAssets(TempManifest)
  BY DEF ResumeAssets
<1>4. TypeOK /\ FilesOK /\ StageOK
  BY DEF FlowInv
<1>5. tempManifest' \in ManifestFile
  BY <1>2, <1>4, SavedProperties, TempManifestObject
<1>6. /\ downloadUnits' = units /\ failedUnits' = {}
      /\ totalToDownload' \in Nat /\ totalWaitToDownload' = totalToDownload'
      /\ percentByFile' = 0 /\ nextSavePoint' = 0
      /\ \/ updateState' = "UPDATING" /\ pc' = "batch" /\ updateEntry' = updateEntry
         \/ updateState' = "READY_TO_UPDATE" /\ pc' = "idle" /\ updateEntry' = "NONE"
      /\ Version \notin downloads /\ Manifest \notin downloads /\ Manifest \notin arrived
      /\ UnitsOK' /\ CountersMatch'
  BY <1>1, <1>2, <1>3, PreparedFlow
<1>7. TypeOK'
  BY <1>1, <1>4, <1>6 DEF TypeOK, States
<1>8. FilesOK'
  BY <1>1, <1>4, <1>5, <1>6 DEF FilesOK
<1>9. StageOK'
  BY <1>1, <1>4, <1>6 DEF StageOK
<1>10. QED
  BY <1>6, <1>7, <1>8, <1>9 DEF FlowInv

LEMMA BeginUpdateFlow == ASSUME FlowInv, BeginUpdate PROVE FlowInv'
<1>1. /\ UNCHANGED <<local, own, queue, currConcurrentTask, downloads, arrived, unzipping>>
      /\ UNCHANGED <<storageManifest, storageFiles, package, published, crashes>>
  BY DEF BeginUpdate, storageVars, worldVars, downloadVars
<1>2. /\ pc = "prepare" /\ temp' = "remote"
      /\ \/ UNCHANGED <<renamedManifest, tempFiles>>
         \/ renamedManifest' = NoManifest /\ tempFiles' = [a \in Assets |-> NoFile]
  BY DEF BeginUpdate
<1>3. TypeOK /\ FilesOK /\ StageOK
  BY DEF FlowInv
<1>4. updateState = "NEED_UPDATE" /\ Version \notin downloads /\ Manifest \notin downloads
      /\ Manifest \notin arrived
  BY <1>2, <1>3 DEF StageOK, TypeOK
<1>5. renamedManifest' \in Versions \cup {NoManifest} /\ tempFiles' \in [Assets -> Contents]
  BY <1>2, <1>3 DEF FilesOK, Contents
<1>6. CASE Diff(local, remote.version) = {}
  <2>1. /\ pc' = "succeed" /\ downloadUnits' = {} /\ failedUnits' = {}
        /\ totalToDownload' = 0 /\ totalWaitToDownload' = 0
        /\ percentByFile' = 0 /\ nextSavePoint' = 0
        /\ UNCHANGED <<remote, updateState, updateEntry>>
        /\ tempManifest' \in {tempManifest, Saved(remote)}
    BY <1>6 DEF BeginUpdate
  <2>2. tempManifest' \in ManifestFile \cup {NoManifest, Broken}
    BY <2>1, <1>3, SavedProperties DEF FilesOK
  <2>3. TypeOK'
    BY <1>1, <1>2, <1>3, <2>1 DEF TypeOK, States
  <2>4. FilesOK'
    BY <1>1, <1>3, <1>5, <2>1, <2>2 DEF FilesOK
  <2>5. StageOK'
    BY <1>1, <1>3, <1>4, <2>1 DEF StageOK
  <2>6. ~Working /\ ~Working' /\ ~UnitsSet'
    BY <1>4, <2>1 DEF Working, UnitsSet
  <2>7. UnitsOK' /\ CountersMatch'
    BY <1>1, <2>6, AssetDownloads, RestingFlow
  <2>8. QED
    BY <2>3, <2>4, <2>5, <2>7 DEF FlowInv
<1>7. CASE Diff(local, remote.version) # {}
  <2>1. PICK units \in SUBSET Assets : units = Updated(local, remote.version)
    BY DEF Updated, Diff
  <2>2. PICK marked : marked = WithUpdating(Marked(remote, units, "UNSTARTED"), TRUE)
    OBVIOUS
  <2>3. remote' = marked /\ tempManifest' = Saved(marked) /\ Prepared(units)
    BY <1>7, <2>1, <2>2 DEF BeginUpdate
  <2>4. Marked(remote, units, "UNSTARTED") \in ManifestObject
    BY <1>3, MarkedProperties DEF FilesOK, Marks
  <2>5. marked \in ManifestObject
    BY <2>2, <2>4, WithUpdatingProperties
  <2>6. tempManifest' \in ManifestFile
    BY <2>3, <2>5, SavedProperties
  <2>7. /\ downloadUnits' = units /\ failedUnits' = {}
        /\ totalToDownload' \in Nat /\ totalWaitToDownload' = totalToDownload'
        /\ percentByFile' = 0 /\ nextSavePoint' = 0
        /\ \/ updateState' = "UPDATING" /\ pc' = "batch" /\ updateEntry' = updateEntry
           \/ updateState' = "READY_TO_UPDATE" /\ pc' = "idle" /\ updateEntry' = "NONE"
        /\ UnitsOK' /\ CountersMatch'
    BY <1>1, <1>2, <2>3, PreparedFlow
  <2>8. TypeOK'
    BY <1>1, <1>2, <1>3, <2>7 DEF TypeOK, States
  <2>9. FilesOK'
    BY <1>1, <1>3, <1>5, <2>3, <2>5, <2>6, <2>7 DEF FilesOK
  <2>10. StageOK'
    BY <1>1, <1>3, <1>4, <2>7 DEF StageOK
  <2>11. QED
    BY <2>7, <2>8, <2>9, <2>10 DEF FlowInv
<1>8. QED
  BY <1>6, <1>7

LEMMA BatchDownloadFlow == ASSUME FlowInv, BatchDownload PROVE FlowInv'
<1>1. /\ UNCHANGED <<updateState, updateEntry, local, remote, own, temp, downloadUnits,
                     failedUnits, totalWaitToDownload, totalToDownload, currConcurrentTask,
                     percentByFile, nextSavePoint, doubleRelease, downloads, arrived, unzipping>>
      /\ UNCHANGED <<storageManifest, storageFiles, tempManifest, renamedManifest, tempFiles,
                     package, published, crashes>>
      /\ pc = "batch" /\ pc' = "queue" /\ queue' = downloadUnits
  BY DEF BatchDownload, stateVars, countVars, downloadVars, storageVars, tempDirVars, worldVars
<1>2. TypeOK /\ FilesOK /\ StageOK /\ UnitsOK
  BY DEF FlowInv
<1>3. /\ ~Working /\ UnitsSet /\ updateState = "UPDATING"
      /\ totalWaitToDownload = Cardinality(downloadUnits)
  BY <1>1, <1>2 DEF Working, UnitsSet, UnitsOK, StageOK
<1>4. InFlight = {} /\ InFlight' = InFlight /\ currConcurrentTask = 0
  BY <1>1, <1>2, <1>3 DEF UnitsOK, InFlight
<1>5. TypeOK'
  BY <1>1, <1>2 DEF TypeOK
<1>6. FilesOK'
  BY <1>1, <1>2 DEF FilesOK
<1>7. StageOK'
  BY <1>1, <1>2 DEF StageOK
<1>8. UnitsOK'
  BY <1>1, <1>2, <1>3 DEF UnitsOK, Working, UnitsSet
<1>9. CountersMatch'
  <2>1. Cardinality(InFlight) = 0 /\ Cardinality(downloadUnits) \in Nat
    BY <1>2, <1>4, FS_EmptySet, UnitSetsFinite
  <2>2. QED
    BY <1>1, <1>3, <1>4, <2>1 DEF CountersMatch
<1>10. QED
  BY <1>5, <1>6, <1>7, <1>8, <1>9 DEF FlowInv

LEMMA SmallestAndLargest ==
  ASSUME NEW m \in Int, NEW n \in Int
  PROVE  /\ Min({m, n}) \in {m, n} /\ Min({m, n}) <= m /\ Min({m, n}) <= n
         /\ Max({m, n}) \in {m, n} /\ Max({m, n}) >= m /\ Max({m, n}) >= n
<1>1. \E x \in {m, n} : \A y \in {m, n} : x <= y
  OBVIOUS
<1>2. \E x \in {m, n} : \A y \in {m, n} : x >= y
  OBVIOUS
<1>3. QED
  BY <1>1, <1>2 DEF Min, Max

LEMMA QueueDownloadFlow == ASSUME FlowInv, QueueDownload PROVE FlowInv'
<1>1. /\ UNCHANGED <<updateState, updateEntry, local, temp, downloadUnits, failedUnits,
                     totalWaitToDownload, totalToDownload, percentByFile, doubleRelease>>
      /\ UNCHANGED <<storageManifest, storageFiles, renamedManifest, tempFiles, package,
                     published, crashes>>
      /\ pc = "queue"
  BY DEF QueueDownload, storageVars, worldVars
<1>2. TypeOK /\ FilesOK /\ StageOK /\ UnitsOK /\ CountersMatch
  BY DEF FlowInv
<1>3. updateState = "UPDATING" /\ Working
  BY <1>1, <1>2 DEF StageOK, Working
<1>4. Version \notin downloads /\ Manifest \notin downloads /\ Manifest \notin arrived
  BY <1>2, <1>3 DEF StageOK, TypeOK
<1>5. /\ totalWaitToDownload = Cardinality(queue) + Cardinality(InFlight)
      /\ currConcurrentTask = Cardinality(InFlight)
      /\ queue \cap InFlight = {}
  BY <1>1, <1>2, <1>3 DEF CountersMatch, Working
<1>6. /\ Cardinality(queue) \in Nat /\ Cardinality(InFlight) \in Nat
      /\ IsFiniteSet(queue) /\ IsFiniteSet(InFlight)
  BY <1>2, UnitSetsFinite
<1>7. CASE /\ totalWaitToDownload = 0
           /\ pc' = "finished"
           /\ UNCHANGED <<remote, own, queue, currConcurrentTask, nextSavePoint, downloadVars,
                          tempManifest>>
  <2>1. UNCHANGED <<downloads, arrived, unzipping>>
    BY <1>7 DEF downloadVars
  <2>2. Cardinality(queue) = 0 /\ Cardinality(InFlight) = 0
    BY <1>5, <1>6, <1>7
  <2>3. queue = {} /\ InFlight = {} /\ currConcurrentTask = 0
    BY <1>5, <1>6, <2>2, FS_EmptySet
  <2>4. InFlight' = InFlight
    BY <2>1 DEF InFlight
  <2>5. TypeOK'
    BY <1>1, <1>2, <1>7, <2>1 DEF TypeOK
  <2>6. FilesOK'
    BY <1>1, <1>2, <1>7 DEF FilesOK
  <2>7. StageOK'
    BY <1>1, <1>2, <1>3, <1>4, <1>7, <2>1 DEF StageOK
  <2>8. UnitsOK' /\ CountersMatch'
    BY <1>1, <1>2, <1>3, <1>7, <2>1, <2>3, <2>4 DEF UnitsOK, CountersMatch, Working, UnitsSet
  <2>9. QED
    BY <2>5, <2>6, <2>7, <2>8 DEF FlowInv
<1>8. CASE totalWaitToDownload # 0 /\ pc' = "idle"
  <2>1. PICK S \in SUBSET queue :
             /\ Cardinality(S) = Min({Cardinality(queue), Room})
             /\ queue' = queue \ S
             /\ currConcurrentTask' = currConcurrentTask + Cardinality(S)
             /\ Download(S)
             /\ SetTempManifest(Marked(TempManifest, S, "DOWNLOADING"))
             /\ \/ /\ tempManifest' = Saved(Marked(TempManifest, S, "DOWNLOADING"))
                   /\ nextSavePoint' = nextSavePoint + 1
                \/ UNCHANGED <<tempManifest, nextSavePoint>>
    BY <1>8 DEF QueueDownload
  <2>2. downloads' = downloads \cup S /\ UNCHANGED <<arrived, unzipping>>
    BY <2>1 DEF Download
  <2>3. queue \subseteq Assets /\ unzipping \subseteq Assets
    BY <1>2, AssetsAssumption DEF TypeOK
  <2>4. InFlight' = InFlight \cup S
    BY <2>2, <2>3 DEF InFlight
  <2>5. S \cap InFlight = {} /\ S \cap unzipping = {}
    BY <1>5 DEF InFlight
  <2>6. IsFiniteSet(S) /\ Cardinality(S) \in Nat
    BY <1>6, FS_Subset, FS_CardinalityType
  <2>7. Cardinality(queue \ S) = Cardinality(queue) - Cardinality(S)
    <3>1. queue \cap S = S
      OBVIOUS
    <3>2. QED
      BY <3>1, <1>6, FS_Difference
  <2>8. Cardinality(InFlight \cup S) = Cardinality(InFlight) + Cardinality(S)
    <3>1. Cardinality(InFlight \cap S) = 0
      BY <2>5, FS_EmptySet
    <3>2. Cardinality(InFlight \cup S)
            = Cardinality(InFlight) + Cardinality(S) - Cardinality(InFlight \cap S)
      BY <1>6, <2>6, FS_Union
    <3>3. QED
      BY <3>1, <3>2, <1>6, <2>6
  <2>9. Room = MaxConcurrent - currConcurrentTask /\ currConcurrentTask \in 0..MaxConcurrent
        /\ MaxConcurrent \in Nat
    BY <1>2, BoundAssumption DEF Room, TypeOK
  <2>10. currConcurrentTask' \in 0..MaxConcurrent
    <3>1. Cardinality(S) <= Room
      BY <1>6, <2>1, <2>9, SmallestAndLargest
    <3>2. QED
      BY <2>1, <2>6, <2>9, <3>1
  <2>11. /\ own' \in ManifestObject /\ remote' \in ManifestObject
         /\ remote'.loaded = remote.loaded
    BY <1>1, <1>2, <2>1, MarkedTemp DEF Marks
  <2>12. Saved(Marked(TempManifest, S, "DOWNLOADING")) \in ManifestFile
    BY <1>2, TempManifestObject, MarkedProperties, SavedProperties DEF Marks
  <2>13. TypeOK'
    BY <1>1, <1>2, <1>8, <2>1, <2>2, <2>3, <2>10 DEF TypeOK
  <2>14. FilesOK'
    <3>1. nextSavePoint' \in Nat /\ tempManifest' \in ManifestFile \cup {NoManifest, Broken}
      BY <1>2, <2>1, <2>12 DEF FilesOK
    <3>2. QED
      BY <1>1, <1>2, <2>11, <3>1 DEF FilesOK
  <2>15. StageOK'
    <3>1. Version \notin downloads' /\ Manifest \notin downloads'
      BY <1>4, <2>2, <2>3, NamesAssumption
    <3>2. QED
      BY <1>1, <1>2, <1>3, <1>4, <1>8, <2>2, <3>1 DEF StageOK
  <2>16. UnitsOK'
    <3>1. downloads' \cap unzipping' = {}
      BY <1>2, <2>2, <2>5 DEF UnitsOK
    <3>2. Working' /\ ~UnitsSet'
      BY <1>1, <1>3, <1>8 DEF Working, UnitsSet
    <3>3. QED
      BY <3>1, <3>2 DEF UnitsOK
  <2>17. CountersMatch'
    <3>1. totalWaitToDownload' > 0
      BY <1>1, <1>2, <1>8 DEF TypeOK, FilesOK
    <3>2. queue' \cap InFlight' = {}
      BY <1>5, <2>1, <2>4
    <3>3. currConcurrentTask' = Cardinality(InFlight')
      BY <1>5, <2>1, <2>4, <2>8
    <3>4. totalWaitToDownload' = Cardinality(queue') + Cardinality(InFlight')
      BY <1>1, <1>5, <1>6, <2>1, <2>4, <2>6, <2>7, <2>8
    <3>5. QED
      BY <3>1, <3>2, <3>3, <3>4 DEF CountersMatch
  <2>18. QED
    BY <2>13, <2>14, <2>15, <2>16, <2>17 DEF FlowInv
<1>9. QED
  BY <1>7, <1>8 DEF QueueDownload

\* The download of an asset is under way only while an update downloads its units.
LEMMA FlightIsWork ==
  ASSUME FlowInv, NEW a \in InFlight
  PROVE  /\ updateState = "UPDATING" /\ pc \in {"idle", "queue"}
         /\ Version \notin downloads /\ Manifest \notin downloads /\ Manifest \notin arrived
<1>1. Working
  BY DEF FlowInv, UnitsOK
<1>2. QED
  BY <1>1 DEF Working, FlowInv, StageOK, TypeOK

LEMMA AssetArrivesFlow ==
  ASSUME FlowInv, NEW a \in Assets, AssetArrives(a) PROVE FlowInv'
<1>1. /\ UNCHANGED <<updateState, updateEntry, local, remote, own, temp, downloadUnits,
                     failedUnits, queue, totalWaitToDownload, totalToDownload,
                     currConcurrentTask, percentByFile, nextSavePoint, pc, doubleRelease,
                     downloads, unzipping>>
      /\ UNCHANGED <<storageManifest, storageFiles, tempManifest, renamedManifest, package,
                     published, crashes>>
  BY DEF AssetArrives, stateVars, unitVars, countVars, storageVars, worldVars
<1>2. /\ a \in downloads /\ arrived' = arrived \cup {a}
      /\ tempFiles' \in {tempFiles, [tempFiles EXCEPT ![a] = Md5[remote.version][a]]}
  BY DEF AssetArrives
<1>3. TypeOK /\ FilesOK /\ StageOK
  BY DEF FlowInv
<1>4. TypeOK'
  BY <1>1, <1>2, <1>3 DEF TypeOK
<1>5. FilesOK'
  <2>1. remote.version \in Versions
    BY <1>3 DEF FilesOK, ManifestObject
  <2>2. Md5[remote.version][a] \in Contents
    BY <2>1 DEF Contents
  <2>3. tempFiles' \in [Assets -> Contents]
    BY <1>2, <1>3, <2>2 DEF FilesOK
  <2>4. QED
    BY <1>1, <1>3, <2>3 DEF FilesOK
<1>6. StageOK'
  BY <1>1, <1>2, <1>3, NamesAssumption DEF StageOK
<1>7. UnitsOK' /\ CountersMatch'
  BY <1>1, QuietFlow, AssetDownloads DEF Working, UnitsSet
<1>8. QED
  BY <1>4, <1>5, <1>6, <1>7 DEF FlowInv

\* fileError and fileSuccess, and what the step around them does with the task.
LEMMA UnitEnds ==
  ASSUME FlowInv, NEW a \in Assets, a \in InFlight, pc = "idle",
         NEW mark \in Marks, SetTempManifest(Marked(TempManifest, {a}, mark)),
         TaskEnded, totalWaitToDownload' = totalWaitToDownload - 1, pc' = "queue",
         updateEntry' \in {"NONE", updateEntry}, failedUnits' \subseteq failedUnits \cup {a},
         percentByFile' \in {percentByFile, totalToDownload - totalWaitToDownload'},
         UNCHANGED <<updateState, local, temp, downloadUnits, queue, totalToDownload,
                     nextSavePoint, storageManifest, storageFiles, tempManifest,
                     renamedManifest, package, published, crashes>>,
         downloads' = downloads \ {a}, arrived' = arrived \ {a}, unzipping' = unzipping \ {a},
         tempFiles' \in [Assets -> Contents]
  PROVE  FlowInv'
<1>1. TypeOK /\ FilesOK /\ StageOK /\ UnitsOK /\ CountersMatch
  BY DEF FlowInv
<1>2. /\ updateState = "UPDATING"
      /\ Version \notin downloads /\ Manifest \notin downloads /\ Manifest \notin arrived
  BY FlightIsWork
<1>3. /\ totalWaitToDownload = Cardinality(queue) + Cardinality(InFlight)
      /\ currConcurrentTask = Cardinality(InFlight)
      /\ queue \cap InFlight = {}
  BY <1>1, <1>2 DEF CountersMatch
<1>4. IsFiniteSet(InFlight) /\ Cardinality(queue) \in Nat /\ Cardinality(InFlight) \in Nat
  BY <1>1, UnitSetsFinite
<1>5. InFlight' = InFlight \ {a}
  BY DEF InFlight
<1>6. Cardinality(InFlight \ {a}) = Cardinality(InFlight) - 1
  BY <1>4, FS_RemoveElement
<1>7. Cardinality(InFlight \ {a}) \in Nat
  BY <1>4, FS_RemoveElement, FS_CardinalityType
<1>8. currConcurrentTask' = currConcurrentTask - 1
  <2>1. PICK n \in Int : n = currConcurrentTask - 1 /\ n >= 0
    BY <1>3, <1>4, <1>6, <1>7
  <2>2. Max({0, n}) \in {0, n} /\ Max({0, n}) >= 0 /\ Max({0, n}) >= n
    <3>1. \A k \in Int : Max({k, n}) \in {k, n} /\ Max({k, n}) >= k /\ Max({k, n}) >= n
      BY SmallestAndLargest
    <3>2. QED
      BY <3>1
  <2>3. Max({0, n}) = n
    BY <2>1, <2>2
  <2>4. QED
    BY <2>1, <2>3 DEF TaskEnded
<1>9. /\ own' \in ManifestObject /\ remote' \in ManifestObject
      /\ remote'.loaded = remote.loaded
  BY <1>1, MarkedTemp
<1>10. TypeOK'
  <2>1. totalToDownload \in Nat /\ totalWaitToDownload \in 0..totalToDownload
        /\ percentByFile \in 0..totalToDownload
    BY <1>1 DEF TypeOK, FilesOK
  <2>2. totalWaitToDownload - 1 >= 0
    BY <1>3, <1>4, <1>6, <1>7
  <2>3. totalWaitToDownload' \in 0..totalToDownload
    BY <2>1, <2>2
  <2>4. percentByFile' \in 0..totalToDownload
    BY <2>1, <2>3
  <2>5. currConcurrentTask' \in 0..MaxConcurrent
    BY <1>1, <1>3, <1>4, <1>6, <1>7, <1>8, BoundAssumption DEF TypeOK
  <2>6. QED
    BY <1>1, <2>3, <2>4, <2>5 DEF TypeOK
<1>11. FilesOK'
  BY <1>1, <1>9 DEF FilesOK
<1>12. StageOK'
  BY <1>1, <1>2 DEF StageOK
<1>13. UnitsOK'
  BY <1>1, <1>2 DEF UnitsOK, Working, UnitsSet
<1>14. CountersMatch'
  BY <1>3, <1>4, <1>5, <1>6, <1>8 DEF CountersMatch
<1>15. QED
  BY <1>10, <1>11, <1>12, <1>13, <1>14 DEF FlowInv

\* What fileError and fileSuccess do, for UnitEnds.
LEMMA FileEnds ==
  ASSUME NEW a \in Assets, FileError(a) \/ FileSuccess(a)
  PROVE  /\ \E mark \in {"UNSTARTED", "SUCCESSED"} :
              SetTempManifest(Marked(TempManifest, {a}, mark))
         /\ TaskEnded /\ totalWaitToDownload' = totalWaitToDownload - 1 /\ pc' = "queue"
         /\ updateEntry' \in {"NONE", updateEntry} /\ failedUnits' \subseteq failedUnits \cup {a}
         /\ percentByFile' \in {percentByFile, totalToDownload - totalWaitToDownload'}
BY DEF FileError, FileSuccess, Failed

LEMMA AssetFailsFlow ==
  ASSUME FlowInv, NEW a \in Assets, AssetFails(a) PROVE FlowInv'
<1>1. /\ UNCHANGED <<updateState, local, temp, downloadUnits, queue, totalToDownload,
                     nextSavePoint, doubleRelease, unzipping>>
      /\ UNCHANGED <<storageManifest, storageFiles, tempManifest, renamedManifest, package,
                     published, crashes>>
      /\ pc = "idle" /\ a \in downloads
      /\ downloads' = downloads \ {a} /\ arrived' = arrived \ {a}
      /\ tempFiles' \in {tempFiles, [tempFiles EXCEPT ![a] = Broken]}
      /\ FileError(a)
  BY DEF AssetFails, Reported, storageVars, worldVars
<1>2. a \in InFlight
  BY <1>1 DEF InFlight
<1>3. unzipping' = unzipping \ {a}
  BY <1>1, AssetDownloads
<1>4. tempFiles' \in [Assets -> Contents]
  BY <1>1 DEF FlowInv, FilesOK, Contents
<1>5. PICK mark \in Marks : SetTempManifest(Marked(TempManifest, {a}, mark))
  BY <1>1, FileEnds DEF Marks
<1>6. /\ TaskEnded /\ totalWaitToDownload' = totalWaitToDownload - 1 /\ pc' = "queue"
      /\ updateEntry' \in {"NONE", updateEntry} /\ failedUnits' \subseteq failedUnits \cup {a}
      /\ percentByFile' \in {percentByFile, totalToDownload - totalWaitToDownload'}
  BY <1>1, FileEnds
<1>7. QED
  BY <1>1, <1>2, <1>3, <1>4, <1>5, <1>6, UnitEnds

LEMMA AssetSucceedsFlow ==
  ASSUME FlowInv, NEW a \in Assets, AssetSucceeds(a) PROVE FlowInv'
<1>1. /\ UNCHANGED <<updateState, local, temp, downloadUnits, queue, totalToDownload,
                     nextSavePoint, doubleRelease>>
      /\ UNCHANGED <<storageManifest, storageFiles, tempManifest, renamedManifest, tempFiles,
                     package, published, crashes>>
      /\ pc = "idle" /\ a \in arrived
      /\ downloads' = downloads \ {a} /\ arrived' = arrived \ {a}
  BY DEF AssetSucceeds, Reported, storageVars, tempDirVars, worldVars
<1>2. TypeOK /\ FilesOK /\ StageOK /\ UnitsOK /\ CountersMatch
  BY DEF FlowInv
<1>3. a \in downloads /\ a \in InFlight /\ a \notin unzipping
  BY <1>1, <1>2, AssetDownloads DEF TypeOK, InFlight
<1>4. CASE (FileError(a) \/ FileSuccess(a)) /\ unzipping' = unzipping
  <2>1. unzipping' = unzipping \ {a}
    BY <1>3, <1>4
  <2>2. tempFiles' \in [Assets -> Contents]
    BY <1>1, <1>2 DEF FilesOK
  <2>3. PICK mark \in Marks : SetTempManifest(Marked(TempManifest, {a}, mark))
    BY <1>4, FileEnds DEF Marks
  <2>4. /\ TaskEnded /\ totalWaitToDownload' = totalWaitToDownload - 1 /\ pc' = "queue"
        /\ updateEntry' \in {"NONE", updateEntry} /\ failedUnits' \subseteq failedUnits \cup {a}
        /\ percentByFile' \in {percentByFile, totalToDownload - totalWaitToDownload'}
    BY <1>4, FileEnds
  <2>5. QED
    BY <1>1, <1>3, <2>1, <2>2, <2>3, <2>4, UnitEnds
<1>5. CASE /\ a \in Compressed
           /\ unzipping' = unzipping \cup {a}
           /\ UNCHANGED <<updateEntry, remote, own, failedUnits, totalWaitToDownload,
                          percentByFile, currConcurrentTask, pc>>
  <2>1. InFlight' = InFlight
    BY <1>1, <1>3, <1>5 DEF InFlight
  <2>2. TypeOK'
    BY <1>1, <1>2, <1>5 DEF TypeOK
  <2>3. FilesOK'
    BY <1>1, <1>2, <1>5 DEF FilesOK
  <2>4. StageOK'
    BY <1>1, <1>2, <1>5 DEF StageOK
  <2>5. UnitsOK'
    BY <1>1, <1>2, <1>5, <2>1 DEF UnitsOK, Working, UnitsSet
  <2>6. CountersMatch'
    BY <1>1, <1>2, <1>5, <2>1 DEF CountersMatch
  <2>7. QED
    BY <2>2, <2>3, <2>4, <2>5, <2>6 DEF FlowInv
<1>6. QED
  BY <1>4, <1>5 DEF AssetSucceeds

LEMMA DecompressFinishedFlow ==
  ASSUME FlowInv, NEW a \in Assets, DecompressFinished(a) PROVE FlowInv'
<1>1. /\ UNCHANGED <<updateState, local, temp, downloadUnits, queue, totalToDownload,
                     nextSavePoint, doubleRelease, downloads, arrived>>
      /\ UNCHANGED <<storageManifest, storageFiles, tempManifest, renamedManifest, package,
                     published, crashes>>
      /\ pc = "idle" /\ a \in unzipping /\ unzipping' = unzipping \ {a}
      /\ tempFiles' \in {[tempFiles EXCEPT ![a] = Md5[remote.version][a]],
                         [tempFiles EXCEPT ![a] = Broken]}
      /\ FileError(a) \/ FileSuccess(a)
  BY DEF DecompressFinished, storageVars, worldVars
<1>2. TypeOK /\ FilesOK
  BY DEF FlowInv
<1>3. a \in InFlight
  BY <1>1 DEF InFlight
<1>4. downloads' = downloads \ {a} /\ arrived' = arrived \ {a}
  BY <1>1, <1>2, AssetDownloads DEF TypeOK
<1>5. tempFiles' \in [Assets -> Contents]
  <2>1. remote.version \in Versions
    BY <1>2 DEF FilesOK, ManifestObject
  <2>2. Md5[remote.version][a] \in Contents /\ Broken \in Contents
    BY <2>1 DEF Contents
  <2>3. QED
    BY <1>1, <1>2, <2>2 DEF FilesOK
<1>6. PICK mark \in Marks : SetTempManifest(Marked(TempManifest, {a}, mark))
  BY <1>1, FileEnds DEF Marks
<1>7. /\ TaskEnded /\ totalWaitToDownload' = totalWaitToDownload - 1 /\ pc' = "queue"
      /\ updateEntry' \in {"NONE", updateEntry} /\ failedUnits' \subseteq failedUnits \cup {a}
      /\ percentByFile' \in {percentByFile, totalToDownload - totalWaitToDownload'}
  BY <1>1, FileEnds
<1>8. QED
  BY <1>1, <1>3, <1>4, <1>5, <1>6, <1>7, UnitEnds

LEMMA DownloadUnitsFinishedFlow == ASSUME FlowInv, DownloadUnitsFinished PROVE FlowInv'
<1>1. /\ UNCHANGED <<local, remote, own, temp, downloadUnits, failedUnits, queue,
                     totalWaitToDownload, totalToDownload, currConcurrentTask, percentByFile,
                     nextSavePoint, doubleRelease, downloads, arrived, unzipping>>
      /\ UNCHANGED <<storageManifest, storageFiles, renamedManifest, tempFiles, package,
                     published, crashes>>
      /\ pc = "finished" /\ tempManifest' = Saved(TempManifest)
      /\ \/ updateState' = "FAIL_TO_UPDATE" /\ updateEntry' = "NONE" /\ pc' = "idle"
         \/ pc' = "succeed" /\ updateState' = updateState /\ updateEntry' = updateEntry
  BY DEF DownloadUnitsFinished, unitVars, countVars, downloadVars, storageVars, worldVars
<1>2. TypeOK /\ FilesOK /\ StageOK
  BY DEF FlowInv
<1>3. /\ updateState = "UPDATING"
      /\ Version \notin downloads /\ Manifest \notin downloads /\ Manifest \notin arrived
  BY <1>1, <1>2 DEF StageOK, TypeOK
<1>4. tempManifest' \in ManifestFile
  BY <1>1, <1>2, TempManifestObject, SavedProperties
<1>5. TypeOK'
  BY <1>1, <1>2 DEF TypeOK, States
<1>6. FilesOK'
  BY <1>1, <1>2, <1>4 DEF FilesOK
<1>7. StageOK'
  BY <1>1, <1>2, <1>3 DEF StageOK
<1>8. ~Working /\ ~Working' /\ ~UnitsSet'
  BY <1>1, <1>3 DEF Working, UnitsSet
<1>9. UnitsOK' /\ CountersMatch'
  BY <1>1, <1>8, AssetDownloads, RestingFlow
<1>10. QED
  BY <1>5, <1>6, <1>7, <1>9 DEF FlowInv

LEMMA RenameTempManifestFlow == ASSUME FlowInv, RenameTempManifest PROVE FlowInv'
<1>1. /\ UNCHANGED <<updateState, updateEntry, local, temp, downloadUnits, failedUnits, queue,
                     totalWaitToDownload, totalToDownload, currConcurrentTask, percentByFile,
                     nextSavePoint, doubleRelease, downloads, arrived, unzipping>>
      /\ UNCHANGED <<storageManifest, storageFiles, tempFiles, package, published, crashes>>
      /\ pc = "succeed" /\ pc' = "merge"
      /\ SetTempManifest(WithUpdating(TempManifest, FALSE))
  BY DEF RenameTempManifest, unitVars, countVars, downloadVars, storageVars, worldVars
<1>2. TypeOK /\ FilesOK /\ StageOK
  BY DEF FlowInv
<1>3. /\ updateState \in {"UPDATING", "NEED_UPDATE"}
      /\ Version \notin downloads /\ Manifest \notin downloads /\ Manifest \notin arrived
  BY <1>1, <1>2 DEF StageOK, TypeOK
<1>4. tempManifest' = NoManifest /\ renamedManifest' \in Versions \cup {NoManifest}
  <2>1. CASE tempManifest = NoManifest
    BY <2>1, <1>1, <1>2 DEF RenameTempManifest, FilesOK
  <2>2. CASE tempManifest # NoManifest
    <3>1. tempManifest = Broken \/ tempManifest.version \in Versions
      BY <2>2, <1>2 DEF FilesOK, ManifestFile
    <3>2. QED
      BY <2>2, <3>1 DEF RenameTempManifest, TempManifestRenamed
  <2>3. QED
    BY <2>1, <2>2
<1>5. own' \in ManifestObject /\ remote' \in ManifestObject
  <2>1. WithUpdating(TempManifest, FALSE) \in ManifestObject
    BY <1>2, TempManifestObject, WithUpdatingProperties
  <2>2. QED
    BY <1>1, <1>2, <2>1 DEF SetTempManifest, FilesOK
<1>6. TypeOK'
  BY <1>1, <1>2 DEF TypeOK, States
<1>7. FilesOK'
  BY <1>1, <1>2, <1>4, <1>5 DEF FilesOK
<1>8. StageOK'
  BY <1>1, <1>2, <1>3, <1>4 DEF StageOK
<1>9. ~Working /\ ~Working' /\ ~UnitsSet'
  BY <1>1, <1>3 DEF Working, UnitsSet
<1>10. UnitsOK' /\ CountersMatch'
  BY <1>1, <1>9, AssetDownloads, RestingFlow
<1>11. QED
  BY <1>6, <1>7, <1>8, <1>10 DEF FlowInv

LEMMA MergeFileFlow == ASSUME FlowInv, MergeFile PROVE FlowInv'
<1>1. /\ UNCHANGED <<updateState, updateEntry, local, remote, own, temp, downloadUnits,
                     failedUnits, queue, totalWaitToDownload, totalToDownload,
                     currConcurrentTask, percentByFile, nextSavePoint, pc, doubleRelease,
                     downloads, arrived, unzipping>>
      /\ UNCHANGED <<tempManifest, package, published, crashes>>
  BY DEF MergeFile, stateVars, unitVars, countVars, downloadVars, worldVars
<1>2. TypeOK /\ FilesOK /\ StageOK
  BY DEF FlowInv
<1>3. /\ storageManifest' \in Versions \cup {NoManifest}
      /\ renamedManifest' \in Versions \cup {NoManifest}
  BY <1>2 DEF MergeFile, FilesOK
<1>4. tempFiles' \in [Assets -> Contents] /\ storageFiles' \in [Assets -> Contents]
  <2>1. \A a \in Assets : tempFiles[a] \in Contents /\ NoFile \in Contents
    BY <1>2 DEF FilesOK, Contents
  <2>2. QED
    BY <1>2, <2>1 DEF MergeFile, FilesOK
<1>5. TypeOK'
  BY <1>1, <1>2 DEF TypeOK
<1>6. FilesOK'
  BY <1>1, <1>2, <1>3, <1>4 DEF FilesOK
<1>7. StageOK'
  BY <1>1, <1>2 DEF StageOK
<1>8. UnitsOK' /\ CountersMatch'
  BY <1>1, QuietFlow, AssetDownloads DEF Working, UnitsSet
<1>9. QED
  BY <1>5, <1>6, <1>7, <1>8 DEF FlowInv

LEMMA SwapLocalManifestFlow == ASSUME FlowInv, SwapLocalManifest PROVE FlowInv'
<1>1. /\ UNCHANGED <<remote, own, temp, downloadUnits, failedUnits, queue,
                     totalWaitToDownload, totalToDownload, currConcurrentTask, percentByFile,
                     nextSavePoint, doubleRelease, downloads, arrived, unzipping>>
      /\ UNCHANGED <<storageManifest, package, published, crashes>>
      /\ pc = "merge" /\ pc' = "idle" /\ local' = remote.version
      /\ updateState' = "UP_TO_DATE" /\ updateEntry' = "NONE"
      /\ RemoveTempDir
      /\ storageFiles' = [a \in Assets |->
                            IF a \in Diff(local, remote.version)
                               /\ Md5[remote.version][a] = NoFile
                            THEN NoFile ELSE storageFiles[a]]
  BY DEF SwapLocalManifest, unitVars, countVars, downloadVars, worldVars
<1>2. TypeOK /\ FilesOK /\ StageOK
  BY DEF FlowInv
<1>3. /\ updateState \in {"UPDATING", "NEED_UPDATE"}
      /\ Version \notin downloads /\ Manifest \notin downloads /\ Manifest \notin arrived
  BY <1>1, <1>2 DEF StageOK, TypeOK
<1>4. local' \in Versions
  BY <1>1, <1>2 DEF FilesOK, ManifestObject
<1>5. storageFiles' \in [Assets -> Contents]
  <2>1. \A a \in Assets : storageFiles[a] \in Contents /\ NoFile \in Contents
    BY <1>2 DEF FilesOK, Contents
  <2>2. QED
    BY <1>1, <2>1
<1>6. /\ tempFiles' \in [Assets -> Contents]
      /\ tempManifest' = NoManifest /\ renamedManifest' = NoManifest
  BY <1>1 DEF RemoveTempDir, Contents
<1>7. TypeOK'
  BY <1>1, <1>2, <1>4 DEF TypeOK, States
<1>8. FilesOK'
  BY <1>1, <1>2, <1>5, <1>6 DEF FilesOK
<1>9. StageOK'
  BY <1>1, <1>2, <1>3 DEF StageOK
<1>10. ~Working /\ ~Working' /\ ~UnitsSet'
  BY <1>1 DEF Working, UnitsSet
<1>11. UnitsOK' /\ CountersMatch'
  BY <1>1, <1>10, AssetDownloads, RestingFlow
<1>12. QED
  BY <1>7, <1>8, <1>9, <1>11 DEF FlowInv

LEMMA PublishFlow == ASSUME FlowInv, Publish PROVE FlowInv'
<1>1. /\ UNCHANGED <<updateState, updateEntry, local, remote, own, temp, downloadUnits,
                     failedUnits, queue, totalWaitToDownload, totalToDownload,
                     currConcurrentTask, percentByFile, nextSavePoint, pc, doubleRelease,
                     downloads, arrived, unzipping>>
      /\ UNCHANGED <<storageManifest, storageFiles, tempManifest, renamedManifest, tempFiles,
                     package, crashes>>
      /\ published < MaxVersion /\ published' = published + 1
  BY DEF Publish, stateVars, unitVars, countVars, downloadVars, storageVars, tempDirVars
<1>2. TypeOK /\ FilesOK /\ StageOK
  BY DEF FlowInv
<1>3. published' \in Versions
  BY <1>1, <1>2, VersionAssumption DEF TypeOK, Versions
<1>4. TypeOK'
  BY <1>1, <1>2, <1>3 DEF TypeOK
<1>5. FilesOK'
  BY <1>1, <1>2 DEF FilesOK
<1>6. StageOK'
  BY <1>1, <1>2 DEF StageOK, Fresh
<1>7. UnitsOK' /\ CountersMatch'
  BY <1>1, QuietFlow, AssetDownloads DEF Working, UnitsSet
<1>8. QED
  BY <1>4, <1>5, <1>6, <1>7 DEF FlowInv

LEMMA CrashFlow == ASSUME FlowInv, Crash PROVE FlowInv'
<1>1. PICK packaged \in package..published : LoadLocalManifest(packaged)
  BY DEF Crash
<1>2. PICK file \in {tempManifest, Broken} : InitManifests(file)
  BY DEF Crash
<1>3. /\ updateState' = "UNCHECKED" /\ updateEntry' = "NONE" /\ remote' = NewManifest
      /\ downloadUnits' = {} /\ failedUnits' = {} /\ queue' = {}
      /\ totalWaitToDownload' = 0 /\ totalToDownload' = 0 /\ currConcurrentTask' = 0
      /\ percentByFile' = 0 /\ nextSavePoint' = 0 /\ pc' = "idle"
      /\ downloads' = {} /\ arrived' = {} /\ unzipping' = {}
      /\ published' = published
  BY DEF Crash, RestartManager
<1>4. TypeOK /\ FilesOK
  BY DEF FlowInv
<1>5. packaged \in Versions /\ package' = packaged
  <2>1. MaxVersion \in Nat /\ package \in 0..MaxVersion /\ published \in 0..MaxVersion
    BY <1>4, VersionAssumption DEF TypeOK, Versions
  <2>2. packaged \in 0..MaxVersion
    BY <1>1, <2>1
  <2>3. QED
    BY <1>1, <2>2 DEF Versions, LoadLocalManifest
<1>6. /\ local' \in Versions /\ storageManifest' \in Versions \cup {NoManifest}
      /\ storageFiles' \in [Assets -> Contents]
  BY <1>1, <1>4, <1>5 DEF LoadLocalManifest, FilesOK, storageVars, Contents
<1>7. /\ own' \in ManifestObject /\ temp' \in {"none", "own"}
      /\ tempManifest' \in ManifestFile \cup {NoManifest, Broken}
      /\ renamedManifest' \in Versions \cup {NoManifest} /\ tempFiles' \in [Assets -> Contents]
  <2>1. CASE file = Broken
    BY <2>1, <1>2, UnmarkedProperties DEF InitManifests, RemoveTempDir, Contents
  <2>2. CASE file # Broken
    <3>1. /\ own' = IF file = NoManifest THEN NewManifest ELSE Parsed(NewManifest, file)
          /\ temp' = "own" /\ UNCHANGED <<tempManifest, renamedManifest, tempFiles>>
      BY <2>2, <1>2 DEF InitManifests, tempDirVars
    <3>2. file = NoManifest \/ file \in ManifestFile
      BY <2>2, <1>2, <1>4 DEF FilesOK
    <3>3. own' \in ManifestObject
      BY <3>1, <3>2, UnmarkedProperties, ParsedProperties
    <3>4. QED
      BY <3>1, <3>3, <1>4 DEF FilesOK
  <2>3. QED
    BY <2>1, <2>2
<1>8. TypeOK'
  BY <1>3, <1>4, <1>5, <1>6, <1>7, BoundAssumption DEF TypeOK, States
<1>9. FilesOK'
  BY <1>3, <1>6, <1>7, UnmarkedProperties DEF FilesOK
<1>10. StageOK'
  BY <1>3 DEF StageOK
<1>11. UnitsOK' /\ CountersMatch'
  <2>1. InFlight' = {}
    BY <1>3 DEF InFlight
  <2>2. QED
    BY <1>3, <2>1 DEF UnitsOK, UnitsSet, CountersMatch
<1>12. QED
  BY <1>8, <1>9, <1>10, <1>11 DEF FlowInv

LEMMA FlowInit == Init => FlowInv
<1> SUFFICES ASSUME Init PROVE FlowInv
  OBVIOUS
<1>1. /\ updateState = "UNCHECKED" /\ updateEntry = "NONE" /\ remote = NewManifest
      /\ downloadUnits = {} /\ failedUnits = {} /\ queue = {}
      /\ totalWaitToDownload = 0 /\ totalToDownload = 0 /\ currConcurrentTask = 0
      /\ percentByFile = 0 /\ nextSavePoint = 0 /\ pc = "idle"
      /\ downloads = {} /\ arrived = {} /\ unzipping = {}
  BY DEF Init, StartManager
<1>2. /\ local = 0 /\ own = NewManifest /\ temp = "own" /\ package = 0 /\ published = 0
      /\ storageManifest = NoManifest /\ storageFiles = [a \in Assets |-> NoFile]
      /\ tempManifest = NoManifest /\ renamedManifest = NoManifest
      /\ tempFiles = [a \in Assets |-> NoFile]
  BY DEF Init
<1>3. TypeOK
  BY <1>1, <1>2, UnmarkedProperties, BoundAssumption DEF TypeOK, States
<1>4. FilesOK
  BY <1>1, <1>2, UnmarkedProperties DEF FilesOK, Contents
<1>5. StageOK
  BY <1>1 DEF StageOK
<1>6. UnitsOK /\ CountersMatch
  <2>1. InFlight = {}
    BY <1>1 DEF InFlight
  <2>2. QED
    BY <1>1, <2>1 DEF UnitsOK, UnitsSet, CountersMatch
<1>7. QED
  BY <1>3, <1>4, <1>5, <1>6 DEF FlowInv

LEMMA FlowStep == FlowInv /\ [Next]_vars => FlowInv'
<1> SUFFICES ASSUME FlowInv, [Next]_vars PROVE FlowInv'
  OBVIOUS
<1>1. CASE CheckUpdate \/ Update \/ DownloadFailedAssets
  BY <1>1, CheckUpdateFlow, UpdateFlow, DownloadFailedAssetsFlow
<1>2. CASE Continue
  BY <1>2, ResumeUpdateFlow, BeginUpdateFlow, BatchDownloadFlow, QueueDownloadFlow,
     DownloadUnitsFinishedFlow, RenameTempManifestFlow, MergeFileFlow, SwapLocalManifestFlow
  DEF Continue
<1>3. CASE Finish
  BY <1>3, VersionFinishedFlow, ManifestArrivesFlow, ManifestFailsFlow, ParseManifestFlow,
     AssetArrivesFlow, AssetFailsFlow, AssetSucceedsFlow, DecompressFinishedFlow
  DEF Finish
<1>4. CASE Publish \/ Crash
  BY <1>4, PublishFlow, CrashFlow
<1>5. CASE UNCHANGED vars
  <2>1. /\ UNCHANGED <<updateState, updateEntry, local, remote, own, temp, downloadUnits,
                       failedUnits, queue, totalWaitToDownload, totalToDownload,
                       currConcurrentTask, percentByFile, nextSavePoint, pc, doubleRelease,
                       downloads, arrived, unzipping>>
        /\ UNCHANGED <<storageManifest, storageFiles, tempManifest, renamedManifest, tempFiles,
                       package, published, crashes>>
    BY <1>5 DEF vars, stateVars, unitVars, countVars, downloadVars, storageVars, tempDirVars,
                worldVars
  <2>2. TypeOK' /\ FilesOK' /\ StageOK'
    BY <2>1 DEF FlowInv, TypeOK, FilesOK, StageOK, Fresh
  <2>3. UnitsOK' /\ CountersMatch'
    BY <2>1, QuietFlow, AssetDownloads DEF Working, UnitsSet
  <2>4. QED
    BY <2>2, <2>3 DEF FlowInv
<1>6. QED
  BY <1>1, <1>2, <1>3, <1>4, <1>5 DEF Next

\* What is under way belongs to the state of the update, in every behaviour.
THEOREM UpdatesInOrder == Spec => []FlowInv
BY FlowInit, FlowStep, PTL DEF Spec

\* Every variable has its type: no counter of units or of tasks is ever below zero, and
\* there are never more tasks than _maxConcurrentTask.
THEOREM TypesHold == Spec => []TypeOK
<1>1. FlowInv => TypeOK
  BY DEF FlowInv
<1>2. QED
  BY <1>1, UpdatesInOrder, PTL

\* The counters that decide when an update ends (_totalWaitToDownload) and how much is
\* downloaded at once (_currConcurrentTask) are right, whatever fails and is tried
\* again, and no unit is in the queue and under way at once.
THEOREM CountersAreRight == Spec => []CountersMatch
<1>1. FlowInv => CountersMatch
  BY DEF FlowInv
<1>2. QED
  BY <1>1, UpdatesInOrder, PTL

-----------------------------------------------------------------------------
(***************************************************************************)
(* KeptInv.  The remote manifest that is the temporary one says that it is *)
(* being updated to, so that prepareUpdate resumes it.                     *)
(***************************************************************************)
LEMMA KeptInit == Init => KeptInv
BY DEF Init, KeptInv, RemoteManifestKept

\* Clearing, parsing and marking a manifest leave its flag set.
LEMMA KeptStep == FlowInv /\ KeptInv /\ [Next]_vars => KeptInv'
<1> SUFFICES ASSUME FlowInv, KeptInv, [Next]_vars PROVE KeptInv'
  OBVIOUS
<1>1. /\ temp = "remote" =>
           remote.updating \/ pc \in {"succeed", "merge"} \/ updateState = "UP_TO_DATE"
      /\ ~doubleRelease
  BY DEF KeptInv, RemoteManifestKept
<1>2. TypeOK /\ FilesOK /\ StageOK
  BY DEF FlowInv
<1>3. own \in ManifestObject /\ remote \in ManifestObject /\ published \in Versions
  BY <1>2 DEF FilesOK, TypeOK
<1>4. CASE CheckUpdate \/ Update \/ DownloadFailedAssets \/ Publish
  <2>1. /\ UNCHANGED <<remote, temp, doubleRelease>>
        /\ pc \notin {"succeed", "merge"} \/ pc' = pc
        /\ updateState # "UP_TO_DATE" \/ updateState' = updateState
    BY <1>4 DEF CheckUpdate, Update, DownloadFailedAssets, Publish, Call, DownloadVersion,
                DownloadManifest, stateVars
  <2>2. QED
    BY <1>1, <2>1 DEF KeptInv, RemoteManifestKept
<1>5. CASE VersionFinished
  <2>1. /\ UNCHANGED <<temp, doubleRelease>> /\ pc = "idle" /\ Version \in downloads
        /\ remote' \in {remote, Cleared(remote), WithVersion(remote, published)}
    BY <1>5 DEF VersionFinished
  <2>2. updateState = "DOWNLOADING_VERSION"
    BY <1>2, <2>1 DEF StageOK
  <2>3. remote'.updating = remote.updating
    BY <1>3, <2>1, ClearedProperties, WithVersionProperties
  <2>4. QED
    BY <1>1, <2>1, <2>2, <2>3 DEF KeptInv, RemoteManifestKept
<1>6. CASE ManifestArrives \/ ManifestFails
  <2>1. UNCHANGED <<remote, temp, doubleRelease, pc>> /\ Manifest \in downloads
    BY <1>6 DEF ManifestArrives, ManifestFails, stateVars
  <2>2. updateState = "DOWNLOADING_MANIFEST"
    BY <1>2, <2>1 DEF StageOK
  <2>3. pc \notin {"succeed", "merge"}
    BY <1>2, <2>2 DEF StageOK
  <2>4. QED
    BY <1>1, <2>1, <2>2, <2>3 DEF KeptInv, RemoteManifestKept
<1>7. CASE ParseManifest
  <2>1. /\ UNCHANGED <<temp, doubleRelease>> /\ pc = "idle" /\ Manifest \in arrived
        /\ \/ remote' = Cleared(remote)
           \/ tempManifest # Broken /\ remote' = Parsed(remote, tempManifest)
    BY <1>7 DEF ParseManifest
  <2>2. /\ updateState = "DOWNLOADING_MANIFEST"
        /\ tempManifest = Broken \/ tempManifest \in ManifestFile
    BY <1>2, <2>1 DEF StageOK, TypeOK
  <2>3. remote.updating => remote'.updating
    <3>1. CASE remote' = Cleared(remote)
      BY <1>3, <3>1, ClearedProperties
    <3>2. CASE tempManifest # Broken /\ remote' = Parsed(remote, tempManifest)
      <4>1. tempManifest \in ManifestFile
        BY <2>2, <3>2
      <4>2. remote.updating => Parsed(remote, tempManifest).updating
        BY <1>3, <4>1, ParsedProperties
      <4>3. QED
        BY <3>2, <4>2
    <3>3. QED
      BY <2>1, <3>1, <3>2
  <2>4. QED
    BY <1>1, <2>1, <2>2, <2>3 DEF KeptInv, RemoteManifestKept
<1>8. CASE ResumeUpdate
  <2>1. UNCHANGED <<remote, temp, doubleRelease>> /\ pc = "prepare"
    BY <1>8 DEF ResumeUpdate
  <2>2. updateState = "NEED_UPDATE"
    BY <1>2, <2>1 DEF StageOK
  <2>3. QED
    BY <1>1, <2>1, <2>2 DEF KeptInv, RemoteManifestKept
<1>9. CASE BeginUpdate
  <2>1. /\ pc = "prepare" /\ ~Resumable /\ temp' = "remote"
        /\ doubleRelease' = (doubleRelease \/ temp = "remote")
    BY <1>9 DEF BeginUpdate
  <2>2. updateState = "NEED_UPDATE" /\ remote.loaded
    BY <1>2, <2>1 DEF StageOK
  <2>3. temp # "remote"
    BY <1>1, <2>1, <2>2 DEF Resumable, TempManifest
  <2>4. ~doubleRelease'
    BY <1>1, <2>1, <2>3
  <2>5. CASE Diff(local, remote.version) = {}
    BY <1>9, <2>4, <2>5 DEF BeginUpdate, KeptInv, RemoteManifestKept
  <2>6. CASE Diff(local, remote.version) # {}
    <3>1. PICK units : remote' = WithUpdating(Marked(remote, units, "UNSTARTED"), TRUE)
      BY <1>9, <2>6 DEF BeginUpdate
    <3>2. /\ Marked(remote, units, "UNSTARTED") \in ManifestObject
          /\ Marked(remote, units, "UNSTARTED").loaded
      BY <1>3, <2>2, MarkedProperties DEF Marks
    <3>3. remote'.updating = TRUE
      BY <3>1, <3>2, WithUpdatingProperties
    <3>4. QED
      BY <2>4, <3>3 DEF KeptInv, RemoteManifestKept
  <2>7. QED
    BY <2>5, <2>6
<1>10. CASE BatchDownload \/ DownloadUnitsFinished \/ MergeFile
  <2>1. /\ UNCHANGED <<remote, temp, doubleRelease>>
        /\ pc \in {"batch", "finished"} \/ (pc = "merge" /\ pc' = "merge")
    BY <1>10 DEF BatchDownload, DownloadUnitsFinished, MergeFile, stateVars
  <2>2. updateState # "UP_TO_DATE"
    BY <1>2, <2>1 DEF StageOK
  <2>3. QED
    BY <1>1, <2>1, <2>2 DEF KeptInv, RemoteManifestKept
<1>11. CASE QueueDownload
  <2>1. UNCHANGED <<temp, doubleRelease>> /\ pc = "queue"
    BY <1>11 DEF QueueDownload
  <2>2. updateState # "UP_TO_DATE"
    BY <1>2, <2>1 DEF StageOK
  <2>3. remote'.updating = remote.updating
    <3>1. CASE remote' = remote
      BY <3>1
    <3>2. CASE \E S : SetTempManifest(Marked(TempManifest, S, "DOWNLOADING"))
      BY <1>2, <2>1, <3>2, MarkedTemp DEF Marks
    <3>3. QED
      BY <1>11, <3>1, <3>2 DEF QueueDownload
  <2>4. QED
    BY <1>1, <2>1, <2>2, <2>3 DEF KeptInv, RemoteManifestKept
<1>12. ASSUME NEW a \in Assets,
              AssetArrives(a) \/ AssetFails(a) \/ AssetSucceeds(a) \/ DecompressFinished(a)
       PROVE  KeptInv'
  <2>1. UNCHANGED <<temp, doubleRelease>> /\ a \in InFlight
    BY <1>2, <1>12 DEF AssetArrives, AssetFails, AssetSucceeds, DecompressFinished, stateVars,
                       InFlight, TypeOK
  <2>2. updateState = "UPDATING" /\ pc \in {"idle", "queue"}
    BY <2>1, FlightIsWork
  <2>3. remote'.updating = remote.updating
    <3>1. CASE remote' = remote
      BY <3>1
    <3>2. CASE FileError(a) \/ FileSuccess(a)
      <4>1. PICK mark \in Marks : SetTempManifest(Marked(TempManifest, {a}, mark))
        BY <3>2, FileEnds DEF Marks
      <4>2. QED
        BY <1>2, <2>1, <4>1, MarkedTemp
    <3>3. QED
      BY <1>12, <3>1, <3>2 DEF AssetArrives, AssetFails, AssetSucceeds, DecompressFinished,
                               stateVars
  <2>4. QED
    BY <1>1, <2>1, <2>2, <2>3 DEF KeptInv, RemoteManifestKept
<1>13. CASE RenameTempManifest
  BY <1>1, <1>13 DEF RenameTempManifest, KeptInv, RemoteManifestKept
<1>14. CASE SwapLocalManifest
  BY <1>1, <1>14 DEF SwapLocalManifest, KeptInv, RemoteManifestKept
<1>15. CASE Crash
  BY <1>1, <1>15 DEF Crash, InitManifests, KeptInv, RemoteManifestKept
<1>16. CASE UNCHANGED vars
  BY <1>1, <1>16 DEF vars, stateVars, KeptInv, RemoteManifestKept
<1>17. QED
  BY <1>4, <1>5, <1>6, <1>7, <1>8, <1>9, <1>10, <1>11, <1>12, <1>13, <1>14, <1>15, <1>16
     DEF Next, Continue, Finish

\* prepareUpdate never releases the remote manifest by way of _tempManifest.
THEOREM NoManifestIsReleasedTwice == Spec => []RemoteManifestKept
<1>1. KeptInv => RemoteManifestKept
  BY DEF KeptInv
<1>2. QED
  BY <1>1, KeptInit, KeptStep, UpdatesInOrder, PTL DEF Spec

-----------------------------------------------------------------------------
(***************************************************************************)
(* ProgressInv.  What is called done has been downloaded, in the version   *)
(* that is being updated to.                                               *)
(***************************************************************************)
LEMMA ArrivedAreInFlight ==
  ASSUME FlowInv PROVE arrived \cap Assets \subseteq InFlight
BY DEF FlowInv, TypeOK, InFlight

\* A step that leaves the manifests and the files.
LEMMA StillProgress ==
  ASSUME ProgressInv, UNCHANGED <<own, remote, temp, tempManifest, tempFiles>>,
         arrived' \cap Assets \subseteq arrived, pc' # "prepare" \/ pc' = pc,
         updateState' # "UP_TO_DATE" /\ pc' # "merge" => updateState # "UP_TO_DATE" /\ pc # "merge",
         Unfinished' \subseteq Unfinished, Underway' => Underway
  PROVE  ProgressInv'
<1>1. TempManifest' = TempManifest
  BY DEF TempManifest
<1>2. SavedProgressIsTrue' /\ MemoryIsTrue'
  BY <1>1 DEF ProgressInv, SavedProgressIsTrue, MemoryIsTrue
<1>3. UnfinishedUnits'
  BY <1>1 DEF ProgressInv, UnfinishedUnits
<1>4. VersionsAgree'
  BY <1>1 DEF ProgressInv, VersionsAgree
<1>5. pc' = "prepare" => Fresh(remote)'
  BY DEF ProgressInv, Fresh
<1>6. (\A a \in (arrived \cap Assets) \ Compressed : tempFiles[a] = Md5[remote.version][a])'
  BY DEF ProgressInv
<1>7. QED
  BY <1>2, <1>3, <1>4, <1>5, <1>6 DEF ProgressInv

LEMMA CallProgress ==
  ASSUME FlowInv, ProgressInv, CheckUpdate \/ Update \/ DownloadFailedAssets \/ Publish
  PROVE  ProgressInv'
<1>1. /\ UNCHANGED <<own, remote, temp, tempManifest, tempFiles, arrived, unzipping, failedUnits,
                     queue>>
      /\ downloads' \in {downloads, downloads \cup {Version}, downloads \cup {Manifest}}
  BY DEF CheckUpdate, Update, DownloadFailedAssets, Publish, DownloadVersion, DownloadManifest,
         Download, stateVars, unitVars, downloadVars, tempDirVars
<1>2. /\ pc' = pc \/ (pc = "idle" /\ pc' = "batch")
      /\ updateState' = updateState \/ updateState # "UP_TO_DATE"
  BY DEF CheckUpdate, Update, DownloadFailedAssets, Publish, Call, stateVars, DownloadVersion,
         DownloadManifest
<1>3. /\ UnitsSet' => (UnitsSet /\ downloadUnits' = downloadUnits) \/ downloadUnits' = failedUnits
      /\ Underway' => Underway
  <2>1. CASE CheckUpdate
    BY <2>1 DEF CheckUpdate, Call, DownloadVersion, UnitsSet, Underway, unitVars
  <2>2. CASE Update
    BY <2>2 DEF Update, Call, DownloadVersion, DownloadManifest, UnitsSet, Underway, unitVars
  <2>3. CASE DownloadFailedAssets
    BY <2>3 DEF DownloadFailedAssets, Call, UnitsSet, Underway
  <2>4. CASE Publish
    BY <2>4 DEF Publish, UnitsSet, Underway, unitVars, stateVars
  <2>5. QED
    BY <2>1, <2>2, <2>3, <2>4
<1>4. InFlight' = InFlight
  BY <1>1, AssetDownloads DEF InFlight
<1>5. Unfinished' \subseteq Unfinished
  BY <1>1, <1>3, <1>4 DEF Unfinished
<1>6. updateState' # "UP_TO_DATE" /\ pc' # "merge" => updateState # "UP_TO_DATE" /\ pc # "merge"
  BY <1>2
<1>7. QED
  BY <1>1, <1>2, <1>3, <1>5, <1>6, StillProgress

LEMMA VersionFinishedProgress ==
  ASSUME FlowInv, ProgressInv, VersionFinished PROVE ProgressInv'
<1>1. /\ UNCHANGED <<own, temp, arrived, unzipping, failedUnits, queue, pc>>
      /\ pc = "idle" /\ Version \in downloads
      /\ downloads' \in {downloads \ {Version}, (downloads \ {Version}) \cup {Manifest}}
      /\ remote' \in {remote, Cleared(remote), WithVersion(remote, published)}
      /\ \/ updateState' = "DOWNLOADING_MANIFEST" /\ UNCHANGED <<tempManifest, tempFiles>>
         \/ updateState' = "UP_TO_DATE" /\ tempManifest' = NoManifest
  BY DEF VersionFinished, RemoveTempDir, tempDirVars, unitVars
<1>2. TypeOK /\ FilesOK /\ StageOK
  BY DEF FlowInv
<1>3. updateState = "DOWNLOADING_VERSION"
  BY <1>1, <1>2 DEF StageOK
<1>4. \/ remote' = remote
      \/ remote'.state = Unmarked /\ remote'.loaded = FALSE
  <2>1. remote \in ManifestObject /\ published \in Versions
    BY <1>2 DEF FilesOK, TypeOK
  <2>2. Cleared(remote).state = Unmarked /\ Cleared(remote).loaded = FALSE
    BY <2>1, ClearedProperties
  <2>3. /\ WithVersion(remote, published).state = Unmarked
        /\ WithVersion(remote, published).loaded = FALSE
    BY <2>1, WithVersionProperties
  <2>4. QED
    BY <1>1, <2>2, <2>3
<1>5. \A a \in Assets : Unmarked[a] # "SUCCESSED"
  BY UnmarkedProperties
<1>6. TempManifest' = TempManifest \/ \A a \in Assets : TempManifest'.state[a] # "SUCCESSED"
  BY <1>1, <1>4, <1>5 DEF TempManifest
<1>7. InFlight' = InFlight /\ InFlight = {}
  <2>1. InFlight' = InFlight
    BY <1>1, AssetDownloads DEF InFlight
  <2>2. QED
    BY <1>3, <2>1 DEF FlowInv, UnitsOK, Working
<1>8. Unfinished' \subseteq Unfinished /\ Unfinished \subseteq Assets
  <2>1. ~UnitsSet'
    BY <1>1 DEF UnitsSet
  <2>2. QED
    BY <1>1, <1>2, <1>7, <2>1 DEF Unfinished, TypeOK
<1>9. SavedProgressIsTrue'
  BY <1>1 DEF ProgressInv, SavedProgressIsTrue
<1>10. MemoryIsTrue'
  BY <1>1, <1>3, <1>6 DEF ProgressInv, MemoryIsTrue
<1>11. UnfinishedUnits'
  BY <1>1, <1>6, <1>8 DEF ProgressInv, UnfinishedUnits
<1>12. VersionsAgree'
  <2>1. CASE remote' = remote
    BY <1>1, <1>3, <2>1 DEF ProgressInv, VersionsAgree, Underway, TempManifest
  <2>2. CASE remote'.loaded = FALSE
    BY <1>1, <2>2 DEF VersionsAgree, Underway
  <2>3. QED
    BY <1>4, <2>1, <2>2
<1>13. (\A a \in (arrived \cap Assets) \ Compressed : tempFiles[a] = Md5[remote.version][a])'
  BY <1>1, <1>7, ArrivedAreInFlight
<1>14. pc' # "prepare"
  BY <1>1
<1>15. QED
  BY <1>9, <1>10, <1>11, <1>12, <1>13, <1>14 DEF ProgressInv

LEMMA ManifestEndsProgress ==
  ASSUME FlowInv, ProgressInv, ManifestArrives \/ ManifestFails PROVE ProgressInv'
<1>1. /\ UNCHANGED <<own, remote, temp, unzipping, failedUnits, queue, pc, tempFiles>>
      /\ Manifest \in downloads /\ downloads' \in {downloads, downloads \ {Manifest}}
      /\ arrived' \in {arrived \cup {Manifest}, arrived \ {Manifest}}
      /\ updateState' \in {updateState, "FAIL_TO_UPDATE"}
      /\ tempManifest' \in {tempManifest, Broken, ServerFile(published)}
  BY DEF ManifestArrives, ManifestFails, Reported, stateVars, unitVars
<1>2. TypeOK /\ StageOK
  BY DEF FlowInv
<1>3. updateState = "DOWNLOADING_MANIFEST" /\ pc # "prepare"
  BY <1>1, <1>2 DEF StageOK
<1>4. Fresh(ServerFile(published))
  BY <1>2, ServerFileProperties DEF TypeOK
<1>5. TempManifest' = TempManifest
  BY <1>1 DEF TempManifest
<1>6. InFlight' = InFlight
  BY <1>1, AssetDownloads DEF InFlight
<1>7. Unfinished' \subseteq Unfinished /\ Unfinished \subseteq Assets
  <2>1. ~UnitsSet' \/ pc = "batch"
    BY <1>1, <1>3 DEF UnitsSet
  <2>2. ~UnitsSet'
    BY <1>1, <1>2, <1>3, <2>1 DEF UnitsSet, StageOK
  <2>3. InFlight \subseteq Assets
    BY <1>2, AssetsAssumption DEF TypeOK, InFlight
  <2>4. QED
    BY <1>1, <1>2, <1>6, <2>2, <2>3 DEF Unfinished, TypeOK
<1>8. SavedProgressIsTrue'
  BY <1>1, <1>4 DEF ProgressInv, SavedProgressIsTrue, Fresh
<1>9. MemoryIsTrue'
  BY <1>1, <1>3, <1>5 DEF ProgressInv, MemoryIsTrue
<1>10. UnfinishedUnits'
  BY <1>1, <1>4, <1>5, <1>7 DEF ProgressInv, UnfinishedUnits, Fresh
<1>11. VersionsAgree'
  BY <1>1, <1>3, <1>5 DEF ProgressInv, VersionsAgree, Underway
<1>12. (\A a \in (arrived \cap Assets) \ Compressed : tempFiles[a] = Md5[remote.version][a])'
  BY <1>1, NamesAssumption DEF ProgressInv
<1>13. pc' # "prepare"
  BY <1>1, <1>3
<1>14. QED
  BY <1>8, <1>9, <1>10, <1>11, <1>12, <1>13 DEF ProgressInv

LEMMA ParseManifestProgress ==
  ASSUME FlowInv, ProgressInv, ParseManifest PROVE ProgressInv'
<1>1. /\ UNCHANGED <<own, temp, unzipping, failedUnits, queue>>
      /\ Manifest \in arrived
      /\ downloads' = downloads \ {Manifest} /\ arrived' = arrived \ {Manifest}
      /\ \/ UNCHANGED <<tempManifest, tempFiles>>
         \/ updateState' = "UP_TO_DATE" /\ tempManifest' = NoManifest
  BY DEF ParseManifest, Reported, RemoveTempDir, tempDirVars, unitVars
<1>2. \/ remote' = Cleared(remote) /\ updateState' = "UNCHECKED" /\ pc' = "idle"
      \/ /\ remote' = Parsed(remote, tempManifest) /\ tempManifest # Broken
         /\ \/ updateState' = "UP_TO_DATE" /\ pc' = "idle"
            \/ updateState' = "NEED_UPDATE" /\ pc' = "prepare"
  BY DEF ParseManifest
<1>3. TypeOK /\ FilesOK /\ StageOK
  BY DEF FlowInv
<1>4. updateState = "DOWNLOADING_MANIFEST" /\ pc # "merge"
      /\ (tempManifest = Broken \/ (tempManifest \in ManifestFile /\ Fresh(tempManifest)))
  BY <1>1, <1>3 DEF StageOK, TypeOK
<1>5. \A a \in Assets : remote'.state[a] # "SUCCESSED"
  <2>1. CASE remote' = Cleared(remote)
    BY <2>1, <1>3, ClearedProperties, UnmarkedProperties DEF FilesOK
  <2>2. CASE remote' = Parsed(remote, tempManifest) /\ tempManifest # Broken
    <3>1. remote'.state = tempManifest.state
      BY <2>2, <1>3, <1>4, ParsedProperties DEF FilesOK
    <3>2. QED
      BY <2>2, <1>4, <3>1 DEF Fresh
  <2>3. QED
    BY <1>2, <2>1, <2>2
<1>6. TempManifest' = TempManifest \/ \A a \in Assets : TempManifest'.state[a] # "SUCCESSED"
  BY <1>1, <1>5 DEF TempManifest
<1>7. InFlight' = InFlight /\ InFlight = {}
  <2>1. InFlight' = InFlight
    BY <1>1, AssetDownloads DEF InFlight
  <2>2. QED
    BY <1>4, <2>1 DEF FlowInv, UnitsOK, Working
<1>8. Unfinished' \subseteq Unfinished /\ Unfinished \subseteq Assets
  <2>1. ~UnitsSet'
    BY <1>2 DEF UnitsSet
  <2>2. QED
    BY <1>1, <1>3, <1>7, <2>1 DEF Unfinished, TypeOK
<1>9. SavedProgressIsTrue'
  BY <1>1 DEF ProgressInv, SavedProgressIsTrue
<1>10. MemoryIsTrue'
  BY <1>1, <1>4, <1>6 DEF ProgressInv, MemoryIsTrue
<1>11. UnfinishedUnits'
  BY <1>1, <1>6, <1>8 DEF ProgressInv, UnfinishedUnits
<1>12. VersionsAgree'
  <2>1. pc' = "prepare" \/ updateState' = "UP_TO_DATE" \/ remote'.loaded = FALSE
    BY <1>2, <1>3, ClearedProperties DEF FilesOK
  <2>2. QED
    BY <1>2, <2>1 DEF VersionsAgree, Underway
<1>13. (\A a \in (arrived \cap Assets) \ Compressed : tempFiles[a] = Md5[remote.version][a])'
  BY <1>1, <1>7, ArrivedAreInFlight
<1>14. Fresh(remote)'
  BY <1>5 DEF Fresh
<1>15. QED
  BY <1>9, <1>10, <1>11, <1>12, <1>13, <1>14 DEF ProgressInv

LEMMA ResumeUpdateProgress ==
  ASSUME FlowInv, ProgressInv, ResumeUpdate PROVE ProgressInv'
<1>1. /\ UNCHANGED <<own, remote, temp, tempFiles, queue, downloads, arrived, unzipping>>
      /\ pc = "prepare" /\ Resumable /\ tempManifest' = Saved(TempManifest)
      /\ failedUnits' = {} /\ downloadUnits' = ResumeAssets(TempManifest)
      /\ pc' # "prepare"
  BY DEF ResumeUpdate, Prepared, downloadVars
<1>2. TypeOK /\ FilesOK /\ StageOK
  BY DEF FlowInv
<1>3. updateState = "NEED_UPDATE"
  BY <1>1, <1>2 DEF StageOK
<1>4. TempManifest' = TempManifest
  BY <1>1 DEF TempManifest
<1>5. tempManifest'.state = TempManifest.state /\ tempManifest'.version = TempManifest.version
  BY <1>1, <1>2, TempManifestObject, SavedProperties
<1>6. \A a \in Assets : TempManifest.state[a] = "SUCCESSED" =>
                          tempFiles[a] = Md5[TempManifest.version][a]
  BY <1>1, <1>3 DEF ProgressInv, MemoryIsTrue
<1>7. SavedProgressIsTrue'
  BY <1>1, <1>5, <1>6 DEF SavedProgressIsTrue
<1>8. MemoryIsTrue'
  BY <1>1, <1>4, <1>6 DEF MemoryIsTrue
<1>9. queue = {} /\ InFlight = {} /\ InFlight' = {}
  BY <1>1, <1>3 DEF FlowInv, UnitsOK, Working, InFlight
<1>10. UnfinishedUnits'
  <2>1. Unfinished' \subseteq ResumeAssets(TempManifest)
    BY <1>1, <1>9 DEF Unfinished
  <2>2. \A a \in ResumeAssets(TempManifest) : TempManifest.state[a] # "SUCCESSED"
    BY DEF ResumeAssets
  <2>3. QED
    BY <1>4, <1>5, <2>1, <2>2 DEF UnfinishedUnits
<1>11. VersionsAgree'
  BY <1>1, <1>4 DEF VersionsAgree, Resumable
<1>12. (\A a \in (arrived \cap Assets) \ Compressed : tempFiles[a] = Md5[remote.version][a])'
  BY <1>1 DEF ProgressInv
<1>13. QED
  BY <1>1, <1>7, <1>8, <1>10, <1>11, <1>12 DEF ProgressInv

LEMMA BeginUpdateProgress ==
  ASSUME FlowInv, ProgressInv, BeginUpdate PROVE ProgressInv'
<1>1. /\ UNCHANGED <<own, queue, downloads, arrived, unzipping>>
      /\ pc = "prepare" /\ temp' = "remote" /\ failedUnits' = {} /\ pc' # "prepare"
      /\ temp = "none" => tempFiles' = tempFiles
  BY DEF BeginUpdate, Prepared, downloadVars
<1>2. TypeOK /\ FilesOK /\ StageOK /\ Fresh(remote)
  BY <1>1 DEF FlowInv, ProgressInv
<1>3. updateState = "NEED_UPDATE"
  BY <1>1, <1>2 DEF StageOK
<1>4. TempManifest' = remote'
  BY <1>1 DEF TempManifest
<1>5. queue = {} /\ InFlight = {} /\ InFlight' = {}
  BY <1>1, <1>3 DEF FlowInv, UnitsOK, Working, InFlight
<1>6. /\ Fresh(remote)'
      /\ \/ tempManifest' = tempManifest /\ tempFiles' = tempFiles /\ Unfinished' = {}
         \/ tempManifest'.state = remote'.state
  <2>1. CASE Diff(local, remote.version) = {}
    <3>1. /\ remote' = remote /\ updateState' = updateState /\ pc' = "succeed"
          /\ \/ temp = "none" /\ tempManifest' = tempManifest
             \/ tempManifest' = Saved(remote)
      BY <2>1 DEF BeginUpdate
    <3>2. Unfinished' = {}
      BY <1>1, <1>3, <1>5, <3>1 DEF Unfinished, UnitsSet
    <3>3. Saved(remote).state = remote.state
      BY <1>2, SavedProperties DEF FilesOK
    <3>4. QED
      BY <1>1, <1>2, <3>1, <3>2, <3>3 DEF Fresh
  <2>2. CASE Diff(local, remote.version) # {}
    <3>1. PICK units : /\ remote' = WithUpdating(Marked(remote, units, "UNSTARTED"), TRUE)
                       /\ tempManifest' = Saved(remote')
      BY <2>2 DEF BeginUpdate
    <3>2. /\ Marked(remote, units, "UNSTARTED") \in ManifestObject
          /\ \A a \in Assets : Marked(remote, units, "UNSTARTED").state[a] # "SUCCESSED"
      BY <1>2, MarkedProperties DEF FilesOK, Marks, Fresh
    <3>3. /\ remote' \in ManifestObject
          /\ remote'.state = Marked(remote, units, "UNSTARTED").state
      BY <3>1, <3>2, WithUpdatingProperties
    <3>4. tempManifest'.state = remote'.state
      BY <3>1, <3>3, SavedProperties
    <3>5. QED
      BY <3>2, <3>3, <3>4 DEF Fresh
  <2>3. QED
    BY <2>1, <2>2
<1>7. \A a \in Assets : remote'.state[a] # "SUCCESSED"
  BY <1>6 DEF Fresh
<1>8. SavedProgressIsTrue'
  BY <1>6, <1>7 DEF SavedProgressIsTrue, ProgressInv
<1>9. MemoryIsTrue'
  BY <1>4, <1>7 DEF MemoryIsTrue
<1>10. Unfinished' \subseteq Assets
  BY <1>1, <1>5 DEF Unfinished, FlowInv, TypeOK, BeginUpdate, Prepared, Updated, Diff
<1>11. UnfinishedUnits'
  BY <1>4, <1>6, <1>7, <1>10 DEF UnfinishedUnits
<1>12. VersionsAgree'
  BY <1>4 DEF VersionsAgree
<1>13. (\A a \in (arrived \cap Assets) \ Compressed : tempFiles[a] = Md5[remote.version][a])'
  BY <1>1, <1>5, ArrivedAreInFlight
<1>14. QED
  BY <1>1, <1>8, <1>9, <1>11, <1>12, <1>13 DEF ProgressInv

LEMMA BatchDownloadProgress ==
  ASSUME FlowInv, ProgressInv, BatchDownload PROVE ProgressInv'
<1>1. /\ UNCHANGED <<updateState, own, remote, temp, tempManifest, tempFiles, failedUnits,
                     downloads, arrived, unzipping>>
      /\ pc = "batch" /\ pc' = "queue" /\ queue' = downloadUnits
  BY DEF BatchDownload, stateVars, downloadVars, tempDirVars
<1>2. updateState = "UPDATING"
  BY <1>1 DEF FlowInv, StageOK
<1>3. Unfinished' \subseteq Unfinished
  BY <1>1, <1>2 DEF Unfinished, UnitsSet, InFlight
<1>4. Underway' => Underway
  BY <1>1, <1>2 DEF Underway
<1>5. QED
  BY <1>1, <1>2, <1>3, <1>4, StillProgress

\* Marking some of the unfinished units as not done.
LEMMA QueueDownloadProgress ==
  ASSUME FlowInv, ProgressInv, QueueDownload PROVE ProgressInv'
<1>1. /\ UNCHANGED <<updateState, temp, downloadUnits, failedUnits, tempFiles>>
      /\ pc = "queue"
  BY DEF QueueDownload
<1>2. TypeOK /\ FilesOK /\ StageOK /\ updateState = "UPDATING"
  BY <1>1 DEF FlowInv, StageOK
<1>3. CASE /\ pc' = "finished"
           /\ UNCHANGED <<remote, own, queue, currConcurrentTask, nextSavePoint, downloadVars,
                          tempManifest>>
  <2>1. UNCHANGED <<downloads, arrived, unzipping>>
    BY <1>3 DEF downloadVars
  <2>2. Unfinished' \subseteq Unfinished
    BY <1>1, <1>2, <1>3, <2>1 DEF Unfinished, UnitsSet, InFlight
  <2>3. Underway' => Underway
    BY <1>2 DEF Underway
  <2>4. QED
    BY <1>1, <1>2, <1>3, <2>1, <2>2, <2>3, StillProgress
<1>4. CASE totalWaitToDownload # 0 /\ pc' = "idle"
  <2>1. PICK S \in SUBSET queue :
             /\ queue' = queue \ S
             /\ Download(S)
             /\ SetTempManifest(Marked(TempManifest, S, "DOWNLOADING"))
             /\ \/ tempManifest' = Saved(Marked(TempManifest, S, "DOWNLOADING"))
                \/ tempManifest' = tempManifest
    BY <1>4 DEF QueueDownload
  <2>2. downloads' = downloads \cup S /\ UNCHANGED <<arrived, unzipping>>
    BY <2>1 DEF Download
  <2>3. PICK marked \in ManifestObject : marked = Marked(TempManifest, S, "DOWNLOADING")
    BY <1>2, TempManifestObject, MarkedProperties DEF Marks
  <2>4. /\ marked.version = TempManifest.version
        /\ \A a \in Assets : marked.state[a] = IF a \in S THEN "DOWNLOADING"
                                                ELSE TempManifest.state[a]
    BY <1>2, <2>3, TempManifestObject, MarkedProperties DEF Marks
  <2>5. Saved(marked).state = marked.state /\ Saved(marked).version = marked.version
    BY SavedProperties
  <2>6. TempManifest' = marked /\ remote'.version = remote.version
    BY <1>1, <1>2, <2>1, <2>3, MarkedTemp DEF Marks
  <2>7. \A a \in Assets : TempManifest.state[a] = "SUCCESSED" =>
                            tempFiles[a] = Md5[TempManifest.version][a]
    BY <1>1, <1>2 DEF ProgressInv, MemoryIsTrue
  <2>8. \A a \in Assets : marked.state[a] = "SUCCESSED" =>
                            tempFiles[a] = Md5[marked.version][a]
    BY <2>4, <2>7
  <2>9. SavedProgressIsTrue'
    <3>1. CASE tempManifest' = tempManifest
      BY <1>1, <3>1 DEF ProgressInv, SavedProgressIsTrue
    <3>2. CASE tempManifest' = Saved(marked)
      BY <1>1, <2>5, <2>8, <3>2 DEF SavedProgressIsTrue
    <3>3. QED
      BY <2>1, <2>3, <3>1, <3>2
  <2>10. MemoryIsTrue'
    BY <1>1, <2>6, <2>8 DEF MemoryIsTrue
  <2>11. Unfinished' \subseteq Unfinished /\ Unfinished' \subseteq Assets
    <3>1. queue \subseteq Assets /\ unzipping \subseteq Assets /\ failedUnits \subseteq Assets
      BY <1>2, AssetsAssumption DEF TypeOK
    <3>2. InFlight' \subseteq InFlight \cup queue
      BY <2>1, <2>2 DEF InFlight
    <3>3. ~UnitsSet'
      BY <1>1, <1>2, <1>4 DEF UnitsSet
    <3>4. InFlight' \subseteq Assets
      BY <3>1, <2>2 DEF InFlight
    <3>5. QED
      BY <1>1, <2>1, <3>1, <3>2, <3>3, <3>4 DEF Unfinished
  <2>12. UnfinishedUnits'
    <3>1. \A a \in Unfinished' : marked.state[a] # "SUCCESSED"
      BY <2>4, <2>11 DEF ProgressInv, UnfinishedUnits
    <3>2. CASE tempManifest' = tempManifest
      BY <2>6, <2>11, <3>1, <3>2 DEF ProgressInv, UnfinishedUnits
    <3>3. CASE tempManifest' = Saved(marked)
      BY <2>5, <2>6, <3>1, <3>3 DEF UnfinishedUnits
    <3>4. QED
      BY <2>1, <2>3, <3>2, <3>3
  <2>13. VersionsAgree'
    BY <1>2, <2>4, <2>6 DEF ProgressInv, VersionsAgree, Underway
  <2>14. (\A a \in (arrived \cap Assets) \ Compressed : tempFiles[a] = Md5[remote.version][a])'
    BY <1>1, <2>2, <2>6 DEF ProgressInv
  <2>15. QED
    BY <1>4, <2>9, <2>10, <2>12, <2>13, <2>14 DEF ProgressInv
<1>5. QED
  BY <1>3, <1>4 DEF QueueDownload

LEMMA AssetArrivesProgress ==
  ASSUME FlowInv, ProgressInv, NEW a \in Assets, AssetArrives(a) PROVE ProgressInv'
<1>1. /\ UNCHANGED <<updateState, own, remote, temp, downloadUnits, failedUnits, queue, pc,
                     downloads, unzipping, tempManifest>>
      /\ a \in downloads /\ arrived' = arrived \cup {a}
      /\ tempFiles' = IF a \in Compressed THEN tempFiles
                      ELSE [tempFiles EXCEPT ![a] = Md5[remote.version][a]]
  BY DEF AssetArrives, stateVars, unitVars
<1>2. TypeOK /\ FilesOK
  BY DEF FlowInv
<1>3. a \in InFlight /\ a \in Unfinished
  BY <1>1 DEF InFlight, Unfinished
<1>4. updateState = "UPDATING" /\ pc \in {"idle", "queue"}
  BY <1>3, FlightIsWork
<1>5. /\ \A b \in Assets : b # a => tempFiles'[b] = tempFiles[b]
      /\ a \notin Compressed => tempFiles'[a] = Md5[remote.version][a]
  BY <1>1, <1>2 DEF FilesOK
<1>6. TempManifest' = TempManifest /\ Unfinished' = Unfinished
  BY <1>1 DEF TempManifest, Unfinished, UnitsSet, InFlight
<1>7. /\ TempManifest.state[a] # "SUCCESSED"
      /\ tempManifest \notin {NoManifest, Broken} => tempManifest.state[a] # "SUCCESSED"
  BY <1>3 DEF ProgressInv, UnfinishedUnits
<1>8. SavedProgressIsTrue'
  BY <1>1, <1>5, <1>7 DEF ProgressInv, SavedProgressIsTrue
<1>9. MemoryIsTrue'
  BY <1>1, <1>5, <1>6, <1>7 DEF ProgressInv, MemoryIsTrue
<1>10. UnfinishedUnits' /\ VersionsAgree'
  BY <1>1, <1>6 DEF ProgressInv, UnfinishedUnits, VersionsAgree, Underway
<1>11. (\A b \in (arrived \cap Assets) \ Compressed : tempFiles[b] = Md5[remote.version][b])'
  BY <1>1, <1>5 DEF ProgressInv
<1>12. pc' # "prepare"
  BY <1>1, <1>4
<1>13. QED
  BY <1>8, <1>9, <1>10, <1>11, <1>12 DEF ProgressInv

\* A unit ends: it is called done only when its file is there.
LEMMA UnitProgress ==
  ASSUME FlowInv, ProgressInv, NEW a \in Assets, a \in InFlight,
         NEW mark \in {"UNSTARTED", "SUCCESSED"},
         SetTempManifest(Marked(TempManifest, {a}, mark)), pc' = "queue",
         UNCHANGED <<updateState, temp, queue, tempManifest>>,
         failedUnits' = IF mark = "SUCCESSED" THEN failedUnits \ {a} ELSE failedUnits \cup {a},
         downloads' = downloads \ {a}, arrived' = arrived \ {a}, unzipping' = unzipping \ {a},
         \A b \in Assets : b # a => tempFiles'[b] = tempFiles[b],
         mark = "SUCCESSED" => tempFiles'[a] = Md5[remote.version][a]
  PROVE  ProgressInv'
<1>1. TypeOK /\ FilesOK /\ UnitsOK /\ CountersMatch
  BY DEF FlowInv
<1>2. updateState = "UPDATING" /\ pc \in {"idle", "queue"}
  BY FlightIsWork
<1>3. PICK marked \in ManifestObject : marked = Marked(TempManifest, {a}, mark)
  BY <1>1, TempManifestObject, MarkedProperties DEF Marks
<1>4. /\ marked.version = TempManifest.version /\ marked.state[a] = mark
      /\ \A b \in Assets : b # a => marked.state[b] = TempManifest.state[b]
  BY <1>1, <1>3, TempManifestObject, MarkedProperties DEF Marks
<1>5. TempManifest' = marked /\ remote'.version = remote.version
  BY <1>1, <1>3, MarkedTemp DEF Marks
<1>6. TempManifest.version = remote.version
  BY <1>2 DEF ProgressInv, VersionsAgree, Underway
<1>7. queue \cap InFlight = {}
  BY <1>1, <1>2 DEF CountersMatch
<1>8. InFlight' = InFlight \ {a}
  BY DEF InFlight
<1>9. /\ Unfinished' \subseteq Unfinished /\ Unfinished' \subseteq Assets
      /\ mark = "SUCCESSED" => a \notin Unfinished'
  <2>1. ~UnitsSet'
    BY <1>2 DEF UnitsSet
  <2>2. Unfinished' = queue \cup (InFlight \ {a}) \cup failedUnits'
    BY <1>8, <2>1 DEF Unfinished
  <2>3. InFlight \subseteq Assets /\ queue \subseteq Assets /\ failedUnits \subseteq Assets
    BY <1>1, AssetsAssumption DEF TypeOK, InFlight
  <2>4. Unfinished' \subseteq Unfinished
    BY <2>2 DEF Unfinished
  <2>5. QED
    BY <1>7, <2>2, <2>3, <2>4
<1>10. /\ TempManifest.state[a] # "SUCCESSED"
       /\ tempManifest \notin {NoManifest, Broken} => tempManifest.state[a] # "SUCCESSED"
  BY DEF ProgressInv, UnfinishedUnits, Unfinished
<1>11. SavedProgressIsTrue'
  BY <1>10 DEF ProgressInv, SavedProgressIsTrue
<1>12. MemoryIsTrue'
  <2>1. \A b \in Assets : TempManifest.state[b] = "SUCCESSED" =>
                            tempFiles[b] = Md5[TempManifest.version][b]
    BY <1>2 DEF ProgressInv, MemoryIsTrue
  <2>2. \A b \in Assets : marked.state[b] = "SUCCESSED" =>
                            tempFiles'[b] = Md5[marked.version][b]
    BY <1>4, <1>6, <2>1
  <2>3. QED
    BY <1>5, <2>2 DEF MemoryIsTrue
<1>13. UnfinishedUnits'
  BY <1>4, <1>5, <1>9 DEF ProgressInv, UnfinishedUnits
<1>14. VersionsAgree'
  BY <1>4, <1>5, <1>6 DEF VersionsAgree
<1>15. (\A b \in (arrived \cap Assets) \ Compressed : tempFiles[b] = Md5[remote.version][b])'
  BY <1>5 DEF ProgressInv
<1>16. QED
  BY <1>11, <1>12, <1>13, <1>14, <1>15 DEF ProgressInv

LEMMA AssetEndsProgress ==
  ASSUME FlowInv, ProgressInv, NEW a \in Assets,
         AssetFails(a) \/ AssetSucceeds(a) \/ DecompressFinished(a)
  PROVE  ProgressInv'
<1>1. UNCHANGED <<updateState, temp, downloadUnits, queue, tempManifest>>
  BY DEF AssetFails, AssetSucceeds, DecompressFinished, tempDirVars
<1>2. TypeOK /\ FilesOK
  BY DEF FlowInv
<1>3. downloads \cap unzipping = {} /\ arrived \subseteq downloads
  BY <1>2 DEF FlowInv, UnitsOK, TypeOK
<1>4. \/ a \in downloads /\ downloads' = downloads \ {a} /\ arrived' = arrived \ {a}
      \/ a \in unzipping /\ unzipping' = unzipping \ {a} /\ UNCHANGED <<downloads, arrived>>
  BY <1>3 DEF AssetFails, AssetSucceeds, DecompressFinished, Reported
<1>5. a \in InFlight
  BY <1>4 DEF InFlight
<1>6. CASE AssetSucceeds(a) /\ a \in Compressed /\ unzipping' = unzipping \cup {a}
           /\ UNCHANGED <<remote, own, failedUnits, pc>>
  <2>1. tempFiles' = tempFiles /\ downloads' = downloads \ {a} /\ arrived' = arrived \ {a}
    BY <1>6 DEF AssetSucceeds, Reported, tempDirVars
  <2>2. Unfinished' \subseteq Unfinished
    BY <1>1, <1>5, <1>6, <2>1 DEF Unfinished, UnitsSet, InFlight
  <2>3. Underway' => Underway
    BY <1>1, <1>6 DEF Underway
  <2>4. QED
    BY <1>1, <1>6, <2>1, <2>2, <2>3, StillProgress
<1>7. CASE /\ downloads' = downloads \ {a} /\ arrived' = arrived \ {a}
           /\ unzipping' = unzipping \ {a}
           /\ FileError(a) \/ FileSuccess(a)
  <2>1. pc' = "queue"
    BY <1>7 DEF FileError, FileSuccess
  <2>2. \A b \in Assets : b # a => tempFiles'[b] = tempFiles[b]
    BY <1>2 DEF AssetFails, AssetSucceeds, DecompressFinished, tempDirVars, FilesOK
  <2>3. CASE FileError(a)
    <3>1. /\ SetTempManifest(Marked(TempManifest, {a}, "UNSTARTED"))
          /\ failedUnits' = failedUnits \cup {a}
      BY <2>3 DEF FileError, Failed
    <3>2. QED
      BY <1>1, <1>5, <1>7, <2>1, <2>2, <3>1, UnitProgress
  <2>4. CASE FileSuccess(a) /\ tempFiles'[a] = Md5[remote.version][a]
    <3>1. /\ SetTempManifest(Marked(TempManifest, {a}, "SUCCESSED"))
          /\ failedUnits' = failedUnits \ {a}
      BY <2>4 DEF FileSuccess
    <3>2. QED
      BY <1>1, <1>5, <1>7, <2>1, <2>2, <2>4, <3>1, UnitProgress
  <2>5. FileSuccess(a) /\ ~FileError(a) => tempFiles'[a] = Md5[remote.version][a]
    <3>1. CASE AssetFails(a)
      BY <3>1 DEF AssetFails
    <3>2. CASE AssetSucceeds(a)
      <4>1. a \in arrived /\ a \notin unzipping' /\ tempFiles' = tempFiles
        BY <1>3, <1>7, <3>2 DEF AssetSucceeds, tempDirVars
      <4>2. a \in Compressed => FileError(a)
        BY <3>2, <4>1 DEF AssetSucceeds
      <4>3. QED
        BY <4>1, <4>2 DEF ProgressInv
    <3>3. CASE DecompressFinished(a)
      <4>1. FileError(a) \/ tempFiles' = [tempFiles EXCEPT ![a] = Md5[remote.version][a]]
        BY <3>3 DEF DecompressFinished
      <4>2. QED
        BY <1>2, <4>1 DEF FilesOK
    <3>4. QED
      BY <3>1, <3>2, <3>3
  <2>6. QED
    BY <1>7, <2>3, <2>4, <2>5
<1>8. QED
  <2>1. CASE AssetFails(a)
    BY <1>3, <1>7, <2>1 DEF AssetFails, Reported
  <2>2. CASE AssetSucceeds(a)
    BY <1>3, <1>6, <1>7, <2>2 DEF AssetSucceeds, Reported
  <2>3. CASE DecompressFinished(a)
    BY <1>3, <1>7, <2>3 DEF DecompressFinished
  <2>4. QED
    BY <2>1, <2>2, <2>3

LEMMA DownloadUnitsFinishedProgress ==
  ASSUME FlowInv, ProgressInv, DownloadUnitsFinished PROVE ProgressInv'
<1>1. /\ UNCHANGED <<own, remote, temp, tempFiles, failedUnits, queue, downloads, arrived,
                     unzipping>>
      /\ pc = "finished" /\ tempManifest' = Saved(TempManifest)
      /\ \/ updateState' = "FAIL_TO_UPDATE" /\ pc' = "idle"
         \/ updateState' = updateState /\ pc' = "succeed"
  BY DEF DownloadUnitsFinished, unitVars, downloadVars
<1>2. TypeOK /\ FilesOK /\ updateState = "UPDATING"
  BY <1>1 DEF FlowInv, StageOK
<1>3. TempManifest' = TempManifest
  BY <1>1 DEF TempManifest
<1>4. tempManifest'.state = TempManifest.state /\ tempManifest'.version = TempManifest.version
  BY <1>1, <1>2, TempManifestObject, SavedProperties
<1>5. \A a \in Assets : TempManifest.state[a] = "SUCCESSED" =>
                          tempFiles[a] = Md5[TempManifest.version][a]
  BY <1>1, <1>2 DEF ProgressInv, MemoryIsTrue
<1>6. SavedProgressIsTrue' /\ MemoryIsTrue'
  BY <1>1, <1>3, <1>4, <1>5 DEF SavedProgressIsTrue, MemoryIsTrue
<1>7. Unfinished' \subseteq Unfinished
  BY <1>1, <1>2 DEF Unfinished, UnitsSet, InFlight
<1>8. UnfinishedUnits'
  BY <1>3, <1>4, <1>7 DEF ProgressInv, UnfinishedUnits
<1>9. VersionsAgree'
  BY <1>1, <1>2, <1>3 DEF ProgressInv, VersionsAgree, Underway
<1>10. (\A a \in (arrived \cap Assets) \ Compressed : tempFiles[a] = Md5[remote.version][a])'
  BY <1>1 DEF ProgressInv
<1>11. pc' # "prepare"
  BY <1>1
<1>12. QED
  BY <1>6, <1>8, <1>9, <1>10, <1>11 DEF ProgressInv

LEMMA UpdateSucceedProgress ==
  ASSUME FlowInv, ProgressInv, RenameTempManifest \/ MergeFile \/ SwapLocalManifest
  PROVE  ProgressInv'
<1>1. /\ UNCHANGED <<temp, failedUnits, downloadUnits, queue, downloads, arrived, unzipping>>
      /\ \/ pc' = "merge" /\ updateState' = updateState
         \/ pc' = "idle" /\ updateState' = "UP_TO_DATE"
      /\ pc \in {"succeed", "merge"}
  BY DEF RenameTempManifest, MergeFile, SwapLocalManifest, stateVars, unitVars, downloadVars
<1>2. TypeOK /\ FilesOK /\ StageOK
  BY DEF FlowInv
<1>3. tempManifest' = NoManifest
  BY <1>2 DEF RenameTempManifest, TempManifestRenamed, MergeFile, SwapLocalManifest,
              RemoveTempDir, StageOK
<1>4. /\ TempManifest'.state = TempManifest.state /\ TempManifest'.version = TempManifest.version
      /\ remote'.version = remote.version /\ remote'.loaded = remote.loaded
  <2>1. CASE RenameTempManifest
    <3>1. PICK m : m = WithUpdating(TempManifest, FALSE)
      OBVIOUS
    <3>2. /\ m.state = TempManifest.state /\ m.version = TempManifest.version
          /\ m.loaded = TempManifest.loaded
      BY <1>2, <3>1, TempManifestObject, WithUpdatingProperties
    <3>3. IF temp = "own" THEN own' = m /\ remote' = remote ELSE remote' = m /\ own' = own
      BY <2>1, <3>1 DEF RenameTempManifest, SetTempManifest
    <3>4. QED
      BY <1>1, <3>2, <3>3 DEF TempManifest
  <2>2. CASE MergeFile \/ SwapLocalManifest
    BY <2>2 DEF MergeFile, SwapLocalManifest, stateVars, TempManifest
  <2>3. QED
    BY <2>1, <2>2
<1>5. updateState # "UP_TO_DATE" /\ InFlight = {}
  <2>1. updateState # "UP_TO_DATE"
    BY <1>1, <1>2 DEF StageOK
  <2>2. QED
    BY <1>1, <2>1 DEF FlowInv, UnitsOK, Working
<1>6. SavedProgressIsTrue' /\ MemoryIsTrue'
  BY <1>1, <1>3 DEF SavedProgressIsTrue, MemoryIsTrue
<1>7. Unfinished' \subseteq Unfinished
  BY <1>1 DEF Unfinished, UnitsSet, InFlight
<1>8. UnfinishedUnits'
  BY <1>3, <1>4, <1>7 DEF ProgressInv, UnfinishedUnits
<1>9. VersionsAgree'
  BY <1>1, <1>4, <1>5 DEF ProgressInv, VersionsAgree, Underway
<1>10. (\A a \in (arrived \cap Assets) \ Compressed : tempFiles[a] = Md5[remote.version][a])'
  BY <1>1, <1>5, ArrivedAreInFlight
<1>11. pc' # "prepare"
  BY <1>1
<1>12. QED
  BY <1>6, <1>8, <1>9, <1>10, <1>11 DEF ProgressInv

\* After a crash the progress in memory is what was saved.
LEMMA CrashProgress == ASSUME FlowInv, ProgressInv, Crash PROVE ProgressInv'
<1>1. PICK file \in {tempManifest, Broken} : InitManifests(file)
  BY DEF Crash
<1>2. /\ updateState' = "UNCHECKED" /\ remote' = NewManifest
      /\ downloadUnits' = {} /\ failedUnits' = {} /\ queue' = {} /\ pc' = "idle"
      /\ downloads' = {} /\ arrived' = {} /\ unzipping' = {}
  BY DEF Crash, RestartManager
<1>3. TypeOK /\ FilesOK
  BY DEF FlowInv
<1>4. Unfinished' = {} /\ ~Underway'
  BY <1>2 DEF Unfinished, UnitsSet, InFlight, Underway
<1>5. SavedProgressIsTrue'
  BY <1>1 DEF InitManifests, RemoveTempDir, tempDirVars, ProgressInv, SavedProgressIsTrue
<1>6. MemoryIsTrue'
  <2>1. \A a \in Assets : NewManifest.state[a] # "SUCCESSED"
    BY UnmarkedProperties
  <2>2. CASE file = Broken
    BY <1>1, <1>2, <2>1, <2>2 DEF InitManifests, TempManifest, MemoryIsTrue
  <2>3. CASE file # Broken
    <3>1. /\ own' = IF file = NoManifest THEN NewManifest ELSE Parsed(NewManifest, file)
          /\ temp' = "own" /\ tempFiles' = tempFiles /\ file = tempManifest
      BY <1>1, <2>3 DEF InitManifests, tempDirVars
    <3>2. CASE file = NoManifest
      BY <2>1, <3>1, <3>2 DEF TempManifest, MemoryIsTrue
    <3>3. CASE file # NoManifest
      <4>1. file \in ManifestFile
        BY <1>3, <2>3, <3>1, <3>3 DEF FilesOK
      <4>2. own'.version = file.version /\ own'.state = file.state
        BY <3>1, <3>3, <4>1, UnmarkedProperties, ParsedProperties
      <4>3. \A a \in Assets : file.state[a] = "SUCCESSED" => tempFiles[a] = Md5[file.version][a]
        BY <2>3, <3>1, <3>3 DEF ProgressInv, SavedProgressIsTrue
      <4>4. TempManifest' = own'
        BY <3>1 DEF TempManifest
      <4>5. QED
        BY <3>1, <4>2, <4>3, <4>4 DEF MemoryIsTrue
    <3>4. QED
      BY <3>2, <3>3
  <2>4. QED
    BY <2>2, <2>3
<1>7. UnfinishedUnits' /\ VersionsAgree'
  BY <1>4 DEF UnfinishedUnits, VersionsAgree
<1>8. QED
  BY <1>2, <1>5, <1>6, <1>7 DEF ProgressInv

LEMMA ProgressInit == Init => ProgressInv
<1> SUFFICES ASSUME Init PROVE ProgressInv
  OBVIOUS
<1>1. /\ updateState = "UNCHECKED" /\ pc = "idle" /\ own = NewManifest /\ temp = "own"
      /\ downloadUnits = {} /\ failedUnits = {} /\ queue = {}
      /\ downloads = {} /\ arrived = {} /\ unzipping = {} /\ tempManifest = NoManifest
  BY DEF Init, StartManager
<1>2. Unfinished = {} /\ ~Underway
  BY <1>1 DEF Unfinished, UnitsSet, InFlight, Underway
<1>3. MemoryIsTrue
  BY <1>1, UnmarkedProperties DEF MemoryIsTrue, TempManifest
<1>4. QED
  BY <1>1, <1>2, <1>3 DEF ProgressInv, SavedProgressIsTrue, UnfinishedUnits, VersionsAgree

LEMMA ProgressStep == FlowInv /\ ProgressInv /\ [Next]_vars => ProgressInv'
<1> SUFFICES ASSUME FlowInv, ProgressInv, [Next]_vars PROVE ProgressInv'
  OBVIOUS
<1>1. CASE CheckUpdate \/ Update \/ DownloadFailedAssets \/ Publish
  BY <1>1, CallProgress
<1>2. CASE Continue
  BY <1>2, ResumeUpdateProgress, BeginUpdateProgress, BatchDownloadProgress,
     QueueDownloadProgress, DownloadUnitsFinishedProgress, UpdateSucceedProgress DEF Continue
<1>3. CASE Finish
  BY <1>3, VersionFinishedProgress, ManifestEndsProgress, ParseManifestProgress,
     AssetArrivesProgress, AssetEndsProgress DEF Finish
<1>4. CASE Crash
  BY <1>4, CrashProgress
<1>5. CASE UNCHANGED vars
  <2>1. /\ UNCHANGED <<updateState, own, remote, temp, downloadUnits, failedUnits, queue, pc,
                       downloads, arrived, unzipping, tempManifest, tempFiles>>
    BY <1>5 DEF vars, stateVars, unitVars, downloadVars, tempDirVars
  <2>2. Unfinished' = Unfinished /\ (Underway' => Underway)
    BY <2>1 DEF Unfinished, UnitsSet, InFlight, Underway
  <2>3. QED
    BY <2>1, <2>2, StillProgress
<1>6. QED
  BY <1>1, <1>2, <1>3, <1>4, <1>5 DEF Next

\* Saved progress can be trusted after a crash at any moment: an asset that the temporary
\* manifest on disk calls SUCCESSED is in the temporary directory, in that version.
THEOREM SavedProgressCanBeTrusted == Spec => []SavedProgressIsTrue
<1>1. ProgressInv => SavedProgressIsTrue
  BY DEF ProgressInv
<1>2. QED
  BY <1>1, ProgressInit, ProgressStep, UpdatesInOrder, PTL DEF Spec

-----------------------------------------------------------------------------
(***************************************************************************)
(* CompleteInv.  When no update that failed is checked anew, what is       *)
(* merged is a whole version.  An asset of the new version is unmarked in  *)
(* the manifest of an update only when the program has it already, and an  *)
(* unfinished one is never unmarked; a crash leaves what is saved, which   *)
(* says the same of the next local version, so it can be resumed.          *)
(***************************************************************************)

\* No update is under way, and none has failed that could be tried again.
Early ==
  \/ updateState \in {"UNCHECKED", "DOWNLOADING_VERSION", "DOWNLOADING_MANIFEST"}
  \/ updateState = "FAIL_TO_UPDATE" /\ failedUnits = {}

Active ==
  \/ updateState \in {"READY_TO_UPDATE", "UPDATING"}
  \/ updateState = "FAIL_TO_UPDATE" /\ failedUnits # {}

\* There is a remote manifest once there is an update, which takes the remote manifest
\* for the temporary one only when it begins.
OnceInv ==
  /\ Early => ~remote.loaded /\ failedUnits = {} /\ temp # "remote"
  /\ pc = "prepare" => temp # "remote"
  /\ Active => remote.loaded /\ temp # "none"

\* The program finds the files of version v.
Found(v) == \A a \in Assets : Md5[v][a] # NoFile => Visible(a) = Md5[v][a]

\* The local version is complete; while files are merged, a file of the remote version
\* is in the temporary directory or found by the program.
CacheInv ==
  /\ package <= local
  /\ pc # "merge" =>
       /\ renamedManifest = NoManifest
       /\ local = IF storageManifest = NoManifest THEN package ELSE storageManifest
       /\ storageManifest = NoManifest => \A a \in Assets : storageFiles[a] = NoFile
       /\ Found(local)
  /\ pc = "merge" =>
       /\ local <= remote.version
       /\ (IF renamedManifest = NoManifest THEN storageManifest ELSE renamedManifest)
            = remote.version
       /\ \A a \in Assets : Md5[remote.version][a] # NoFile =>
            \/ tempFiles[a] = Md5[remote.version][a]
            \/ tempFiles[a] = NoFile /\ Visible(a) = Md5[remote.version][a]

\* There is a temporary manifest on disk.
IsFile == tempManifest \notin {NoManifest, Broken}

\* An asset that manifest m does not mark is not downloaded and need not be.
Covered(m) ==
  \A a \in Assets : m.state[a] = "UNMARKED" =>
    tempFiles[a] = NoFile /\ (local <= m.version => a \notin Updated(local, m.version))

\* What prepareUpdate may resume is covered, and what a crash would leave to resume.
ResumeInv ==
  /\ temp = "none" => \A a \in Assets : tempFiles[a] = NoFile
  /\ temp = "own" /\ own.loaded /\ own.updating => pc # "merge" /\ Covered(own)
  /\ IsFile /\ tempManifest.updating => Covered(tempManifest)
  /\ Manifest \in arrived /\ IsFile => tempManifest.state = Unmarked
  /\ pc = "prepare" =>
       /\ IsFile /\ tempManifest.version = remote.version
       /\ remote.state = Unmarked /\ local < remote.version

\* When an update succeeds, every asset that differs is in the temporary directory.
SucceedInv ==
  pc = "succeed" =>
    /\ IsFile /\ tempManifest.version = remote.version
    /\ local <= remote.version
    /\ \A a \in Assets : \/ tempFiles[a] = Md5[remote.version][a]
                         \/ tempFiles[a] = NoFile /\ a \notin Updated(local, remote.version)

\* The manifest of an update covers its version, and what it marks as not done is what
\* is unfinished.
ActiveInv ==
  Active /\ pc # "merge" =>
    /\ IsFile /\ tempManifest.version = remote.version
    /\ local <= remote.version
    /\ Covered(TempManifest)
    /\ \A a \in Assets : TempManifest.state[a] \in {"UNSTARTED", "DOWNLOADING"} => a \in Unfinished
    /\ \A a \in Unfinished : /\ TempManifest.state[a] # "UNMARKED"
                             /\ tempManifest.state[a] # "UNMARKED"

CompleteInv == OnceInv /\ CacheInv /\ ResumeInv /\ SucceedInv /\ ActiveInv

\* No asset gets the contents of an older version again: the files of two versions that
\* agree on an asset are those of every version between.
ContentsAreNew ==
  \A u, v, w \in Versions : \A a \in Assets :
    u <= v /\ v <= w /\ Md5[w][a] # NoFile /\ Md5[u][a] = Md5[w][a] => Md5[v][a] = Md5[w][a]

LEMMA ManifestFiles ==
  \A file \in ManifestFile : /\ file # NoManifest /\ file # Broken
                             /\ file.version \in Versions /\ file.updating \in BOOLEAN
BY ManifestAssumption DEF ManifestFile

LEMMA VersionsAreNumbers == \A v \in Versions : v \in Int /\ v # NoManifest
BY VersionAssumption, ManifestAssumption DEF Versions

\* The state of the update tells the function that runs next.
LEMMA EarlyIsIdle ==
  ASSUME FlowInv
  PROVE  /\ Early => pc = "idle" /\ ~Active
         /\ Active => ~Early /\ pc # "prepare" /\ Manifest \notin arrived
         /\ updateState \notin {"UPDATING", "NEED_UPDATE"} => pc = "idle"
         /\ updateState # "DOWNLOADING_MANIFEST" => Manifest \notin arrived
         /\ pc # "idle" => ~Early
<1>1. TypeOK /\ StageOK
  BY DEF FlowInv
<1>2. Manifest \in arrived => updateState = "DOWNLOADING_MANIFEST"
  BY <1>1 DEF TypeOK, StageOK
<1>3. updateState \notin {"UPDATING", "NEED_UPDATE"} => pc = "idle"
  BY <1>1 DEF TypeOK, StageOK
<1>4. pc = "prepare" => updateState = "NEED_UPDATE"
  BY <1>1 DEF StageOK
<1>5. QED
  BY <1>2, <1>3, <1>4 DEF Early, Active

\* A step that leaves the manifests and the files.
LEMMA StillComplete ==
  ASSUME CompleteInv,
         UNCHANGED <<package, local, own, remote, temp, storageManifest, storageFiles,
                     tempManifest, renamedManifest, tempFiles>>,
         pc' = pc \/ (pc # "merge" /\ pc' \notin {"prepare", "succeed", "merge"}),
         Manifest \in arrived' => Manifest \in arrived,
         Early' => Early /\ failedUnits' = {}, Active' => Active,
         Active => Unfinished' = Unfinished
  PROVE  CompleteInv'
<1>1. TempManifest' = TempManifest /\ (IsFile' <=> IsFile)
  BY DEF TempManifest, IsFile
<1>2. OnceInv'
  BY DEF CompleteInv, OnceInv
<1>3. \A a : Visible(a)' = Visible(a)
  BY DEF Visible
<1>4. CacheInv'
  BY <1>3 DEF CompleteInv, CacheInv, Found
<1>5. ResumeInv'
  BY <1>1 DEF CompleteInv, ResumeInv, Covered
<1>6. SucceedInv'
  BY <1>1 DEF CompleteInv, SucceedInv
<1>7. ActiveInv'
  <2>1. SUFFICES ASSUME Active', pc' # "merge" PROVE ActiveInv'
    BY DEF ActiveInv
  <2>2. Active /\ pc # "merge" /\ Unfinished' = Unfinished
    BY <2>1
  <2>3. Covered(TempManifest)' <=> Covered(TempManifest)
    BY <1>1 DEF Covered
  <2>4. QED
    BY <1>1, <2>2, <2>3 DEF CompleteInv, ActiveInv
<1>8. QED
  BY <1>2, <1>4, <1>5, <1>6, <1>7 DEF CompleteInv

\* A step before an update begins, or that finds there is none.
LEMMA StillEarly ==
  ASSUME FlowInv, CompleteInv, Early,
         UNCHANGED <<package, local, own, temp, storageManifest, storageFiles, failedUnits>>,
         pc' = "idle", Manifest \in arrived' => Manifest \in arrived,
         \/ UNCHANGED <<tempManifest, renamedManifest, tempFiles>>
         \/ RemoveTempDir
         \/ UNCHANGED <<renamedManifest, tempFiles>> /\ tempManifest' = Broken,
         \/ updateState' = "UP_TO_DATE"
         \/ /\ updateState' \in {"UNCHECKED", "DOWNLOADING_VERSION", "DOWNLOADING_MANIFEST",
                                 "FAIL_TO_UPDATE"}
            /\ ~remote'.loaded
  PROVE  CompleteInv'
<1>1. pc = "idle" /\ failedUnits = {} /\ temp # "remote"
  BY EarlyIsIdle DEF CompleteInv, OnceInv
<1>2. ~Active'
  BY <1>1 DEF Active
<1>3. OnceInv'
  BY <1>1, <1>2 DEF OnceInv, Early
<1>4. \A a : Visible(a)' = Visible(a)
  BY DEF Visible
<1>5. renamedManifest' = NoManifest
  BY <1>1 DEF CompleteInv, CacheInv, RemoveTempDir
<1>6. CacheInv'
  BY <1>1, <1>4, <1>5 DEF CompleteInv, CacheInv, Found
<1>7. \A a \in Assets : tempFiles'[a] = tempFiles[a] \/ tempFiles'[a] = NoFile
  BY DEF RemoveTempDir
<1>8. IsFile' => IsFile /\ tempManifest' = tempManifest
  BY DEF IsFile, RemoveTempDir
<1>9. ResumeInv'
  BY <1>1, <1>7, <1>8 DEF CompleteInv, ResumeInv, Covered
<1>10. SucceedInv' /\ ActiveInv'
  BY <1>2 DEF SucceedInv, ActiveInv
<1>11. QED
  BY <1>3, <1>6, <1>9, <1>10 DEF CompleteInv

LEMMA CallComplete ==
  ASSUME FlowInv, CompleteInv, ~Rechecks,
         CheckUpdate \/ Update \/ DownloadFailedAssets \/ Publish
  PROVE  CompleteInv'
<1>1. /\ UNCHANGED <<package, local, own, remote, temp, storageManifest, storageFiles,
                     tempManifest, renamedManifest, tempFiles, arrived, unzipping, failedUnits,
                     queue>>
      /\ downloads' \in {downloads, downloads \cup {Version}, downloads \cup {Manifest}}
  BY DEF CheckUpdate, Update, DownloadFailedAssets, Publish, DownloadVersion, DownloadManifest,
         Download, stateVars, unitVars, downloadVars, tempDirVars, storageVars, worldVars
<1>2. InFlight' = InFlight
  BY <1>1, AssetDownloads DEF InFlight
<1>3. CASE CheckUpdate
  <2>1. /\ pc' = pc /\ pc = "idle" /\ downloadUnits' = downloadUnits
        /\ \/ updateState' = updateState
           \/ updateState = "UNCHECKED" /\ updateState' = "DOWNLOADING_VERSION"
    BY <1>3 DEF CheckUpdate, Call, DownloadVersion, Rechecks, unitVars
  <2>2. (Early' => Early /\ failedUnits' = {}) /\ (Active' => Active)
    BY <1>1, <2>1 DEF Early, Active, CompleteInv, OnceInv
  <2>3. Unfinished' = Unfinished
    BY <1>1, <1>2, <2>1 DEF Unfinished, UnitsSet
  <2>4. QED
    BY <1>1, <2>1, <2>2, <2>3, StillComplete
<1>4. CASE Update
  <2>1. /\ pc = "idle" /\ pc' \in {"idle", "batch"} /\ downloadUnits' = downloadUnits
        /\ \/ updateState' = updateState /\ pc' = pc
           \/ /\ updateState \in {"UNCHECKED", "FAIL_TO_UPDATE", "READY_TO_UPDATE"} /\ pc' = pc
              /\ updateState # "UNCHECKED" => ~remote.loaded
              /\ updateState' \in {"DOWNLOADING_VERSION", "DOWNLOADING_MANIFEST"}
           \/ updateState = "READY_TO_UPDATE" /\ updateState' = "UPDATING" /\ pc' = "batch"
    BY <1>4 DEF Update, Call, DownloadVersion, DownloadManifest, unitVars
  <2>2. (Early' => Early /\ failedUnits' = {}) /\ (Active' => Active)
    BY <1>1, <2>1 DEF Early, Active, CompleteInv, OnceInv
  <2>3. Active => (UnitsSet' <=> UnitsSet)
    BY <2>1 DEF UnitsSet, Active, CompleteInv, OnceInv
  <2>4. Active => Unfinished' = Unfinished
    BY <1>1, <1>2, <2>1, <2>3 DEF Unfinished
  <2>5. QED
    BY <1>1, <2>1, <2>2, <2>4, StillComplete
<1>5. CASE DownloadFailedAssets
  <2>1. /\ pc = "idle" /\ pc' = "batch" /\ downloadUnits' = failedUnits /\ failedUnits # {}
        /\ updateState = "FAIL_TO_UPDATE" /\ updateState' = "UPDATING"
    BY <1>5 DEF DownloadFailedAssets, Call
  <2>2. ~Early' /\ Active
    BY <2>1 DEF Early, Active
  <2>3. Unfinished' = Unfinished
    BY <1>1, <1>2, <2>1 DEF Unfinished, UnitsSet
  <2>4. QED
    BY <1>1, <2>1, <2>2, <2>3, StillComplete
<1>6. CASE Publish
  <2>1. UNCHANGED <<pc, updateState, downloadUnits>>
    BY <1>6 DEF Publish, stateVars, unitVars
  <2>2. (Early' => Early /\ failedUnits' = {}) /\ (Active' => Active)
    BY <1>1, <2>1 DEF Early, Active, CompleteInv, OnceInv
  <2>3. Unfinished' = Unfinished
    BY <1>1, <1>2, <2>1 DEF Unfinished, UnitsSet
  <2>4. QED
    BY <1>1, <2>1, <2>2, <2>3, StillComplete
<1>7. QED
  BY <1>3, <1>4, <1>5, <1>6

LEMMA VersionFinishedComplete ==
  ASSUME FlowInv, CompleteInv, VersionFinished PROVE CompleteInv'
<1>1. /\ UNCHANGED <<package, local, own, temp, storageManifest, storageFiles, failedUnits, pc,
                     arrived>>
      /\ pc = "idle" /\ Version \in downloads
  BY DEF VersionFinished, unitVars, storageVars, worldVars
<1>2. TypeOK /\ FilesOK /\ updateState = "DOWNLOADING_VERSION"
  BY <1>1 DEF FlowInv, StageOK
<1>3. Early /\ ~remote.loaded
  BY <1>2 DEF Early, CompleteInv, OnceInv
<1>4. ~Cleared(remote).loaded
  BY <1>2, ClearedProperties DEF FilesOK
<1>5. ~remote'.loaded
  <2>1. remote' \in {remote, Cleared(remote)} \/ remote' = WithVersion(remote, published)
    BY DEF VersionFinished
  <2>2. ~WithVersion(remote, published).loaded
    BY <1>2, WithVersionProperties DEF FilesOK, TypeOK
  <2>3. QED
    BY <1>3, <1>4, <2>1, <2>2
<1>6. \/ /\ updateState' = "DOWNLOADING_MANIFEST"
         /\ UNCHANGED <<tempManifest, renamedManifest, tempFiles>>
      \/ updateState' = "UP_TO_DATE" /\ RemoveTempDir
  BY DEF VersionFinished, tempDirVars
<1>7. QED
  BY <1>1, <1>3, <1>5, <1>6, StillEarly

LEMMA ManifestArrivesComplete ==
  ASSUME FlowInv, CompleteInv, ManifestArrives PROVE CompleteInv'
<1>1. /\ UNCHANGED <<updateState, package, local, own, remote, temp, storageManifest,
                     storageFiles, failedUnits, renamedManifest, tempFiles, pc>>
      /\ Manifest \in downloads
      /\ tempManifest' \in {ServerFile(published), Broken}
  BY DEF ManifestArrives, stateVars, unitVars, storageVars, worldVars
<1>2. TypeOK /\ updateState = "DOWNLOADING_MANIFEST"
  BY <1>1 DEF FlowInv, StageOK
<1>3. Early /\ pc = "idle" /\ ~Active
  BY <1>2, EarlyIsIdle DEF Early
<1>4. /\ ServerFile(published).updating = FALSE
      /\ ServerFile(published).state = Unmarked
  BY DEF ServerFile
<1>5. OnceInv'
  BY <1>1 DEF CompleteInv, OnceInv, Early, Active
<1>6. \A a : Visible(a)' = Visible(a)
  BY <1>1 DEF Visible
<1>7. CacheInv'
  BY <1>1, <1>6 DEF CompleteInv, CacheInv, Found
<1>8. ResumeInv'
  <2>1. IsFile' => tempManifest'.updating = FALSE /\ tempManifest'.state = Unmarked
    BY <1>1, <1>4 DEF IsFile
  <2>2. (temp = "own" /\ own.loaded /\ own.updating => Covered(own))'
    BY <1>1 DEF CompleteInv, ResumeInv, Covered
  <2>3. QED
    BY <1>1, <1>3, <2>1, <2>2 DEF CompleteInv, ResumeInv
<1>9. SucceedInv' /\ ActiveInv'
  BY <1>1, <1>3 DEF SucceedInv, ActiveInv, Active
<1>10. QED
  BY <1>5, <1>7, <1>8, <1>9 DEF CompleteInv

LEMMA ManifestFailsComplete ==
  ASSUME FlowInv, CompleteInv, ManifestFails PROVE CompleteInv'
<1>1. /\ UNCHANGED <<package, local, own, remote, temp, storageManifest, storageFiles,
                     failedUnits, renamedManifest, tempFiles, pc>>
      /\ pc = "idle" /\ Manifest \in downloads /\ arrived' = arrived \ {Manifest}
      /\ tempManifest' \in {tempManifest, Broken} /\ updateState' = "FAIL_TO_UPDATE"
  BY DEF ManifestFails, Reported, unitVars, storageVars, worldVars
<1>2. updateState = "DOWNLOADING_MANIFEST"
  BY <1>1 DEF FlowInv, StageOK
<1>3. Early /\ ~remote.loaded
  BY <1>2 DEF Early, CompleteInv, OnceInv
<1>4. QED
  BY <1>1, <1>3, StillEarly

\* The manifest has just been downloaded, so it marks no asset.
LEMMA ParseManifestComplete ==
  ASSUME FlowInv, CompleteInv, ParseManifest PROVE CompleteInv'
<1>1. /\ UNCHANGED <<package, local, own, temp, storageManifest, storageFiles, failedUnits>>
      /\ pc = "idle" /\ Manifest \in arrived /\ arrived' = arrived \ {Manifest}
  BY DEF ParseManifest, Reported, unitVars, storageVars, worldVars
<1>2. TypeOK /\ FilesOK /\ updateState = "DOWNLOADING_MANIFEST"
  BY <1>1 DEF FlowInv, StageOK, TypeOK
<1>3. Early /\ temp # "remote" /\ failedUnits = {}
  BY <1>2 DEF Early, CompleteInv, OnceInv
<1>4. CASE tempManifest = Broken
  <2>1. /\ ~Cleared(remote).loaded
    BY <1>2, ClearedProperties DEF FilesOK
  <2>2. /\ remote' = Cleared(remote) /\ updateState' = "UNCHECKED"
        /\ UNCHANGED <<pc, tempManifest, renamedManifest, tempFiles>>
    BY <1>4 DEF ParseManifest, tempDirVars
  <2>3. QED
    BY <1>1, <1>3, <2>1, <2>2, StillEarly
<1>5. CASE tempManifest # Broken
  <2>1. tempManifest \in ManifestFile
    BY <1>1, <1>5 DEF FlowInv, StageOK
  <2>2. IsFile /\ tempManifest.version \in Versions
    BY <2>1, ManifestFiles DEF IsFile
  <2>3. remote' = Parsed(remote, tempManifest)
    BY <1>5 DEF ParseManifest
  <2>4. remote'.version = tempManifest.version /\ remote'.state = tempManifest.state
    BY <1>2, <2>1, <2>3, ParsedProperties DEF FilesOK
  <2>5. CASE local >= tempManifest.version
    <3>1. updateState' = "UP_TO_DATE" /\ RemoveTempDir /\ pc' = pc
      BY <1>5, <2>5 DEF ParseManifest
    <3>2. QED
      BY <1>1, <1>3, <3>1, StillEarly
  <2>6. CASE ~(local >= tempManifest.version)
    <3>1. /\ updateState' = "NEED_UPDATE" /\ pc' = "prepare"
          /\ UNCHANGED <<tempManifest, renamedManifest, tempFiles>>
      BY <1>5, <2>6 DEF ParseManifest, tempDirVars
    <3>2. local < tempManifest.version
      BY <1>2, <2>2, <2>6, VersionsAreNumbers DEF TypeOK
    <3>3. OnceInv' /\ SucceedInv' /\ ActiveInv'
      BY <1>1, <1>3, <3>1 DEF OnceInv, Early, Active, SucceedInv, ActiveInv
    <3>4. \A a : Visible(a)' = Visible(a)
      BY <1>1 DEF Visible
    <3>5. CacheInv'
      BY <1>1, <3>1, <3>4 DEF CompleteInv, CacheInv, Found
    <3>6. (temp = "own" /\ own.loaded /\ own.updating => Covered(own))'
      BY <1>1, <3>1 DEF CompleteInv, ResumeInv, Covered
    <3>7. (IsFile /\ tempManifest.updating => Covered(tempManifest))'
      BY <1>1, <3>1 DEF CompleteInv, ResumeInv, Covered, IsFile
    <3>8. tempManifest.state = Unmarked
      BY <1>1, <2>2 DEF CompleteInv, ResumeInv
    <3>9. IsFile'
      BY <2>2, <3>1 DEF IsFile
    <3>10. ResumeInv'
      BY <1>1, <2>4, <3>1, <3>2, <3>6, <3>7, <3>8, <3>9 DEF CompleteInv, ResumeInv
    <3>11. QED
      BY <3>3, <3>5, <3>10 DEF CompleteInv
  <2>7. QED
    BY <2>5, <2>6
<1>6. QED
  BY <1>4, <1>5

\* A step of an update that leaves the temporary manifest as m, which is m in memory and
\* on disk or in memory only, and touches no file of an asset that is not marked.
LEMMA ActiveStep ==
  ASSUME FlowInv, CompleteInv, Active, Active', pc # "merge", pc' \notin {"prepare", "merge"},
         NEW m \in ManifestObject, TempManifest' = m, m.version = remote.version,
         UNCHANGED <<package, local, temp, storageManifest, storageFiles, renamedManifest>>,
         remote'.loaded = remote.loaded, remote'.version = remote.version,
         Manifest \in arrived' => Manifest \in arrived, SucceedInv',
         \A a \in Assets : m.state[a] = "UNMARKED" =>
            TempManifest.state[a] = "UNMARKED" /\ tempFiles'[a] = tempFiles[a],
         \A a \in Assets : m.state[a] \in {"UNSTARTED", "DOWNLOADING"} => a \in Unfinished',
         \A a \in Unfinished' : m.state[a] # "UNMARKED",
         TempManifest.version = remote.version,
         \/ tempManifest' = Saved(m)
         \/ /\ tempManifest' = tempManifest /\ Unfinished' \subseteq Unfinished
            /\ \A a \in Assets : tempManifest.state[a] = "UNMARKED" => tempFiles'[a] = tempFiles[a]
  PROVE  CompleteInv'
<1>1. /\ IsFile /\ tempManifest.version = remote.version /\ local <= remote.version
      /\ Covered(TempManifest) /\ remote.loaded /\ temp # "none"
      /\ \A a \in Unfinished : tempManifest.state[a] # "UNMARKED"
  BY DEF CompleteInv, ActiveInv, OnceInv
<1>2. ~Early' /\ Manifest \notin arrived
  BY EarlyIsIdle DEF Early, Active
<1>3. OnceInv'
  BY <1>1, <1>2 DEF OnceInv
<1>4. \A a : Visible(a)' = Visible(a)
  BY DEF Visible
<1>5. CacheInv'
  BY <1>4 DEF CompleteInv, CacheInv, Found
<1>6. \A a \in Assets : m.state[a] = "UNMARKED" =>
         tempFiles'[a] = NoFile /\ (local <= m.version => a \notin Updated(local, m.version))
  BY <1>1 DEF Covered
<1>7. Covered(TempManifest)'
  BY <1>6 DEF Covered
<1>8. /\ Saved(m) \in ManifestFile /\ Saved(m).version = m.version /\ Saved(m).state = m.state
  BY SavedProperties
<1>9. IsFile' /\ tempManifest'.version = remote'.version
  <2>1. CASE tempManifest' = Saved(m)
    BY <1>8, <2>1, ManifestFiles DEF IsFile
  <2>2. CASE tempManifest' = tempManifest
    BY <1>1, <2>2 DEF IsFile
  <2>3. QED
    BY <2>1, <2>2
<1>10. (tempManifest.updating => Covered(tempManifest))'
  <2>1. CASE tempManifest' = Saved(m)
    BY <1>6, <1>8, <2>1 DEF Covered
  <2>2. CASE /\ tempManifest' = tempManifest
             /\ \A a \in Assets : tempManifest.state[a] = "UNMARKED" =>
                                    tempFiles'[a] = tempFiles[a]
    BY <1>1, <2>2 DEF CompleteInv, ResumeInv, Covered
  <2>3. QED
    BY <2>1, <2>2
<1>11. temp' = "own" => Covered(own)'
  BY <1>6 DEF TempManifest, Covered
<1>12. ResumeInv'
  BY <1>1, <1>2, <1>10, <1>11 DEF ResumeInv
<1>13. \A a \in Unfinished' : tempManifest'.state[a] # "UNMARKED"
  BY <1>1, <1>8
<1>14. ActiveInv'
  BY <1>1, <1>7, <1>9, <1>13 DEF ActiveInv
<1>15. QED
  BY <1>3, <1>5, <1>12, <1>14 DEF CompleteInv

\* An update goes on with what its temporary manifest does not have.
LEMMA ResumeUpdateComplete ==
  ASSUME FlowInv, CompleteInv, ResumeUpdate PROVE CompleteInv'
<1>1. /\ UNCHANGED <<package, local, own, remote, temp, storageManifest, storageFiles,
                     renamedManifest, tempFiles, queue, downloads, arrived, unzipping>>
      /\ pc = "prepare" /\ Resumable /\ tempManifest' = Saved(TempManifest)
      /\ downloadUnits' = ResumeAssets(TempManifest) /\ failedUnits' = {}
      /\ \/ updateState' = "UPDATING" /\ pc' = "batch"
         \/ updateState' = "READY_TO_UPDATE" /\ pc' = "idle"
  BY DEF ResumeUpdate, Prepared, downloadVars, storageVars, worldVars
<1>2. TypeOK /\ FilesOK /\ StageOK /\ UnitsOK
  BY DEF FlowInv
<1>3. updateState = "NEED_UPDATE" /\ remote.loaded /\ Manifest \notin arrived
  BY <1>1, <1>2 DEF StageOK, TypeOK
<1>4. /\ temp = "own" /\ TempManifest = own /\ TempManifest' = own
      /\ own.loaded /\ own.updating /\ own.version = remote.version
  BY <1>1, <1>2 DEF CompleteInv, OnceInv, Resumable, TempManifest, TypeOK
<1>5. Covered(own) /\ local < remote.version
  BY <1>1, <1>4 DEF CompleteInv, ResumeInv
<1>6. own \in ManifestObject /\ remote.version \in Versions /\ local \in Versions
  BY <1>2 DEF FilesOK, ManifestObject, TypeOK
<1>7. local <= remote.version
  BY <1>5, <1>6, VersionsAreNumbers
<1>8. /\ Saved(own) \in ManifestFile /\ Saved(own).version = own.version
      /\ Saved(own).state = own.state
  BY <1>6, SavedProperties
<1>9. Active' /\ ~Early'
  BY <1>1 DEF Active, Early
<1>10. Unfinished' = ResumeAssets(own)
  <2>1. queue = {} /\ InFlight' = {}
    BY <1>1, <1>2, <1>3 DEF UnitsOK, Working, InFlight
  <2>2. UnitsSet'
    BY <1>1 DEF UnitsSet
  <2>3. QED
    BY <1>1, <1>4, <2>1, <2>2 DEF Unfinished
<1>11. OnceInv'
  BY <1>1, <1>3, <1>4, <1>9 DEF OnceInv
<1>12. \A a : Visible(a)' = Visible(a)
  BY <1>1 DEF Visible
<1>13. CacheInv'
  BY <1>1, <1>12 DEF CompleteInv, CacheInv, Found
<1>14. IsFile'
  BY <1>1, <1>4, <1>8, ManifestFiles DEF IsFile
<1>15. Covered(own)' /\ Covered(tempManifest)'
  BY <1>1, <1>4, <1>5, <1>8 DEF Covered
<1>16. ResumeInv'
  BY <1>1, <1>3, <1>4, <1>15 DEF ResumeInv
<1>17. /\ \A a \in Assets : own.state[a] \in {"UNSTARTED", "DOWNLOADING"} => a \in Unfinished'
       /\ \A a \in Unfinished' : own.state[a] # "UNMARKED"
  BY <1>10 DEF ResumeAssets
<1>18. ActiveInv'
  <2>1. Covered(TempManifest)'
    BY <1>1, <1>4, <1>15 DEF Covered
  <2>2. tempManifest'.version = remote'.version /\ tempManifest'.state = own.state
    BY <1>1, <1>4, <1>8
  <2>3. QED
    BY <1>1, <1>4, <1>7, <1>14, <1>17, <2>1, <2>2 DEF ActiveInv
<1>19. SucceedInv'
  BY <1>1 DEF SucceedInv
<1>20. QED
  BY <1>11, <1>13, <1>16, <1>18, <1>19 DEF CompleteInv

\* Everything that differs is a unit of the update, and the temporary directory is empty.
LEMMA BeginUpdateComplete ==
  ASSUME FlowInv, CompleteInv, BeginUpdate PROVE CompleteInv'
<1>1. /\ UNCHANGED <<package, local, own, storageManifest, storageFiles, queue, downloads,
                     arrived, unzipping>>
      /\ pc = "prepare" /\ temp' = "remote" /\ failedUnits' = {}
      /\ IF temp = "none" THEN UNCHANGED <<renamedManifest, tempFiles>>
         ELSE renamedManifest' = NoManifest /\ tempFiles' = [a \in Assets |-> NoFile]
  BY DEF BeginUpdate, Prepared, downloadVars, storageVars, worldVars
<1>2. TypeOK /\ FilesOK /\ StageOK /\ UnitsOK
  BY DEF FlowInv
<1>3. updateState = "NEED_UPDATE" /\ remote.loaded /\ Manifest \notin arrived
  BY <1>1, <1>2 DEF StageOK, TypeOK
<1>4. /\ IsFile /\ tempManifest.version = remote.version /\ remote.state = Unmarked
      /\ local < remote.version
  BY <1>1 DEF CompleteInv, ResumeInv
<1>5. remote \in ManifestObject /\ remote.version \in Versions /\ local \in Versions
  BY <1>2 DEF FilesOK, ManifestObject, TypeOK
<1>6. local <= remote.version
  BY <1>4, <1>5, VersionsAreNumbers
<1>7. \A a \in Assets : tempFiles'[a] = NoFile
  BY <1>1 DEF CompleteInv, ResumeInv
<1>8. renamedManifest' = NoManifest
  BY <1>1 DEF CompleteInv, CacheInv
<1>9. \A a : Visible(a)' = Visible(a)
  BY <1>1 DEF Visible
<1>10. CASE Diff(local, remote.version) = {}
  <2>1. /\ tempManifest' = IF temp = "none" THEN tempManifest ELSE Saved(remote)
        /\ pc' = "succeed" /\ UNCHANGED <<remote, updateState>>
    BY <1>10 DEF BeginUpdate
  <2>2. Updated(local, remote.version) = {}
    BY <1>10 DEF Updated
  <2>3. IsFile' /\ tempManifest'.version = remote'.version
    BY <1>4, <1>5, <2>1, SavedProperties, ManifestFiles DEF IsFile
  <2>4. SucceedInv'
    BY <1>1, <1>6, <1>7, <2>1, <2>2, <2>3 DEF SucceedInv
  <2>5. OnceInv' /\ ActiveInv'
    BY <1>3, <2>1 DEF OnceInv, ActiveInv, Early, Active
  <2>6. CacheInv'
    BY <1>1, <1>8, <1>9, <2>1 DEF CompleteInv, CacheInv, Found
  <2>7. Covered(tempManifest)'
    BY <1>1, <1>7, <2>1, <2>2, <2>3 DEF Covered
  <2>8. ResumeInv'
    BY <1>1, <1>3, <2>1, <2>7 DEF ResumeInv
  <2>9. QED
    BY <2>4, <2>5, <2>6, <2>8 DEF CompleteInv
<1>11. CASE Diff(local, remote.version) # {}
  <2>1. PICK units : units = Updated(local, remote.version)
    OBVIOUS
  <2>2. PICK marked : marked = WithUpdating(Marked(remote, units, "UNSTARTED"), TRUE)
    OBVIOUS
  <2>3. /\ remote' = marked /\ tempManifest' = Saved(marked) /\ downloadUnits' = units
        /\ \/ updateState' = "UPDATING" /\ pc' = "batch"
           \/ updateState' = "READY_TO_UPDATE" /\ pc' = "idle"
    BY <1>11, <2>1, <2>2 DEF BeginUpdate, Prepared
  <2>4. /\ marked \in ManifestObject /\ marked.loaded /\ marked.version = remote.version
        /\ \A a \in Assets : marked.state[a] = IF a \in units THEN "UNSTARTED" ELSE "UNMARKED"
    <3>1. PICK m : m = Marked(remote, units, "UNSTARTED")
      OBVIOUS
    <3>2. /\ m \in ManifestObject /\ m.loaded /\ m.version = remote.version
          /\ \A a \in Assets : m.state[a] = IF a \in units THEN "UNSTARTED" ELSE remote.state[a]
      BY <1>3, <1>5, <3>1, MarkedProperties DEF Marks
    <3>3. /\ marked \in ManifestObject /\ marked.loaded = m.loaded /\ marked.version = m.version
          /\ marked.state = m.state
      BY <2>2, <3>1, <3>2, WithUpdatingProperties
    <3>4. QED
      BY <1>4, <3>2, <3>3, UnmarkedProperties
  <2>5. /\ Saved(marked) \in ManifestFile /\ Saved(marked).version = marked.version
        /\ Saved(marked).state = marked.state
    BY <2>4, SavedProperties
  <2>6. IsFile' /\ tempManifest'.version = remote'.version /\ TempManifest' = marked
    BY <1>1, <2>3, <2>5, ManifestFiles DEF IsFile, TempManifest
  <2>7. Unfinished' = units /\ units \subseteq Assets
    <3>1. queue = {} /\ InFlight' = {}
      BY <1>1, <1>2, <1>3 DEF UnitsOK, Working, InFlight
    <3>2. UnitsSet'
      BY <2>3 DEF UnitsSet
    <3>3. QED
      BY <1>1, <2>1, <2>3, <3>1, <3>2 DEF Unfinished, Updated, Diff
  <2>8. Active' /\ ~Early'
    BY <2>3 DEF Active, Early
  <2>9. OnceInv'
    BY <1>1, <2>3, <2>4, <2>8 DEF OnceInv
  <2>10. CacheInv'
    BY <1>1, <1>8, <1>9, <2>3 DEF CompleteInv, CacheInv, Found
  <2>11. Covered(TempManifest)' /\ Covered(tempManifest)'
    BY <1>1, <1>7, <2>1, <2>3, <2>4, <2>5, <2>6 DEF Covered
  <2>12. ResumeInv'
    BY <1>1, <1>3, <2>3, <2>11 DEF ResumeInv
  <2>13. ActiveInv'
    BY <1>1, <1>6, <2>3, <2>4, <2>5, <2>6, <2>7, <2>11 DEF ActiveInv
  <2>14. SucceedInv'
    BY <2>3 DEF SucceedInv
  <2>15. QED
    BY <2>9, <2>10, <2>12, <2>13, <2>14 DEF CompleteInv
<1>12. QED
  BY <1>10, <1>11

LEMMA BatchDownloadComplete ==
  ASSUME FlowInv, CompleteInv, BatchDownload PROVE CompleteInv'
<1>1. /\ UNCHANGED <<updateState, package, local, own, remote, temp, storageManifest,
                     storageFiles, tempManifest, renamedManifest, tempFiles, downloadUnits,
                     failedUnits, downloads, arrived, unzipping>>
      /\ pc = "batch" /\ pc' = "queue" /\ queue' = downloadUnits
  BY DEF BatchDownload, stateVars, downloadVars, storageVars, tempDirVars, worldVars
<1>2. updateState = "UPDATING" /\ queue = {}
  BY <1>1 DEF FlowInv, StageOK, UnitsOK, Working
<1>3. Unfinished' = Unfinished
  BY <1>1, <1>2 DEF Unfinished, UnitsSet, InFlight
<1>4. ~Early' /\ Active
  BY <1>1, <1>2 DEF Early, Active
<1>5. QED
  BY <1>1, <1>3, <1>4, StillComplete

LEMMA QueueDownloadComplete ==
  ASSUME FlowInv, ProgressInv, CompleteInv, QueueDownload PROVE CompleteInv'
<1>1. /\ UNCHANGED <<updateState, package, local, temp, storageManifest, storageFiles,
                     downloadUnits, failedUnits, renamedManifest, tempFiles>>
      /\ pc = "queue"
  BY DEF QueueDownload, storageVars, worldVars
<1>2. TypeOK /\ FilesOK /\ updateState = "UPDATING"
  BY <1>1 DEF FlowInv, StageOK
<1>3. Active /\ Active' /\ ~Early'
  BY <1>1, <1>2 DEF Active, Early
<1>4. CASE /\ pc' = "finished"
           /\ UNCHANGED <<remote, own, queue, currConcurrentTask, nextSavePoint, downloadVars,
                          tempManifest>>
  <2>1. UNCHANGED <<downloads, arrived, unzipping>>
    BY <1>4 DEF downloadVars
  <2>2. Unfinished' = Unfinished
    BY <1>1, <1>2, <1>4, <2>1 DEF Unfinished, UnitsSet, InFlight
  <2>3. QED
    BY <1>1, <1>3, <1>4, <2>1, <2>2, StillComplete
<1>5. CASE totalWaitToDownload # 0 /\ pc' = "idle"
  <2>1. PICK S \in SUBSET queue :
             /\ queue' = queue \ S
             /\ Download(S)
             /\ SetTempManifest(Marked(TempManifest, S, "DOWNLOADING"))
             /\ \/ tempManifest' = Saved(Marked(TempManifest, S, "DOWNLOADING"))
                \/ tempManifest' = tempManifest
    BY <1>5 DEF QueueDownload
  <2>2. downloads' = downloads \cup S /\ UNCHANGED <<arrived, unzipping>>
    BY <2>1 DEF Download
  <2>3. PICK m \in ManifestObject : m = Marked(TempManifest, S, "DOWNLOADING")
    BY <1>2, TempManifestObject, MarkedProperties DEF Marks
  <2>4. /\ m.version = TempManifest.version
        /\ \A a \in Assets : m.state[a] = IF a \in S THEN "DOWNLOADING"
                                          ELSE TempManifest.state[a]
    BY <1>2, <2>3, TempManifestObject, MarkedProperties DEF Marks
  <2>5. /\ TempManifest' = m /\ remote'.version = remote.version
        /\ remote'.loaded = remote.loaded
    BY <1>1, <1>2, <2>1, <2>3, MarkedTemp DEF Marks
  <2>6. TempManifest.version = remote.version
    BY <1>2 DEF ProgressInv, VersionsAgree, Underway
  <2>7. queue \subseteq Assets
    BY <1>2 DEF TypeOK
  <2>8. Unfinished' = Unfinished /\ S \subseteq Unfinished
    <3>1. InFlight' = InFlight \cup S
      BY <2>2, <2>7 DEF InFlight
    <3>2. ~UnitsSet /\ ~UnitsSet'
      BY <1>1, <1>2, <1>5 DEF UnitsSet
    <3>3. QED
      BY <1>1, <2>1, <3>1, <3>2 DEF Unfinished
  <2>9. Unfinished \subseteq Assets
    BY <1>1, <1>2, AssetsAssumption DEF Unfinished, UnitsSet, TypeOK, InFlight
  <2>10. /\ \A a \in Assets : TempManifest.state[a] \in {"UNSTARTED", "DOWNLOADING"} =>
                                a \in Unfinished
         /\ \A a \in Unfinished : TempManifest.state[a] # "UNMARKED"
    BY <1>1, <1>3 DEF CompleteInv, ActiveInv
  <2>11. /\ \A a \in Assets : m.state[a] \in {"UNSTARTED", "DOWNLOADING"} => a \in Unfinished'
         /\ \A a \in Unfinished' : m.state[a] # "UNMARKED"
         /\ \A a \in Assets : m.state[a] = "UNMARKED" => TempManifest.state[a] = "UNMARKED"
    BY <2>4, <2>8, <2>9, <2>10
  <2>12. SucceedInv'
    BY <1>5 DEF SucceedInv
  <2>13. tempManifest' = Saved(m) \/ tempManifest' = tempManifest
    BY <2>1, <2>3
  <2>14. QED
    BY <1>1, <1>3, <1>5, <2>2, <2>4, <2>5, <2>6, <2>8, <2>11, <2>12, <2>13, ActiveStep
<1>6. QED
  BY <1>4, <1>5 DEF QueueDownload

LEMMA AssetArrivesComplete ==
  ASSUME FlowInv, ProgressInv, CompleteInv, NEW a \in Assets, AssetArrives(a)
  PROVE  CompleteInv'
<1>1. /\ UNCHANGED <<updateState, package, local, own, remote, temp, storageManifest,
                     storageFiles, downloadUnits, failedUnits, queue, pc, downloads, unzipping,
                     tempManifest, renamedManifest>>
      /\ a \in downloads /\ arrived' = arrived \cup {a}
      /\ \A b \in Assets : b # a => tempFiles'[b] = tempFiles[b]
  BY DEF AssetArrives, FlowInv, FilesOK, stateVars, unitVars, storageVars, worldVars
<1>2. TypeOK /\ FilesOK /\ a \in InFlight
  BY <1>1 DEF FlowInv, InFlight
<1>3. updateState = "UPDATING" /\ pc \in {"idle", "queue"}
  BY <1>2, FlightIsWork
<1>4. Active /\ Active' /\ a # Manifest
  BY <1>1, <1>3, NamesAssumption DEF Active
<1>5. TempManifest' = TempManifest /\ TempManifest \in ManifestObject
  BY <1>1, <1>2, TempManifestObject DEF TempManifest
<1>6. TempManifest.version = remote.version
  BY <1>3 DEF ProgressInv, VersionsAgree, Underway
<1>7. Unfinished' = Unfinished /\ a \in Unfinished
  BY <1>1, <1>2 DEF Unfinished, UnitsSet, InFlight
<1>8. /\ \A b \in Assets : TempManifest.state[b] \in {"UNSTARTED", "DOWNLOADING"} =>
                             b \in Unfinished
      /\ \A b \in Unfinished : TempManifest.state[b] # "UNMARKED"
                               /\ tempManifest.state[b] # "UNMARKED"
  BY <1>3, <1>4 DEF CompleteInv, ActiveInv
<1>9. SucceedInv'
  BY <1>1, <1>3 DEF SucceedInv
<1>10. QED
  BY <1>1, <1>3, <1>4, <1>5, <1>6, <1>7, <1>8, <1>9, ActiveStep

\* A unit ends, and the file of no other asset has changed.
LEMMA UnitComplete ==
  ASSUME FlowInv, ProgressInv, CompleteInv, NEW a \in Assets, a \in InFlight,
         NEW mark \in {"UNSTARTED", "SUCCESSED"},
         SetTempManifest(Marked(TempManifest, {a}, mark)), pc' = "queue",
         UNCHANGED <<updateState, package, local, temp, storageManifest, storageFiles, queue,
                     tempManifest, renamedManifest>>,
         failedUnits' = IF mark = "SUCCESSED" THEN failedUnits \ {a} ELSE failedUnits \cup {a},
         downloads' = downloads \ {a}, arrived' = arrived \ {a}, unzipping' = unzipping \ {a},
         \A b \in Assets : b # a => tempFiles'[b] = tempFiles[b]
  PROVE  CompleteInv'
<1>1. TypeOK /\ FilesOK
  BY DEF FlowInv
<1>2. updateState = "UPDATING" /\ pc \in {"idle", "queue"}
  BY FlightIsWork
<1>3. PICK m \in ManifestObject : m = Marked(TempManifest, {a}, mark)
  BY <1>1, TempManifestObject, MarkedProperties DEF Marks
<1>4. /\ m.version = TempManifest.version /\ m.state[a] = mark
      /\ \A b \in Assets : b # a => m.state[b] = TempManifest.state[b]
  BY <1>1, <1>3, TempManifestObject, MarkedProperties DEF Marks
<1>5. TempManifest' = m /\ remote'.version = remote.version /\ remote'.loaded = remote.loaded
  BY <1>1, <1>3, MarkedTemp DEF Marks
<1>6. TempManifest.version = remote.version
  BY <1>2 DEF ProgressInv, VersionsAgree, Underway
<1>7. Active /\ Active'
  BY <1>2 DEF Active
<1>8. /\ Unfinished = queue \cup InFlight \cup failedUnits /\ Unfinished \subseteq Assets
      /\ Unfinished' = queue \cup (InFlight \ {a}) \cup failedUnits'
  <2>1. ~UnitsSet /\ ~UnitsSet'
    BY <1>2 DEF UnitsSet
  <2>2. InFlight' = InFlight \ {a}
    BY DEF InFlight
  <2>3. InFlight \subseteq Assets /\ queue \subseteq Assets /\ failedUnits \subseteq Assets
    BY <1>1, AssetsAssumption DEF TypeOK, InFlight
  <2>4. QED
    BY <2>1, <2>2, <2>3 DEF Unfinished
<1>9. a \in Unfinished /\ Unfinished' \subseteq Unfinished
  BY <1>8
<1>10. /\ \A b \in Assets : TempManifest.state[b] \in {"UNSTARTED", "DOWNLOADING"} =>
                              b \in Unfinished
       /\ \A b \in Unfinished : TempManifest.state[b] # "UNMARKED"
                                /\ tempManifest.state[b] # "UNMARKED"
  BY <1>2, <1>7 DEF CompleteInv, ActiveInv
<1>11. \A b \in Assets : m.state[b] \in {"UNSTARTED", "DOWNLOADING"} => b \in Unfinished'
  BY <1>4, <1>8, <1>10
<1>12. \A b \in Unfinished' : m.state[b] # "UNMARKED"
  BY <1>4, <1>8, <1>9, <1>10
<1>13. \A b \in Assets : /\ m.state[b] = "UNMARKED" =>
                             TempManifest.state[b] = "UNMARKED" /\ tempFiles'[b] = tempFiles[b]
                         /\ tempManifest.state[b] = "UNMARKED" => tempFiles'[b] = tempFiles[b]
  BY <1>4, <1>9, <1>10
<1>14. SucceedInv'
  BY DEF SucceedInv
<1>15. QED
  BY <1>2, <1>4, <1>5, <1>6, <1>7, <1>9, <1>11, <1>12, <1>13, <1>14, ActiveStep

LEMMA AssetEndsComplete ==
  ASSUME FlowInv, ProgressInv, CompleteInv, NEW a \in Assets,
         AssetFails(a) \/ AssetSucceeds(a) \/ DecompressFinished(a)
  PROVE  CompleteInv'
<1>1. UNCHANGED <<updateState, package, local, temp, storageManifest, storageFiles, downloadUnits,
                  queue, tempManifest, renamedManifest>>
  BY DEF AssetFails, AssetSucceeds, DecompressFinished, tempDirVars, storageVars, worldVars
<1>2. TypeOK /\ FilesOK
  BY DEF FlowInv
<1>3. downloads \cap unzipping = {} /\ arrived \subseteq downloads
  BY <1>2 DEF FlowInv, UnitsOK, TypeOK
<1>4. \/ a \in downloads /\ downloads' = downloads \ {a} /\ arrived' = arrived \ {a}
      \/ a \in unzipping /\ unzipping' = unzipping \ {a} /\ UNCHANGED <<downloads, arrived>>
  BY <1>3 DEF AssetFails, AssetSucceeds, DecompressFinished, Reported
<1>5. a \in InFlight
  BY <1>4 DEF InFlight
<1>6. CASE AssetSucceeds(a) /\ a \in Compressed /\ unzipping' = unzipping \cup {a}
           /\ UNCHANGED <<remote, own, failedUnits, pc>>
  <2>1. tempFiles' = tempFiles /\ downloads' = downloads \ {a} /\ arrived' = arrived \ {a}
    BY <1>6 DEF AssetSucceeds, Reported, tempDirVars
  <2>2. InFlight' = InFlight
    BY <1>5, <1>6, <2>1 DEF InFlight
  <2>3. Unfinished' = Unfinished
    BY <1>1, <1>6, <2>2 DEF Unfinished, UnitsSet
  <2>4. updateState = "UPDATING"
    BY <1>5, FlightIsWork
  <2>5. ~Early' /\ Active
    BY <1>1, <2>4 DEF Early, Active
  <2>6. QED
    BY <1>1, <1>6, <2>1, <2>3, <2>5, StillComplete
<1>7. CASE /\ downloads' = downloads \ {a} /\ arrived' = arrived \ {a}
           /\ unzipping' = unzipping \ {a}
           /\ FileError(a) \/ FileSuccess(a)
  <2>1. pc' = "queue"
    BY <1>7 DEF FileError, FileSuccess
  <2>2. \A b \in Assets : b # a => tempFiles'[b] = tempFiles[b]
    BY <1>2 DEF AssetFails, AssetSucceeds, DecompressFinished, tempDirVars, FilesOK
  <2>3. PICK mark \in {"UNSTARTED", "SUCCESSED"} :
          /\ SetTempManifest(Marked(TempManifest, {a}, mark))
          /\ failedUnits' = IF mark = "SUCCESSED" THEN failedUnits \ {a} ELSE failedUnits \cup {a}
    BY <1>7 DEF FileError, FileSuccess, Failed
  <2>4. QED
    BY <1>1, <1>5, <1>7, <2>1, <2>2, <2>3, UnitComplete
<1>8. QED
  <2>1. CASE AssetFails(a)
    BY <1>3, <1>7, <2>1 DEF AssetFails, Reported
  <2>2. CASE AssetSucceeds(a)
    BY <1>3, <1>6, <1>7, <2>2 DEF AssetSucceeds, Reported
  <2>3. CASE DecompressFinished(a)
    BY <1>3, <1>7, <2>3 DEF DecompressFinished
  <2>4. QED
    BY <2>1, <2>2, <2>3

\* Nothing is unfinished, so what the update does not have it need not have.
LEMMA DownloadUnitsFinishedComplete ==
  ASSUME FlowInv, ProgressInv, CompleteInv, DownloadUnitsFinished PROVE CompleteInv'
<1>1. /\ UNCHANGED <<package, local, own, remote, temp, storageManifest, storageFiles,
                     renamedManifest, tempFiles, failedUnits, queue, downloads, arrived,
                     unzipping>>
      /\ pc = "finished" /\ tempManifest' = Saved(TempManifest)
      /\ \/ failedUnits # {} /\ updateState' = "FAIL_TO_UPDATE" /\ pc' = "idle"
         \/ failedUnits = {} /\ updateState' = updateState /\ pc' = "succeed"
  BY DEF DownloadUnitsFinished, unitVars, downloadVars, storageVars, worldVars
<1>2. TypeOK /\ FilesOK /\ UnitsOK /\ updateState = "UPDATING"
  BY <1>1 DEF FlowInv, StageOK
<1>3. Active /\ Active' /\ ~UnitsSet /\ ~UnitsSet'
  BY <1>1, <1>2 DEF Active, UnitsSet
<1>4. TempManifest \in ManifestObject /\ TempManifest' = TempManifest
  BY <1>1, <1>2, TempManifestObject DEF TempManifest
<1>5. TempManifest.version = remote.version
  BY <1>2 DEF ProgressInv, VersionsAgree, Underway
<1>6. Unfinished' = failedUnits /\ Unfinished = failedUnits
  BY <1>1, <1>2, <1>3 DEF UnitsOK, Working, Unfinished, InFlight
<1>7. /\ local <= remote.version /\ Covered(TempManifest)
      /\ \A a \in Assets : TempManifest.state[a] \in {"UNSTARTED", "DOWNLOADING"} =>
                             a \in Unfinished
      /\ \A a \in Unfinished : TempManifest.state[a] # "UNMARKED"
  BY <1>1, <1>3 DEF CompleteInv, ActiveInv
<1>8. /\ tempManifest' \in ManifestFile /\ tempManifest'.version = TempManifest.version
      /\ tempManifest' = Saved(TempManifest)
  BY <1>1, <1>4, SavedProperties
<1>9. SucceedInv'
  <2>1. CASE pc' = "idle"
    BY <2>1 DEF SucceedInv
  <2>2. CASE pc' = "succeed"
    <3>1. IsFile'
      BY <1>8, ManifestFiles DEF IsFile
    <3>2. SUFFICES ASSUME NEW a \in Assets
                   PROVE  \/ tempFiles[a] = Md5[remote.version][a]
                          \/ tempFiles[a] = NoFile /\ a \notin Updated(local, remote.version)
      BY <1>1, <1>5, <1>7, <1>8, <3>1 DEF SucceedInv
    <3>3. TempManifest.state[a] \in {"UNMARKED", "SUCCESSED"}
      <4>1. TempManifest.state[a] \in Marks
        BY <1>4 DEF ManifestObject
      <4>2. a \notin Unfinished
        BY <1>1, <1>6, <2>2
      <4>3. QED
        BY <1>7, <4>1, <4>2 DEF Marks
    <3>4. CASE TempManifest.state[a] = "SUCCESSED"
      BY <1>1, <1>2, <1>5, <3>4 DEF ProgressInv, MemoryIsTrue
    <3>5. CASE TempManifest.state[a] = "UNMARKED"
      BY <1>5, <1>7, <3>5 DEF Covered
    <3>6. QED
      BY <3>3, <3>4, <3>5
  <2>3. QED
    BY <1>1, <2>1, <2>2
<1>10. pc # "merge" /\ pc' \notin {"prepare", "merge"} /\ Unfinished' \subseteq Unfinished
  BY <1>1, <1>6
<1>11. QED
  BY <1>1, <1>3, <1>4, <1>5, <1>6, <1>7, <1>8, <1>9, <1>10, ActiveStep

\* The temporary manifest is about to be the cached one.
LEMMA RenameTempManifestComplete ==
  ASSUME FlowInv, CompleteInv, RenameTempManifest PROVE CompleteInv'
<1>1. /\ UNCHANGED <<updateState, package, local, temp, storageManifest, storageFiles, tempFiles,
                     failedUnits, queue, downloads, arrived, unzipping>>
      /\ pc = "succeed" /\ pc' = "merge"
      /\ SetTempManifest(WithUpdating(TempManifest, FALSE))
  BY DEF RenameTempManifest, unitVars, downloadVars, storageVars, worldVars
<1>2. TypeOK /\ FilesOK /\ updateState \in {"UPDATING", "NEED_UPDATE"}
  BY <1>1 DEF FlowInv, StageOK
<1>3. /\ IsFile /\ tempManifest.version = remote.version /\ local <= remote.version
      /\ \A a \in Assets : \/ tempFiles[a] = Md5[remote.version][a]
                           \/ tempFiles[a] = NoFile /\ a \notin Updated(local, remote.version)
  BY <1>1 DEF CompleteInv, SucceedInv
<1>4. renamedManifest' = remote.version /\ tempManifest' = NoManifest
  BY <1>3 DEF RenameTempManifest, TempManifestRenamed, IsFile
<1>5. remote.version \in Versions
  BY <1>2 DEF FilesOK, ManifestObject
<1>6. PICK m : m = WithUpdating(TempManifest, FALSE)
  OBVIOUS
<1>7. /\ m.version = TempManifest.version /\ m.loaded = TempManifest.loaded
      /\ m.loaded => ~m.updating
  BY <1>2, <1>6, TempManifestObject, WithUpdatingProperties
<1>8. IF temp = "own" THEN own' = m /\ remote' = remote ELSE remote' = m /\ own' = own
  BY <1>1, <1>6 DEF SetTempManifest
<1>9. /\ remote'.version = remote.version /\ remote'.loaded = remote.loaded
      /\ temp = "own" => ~(own'.loaded /\ own'.updating)
  BY <1>7, <1>8 DEF TempManifest
<1>10. OnceInv'
  BY <1>1, <1>2, <1>9 DEF CompleteInv, OnceInv, Early, Active
<1>11. \A a \in Assets : Md5[remote.version][a] # NoFile =>
         \/ tempFiles[a] = Md5[remote.version][a]
         \/ tempFiles[a] = NoFile /\ Visible(a) = Md5[remote.version][a]
  <2>1. \A a \in Assets : Md5[local][a] # NoFile => Visible(a) = Md5[local][a]
    BY <1>1 DEF CompleteInv, CacheInv, Found
  <2>2. \A a \in Assets : a \notin Updated(local, remote.version) /\ Md5[remote.version][a] # NoFile
                            => Md5[local][a] = Md5[remote.version][a]
    BY DEF Updated, Diff
  <2>3. QED
    BY <1>3, <2>1, <2>2
<1>12. \A a : Visible(a)' = Visible(a)
  BY <1>1 DEF Visible
<1>13. CacheInv'
  BY <1>1, <1>3, <1>4, <1>5, <1>9, <1>11, <1>12, VersionsAreNumbers DEF CompleteInv, CacheInv
<1>14. ResumeInv'
  BY <1>1, <1>2, <1>4, <1>9 DEF CompleteInv, ResumeInv, IsFile
<1>15. SucceedInv' /\ ActiveInv'
  BY <1>1 DEF SucceedInv, ActiveInv
<1>16. QED
  BY <1>10, <1>13, <1>14, <1>15 DEF CompleteInv

LEMMA MergeFileComplete ==
  ASSUME FlowInv, CompleteInv, MergeFile PROVE CompleteInv'
<1>1. /\ UNCHANGED <<updateState, package, local, own, remote, temp, failedUnits, arrived, pc,
                     tempManifest>>
      /\ pc = "merge"
  BY DEF MergeFile, stateVars, unitVars, downloadVars, worldVars
<1>2. TypeOK /\ FilesOK /\ tempManifest = NoManifest
  BY <1>1 DEF FlowInv, StageOK
<1>3. /\ package <= local /\ local <= remote.version
      /\ (IF renamedManifest = NoManifest THEN storageManifest ELSE renamedManifest)
           = remote.version
      /\ \A a \in Assets : Md5[remote.version][a] # NoFile =>
            \/ tempFiles[a] = Md5[remote.version][a]
            \/ tempFiles[a] = NoFile /\ Visible(a) = Md5[remote.version][a]
  BY <1>1 DEF CompleteInv, CacheInv
<1>4. CacheInv'
  <2>1. CASE /\ renamedManifest # NoManifest
             /\ storageManifest' = renamedManifest
             /\ renamedManifest' = NoManifest
             /\ UNCHANGED <<storageFiles, tempFiles>>
    <3>1. \A a : Visible(a)' = Visible(a)
      BY <1>1, <2>1 DEF Visible
    <3>2. QED
      BY <1>1, <1>3, <2>1, <3>1 DEF CacheInv
  <2>2. CASE \E a \in Assets :
               /\ tempFiles[a] # NoFile
               /\ storageFiles' = [storageFiles EXCEPT ![a] = tempFiles[a]]
               /\ tempFiles' = [tempFiles EXCEPT ![a] = NoFile]
               /\ UNCHANGED <<storageManifest, renamedManifest>>
    <3>1. PICK a \in Assets :
               /\ tempFiles[a] # NoFile
               /\ storageFiles' = [storageFiles EXCEPT ![a] = tempFiles[a]]
               /\ tempFiles' = [tempFiles EXCEPT ![a] = NoFile]
               /\ UNCHANGED <<storageManifest, renamedManifest>>
      BY <2>2
    <3>2. /\ storageFiles'[a] = tempFiles[a] /\ tempFiles'[a] = NoFile
          /\ \A b \in Assets : b # a => storageFiles'[b] = storageFiles[b]
                                        /\ tempFiles'[b] = tempFiles[b]
      BY <1>2, <3>1 DEF FilesOK
    <3>3. /\ Visible(a)' = tempFiles[a]
          /\ \A b \in Assets : b # a => Visible(b)' = Visible(b)
      BY <1>1, <3>1, <3>2 DEF Visible
    <3>4. \A b \in Assets : Md5[remote.version][b] # NoFile =>
            \/ tempFiles'[b] = Md5[remote.version][b]
            \/ tempFiles'[b] = NoFile /\ Visible(b)' = Md5[remote.version][b]
      BY <1>3, <3>1, <3>2, <3>3
    <3>5. QED
      BY <1>1, <1>3, <3>1, <3>4 DEF CacheInv
  <2>3. QED
    BY <2>1, <2>2 DEF MergeFile
<1>5. \A a \in Assets : tempFiles'[a] = tempFiles[a] \/ tempFiles'[a] = NoFile
  BY <1>2 DEF MergeFile, FilesOK
<1>6. ResumeInv'
  BY <1>1, <1>2, <1>5 DEF CompleteInv, ResumeInv, IsFile
<1>7. OnceInv' /\ SucceedInv' /\ ActiveInv'
  BY <1>1 DEF CompleteInv, OnceInv, SucceedInv, ActiveInv, Early, Active
<1>8. QED
  BY <1>4, <1>6, <1>7 DEF CompleteInv

LEMMA SwapLocalManifestComplete ==
  ASSUME FlowInv, CompleteInv, SwapLocalManifest PROVE CompleteInv'
<1>1. /\ UNCHANGED <<package, own, remote, temp, storageManifest, arrived>>
      /\ pc = "merge" /\ pc' = "idle" /\ updateState' = "UP_TO_DATE"
      /\ local' = remote.version
      /\ renamedManifest = NoManifest /\ \A a \in Assets : tempFiles[a] = NoFile
      /\ storageFiles' = [a \in Assets |->
                            IF a \in Diff(local, remote.version) /\ Md5[remote.version][a] = NoFile
                            THEN NoFile ELSE storageFiles[a]]
      /\ RemoveTempDir
  BY DEF SwapLocalManifest, downloadVars, worldVars
<1>2. TypeOK /\ FilesOK
  BY DEF FlowInv
<1>3. tempManifest' = NoManifest /\ renamedManifest' = NoManifest
      /\ \A a \in Assets : tempFiles'[a] = NoFile
  BY <1>1 DEF RemoveTempDir
<1>4. /\ package <= local /\ local <= remote.version /\ storageManifest = remote.version
      /\ \A a \in Assets : Md5[remote.version][a] # NoFile =>
            \/ tempFiles[a] = Md5[remote.version][a]
            \/ tempFiles[a] = NoFile /\ Visible(a) = Md5[remote.version][a]
  BY <1>1 DEF CompleteInv, CacheInv
<1>5. remote.version \in Versions /\ local \in Versions /\ package \in Versions
  BY <1>2 DEF FilesOK, ManifestObject, TypeOK
<1>6. package <= remote.version
  BY <1>4, <1>5, VersionsAreNumbers
<1>7. \A a \in Assets : Md5[remote.version][a] # NoFile => Visible(a)' = Md5[remote.version][a]
  BY <1>1, <1>4 DEF Visible
<1>8. remote.version # NoManifest
  BY <1>5, VersionsAreNumbers
<1>9. Found(local)'
  BY <1>1, <1>7 DEF Found
<1>10. CacheInv'
  BY <1>1, <1>3, <1>4, <1>6, <1>8, <1>9 DEF CacheInv
<1>11. ResumeInv'
  BY <1>1, <1>3 DEF CompleteInv, ResumeInv, IsFile
<1>12. OnceInv' /\ SucceedInv' /\ ActiveInv'
  BY <1>1 DEF OnceInv, SucceedInv, ActiveInv, Early, Active
<1>13. QED
  BY <1>10, <1>11, <1>12 DEF CompleteInv

\* The next local version is between the one before and that of the manifest left.
LEMMA CrashComplete ==
  ASSUME ContentsAreNew, "merging" \notin CrashPoints, FlowInv, CompleteInv, Crash
  PROVE  CompleteInv'
<1>1. PICK packaged \in package..published : LoadLocalManifest(packaged)
  BY DEF Crash
<1>2. PICK file \in {tempManifest, Broken} : InitManifests(file)
  BY DEF Crash
<1>3. /\ updateState' = "UNCHECKED" /\ remote' = NewManifest
      /\ failedUnits' = {} /\ pc' = "idle" /\ arrived' = {}
  BY DEF Crash, RestartManager
<1>4. pc # "merge"
  BY DEF Crash, Merging
<1>5. TypeOK /\ FilesOK
  BY DEF FlowInv
<1>6. packaged \in Versions /\ package <= packaged
  BY <1>5, VersionAssumption DEF TypeOK, Versions
<1>7. /\ renamedManifest = NoManifest /\ package <= local
      /\ local = IF storageManifest = NoManifest THEN package ELSE storageManifest
      /\ storageManifest = NoManifest => \A a \in Assets : storageFiles[a] = NoFile
      /\ \A a \in Assets : Md5[local][a] # NoFile => Visible(a) = Md5[local][a]
  BY <1>4 DEF CompleteInv, CacheInv, Found
<1>8. local \in Versions /\ package \in Versions
  BY <1>5 DEF TypeOK
<1>9. package' = packaged
  BY <1>1 DEF LoadLocalManifest
<1>10. /\ local <= local' /\ packaged <= local' /\ local' \in Versions
       /\ local' = IF storageManifest' = NoManifest THEN packaged ELSE storageManifest'
       /\ storageManifest' = NoManifest => \A a \in Assets : storageFiles'[a] = NoFile
       /\ \A a \in Assets : Md5[local'][a] # NoFile => Visible(a)' = Md5[local'][a]
  <2>1. CASE storageManifest = NoManifest
    <3>1. local' = packaged /\ storageManifest' = storageManifest /\ storageFiles' = storageFiles
      BY <1>1, <2>1 DEF LoadLocalManifest, storageVars
    <3>2. \A a \in Assets : storageFiles'[a] = NoFile
      BY <1>7, <2>1, <3>1
    <3>3. \A a \in Assets : Visible(a)' = Md5[packaged][a]
      BY <1>9, <3>2 DEF Visible
    <3>4. QED
      BY <1>6, <1>7, <1>8, <2>1, <3>1, <3>2, <3>3, VersionsAreNumbers
  <2>2. CASE storageManifest # NoManifest /\ packaged > storageManifest
    <3>1. local' = packaged /\ storageManifest' = NoManifest
          /\ \A a \in Assets : storageFiles'[a] = NoFile
      BY <1>1, <2>2 DEF LoadLocalManifest
    <3>2. \A a \in Assets : Visible(a)' = Md5[packaged][a]
      BY <1>9, <3>1 DEF Visible
    <3>3. QED
      BY <1>6, <1>7, <1>8, <2>2, <3>1, <3>2, VersionsAreNumbers
  <2>3. CASE storageManifest # NoManifest /\ ~(packaged > storageManifest)
    <3>1. /\ local' = storageManifest /\ storageManifest' = storageManifest
          /\ storageFiles' = storageFiles
      BY <1>1, <2>3 DEF LoadLocalManifest, storageVars
    <3>2. local' = local /\ packaged <= local
      BY <1>6, <1>7, <1>8, <2>3, <3>1, VersionsAreNumbers
    <3>3. \A a \in Assets : Md5[local][a] # NoFile => Visible(a)' = Md5[local][a]
      <4>1. SUFFICES ASSUME NEW a \in Assets, Md5[local][a] # NoFile
                     PROVE  Visible(a)' = Md5[local][a]
        OBVIOUS
      <4>2. CASE storageFiles[a] # NoFile
        BY <1>7, <3>1, <4>1, <4>2 DEF Visible
      <4>3. CASE storageFiles[a] = NoFile
        <5>1. Md5[package][a] = Md5[local][a]
          BY <1>7, <4>1, <4>3 DEF Visible
        <5>2. Md5[packaged][a] = Md5[local][a]
          BY <1>6, <1>8, <3>2, <4>1, <5>1 DEF ContentsAreNew
        <5>3. QED
          BY <1>9, <3>1, <4>3, <5>2 DEF Visible
      <4>4. QED
        BY <4>2, <4>3
    <3>4. QED
      BY <1>8, <2>3, <3>1, <3>2, <3>3, VersionsAreNumbers
  <2>4. QED
    BY <2>1, <2>2, <2>3
<1>11. ~NewManifest.loaded
  BY UnmarkedProperties
<1>12. /\ temp' \in {"none", "own"} /\ renamedManifest' = NoManifest
       /\ IsFile' => IsFile /\ tempManifest' = tempManifest /\ tempFiles' = tempFiles
       /\ temp' = "none" => \A a \in Assets : tempFiles'[a] = NoFile
       /\ temp' = "own" => \/ ~own'.loaded
                           \/ /\ IsFile' /\ own'.state = tempManifest.state
                              /\ own'.version = tempManifest.version
                              /\ own'.updating => tempManifest.updating
  <2>1. CASE file = Broken
    BY <1>2, <2>1 DEF InitManifests, RemoveTempDir, IsFile
  <2>2. CASE file # Broken
    <3>1. /\ own' = IF file = NoManifest THEN NewManifest ELSE Parsed(NewManifest, file)
          /\ temp' = "own" /\ file = tempManifest
          /\ UNCHANGED <<tempManifest, renamedManifest, tempFiles>>
      BY <1>2, <2>2 DEF InitManifests, tempDirVars
    <3>2. CASE file = NoManifest
      BY <1>7, <1>11, <3>1, <3>2 DEF IsFile
    <3>3. CASE file # NoManifest
      <4>1. tempManifest \in ManifestFile /\ own' = Parsed(NewManifest, tempManifest)
        BY <1>5, <2>2, <3>1, <3>3 DEF FilesOK
      <4>2. own'.version = tempManifest.version /\ own'.state = tempManifest.state
        BY <4>1, UnmarkedProperties, ParsedProperties
      <4>3. own'.updating => tempManifest.updating
        BY <4>1, UnmarkedProperties, ClearedProperties DEF Parsed
      <4>4. QED
        BY <1>7, <2>2, <3>1, <3>3, <4>2, <4>3 DEF IsFile
    <3>4. QED
      BY <3>2, <3>3
  <2>3. QED
    BY <2>1, <2>2
<1>13. IsFile' /\ tempManifest.updating => Covered(tempManifest)'
  <2>1. SUFFICES ASSUME IsFile', tempManifest.updating, NEW a \in Assets,
                        tempManifest.state[a] = "UNMARKED"
                 PROVE  /\ tempFiles'[a] = NoFile
                        /\ local' <= tempManifest.version =>
                             a \notin Updated(local, tempManifest.version)'
    BY <1>12 DEF Covered
  <2>2. IsFile /\ tempFiles' = tempFiles /\ tempManifest' = tempManifest
    BY <1>12, <2>1
  <2>3. /\ tempFiles[a] = NoFile
        /\ local <= tempManifest.version => a \notin Updated(local, tempManifest.version)
    BY <2>1, <2>2 DEF CompleteInv, ResumeInv, Covered
  <2>4. tempManifest.version \in Versions
    BY <1>5, <2>2, ManifestFiles DEF FilesOK, IsFile
  <2>5. SUFFICES ASSUME local' <= tempManifest.version, Md5[tempManifest.version][a] # NoFile
                 PROVE  Md5[local'][a] = Md5[tempManifest.version][a]
    BY <2>2, <2>3 DEF Updated, Diff
  <2>6. local <= tempManifest.version
    BY <1>8, <1>10, <2>4, <2>5, VersionsAreNumbers
  <2>7. Md5[local][a] = Md5[tempManifest.version][a]
    BY <2>3, <2>5, <2>6 DEF Updated, Diff
  <2>8. \A v \in Versions : local <= v /\ v <= tempManifest.version =>
                             Md5[v][a] = Md5[tempManifest.version][a]
    BY <1>8, <2>1, <2>4, <2>5, <2>7 DEF ContentsAreNew
  <2>9. QED
    BY <1>10, <2>5, <2>8
<1>14. OnceInv'
  BY <1>3, <1>11, <1>12 DEF OnceInv, Early, Active
<1>15. CacheInv'
  <2>1. Found(local)'
    BY <1>10 DEF Found
  <2>2. QED
    BY <1>3, <1>9, <1>10, <1>12, <2>1 DEF CacheInv
<1>16. ResumeInv'
  <2>1. (temp = "own" /\ own.loaded /\ own.updating => Covered(own))'
    BY <1>12, <1>13 DEF Covered
  <2>2. (IsFile /\ tempManifest.updating => Covered(tempManifest))'
    BY <1>12, <1>13 DEF Covered
  <2>3. QED
    BY <1>3, <1>12, <2>1, <2>2 DEF ResumeInv
<1>17. SucceedInv' /\ ActiveInv'
  BY <1>3 DEF SucceedInv, ActiveInv, Active
<1>18. QED
  BY <1>14, <1>15, <1>16, <1>17 DEF CompleteInv

LEMMA CompleteInit == Init => CompleteInv
<1> SUFFICES ASSUME Init PROVE CompleteInv
  OBVIOUS
<1>1. /\ updateState = "UNCHECKED" /\ pc = "idle" /\ own = NewManifest /\ temp = "own"
      /\ remote = NewManifest /\ failedUnits = {} /\ arrived = {} /\ tempManifest = NoManifest
      /\ renamedManifest = NoManifest /\ storageManifest = NoManifest /\ local = 0 /\ package = 0
      /\ storageFiles = [a \in Assets |-> NoFile]
  BY DEF Init, StartManager
<1>2. ~NewManifest.loaded
  BY UnmarkedProperties
<1>3. \A a \in Assets : storageFiles[a] = NoFile /\ Visible(a) = Md5[0][a]
  BY <1>1 DEF Visible
<1>4. OnceInv /\ SucceedInv /\ ActiveInv
  BY <1>1, <1>2 DEF OnceInv, SucceedInv, ActiveInv, Early, Active
<1>5. CacheInv
  BY <1>1, <1>3 DEF CacheInv, Found
<1>6. ResumeInv
  BY <1>1, <1>2 DEF ResumeInv, IsFile
<1>7. QED
  BY <1>4, <1>5, <1>6 DEF CompleteInv

LEMMA CompleteStep ==
  ASSUME ContentsAreNew, "merging" \notin CrashPoints, FlowInv, ProgressInv, CompleteInv,
         Next, ~Rechecks
  PROVE  CompleteInv'
<1>1. CASE CheckUpdate \/ Update \/ DownloadFailedAssets \/ Publish
  BY <1>1, CallComplete
<1>2. CASE Continue
  BY <1>2, ResumeUpdateComplete, BeginUpdateComplete, BatchDownloadComplete,
     QueueDownloadComplete, DownloadUnitsFinishedComplete, RenameTempManifestComplete,
     MergeFileComplete, SwapLocalManifestComplete DEF Continue
<1>3. CASE Finish
  BY <1>3, VersionFinishedComplete, ManifestArrivesComplete, ManifestFailsComplete,
     ParseManifestComplete, AssetArrivesComplete, AssetEndsComplete DEF Finish
<1>4. CASE Crash
  BY <1>4, CrashComplete
<1>5. QED
  BY <1>1, <1>2, <1>3, <1>4 DEF Next

\* Nothing happens.
LEMMA CompleteStutter == CompleteInv /\ UNCHANGED vars => CompleteInv'
<1> SUFFICES ASSUME CompleteInv, UNCHANGED vars PROVE CompleteInv'
  OBVIOUS
<1>1. /\ UNCHANGED <<updateState, package, local, own, remote, temp, storageManifest,
                     storageFiles, tempManifest, renamedManifest, tempFiles, downloadUnits>>
      /\ UNCHANGED <<failedUnits, queue, pc, downloads, arrived, unzipping>>
  BY DEF vars, stateVars, unitVars, downloadVars, storageVars, tempDirVars, worldVars
<1>2. Unfinished' = Unfinished /\ (Early' <=> Early) /\ (Active' <=> Active)
  BY <1>1 DEF Unfinished, UnitsSet, InFlight, Early, Active
<1>3. Early' => Early /\ failedUnits' = {}
  BY <1>1, <1>2 DEF CompleteInv, OnceInv
<1>4. QED
  BY <1>1, <1>2, <1>3, StillComplete

CompletePartInv == FlowInv /\ ProgressInv /\ (part = "update" => CompleteInv)

\* Unless checkUpdate() is called after a failed update, the program crashes in the
\* middle of a merge, or an asset gets old contents again, the cached manifest describes
\* the files that the program finds, whatever fails, is tried again or is resumed.
THEOREM UpdatesMergeWholeVersions ==
  ASSUME ContentsAreNew, "merging" \notin CrashPoints
  PROVE  PartsSpec => []UpdatesAreComplete
<1>1. PartsInit => CompletePartInv
  BY FlowInit, ProgressInit, CompleteInit DEF PartsInit, CompletePartInv
<1>2. CompletePartInv /\ [PartStep(Next)]_allVars => CompletePartInv'
  <2> SUFFICES ASSUME CompletePartInv, [PartStep(Next)]_allVars PROVE CompletePartInv'
    OBVIOUS
  <2>1. FlowInv /\ ProgressInv
    BY DEF CompletePartInv
  <2>2. [Next]_vars /\ part' = part
    BY DEF PartStep, allVars
  <2>3. FlowInv' /\ ProgressInv'
    BY <2>1, <2>2, FlowStep, ProgressStep
  <2>4. part = "update" => CompleteInv'
    <3>1. SUFFICES ASSUME part = "update" PROVE CompleteInv'
      OBVIOUS
    <3>2. CompleteInv
      BY <3>1 DEF CompletePartInv
    <3>3. CASE UNCHANGED vars
      BY <3>2, <3>3, CompleteStutter
    <3>4. CASE PartStep(Next)
      BY <2>1, <3>1, <3>2, <3>4, CompleteStep DEF PartStep
    <3>5. QED
      BY <3>3, <3>4 DEF allVars
  <2>5. QED
    BY <2>2, <2>3, <2>4 DEF CompletePartInv
<1>3. CompletePartInv => UpdatesAreComplete
  <2> SUFFICES ASSUME CompletePartInv PROVE UpdatesAreComplete
    OBVIOUS
  <2>1. SUFFICES ASSUME part = "update", storageManifest # NoManifest, pc # "merge"
                 PROVE  \A a \in Assets : Md5[storageManifest][a] # NoFile =>
                                            Visible(a) = Md5[storageManifest][a]
    BY DEF UpdatesAreComplete, CachedVersionIsComplete, Merging
  <2>2. CacheInv
    BY <2>1 DEF CompletePartInv, CompleteInv
  <2>3. QED
    BY <2>1, <2>2 DEF CacheInv, Found
<1>4. QED
  BY <1>1, <1>2, <1>3, PTL DEF PartsSpec
=============================================================================
