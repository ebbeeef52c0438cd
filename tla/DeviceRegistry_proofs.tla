----------------------- MODULE DeviceRegistry_proofs -----------------------
(***************************************************************************)
(* FileIsWhole, SavedSurvivesRestart, ChangesByRequestOrDeath and          *)
(* DeadArePruned for any number of tokens, handlers, dispatches and        *)
(* crashes.  The invariant says what a save that nobody overlapped may     *)
(* rely on: the temporary file is its own, and the map did not change      *)
(* since its snapshot but in the times of the pushes.                      *)
(***************************************************************************)
EXTENDS DeviceRegistry, TLAPS

SaveStages == {"snapshot", "open", "write", "orphan", "rename"}
Lone == Saving \ disturbed

SaveTypes ==
  /\ devices \in Registry
  /\ stage \in [Tasks -> {"idle", "send"} \cup SaveStages]
  /\ snap \in [Tasks -> Registry]
  /\ fd \in [Tasks -> {"none", "tmp", "file", "unlinked"}]
  /\ tmp \in Content /\ file \in Content
  /\ disturbed \subseteq Saving

LoneIsAlone ==
  /\ \A k \in Lone : Saving = {k}
  /\ ~clash => disturbed = {}
  /\ Saving # {} => unsaved

HandleIsOpen ==
  \A k \in Tasks : fd[k] = "none" <=> stage[k] \notin {"write", "orphan"}

(* What a save that nobody overlapped finds.                               *)
LoneOwnsTmp ==
  \A k \in Lone :
    /\ stage[k] \in {"write", "orphan"} => fd[k] = "tmp" /\ tmp.state = "empty"
    /\ stage[k] = "rename" => tmp = File("whole", snap[k])
    /\ stage[k] # "snapshot" => Platforms(snap[k]) = Platforms(devices)

SaveInv ==
  /\ SaveTypes /\ LoneIsAlone /\ HandleIsOpen /\ LoneOwnsTmp
  /\ FileIsWhole /\ SavedSurvivesRestart

LEMMA SavingIs ==
  /\ Saving = {k \in Tasks : stage[k] \in SaveStages}
  /\ Saving' = {k \in Tasks : stage'[k] \in SaveStages}
BY DEF Saving, SaveStages

LEMMA SavingBegins ==
  ASSUME SaveTypes, NEW k \in Tasks,
         stage' = [stage EXCEPT ![k] = "snapshot"]
  PROVE  Saving' = Saving \cup {k}
BY SavingIs DEF SaveTypes, SaveStages

LEMMA SavingGoesOn ==
  ASSUME SaveTypes, NEW k \in Saving, NEW next \in SaveStages,
         stage' = [stage EXCEPT ![k] = next]
  PROVE  Saving' = Saving /\ k \in Tasks
BY SavingIs DEF SaveTypes, SaveStages

LEMMA SavingEnds ==
  ASSUME SaveTypes, NEW k \in Saving,
         stage' = [stage EXCEPT ![k] = "idle"]
  PROVE  Saving' = Saving \ {k} /\ k \in Tasks
BY SavingIs DEF SaveTypes, SaveStages

(* A change of the map that begins a save.                                 *)
LEMMA BeginKeepsInv ==
  ASSUME SaveInv, NEW k \in Tasks, k \notin Saving, BeginSave(k),
         devices' \in Registry, UNCHANGED <<snap, fd, tmp, file>>
  PROVE  SaveInv'
<1>1. Saving' = Saving \cup {k}
  BY SavingBegins DEF BeginSave, SaveInv
<1>2. stage' = [stage EXCEPT ![k] = "snapshot"] /\ unsaved' = TRUE
  BY DEF BeginSave
<1>3. CASE Saving = {}
  <2>1. disturbed' = {} /\ Lone' = {k} /\ (~clash' => ~clash)
    BY <1>1, <1>3 DEF BeginSave, Lone, SaveInv, SaveTypes
  <2>2. SaveTypes'
    BY <1>1, <1>2, <2>1 DEF SaveInv, SaveTypes, SaveStages
  <2>3. LoneIsAlone'
    BY <1>1, <1>2, <1>3, <2>1 DEF LoneIsAlone
  <2>4. LoneOwnsTmp'
    BY <1>2, <2>1 DEF LoneOwnsTmp, SaveInv, SaveTypes
  <2>5. HandleIsOpen'
    BY <1>2, SavingIs DEF HandleIsOpen, SaveInv, SaveTypes, SaveStages
  <2>6. FileIsWhole' /\ SavedSurvivesRestart'
    BY <1>2, <2>1 DEF FileIsWhole, SavedSurvivesRestart, SaveInv
  <2> QED BY <2>2, <2>3, <2>4, <2>5, <2>6 DEF SaveInv
<1>4. CASE Saving # {}
  <2>1. disturbed' = Saving' /\ Lone' = {} /\ clash' = TRUE
    BY <1>1, <1>4 DEF BeginSave, Lone, SaveInv, SaveTypes
  <2>2. SaveTypes'
    BY <1>1, <1>2, <2>1 DEF SaveInv, SaveTypes, SaveStages
  <2>3. LoneIsAlone' /\ LoneOwnsTmp'
    BY <1>2, <2>1 DEF LoneIsAlone, LoneOwnsTmp
  <2>5. HandleIsOpen'
    BY <1>2, SavingIs DEF HandleIsOpen, SaveInv, SaveTypes, SaveStages
  <2>6. FileIsWhole' /\ SavedSurvivesRestart'
    BY <1>2, <2>1 DEF FileIsWhole, SavedSurvivesRestart
  <2> QED BY <2>2, <2>3, <2>5, <2>6 DEF SaveInv
<1> QED BY <1>3, <1>4

(* The end of a save: when nobody overlapped it, the file is as it was or  *)
(* holds the map.                                                          *)
LEMMA EndKeepsInv ==
  ASSUME SaveInv, NEW k \in Saving, NEW done \in BOOLEAN, EndSave(k, done),
         UNCHANGED <<devices, refused>>,
         tmp' \in Content, file' \in Content,
         fd' \in [Tasks -> {"none", "tmp", "file", "unlinked"}],
         \A j \in Tasks : fd'[j] = "none" <=> j = k \/ fd[j] = "none",
         k \in Lone /\ done => /\ file'.state = "whole"
                               /\ Platforms(file'.devs) = Platforms(devices),
         k \in Lone /\ ~done => file' = file
  PROVE  SaveInv'
<1>1. Saving' = Saving \ {k} /\ k \in Tasks
  BY SavingEnds DEF EndSave, SaveInv
<1>2. /\ stage' = [stage EXCEPT ![k] = "idle"]
      /\ snap' = [snap EXCEPT ![k] = Empty]
      /\ disturbed' = disturbed \ {k}
      /\ clash' = (clash /\ ~(done /\ k \notin disturbed))
      /\ unsaved' = (unsaved /\ ~(done /\ k \notin disturbed))
  BY DEF EndSave
<1>3. k \in Lone => Saving = {k} /\ disturbed = {}
  BY DEF SaveInv, SaveTypes, LoneIsAlone, Lone
<1>4. Lone' = {}
  BY <1>1, <1>2 DEF SaveInv, LoneIsAlone, Lone
<1>5. k \in Lone <=> k \notin disturbed
  BY DEF Lone
<1>6. SaveTypes'
  <2>1. Empty \in Registry
    BY DEF Empty, Registry
  <2> QED BY <1>1, <1>2, <2>1 DEF SaveInv, SaveTypes, SaveStages
<1>7. LoneIsAlone'
  BY <1>1, <1>2, <1>3, <1>4, <1>5 DEF SaveInv, LoneIsAlone
<1>8. HandleIsOpen'
  BY <1>1, <1>2 DEF SaveInv, HandleIsOpen, SaveTypes
<1>9. LoneOwnsTmp'
  BY <1>4 DEF LoneOwnsTmp
<1>10. FileIsWhole'
  BY <1>2, <1>5 DEF SaveInv, FileIsWhole, LoneIsAlone
<1>11. SavedSurvivesRestart'
  BY <1>2, <1>5 DEF SaveInv, SavedSurvivesRestart, LoneIsAlone
<1> QED BY <1>6, <1>7, <1>8, <1>9, <1>10, <1>11 DEF SaveInv

(* A step that no save notices.                                            *)
LEMMA RestKeepsInv ==
  ASSUME SaveInv, devices' \in Registry, Platforms(devices') = Platforms(devices),
         stage' \in [Tasks -> {"idle", "send"} \cup SaveStages],
         \A k \in Tasks : stage'[k] = stage[k]
           \/ {stage[k], stage'[k]} \subseteq {"idle", "send"},
         UNCHANGED <<snap, fd, tmp, file, refused, disturbed, clash, unsaved>>
  PROVE  SaveInv'
<1>1. Saving' = Saving /\ Lone' = Lone
  BY SavingIs DEF Lone, SaveStages
<1>2. \A k \in Lone : k \in Tasks /\ stage'[k] = stage[k]
  BY SavingIs DEF Lone, SaveStages
<1>3. SaveTypes' /\ LoneIsAlone'
  BY <1>1 DEF SaveInv, SaveTypes, LoneIsAlone
<1>4. HandleIsOpen'
  BY DEF SaveInv, HandleIsOpen
<1>5. LoneOwnsTmp'
  BY <1>1, <1>2 DEF SaveInv, LoneOwnsTmp, File
<1>6. FileIsWhole' /\ SavedSurvivesRestart'
  BY DEF SaveInv, FileIsWhole, SavedSurvivesRestart
<1> QED BY <1>3, <1>4, <1>5, <1>6 DEF SaveInv
-----------------------------------------------------------------------------
(* The steps of a save.                                                    *)

LEMMA TakeSnapshotKeepsInv ==
  ASSUME SaveInv, NEW k \in Tasks, TakeSnapshot(k) PROVE SaveInv'
<1>1. /\ stage[k] = "snapshot" /\ stage' = [stage EXCEPT ![k] = "open"]
      /\ snap' = [snap EXCEPT ![k] = devices]
      /\ UNCHANGED <<devices, fd, tmp, file, refused, disturbed, clash, unsaved>>
  BY DEF TakeSnapshot, NotSaved, disk, ghosts
<1>2. Saving' = Saving /\ Lone' = Lone /\ k \in Saving
  BY <1>1, SavingIs, SavingGoesOn DEF SaveInv, SaveStages, Lone
<1>3. SaveTypes' /\ LoneIsAlone'
  BY <1>1, <1>2 DEF SaveInv, SaveTypes, LoneIsAlone, SaveStages
<1>4. HandleIsOpen'
  BY <1>1 DEF SaveInv, HandleIsOpen, SaveTypes
<1>5. ASSUME NEW j \in Lone
      PROVE  /\ stage'[j] \notin {"write", "orphan", "rename"}
             /\ Platforms(snap'[j]) = Platforms(devices')
  <2>1. j = k
    BY <1>2 DEF SaveInv, LoneIsAlone
  <2> QED BY <1>1, <2>1 DEF SaveInv, SaveTypes
<1>6. LoneOwnsTmp'
  BY <1>2, <1>5 DEF LoneOwnsTmp
<1>7. FileIsWhole' /\ SavedSurvivesRestart'
  BY <1>1 DEF SaveInv, FileIsWhole, SavedSurvivesRestart
<1> QED BY <1>3, <1>4, <1>6, <1>7 DEF SaveInv

LEMMA OpenTmpKeepsInv ==
  ASSUME SaveInv, NEW k \in Tasks, OpenTmp(k) PROVE SaveInv'
<1>1. /\ stage[k] = "open" /\ stage' = [stage EXCEPT ![k] = "write"]
      /\ tmp' = File("empty", Empty) /\ fd' = [fd EXCEPT ![k] = "tmp"]
      /\ UNCHANGED <<devices, snap, file, refused, disturbed, clash, unsaved>>
  BY DEF OpenTmp, NotSaved, ghosts
<1>2. Saving' = Saving /\ Lone' = Lone /\ k \in Saving
  BY <1>1, SavingIs, SavingGoesOn DEF SaveInv, SaveStages, Lone
<1>3. tmp' \in Content /\ tmp'.state = "empty"
  BY <1>1 DEF File, Content, Empty, Registry
<1>4. SaveTypes' /\ LoneIsAlone'
  BY <1>1, <1>2, <1>3 DEF SaveInv, SaveTypes, LoneIsAlone, SaveStages
<1>5. HandleIsOpen'
  BY <1>1 DEF SaveInv, HandleIsOpen, SaveTypes
<1>6. ASSUME NEW j \in Lone
      PROVE  /\ stage'[j] = "write" /\ fd'[j] = "tmp"
             /\ Platforms(snap'[j]) = Platforms(devices')
  <2>1. j = k
    BY <1>2 DEF SaveInv, LoneIsAlone
  <2> QED BY <1>1, <2>1 DEF SaveInv, SaveTypes, LoneOwnsTmp
<1>7. LoneOwnsTmp'
  BY <1>2, <1>3, <1>6 DEF LoneOwnsTmp
<1>8. FileIsWhole' /\ SavedSurvivesRestart'
  BY <1>1 DEF SaveInv, FileIsWhole, SavedSurvivesRestart
<1> QED BY <1>4, <1>5, <1>7, <1>8 DEF SaveInv

LEMMA OverwrittenType ==
  ASSUME NEW content \in Content, NEW reg \in Registry
  PROVE  /\ Overwritten(content, reg) \subseteq Content
         /\ content.state = "empty" =>
              Overwritten(content, reg) = {File("whole", reg)}
<1>1. File("whole", reg) \in Content /\ File("mixed", Empty) \in Content
  BY DEF File, Content, Empty, Registry
<1> QED BY <1>1 DEF Overwritten

(* A save that nobody overlapped does not write to the registry file.      *)
LEMMA LoneHandle ==
  ASSUME SaveInv, NEW k \in Lone PROVE fd[k] \in {"none", "tmp"} /\ k \in Tasks
BY SavingIs DEF SaveInv, HandleIsOpen, LoneOwnsTmp, Lone

LEMMA WriteTmpKeepsInv ==
  ASSUME SaveInv, NEW k \in Tasks, WriteTmp(k) PROVE SaveInv'
<1>1. /\ stage[k] \in {"write", "orphan"}
      /\ tmp' \in IF fd[k] = "tmp" THEN Overwritten(tmp, snap[k]) ELSE {tmp}
      /\ file' \in IF fd[k] = "file" THEN Overwritten(file, snap[k]) ELSE {file}
      /\ fd' = [fd EXCEPT ![k] = "none"]
      /\ UNCHANGED <<devices, refused>>
  BY DEF WriteTmp, NotSaved
<1>2. k \in Saving
  BY <1>1, SavingIs DEF SaveStages
<1>3. tmp' \in Content /\ file' \in Content
  BY <1>1, OverwrittenType DEF SaveInv, SaveTypes
<1>4. k \in Lone => /\ file' = file
                    /\ tmp' = File("whole", snap[k])
                    /\ Platforms(snap[k]) = Platforms(devices)
  BY <1>1, OverwrittenType DEF SaveInv, SaveTypes, LoneOwnsTmp
<1>5. CASE stage[k] = "orphan"
  <2>1. EndSave(k, FALSE)
    BY <1>5 DEF WriteTmp
  <2>2. /\ fd' \in [Tasks -> {"none", "tmp", "file", "unlinked"}]
        /\ \A j \in Tasks : fd'[j] = "none" <=> j = k \/ fd[j] = "none"
    BY <1>1 DEF SaveInv, SaveTypes
  <2> QED BY <1>1, <1>2, <1>3, <1>4, <2>1, <2>2, EndKeepsInv
<1>6. CASE stage[k] = "write"
  <2>1. /\ stage' = [stage EXCEPT ![k] = "rename"]
        /\ UNCHANGED <<snap, disturbed, clash, unsaved>>
    BY <1>6 DEF WriteTmp, ghosts
  <2>2. Saving' = Saving /\ Lone' = Lone
    BY <1>2, <2>1, SavingGoesOn DEF SaveInv, SaveStages, Lone
  <2>3. SaveTypes' /\ LoneIsAlone'
    BY <1>1, <1>3, <2>1, <2>2 DEF SaveInv, SaveTypes, LoneIsAlone, SaveStages
  <2>4. HandleIsOpen'
    BY <1>1, <2>1 DEF SaveInv, HandleIsOpen, SaveTypes
  <2>5. ASSUME NEW j \in Lone
        PROVE  /\ stage'[j] = "rename" /\ tmp' = File("whole", snap'[j])
               /\ Platforms(snap'[j]) = Platforms(devices')
    <3>1. j = k
      BY <1>2 DEF SaveInv, LoneIsAlone
    <3> QED BY <1>1, <1>4, <2>1, <3>1 DEF SaveInv, SaveTypes
  <2>6. LoneOwnsTmp'
    BY <2>2, <2>5 DEF LoneOwnsTmp, File
  <2>7. ~clash => k \in Lone
    BY <1>2 DEF SaveInv, LoneIsAlone, Lone
  <2>8. FileIsWhole' /\ SavedSurvivesRestart'
    BY <1>1, <1>2, <1>4, <2>1, <2>7
    DEF SaveInv, FileIsWhole, SavedSurvivesRestart, LoneIsAlone
  <2> QED BY <2>3, <2>4, <2>6, <2>8 DEF SaveInv
<1> QED BY <1>1, <1>5, <1>6

LEMMA RenameTmpKeepsInv ==
  ASSUME SaveInv, NEW k \in Tasks, RenameTmp(k) PROVE SaveInv'
<1>1. /\ stage[k] = "rename" /\ EndSave(k, tmp # Missing)
      /\ UNCHANGED <<devices, refused>>
      /\ tmp = Missing => UNCHANGED <<tmp, file, fd>>
      /\ tmp # Missing => /\ file' = tmp /\ tmp' = Missing
                          /\ fd' = [j \in Tasks |-> Moved(fd[j])]
  BY DEF RenameTmp, NotSaved, disk
<1>2. k \in Saving
  BY <1>1, SavingIs DEF SaveStages
<1>3. fd[k] = "none"
  BY <1>1 DEF SaveInv, HandleIsOpen
<1>4. /\ fd' \in [Tasks -> {"none", "tmp", "file", "unlinked"}]
      /\ \A j \in Tasks : fd'[j] = "none" <=> j = k \/ fd[j] = "none"
  BY <1>1, <1>3 DEF SaveInv, SaveTypes, Moved
<1>5. tmp' \in Content /\ file' \in Content
  <2>1. Missing \in Content
    BY DEF Missing, File, Content, Empty, Registry
  <2> QED BY <1>1, <2>1 DEF SaveInv, SaveTypes
<1>6. k \in Lone => /\ tmp.state = "whole" /\ tmp # Missing
                    /\ Platforms(tmp.devs) = Platforms(devices)
  BY <1>1 DEF SaveInv, LoneOwnsTmp, File, Missing
<1>7. (tmp # Missing) \in BOOLEAN
  OBVIOUS
<1> QED BY <1>1, <1>2, <1>4, <1>5, <1>6, <1>7, EndKeepsInv

LEMMA SaveFailsKeepsInv ==
  ASSUME SaveInv, NEW k \in Tasks, SaveFails(k) PROVE SaveInv'
<1>1. /\ stage[k] \in {"open", "write", "orphan", "rename"} /\ EndSave(k, FALSE)
      /\ tmp' = IF fd[k] = "tmp" THEN File("mixed", Empty) ELSE tmp
      /\ file' = IF fd[k] = "file" THEN File("mixed", Empty) ELSE file
      /\ fd' = [fd EXCEPT ![k] = "none"]
      /\ UNCHANGED <<devices, refused>>
  BY DEF SaveFails, NotSaved
<1>2. k \in Saving
  BY <1>1, SavingIs DEF SaveStages
<1>3. File("mixed", Empty) \in Content
  BY DEF File, Content, Empty, Registry
<1>4. /\ tmp' \in Content /\ file' \in Content
      /\ fd' \in [Tasks -> {"none", "tmp", "file", "unlinked"}]
      /\ \A j \in Tasks : fd'[j] = "none" <=> j = k \/ fd[j] = "none"
  BY <1>1, <1>3 DEF SaveInv, SaveTypes
<1>5. k \in Lone => file' = file
  BY <1>1, LoneHandle
<1> QED BY <1>1, <1>2, <1>4, <1>5, EndKeepsInv

LEMMA HangUpKeepsInv ==
  ASSUME SaveInv, NEW h \in Handlers, HangUp(h) PROVE SaveInv'
<1>1. /\ h \in Tasks /\ stage[h] \in {"snapshot", "open", "write", "rename"}
      /\ UNCHANGED <<devices, fd, tmp, file, refused>>
  BY DEF HangUp, NotSaved, disk, Tasks
<1>2. h \in Saving
  BY <1>1, SavingIs DEF SaveStages
<1>3. CASE stage[h] # "write"
  <2>1. EndSave(h, FALSE)
    BY <1>3 DEF HangUp
  <2>2. fd[h] = "none"
    BY <1>1, <1>3 DEF SaveInv, HandleIsOpen
  <2>3. /\ tmp' \in Content /\ file' \in Content
        /\ fd' \in [Tasks -> {"none", "tmp", "file", "unlinked"}]
        /\ \A j \in Tasks : fd'[j] = "none" <=> j = h \/ fd[j] = "none"
    BY <1>1, <2>2 DEF SaveInv, SaveTypes
  <2> QED BY <1>1, <1>2, <2>1, <2>3, EndKeepsInv
<1>4. CASE stage[h] = "write"
  <2>1. /\ stage' = [stage EXCEPT ![h] = "orphan"]
        /\ UNCHANGED <<snap, disturbed, clash, unsaved>>
    BY <1>4 DEF HangUp, ghosts
  <2>2. Saving' = Saving /\ Lone' = Lone
    BY <1>2, <2>1, SavingGoesOn DEF SaveInv, SaveStages, Lone
  <2>3. SaveTypes' /\ LoneIsAlone'
    BY <1>1, <2>1, <2>2 DEF SaveInv, SaveTypes, LoneIsAlone, SaveStages
  <2>4. HandleIsOpen'
    BY <1>1, <1>4, <2>1 DEF SaveInv, HandleIsOpen, SaveTypes
  <2>5. ASSUME NEW j \in Lone
        PROVE  /\ stage'[j] = "orphan" /\ fd'[j] = "tmp" /\ tmp'.state = "empty"
               /\ Platforms(snap'[j]) = Platforms(devices')
    <3>1. j = h
      BY <1>2 DEF SaveInv, LoneIsAlone
    <3> QED BY <1>1, <1>4, <2>1, <3>1 DEF SaveInv, SaveTypes, LoneOwnsTmp
  <2>6. LoneOwnsTmp'
    BY <2>2, <2>5 DEF LoneOwnsTmp
  <2>7. FileIsWhole' /\ SavedSurvivesRestart'
    BY <1>1, <2>1 DEF SaveInv, FileIsWhole, SavedSurvivesRestart
  <2> QED BY <2>3, <2>4, <2>6, <2>7 DEF SaveInv
<1> QED BY <1>3, <1>4
-----------------------------------------------------------------------------
(* The changes of the map.                                                 *)

LEMMA RegisterKeepsInv ==
  ASSUME SaveInv, NEW h \in Handlers, NEW t \in Tokens, NEW platform \in Platform,
         Register(h, t, platform)
  PROVE  SaveInv'
<1>1. h \in Tasks /\ h \notin Saving
  BY SavingIs DEF Register, Tasks, SaveStages
<1>2. devices' \in Registry
  <2> DEFINE new == [platform |-> platform,
                     pushed |-> IF devices[t] = NoDevice THEN FALSE
                                ELSE devices[t].pushed]
  <2>1. devices[t] \in Device \cup {NoDevice}
    BY DEF SaveInv, SaveTypes, Registry
  <2>2. new \in Device
    BY <2>1 DEF Device
  <2>3. devices' = [devices EXCEPT ![t] = new]
    BY DEF Register
  <2> HIDE DEF new
  <2> QED BY <2>2, <2>3 DEF SaveInv, SaveTypes, Registry
<1>3. BeginSave(h) /\ UNCHANGED <<snap, fd, tmp, file>>
  BY DEF Register, disk
<1> QED BY <1>1, <1>2, <1>3, BeginKeepsInv

LEMMA UnregisterKeepsInv ==
  ASSUME SaveInv, NEW h \in Handlers, NEW t \in Tokens, Unregister(h, t)
  PROVE  SaveInv'
<1>1. h \in Tasks /\ h \notin Saving
  BY SavingIs DEF Unregister, Tasks, SaveStages
<1>2. devices' \in Registry
  BY DEF Unregister, SaveInv, SaveTypes, Registry
<1>3. BeginSave(h) /\ UNCHANGED <<snap, fd, tmp, file>>
  BY DEF Unregister, disk
<1> QED BY <1>1, <1>2, <1>3, BeginKeepsInv

LEMMA EndDispatchKeepsInv ==
  ASSUME SaveInv, NEW d \in Dispatchers, EndDispatch(d)
  PROVE  SaveInv'
<1>1. /\ d \in Tasks /\ d \notin Saving /\ stage[d] = "send"
      /\ devices' = [t \in Tokens |-> IF t \in dead[d] THEN NoDevice ELSE devices[t]]
      /\ UNCHANGED <<snap, fd, tmp, file, refused>>
  BY SavingIs DEF EndDispatch, Tasks, SaveStages, disk
<1>2. devices' \in Registry
  BY <1>1 DEF SaveInv, SaveTypes, Registry
<1>3. CASE dead[d] = {}
  <2>1. devices' = devices
    BY <1>1, <1>3 DEF SaveInv, SaveTypes, Registry
  <2>2. /\ stage' = [stage EXCEPT ![d] = "idle"]
        /\ UNCHANGED <<disturbed, clash, unsaved>>
    BY <1>3 DEF EndDispatch, ghosts
  <2>3. /\ stage' \in [Tasks -> {"idle", "send"} \cup SaveStages]
        /\ \A k \in Tasks : stage'[k] = stage[k]
             \/ {stage[k], stage'[k]} \subseteq {"idle", "send"}
    BY <1>1, <2>2 DEF SaveInv, SaveTypes
  <2> QED BY <1>1, <1>2, <2>1, <2>2, <2>3, RestKeepsInv
<1>4. CASE dead[d] # {}
  <2>1. BeginSave(d)
    BY <1>4 DEF EndDispatch
  <2> QED BY <1>1, <1>2, <2>1, BeginKeepsInv
<1> QED BY <1>3, <1>4

LEMMA RecordPushKeeps ==
  ASSUME NEW reg \in Registry, NEW t \in Tokens
  PROVE  /\ RecordPush(reg, t) \in Registry
         /\ Platforms(RecordPush(reg, t)) = Platforms(reg)
         /\ \A u \in Tokens : RecordPush(reg, t)[u] = NoDevice <=> reg[u] = NoDevice
<1>1. CASE reg[t] = NoDevice
  BY <1>1 DEF RecordPush
<1>2. CASE reg[t] # NoDevice
  <2> DEFINE new == [platform |-> reg[t].platform, pushed |-> TRUE]
  <2>1. reg[t] \in Device
    BY <1>2 DEF Registry
  <2>2. new \in Device /\ new.platform = reg[t].platform
    BY <2>1 DEF Device
  <2>3. new # NoDevice
    BY <2>2, RegistryAssumption DEF Device, Platform
  <2>4. RecordPush(reg, t) = [reg EXCEPT ![t] = new]
    BY <1>2 DEF RecordPush
  <2> HIDE DEF new
  <2> DEFINE next == [reg EXCEPT ![t] = new]
  <2>5. /\ next \in Registry
        /\ \A u \in Tokens : next[u] = IF u = t THEN new ELSE reg[u]
    BY <2>2 DEF Registry
  <2> HIDE DEF next
  <2>6. \A u \in Tokens :
          /\ next[u] = NoDevice <=> reg[u] = NoDevice
          /\ next[u] # NoDevice => next[u].platform = reg[u].platform
    BY <1>2, <2>2, <2>3, <2>5
  <2>7. Platforms(next) = Platforms(reg)
    BY <2>6 DEF Platforms
  <2> QED BY <2>4, <2>5, <2>6, <2>7 DEF next
<1> QED BY <1>1, <1>2

LEMMA SendKeepsInv ==
  ASSUME SaveInv, NEW d \in Dispatchers, NEW t \in Tokens, Send(d, t)
  PROVE  SaveInv'
<1>1. /\ devices' \in {devices, RecordPush(devices, t)}
      /\ UNCHANGED <<stage, snap, fd, tmp, file, refused, disturbed, clash, unsaved>>
  BY DEF Send, disk, ghosts
<1>2. devices' \in Registry /\ Platforms(devices') = Platforms(devices)
  BY <1>1, RecordPushKeeps DEF SaveInv, SaveTypes
<1> QED BY <1>1, <1>2, RestKeepsInv DEF SaveInv, SaveTypes

LEMMA StartDispatchKeepsInv ==
  ASSUME SaveInv, NEW d \in Dispatchers, StartDispatch(d) PROVE SaveInv'
<1>1. /\ stage[d] = "idle" /\ stage' = [stage EXCEPT ![d] = "send"] /\ d \in Tasks
      /\ UNCHANGED <<devices, snap, fd, tmp, file, refused, disturbed, clash, unsaved>>
  BY DEF StartDispatch, Tasks, disk, ghosts
<1>2. /\ stage' \in [Tasks -> {"idle", "send"} \cup SaveStages]
      /\ \A k \in Tasks : stage'[k] = stage[k]
           \/ {stage[k], stage'[k]} \subseteq {"idle", "send"}
  BY <1>1 DEF SaveInv, SaveTypes
<1> QED BY <1>1, <1>2, RestKeepsInv DEF SaveInv, SaveTypes

(* The process starts from what the file holds.                            *)
LEMMA RestartKeepsInv == SaveInv /\ Restart => SaveInv'
<1> SUFFICES ASSUME SaveInv, Restart PROVE SaveInv'
  OBVIOUS
<1>1. /\ devices' = file.devs /\ stage' = [k \in Tasks |-> "idle"]
      /\ snap' = [k \in Tasks |-> Empty] /\ fd' = [k \in Tasks |-> "none"]
      /\ disturbed' = {} /\ clash' = (file.state \notin {"missing", "whole"})
      /\ UNCHANGED <<tmp, file>>
  BY DEF Restart, disk
<1>2. Saving' = {} /\ Lone' = {}
  BY <1>1, SavingIs DEF Lone, SaveStages
<1>3. SaveTypes'
  <2>1. Empty \in Registry /\ devices' \in Registry
    BY <1>1 DEF Empty, Registry, SaveInv, SaveTypes, Content
  <2> QED BY <1>1, <1>2, <2>1 DEF SaveInv, SaveTypes, SaveStages
<1>4. LoneIsAlone' /\ HandleIsOpen' /\ LoneOwnsTmp'
  BY <1>1, <1>2 DEF LoneIsAlone, HandleIsOpen, LoneOwnsTmp
<1>5. FileIsWhole' /\ SavedSurvivesRestart'
  BY <1>1 DEF FileIsWhole, SavedSurvivesRestart
<1> QED BY <1>3, <1>4, <1>5 DEF SaveInv

LEMMA UnnoticedKeepsInv ==
  ASSUME SaveInv,
         (\E t \in Tokens : Uninstall(t) \/ Reinstall(t)) \/ UNCHANGED registryVars
  PROVE  SaveInv'
<1>1. UNCHANGED <<devices, stage, snap, fd, tmp, file, refused, disturbed, clash,
                  unsaved>>
  BY DEF Uninstall, Reinstall, registryVars, tasks, disk, ghosts
<1> QED BY <1>1, RestKeepsInv DEF SaveInv, SaveTypes

LEMMA SaveStep ==
  ASSUME SaveInv, [RegistryNext]_registryVars PROVE SaveInv'
<1>1. ASSUME NEW h \in Handlers, NEW t \in Tokens, Unregister(h, t) PROVE SaveInv'
  BY <1>1, UnregisterKeepsInv
<1>2. ASSUME NEW h \in Handlers, NEW r \in Requests, Register(h, r[1], r[2])
      PROVE  SaveInv'
  <2>1. r[1] \in Tokens /\ r[2] \in Platform
    BY RegistryAssumption DEF Platform
  <2> QED BY <1>2, <2>1, RegisterKeepsInv
<1>3. ASSUME NEW h \in Handlers, HangUp(h) PROVE SaveInv'
  BY <1>3, HangUpKeepsInv
<1>4. ASSUME NEW d \in Dispatchers, StartDispatch(d) PROVE SaveInv'
  BY <1>4, StartDispatchKeepsInv
<1>5. ASSUME NEW k \in Tasks, TaskStep(k) \/ SaveFails(k) PROVE SaveInv'
  BY <1>5, TakeSnapshotKeepsInv, OpenTmpKeepsInv, WriteTmpKeepsInv,
     RenameTmpKeepsInv, SaveFailsKeepsInv, EndDispatchKeepsInv, SendKeepsInv
  DEF TaskStep
<1>6. CASE Restart
  BY <1>6, RestartKeepsInv
<1>7. CASE (\E t \in Tokens : Uninstall(t) \/ Reinstall(t)) \/ UNCHANGED registryVars
  BY <1>7, UnnoticedKeepsInv
<1> QED BY <1>1, <1>2, <1>3, <1>4, <1>5, <1>6, <1>7 DEF RegistryNext

LEMMA SaveInitially == RegistryInit => SaveInv
<1> SUFFICES ASSUME RegistryInit PROVE SaveInv
  OBVIOUS
<1>1. PICK ts \in SUBSET Tokens :
        /\ devices = [t \in Tokens |-> IF t \in ts THEN NewPhone ELSE NoDevice]
        /\ file = IF ts = {} THEN Missing ELSE File("whole", devices)
  BY DEF RegistryInit
<1>2. devices \in Registry /\ Empty \in Registry
  BY <1>1 DEF Registry, NewPhone, Device, Platform, Empty
<1>3. /\ Missing \in Content /\ file \in Content
      /\ file.state \in {"missing", "whole"} /\ file.devs = devices
  BY <1>1, <1>2 DEF Missing, File, Content, Empty
<1>4. Saving = {} /\ Lone = {}
  BY SavingIs DEF RegistryInit, Lone, SaveStages
<1>5. SaveTypes
  BY <1>2, <1>3, <1>4 DEF RegistryInit, SaveTypes
<1>6. LoneIsAlone /\ HandleIsOpen /\ LoneOwnsTmp
  BY <1>4 DEF RegistryInit, LoneIsAlone, HandleIsOpen, LoneOwnsTmp
<1>7. FileIsWhole /\ SavedSurvivesRestart
  BY <1>3 DEF FileIsWhole, SavedSurvivesRestart
<1> QED BY <1>5, <1>6, <1>7 DEF SaveInv

LEMMA SaveAlways == RegistrySpec => []SaveInv
BY SaveInitially, SaveStep, PTL DEF RegistrySpec

(* However the saves, hang-ups, errors and crashes of any number of tasks  *)
(* interleave, the registry file holds part of a text only if two saves    *)
(* overlapped and none has run alone since (save, write_atomic).           *)
THEOREM FileStaysWhole == RegistrySpec => []FileIsWhole
<1>1. SaveInv => FileIsWhole
  BY DEF SaveInv
<1> QED BY <1>1, SaveAlways, PTL

(* After a save that ran alone the file holds the devices of the map until *)
(* the map changes again: a restart finds them all (register, unregister,  *)
(* remove_many, from_file).                                                *)
THEOREM SavedDevicesSurvive == RegistrySpec => []SavedSurvivesRestart
<1>1. SaveInv => SavedSurvivesRestart
  BY DEF SaveInv
<1> QED BY <1>1, SaveAlways, PTL
-----------------------------------------------------------------------------
(* The tokens found dead.                                                  *)

(* A dispatch holds only such tokens for dead that were removed from their *)
(* phones while it ran.                                                    *)
DeadInv ==
  /\ dead \in [Tasks -> SUBSET Tokens]
  /\ gone \subseteq Tokens /\ revived \subseteq Tokens
  /\ \A d \in Dispatchers : dead[d] \subseteq gone \cup revived
  /\ restarts \in Nat /\ calls \in Nat

(* APNs says of no token in use what classify takes for its death.         *)
LEMMA PruneIsDeath ==
  ASSUME NEW t \in Tokens, NEW a \in Answer(t), Classify(a[1], a[2]) = "prune"
  PROVE  t \in gone
<1>1. Classify(a[1], a[2]) = "prune" =>
        \/ a[1] = 410
        \/ a[1] = 400 /\ a[2] \in {"BadDeviceToken", "DeviceTokenNotForTopic"}
  BY DEF Classify
<1> SUFFICES ASSUME t \notin gone PROVE FALSE
  OBVIOUS
<1>2. a \in {<<0, "">>, <<1, "">>, <<403, "Forbidden">>, <<400, "PayloadTooLarge">>,
             <<429, "TooManyRequests">>, <<503, "ServiceUnavailable">>,
             <<404, "BadPath">>, <<200, "">>}
  BY ZenonT(60) DEF Answer
<1>3. CASE a = <<400, "PayloadTooLarge">>
  <2>1. a[1] = 400 /\ a[2] = "PayloadTooLarge"
    BY <1>3
  <2> QED BY <1>1, <2>1
<1>4. CASE a = <<0, "">> \/ a = <<1, "">> \/ a = <<200, "">>
  <2>1. PICK x, y : a = <<x, y>> /\ (x = 0 \/ x = 1 \/ x = 200)
    BY <1>4, Zenon
  <2>2. a[1] = 0 \/ a[1] = 1 \/ a[1] = 200
    BY <2>1
  <2> QED BY <1>1, <2>2
<1>5. CASE a = <<403, "Forbidden">> \/ a = <<404, "BadPath">>
  <2>1. a[1] \in {403, 404}
    BY <1>5
  <2> QED BY <1>1, <2>1
<1>6. CASE a = <<429, "TooManyRequests">> \/ a = <<503, "ServiceUnavailable">>
  <2>1. a[1] \in {429, 503}
    BY <1>6
  <2> QED BY <1>1, <2>1
<1> QED BY <1>2, <1>3, <1>4, <1>5, <1>6, ZenonT(60)

LEMMA SendKeepsDead ==
  ASSUME DeadInv, NEW d \in Dispatchers, NEW t \in Tokens, Send(d, t)
  PROVE  DeadInv'
<1>1. /\ UNCHANGED <<gone, revived, restarts, calls>>
      /\ \/ dead' = dead
         \/ t \in gone /\ dead' = [dead EXCEPT ![d] = @ \cup {t}]
  <2>1. PICK a \in Answer(t) :
          dead' = [dead EXCEPT ![d] = IF Classify(a[1], a[2]) = "prune"
                                      THEN @ \cup {t} ELSE @]
    BY DEF Send
  <2>2. CASE Classify(a[1], a[2]) = "prune"
    <3>1. t \in gone
      BY <2>2, PruneIsDeath, Zenon
    <3>2. dead' = [dead EXCEPT ![d] = @ \cup {t}]
      BY <2>1, <2>2
    <3> QED BY <3>1, <3>2 DEF Send, counters
  <2>3. CASE Classify(a[1], a[2]) # "prune"
    BY <2>1, <2>3 DEF Send, counters, DeadInv
  <2> QED BY <2>2, <2>3
<1>2. CASE dead' = dead
  BY <1>1, <1>2 DEF DeadInv
<1>3. CASE t \in gone /\ dead' = [dead EXCEPT ![d] = @ \cup {t}]
  BY <1>1, <1>3 DEF DeadInv, Tasks
<1> QED BY <1>1, <1>2, <1>3

LEMMA EndDispatchKeepsDead ==
  ASSUME DeadInv, NEW d \in Dispatchers, EndDispatch(d) PROVE DeadInv'
<1>1. /\ UNCHANGED <<gone, restarts, calls>>
      /\ dead' = [dead EXCEPT ![d] = {}]
      /\ revived' = {t \in revived : \E e \in Dispatchers \ {d} : t \in dead[e]}
  BY DEF EndDispatch, counters
<1>2. ASSUME NEW e \in Dispatchers PROVE dead'[e] \subseteq gone' \cup revived'
  BY <1>1 DEF DeadInv, Tasks
<1> QED BY <1>1, <1>2 DEF DeadInv, Tasks

LEMMA DeadStep ==
  ASSUME DeadInv, [RegistryNext]_registryVars PROVE DeadInv'
<1>1. ASSUME NEW h \in Handlers, NEW t \in Tokens, Unregister(h, t) PROVE DeadInv'
  BY <1>1 DEF Unregister, DeadInv
<1>2. ASSUME NEW h \in Handlers, NEW r \in Requests, Register(h, r[1], r[2])
      PROVE  DeadInv'
  BY <1>2 DEF Register, DeadInv
<1>3. CASE (\E h \in Handlers : HangUp(h)) \/ UNCHANGED registryVars
           \/ \E k \in Tasks : TakeSnapshot(k) \/ OpenTmp(k) \/ WriteTmp(k)
                               \/ RenameTmp(k) \/ SaveFails(k)
  <2>1. UNCHANGED <<dead, gone, revived, restarts, calls>>
    BY <1>3 DEF HangUp, TakeSnapshot, OpenTmp, WriteTmp, RenameTmp, SaveFails,
                NotSaved, registryVars, tasks, counters
  <2> QED BY <2>1 DEF DeadInv
<1>4. ASSUME NEW d \in Dispatchers, StartDispatch(d) PROVE DeadInv'
  BY <1>4 DEF StartDispatch, DeadInv
<1>5. ASSUME NEW d \in Dispatchers,
             EndDispatch(d) \/ \E t \in Tokens : Send(d, t)
      PROVE  DeadInv'
  BY <1>5, SendKeepsDead, EndDispatchKeepsDead
<1>6. ASSUME NEW t \in Tokens, Uninstall(t) PROVE DeadInv'
  BY <1>6 DEF Uninstall, tasks, counters, DeadInv
<1>7. ASSUME NEW t \in Tokens, Reinstall(t) PROVE DeadInv'
  <2>1. /\ UNCHANGED <<dead, restarts, calls>> /\ gone' = gone \ {t}
        /\ revived' = IF \E d \in Dispatchers : t \in dead[d]
                      THEN revived \cup {t} ELSE revived
    BY <1>7 DEF Reinstall, tasks, counters
  <2>2. ASSUME NEW d \in Dispatchers PROVE dead'[d] \subseteq gone' \cup revived'
    BY <2>1 DEF DeadInv
  <2> QED BY <2>1, <2>2 DEF DeadInv
<1>8. CASE Restart
  BY <1>8 DEF Restart, DeadInv, Tasks
<1> QED BY <1>1, <1>2, <1>3, <1>4, <1>5, <1>6, <1>7, <1>8
        DEF RegistryNext, TaskStep

LEMMA DeadInitially == RegistryInit => DeadInv
BY DEF RegistryInit, DeadInv, Tasks

ByRequestOrDeath ==
  restarts' = restarts /\ calls' = calls =>
    \A t \in Tokens :
      IF devices[t] = NoDevice THEN devices'[t] = NoDevice
      ELSE devices'[t] = NoDevice => t \in gone \cup revived

LEMMA StepByRequestOrDeath ==
  ASSUME SaveInv, DeadInv, [RegistryNext]_registryVars PROVE ByRequestOrDeath
<1>1. CASE \/ \E h \in Handlers, t \in Tokens : Unregister(h, t)
           \/ \E h \in Handlers, r \in Requests : Register(h, r[1], r[2])
           \/ Restart
  <2>1. calls' = calls + 1 \/ restarts' = restarts + 1
    BY <1>1 DEF Unregister, Register, Restart
  <2> QED BY <2>1 DEF ByRequestOrDeath, DeadInv
<1>2. CASE \/ \E h \in Handlers : HangUp(h)
           \/ \E d \in Dispatchers : StartDispatch(d)
           \/ \E k \in Tasks : TakeSnapshot(k) \/ OpenTmp(k) \/ WriteTmp(k)
                               \/ RenameTmp(k) \/ SaveFails(k)
           \/ \E t \in Tokens : Uninstall(t) \/ Reinstall(t)
           \/ UNCHANGED registryVars
  <2>1. devices' = devices
    BY <1>2 DEF HangUp, StartDispatch, TakeSnapshot, OpenTmp, WriteTmp, RenameTmp,
                SaveFails, NotSaved, Uninstall, Reinstall, registryVars
  <2> QED BY <2>1 DEF ByRequestOrDeath
<1>3. ASSUME NEW d \in Dispatchers, NEW t \in Tokens, Send(d, t)
      PROVE  ByRequestOrDeath
  <2>1. devices' \in {devices, RecordPush(devices, t)}
    BY <1>3 DEF Send
  <2>2. \A u \in Tokens : devices'[u] = NoDevice <=> devices[u] = NoDevice
    BY <2>1, RecordPushKeeps DEF SaveInv, SaveTypes
  <2> QED BY <2>2 DEF ByRequestOrDeath
<1>4. ASSUME NEW d \in Dispatchers, EndDispatch(d) PROVE ByRequestOrDeath
  <2>1. devices' = [t \in Tokens |-> IF t \in dead[d] THEN NoDevice ELSE devices[t]]
    BY <1>4 DEF EndDispatch
  <2> QED BY <2>1 DEF ByRequestOrDeath, DeadInv
<1> QED BY <1>1, <1>2, <1>3, <1>4 DEF RegistryNext, TaskStep

(* Between the calls of the /devices handlers no device enters the map,    *)
(* and one leaves it only because APNs named its token dead to a dispatch  *)
(* and it has not been taken into use again since (dispatch_push,          *)
(* record_push, remove_many).                                              *)
THEOREM DevicesLeaveForCause == RegistrySpec => ChangesByRequestOrDeath
<1>1. SaveInv /\ DeadInv /\ [RegistryNext]_registryVars => [ByRequestOrDeath]_registryVars
  BY StepByRequestOrDeath
<1> QED BY <1>1, SaveInitially, SaveStep, DeadInitially, DeadStep, PTL
        DEF RegistrySpec, ChangesByRequestOrDeath, ByRequestOrDeath

Pruned ==
  restarts' = restarts =>
    \A d \in Dispatchers : \A t \in dead[d] :
      t \in dead'[d] \/ devices'[t] = NoDevice

LEMMA StepPrunes ==
  ASSUME DeadInv, [RegistryNext]_registryVars PROVE Pruned
<1>1. ASSUME NEW d \in Dispatchers, NEW t \in Tokens, Send(d, t) PROVE Pruned
  <2>1. PICK a \in Answer(t) :
          dead' = [dead EXCEPT ![d] = IF Classify(a[1], a[2]) = "prune"
                                      THEN @ \cup {t} ELSE @]
    BY <1>1 DEF Send
  <2>2. \A e \in Dispatchers : dead[e] \subseteq dead'[e]
    BY <2>1 DEF DeadInv, Tasks
  <2> QED BY <2>2 DEF Pruned
<1>2. ASSUME NEW d \in Dispatchers, EndDispatch(d) PROVE Pruned
  <2>1. /\ devices' = [t \in Tokens |-> IF t \in dead[d] THEN NoDevice ELSE devices[t]]
        /\ dead' = [dead EXCEPT ![d] = {}]
    BY <1>2 DEF EndDispatch
  <2>2. ASSUME NEW e \in Dispatchers, NEW t \in dead[e]
        PROVE  t \in dead'[e] \/ devices'[t] = NoDevice
    BY <2>1, <2>2 DEF DeadInv, Tasks
  <2> QED BY <2>2 DEF Pruned
<1>3. CASE Restart
  BY <1>3 DEF Restart, Pruned, DeadInv
<1>4. CASE \/ \E h \in Handlers, t \in Tokens : Unregister(h, t)
           \/ \E h \in Handlers, r \in Requests : Register(h, r[1], r[2])
           \/ \E h \in Handlers : HangUp(h)
           \/ \E d \in Dispatchers : StartDispatch(d)
           \/ \E k \in Tasks : TakeSnapshot(k) \/ OpenTmp(k) \/ WriteTmp(k)
                               \/ RenameTmp(k) \/ SaveFails(k)
           \/ \E t \in Tokens : Uninstall(t) \/ Reinstall(t)
           \/ UNCHANGED registryVars
  <2>1. dead' = dead
    BY <1>4 DEF Unregister, Register, HangUp, StartDispatch, TakeSnapshot, OpenTmp,
                WriteTmp, RenameTmp, SaveFails, NotSaved, Uninstall, Reinstall,
                tasks, registryVars
  <2> QED BY <2>1 DEF Pruned
<1> QED BY <1>1, <1>2, <1>3, <1>4 DEF RegistryNext, TaskStep

(* A token that APNs named dead to a dispatch is out of the map when the   *)
(* dispatch is over, however it ended, unless the process ended first      *)
(* (dispatch_push).                                                        *)
THEOREM DeadTokensArePruned == RegistrySpec => DeadArePruned
<1>1. DeadInv /\ [RegistryNext]_registryVars => [Pruned]_registryVars
  BY StepPrunes
<1> QED BY <1>1, DeadInitially, DeadStep, PTL
        DEF RegistrySpec, DeadArePruned, Pruned
-----------------------------------------------------------------------------
(* Types.                                                                  *)

(* Only a dispatch sends, and it holds tokens only while it does.          *)
DispatchInv ==
  /\ todo \in [Tasks -> SUBSET Tokens]
  /\ \A k \in Tasks : stage[k] # "send" => todo[k] = {} /\ dead[k] = {}
  /\ \A h \in Handlers : stage[h] # "send"
  /\ pushes \in Nat

Flags == {refused, clash, unsaved} \subseteq BOOLEAN

(* A task that does not send goes on to something else than sending.       *)
LEMMA SavingKeepsDispatches ==
  ASSUME SaveTypes, DispatchInv, NEW k \in Tasks, stage[k] # "send",
         NEW s, s # "send", stage' = [stage EXCEPT ![k] = s],
         UNCHANGED <<todo, dead, pushes>>
  PROVE  DispatchInv'
<1>1. \A j \in Tasks : stage'[j] = IF j = k THEN s ELSE stage[j]
  BY DEF SaveTypes
<1> QED BY <1>1 DEF DispatchInv, Tasks

LEMMA SaveStepsKeepDispatches ==
  ASSUME SaveTypes, DispatchInv, NEW k \in Tasks,
         \/ TakeSnapshot(k) \/ OpenTmp(k) \/ WriteTmp(k) \/ RenameTmp(k)
         \/ SaveFails(k) \/ HangUp(k)
  PROVE  DispatchInv'
<1>1. stage[k] # "send" /\ UNCHANGED <<todo, dead, pushes>>
  BY DEF TakeSnapshot, OpenTmp, WriteTmp, RenameTmp, SaveFails, HangUp, NotSaved,
         counters
<1>2. \E s : s # "send" /\ stage' = [stage EXCEPT ![k] = s]
  <2>1. CASE EndSave(k, FALSE) \/ EndSave(k, tmp # Missing)
    BY <2>1 DEF EndSave
  <2>2. CASE \E s \in {"open", "write", "rename", "orphan"} :
               stage' = [stage EXCEPT ![k] = s]
    BY <2>2
  <2>3. \/ EndSave(k, FALSE) \/ EndSave(k, tmp # Missing)
        \/ stage' = [stage EXCEPT ![k] = "open"]
        \/ stage' = [stage EXCEPT ![k] = "write"]
        \/ stage' = [stage EXCEPT ![k] = "rename"]
        \/ stage' = [stage EXCEPT ![k] = "orphan"]
    BY DEF TakeSnapshot, OpenTmp, WriteTmp, RenameTmp, SaveFails, HangUp
  <2> QED BY <2>1, <2>2, <2>3
<1> QED BY <1>1, <1>2, SavingKeepsDispatches

LEMMA EndDispatchKeepsDispatches ==
  ASSUME SaveTypes, DeadInv, DispatchInv, NEW d \in Dispatchers, EndDispatch(d)
  PROVE  DispatchInv'
<1>1. /\ todo[d] = {} /\ d \in Tasks /\ UNCHANGED <<todo, pushes>>
      /\ dead' = [dead EXCEPT ![d] = {}]
  BY DEF EndDispatch, counters, Tasks
<1>2. PICK s : s # "send" /\ stage' = [stage EXCEPT ![d] = s]
  BY DEF EndDispatch, BeginSave
<1>3. \A k \in Tasks : /\ stage'[k] = IF k = d THEN s ELSE stage[k]
                       /\ dead'[k] = IF k = d THEN {} ELSE dead[k]
  BY <1>1, <1>2 DEF SaveTypes, DeadInv
<1> QED BY <1>1, <1>2, <1>3 DEF DispatchInv, Tasks

LEMMA SendKeepsDispatches ==
  ASSUME SaveTypes, DeadInv, DispatchInv, NEW d \in Dispatchers, NEW t \in Tokens,
         Send(d, t)
  PROVE  DispatchInv'
<1>1. /\ d \in Tasks /\ stage[d] = "send" /\ UNCHANGED <<stage, pushes>>
      /\ \E ts \in SUBSET Tokens : todo' = [todo EXCEPT ![d] = ts]
      /\ \E ts : dead' = [dead EXCEPT ![d] = ts]
  <2>1. PICK a \in Answer(t) :
          /\ todo' = [todo EXCEPT ![d] = IF Classify(a[1], a[2]) = "auth_rejected"
                                         THEN {} ELSE @ \ {t}]
          /\ dead' = [dead EXCEPT ![d] = IF Classify(a[1], a[2]) = "prune"
                                         THEN @ \cup {t} ELSE @]
    BY DEF Send
  <2>2. todo[d] \subseteq Tokens /\ d \in Tasks
    BY DEF DispatchInv, Tasks
  <2> QED BY <2>1, <2>2 DEF Send, counters
<1>2. \A k \in Tasks : k # d => dead'[k] = dead[k] /\ todo'[k] = todo[k]
  BY <1>1 DEF DeadInv, DispatchInv
<1>3. todo' \in [Tasks -> SUBSET Tokens]
  BY <1>1 DEF DispatchInv
<1> QED BY <1>1, <1>2, <1>3 DEF DispatchInv

LEMMA DispatchStep ==
  ASSUME SaveTypes, DeadInv, DispatchInv, [RegistryNext]_registryVars
  PROVE  DispatchInv'
<1>1. ASSUME NEW h \in Handlers, NEW t \in Tokens, Unregister(h, t)
      PROVE  DispatchInv'
  <2>1. /\ h \in Tasks /\ stage[h] # "send" /\ UNCHANGED <<todo, dead, pushes>>
        /\ stage' = [stage EXCEPT ![h] = "snapshot"]
    BY <1>1 DEF Unregister, BeginSave, Tasks
  <2> QED BY <2>1, SavingKeepsDispatches
<1>2. ASSUME NEW h \in Handlers, NEW r \in Requests, Register(h, r[1], r[2])
      PROVE  DispatchInv'
  <2>1. /\ h \in Tasks /\ stage[h] # "send" /\ UNCHANGED <<todo, dead, pushes>>
        /\ stage' = [stage EXCEPT ![h] = "snapshot"]
    BY <1>2 DEF Register, BeginSave, Tasks
  <2> QED BY <2>1, SavingKeepsDispatches
<1>3. ASSUME NEW h \in Handlers, HangUp(h) PROVE DispatchInv'
  BY <1>3, SaveStepsKeepDispatches DEF Tasks
<1>4. ASSUME NEW d \in Dispatchers, StartDispatch(d) PROVE DispatchInv'
  <2>1. /\ d \in Tasks /\ d \notin Handlers /\ dead' = dead /\ pushes' = pushes + 1
        /\ stage' = [stage EXCEPT ![d] = "send"]
        /\ todo' = [todo EXCEPT ![d] = PhonesIn(devices)]
        /\ PhonesIn(devices) \subseteq Tokens
    BY <1>4, RegistryAssumption DEF StartDispatch, Tasks, PhonesIn, Registered
  <2>2. \A k \in Tasks : stage'[k] # "send" => k # d /\ stage'[k] = stage[k]
    BY <2>1 DEF SaveTypes
  <2>3. \A h \in Handlers : stage'[h] = stage[h]
    BY <2>1 DEF SaveTypes, Tasks
  <2> QED BY <2>1, <2>2, <2>3 DEF DispatchInv
<1>5. ASSUME NEW k \in Tasks, TaskStep(k) \/ SaveFails(k) PROVE DispatchInv'
  BY <1>5, SaveStepsKeepDispatches, EndDispatchKeepsDispatches, SendKeepsDispatches
     DEF TaskStep
<1>6. CASE (\E t \in Tokens : Uninstall(t) \/ Reinstall(t)) \/ UNCHANGED registryVars
  <2>1. UNCHANGED <<stage, todo, dead, pushes>>
    BY <1>6 DEF Uninstall, Reinstall, registryVars, tasks, counters
  <2> QED BY <2>1 DEF DispatchInv
<1>7. CASE Restart
  BY <1>7 DEF Restart, DispatchInv, Tasks
<1> QED BY <1>1, <1>2, <1>3, <1>4, <1>5, <1>6, <1>7 DEF RegistryNext

LEMMA FlagsStep ==
  ASSUME Flags, [RegistryNext]_registryVars PROVE Flags'
<1> USE DEF Flags
<1>1. ASSUME NEW k, BeginSave(k), refused' = refused PROVE Flags'
  BY <1>1 DEF BeginSave
<1>2. ASSUME NEW k, NEW done \in BOOLEAN, EndSave(k, done), refused' = refused
      PROVE  Flags'
  BY <1>2 DEF EndSave
<1>3. ASSUME NEW k, \/ TakeSnapshot(k) \/ OpenTmp(k) \/ WriteTmp(k) \/ RenameTmp(k)
                    \/ SaveFails(k) \/ HangUp(k)
      PROVE  Flags'
  <2>1. /\ refused' = refused
        /\ \/ UNCHANGED <<clash, unsaved>>
           \/ EndSave(k, FALSE) \/ EndSave(k, tmp # Missing)
    BY <1>3 DEF TakeSnapshot, OpenTmp, WriteTmp, RenameTmp, SaveFails, HangUp,
                NotSaved, ghosts
  <2> QED BY <1>2, <2>1
<1>4. CASE \/ \E h \in Handlers, t \in Tokens : Unregister(h, t)
           \/ \E h \in Handlers, r \in Requests : Register(h, r[1], r[2])
           \/ \E d \in Dispatchers : EndDispatch(d)
  <2>1. /\ refused' = refused
        /\ UNCHANGED <<clash, unsaved>> \/ \E k : BeginSave(k)
    BY <1>4 DEF Unregister, Register, EndDispatch, ghosts
  <2> QED BY <1>1, <2>1
<1>5. CASE \/ \E d \in Dispatchers : StartDispatch(d) \/ \E t \in Tokens : Send(d, t)
           \/ \E t \in Tokens : Uninstall(t) \/ Reinstall(t)
           \/ UNCHANGED registryVars
  BY <1>5 DEF StartDispatch, Send, Uninstall, Reinstall, registryVars, ghosts
<1>6. CASE Restart
  BY <1>6 DEF Restart
<1> QED BY <1>3, <1>4, <1>5, <1>6 DEF RegistryNext, TaskStep

(* The registry's variables keep their types: only a dispatch sends, and   *)
(* none holds a token, live or dead, once it is over (dispatch_push).      *)
THEOREM RegistryIsTyped == RegistrySpec => []RegistryTypeOK
<1>1. RegistryInit => DispatchInv /\ Flags
  <2> SUFFICES ASSUME RegistryInit PROVE DispatchInv /\ Flags
    OBVIOUS
  <2>1. \A k \in Tasks : stage[k] = "idle" /\ todo[k] = {} /\ dead[k] = {}
    BY DEF RegistryInit
  <2>2. todo \in [Tasks -> SUBSET Tokens]
    BY DEF RegistryInit
  <2>3. pushes \in Nat /\ Flags
    BY DEF RegistryInit, Flags
  <2> QED BY <2>1, <2>2, <2>3 DEF DispatchInv, Tasks
<1>2. SaveInv /\ DeadInv /\ DispatchInv /\ Flags /\ [RegistryNext]_registryVars
        => DispatchInv' /\ Flags'
  BY DispatchStep, FlagsStep DEF SaveInv
<1>3. SaveInv /\ DeadInv /\ DispatchInv /\ Flags => RegistryTypeOK
  <2> SUFFICES ASSUME SaveInv, DeadInv, DispatchInv, Flags PROVE RegistryTypeOK
    OBVIOUS
  <2>1. stage \in [Tasks -> {"idle", "send", "snapshot", "open", "write", "orphan",
                            "rename"}]
    BY DEF SaveInv, SaveTypes, SaveStages
  <2> QED BY <2>1 DEF SaveInv, SaveTypes, DeadInv, DispatchInv, Flags, RegistryTypeOK
<1> QED BY <1>1, <1>2, <1>3, SaveInitially, SaveStep, DeadInitially, DeadStep, PTL
        DEF RegistrySpec
=============================================================================
