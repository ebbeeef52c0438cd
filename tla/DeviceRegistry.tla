--------------------------- MODULE DeviceRegistry ---------------------------
(***************************************************************************)
(* The registry of push devices (crates/core/src/device.rs) with what      *)
(* changes it: the /devices handlers (router.rs) and the push dispatches   *)
(* (state.rs, push/apns.rs), which run detached, one per notification.     *)
(*                                                                         *)
(* A change takes the write lock and is one step; the save that follows it *)
(* takes a snapshot, writes a temporary file and renames it, without any   *)
(* lock, so saves overlap.  All saves share one temporary file name.  A    *)
(* hang-up drops a handler between two of its awaits, but a write already  *)
(* handed to the blocking pool still happens.                              *)
(*                                                                         *)
(* Labels and times are left out.  A handler that is refused (secret, no   *)
(* registry, empty token) changes nothing and is not a step.  A crash ends *)
(* the process, not the machine: a completed write survives it.            *)
(***************************************************************************)
EXTENDS Naturals

CONSTANTS
  Tokens,        \* push tokens
  Requests,      \* the token and platform of the registrations clients send
  Handlers,      \* HTTP tasks that register or unregister
  Dispatchers,   \* detached push dispatches
  NoDevice,
  MaxCalls, MaxPushes, MaxCrashes   \* bounds

ASSUME RegistryAssumption ==
  /\ Requests \subseteq Tokens \X {"ios", "android"}
  /\ Handlers \cap Dispatchers = {}
  /\ NoDevice \notin [platform : {"ios", "android"}, pushed : BOOLEAN]
  /\ {MaxCalls, MaxPushes, MaxCrashes} \subseteq Nat

VARIABLES
  devices,     \* the map in memory
  stage,       \* where each task stands
  todo, dead,  \* of a dispatch: tokens yet to send to, tokens found dead
  snap,        \* of a save: the snapshot it writes
  fd,          \* the file a save's open handle leads to by now
  tmp, file,   \* devices.json.tmp and devices.json
  refused,     \* the process did not start: the file does not parse
  gone,        \* tokens whose app was removed from its phone
  revived,     \* tokens in use again although a dispatch holds them for dead
  disturbed,   \* saves that another save overlapped
  clash,       \* saves overlapped since the last one that ran alone
  unsaved,     \* the map changed since the last save that ran alone
  calls, pushes, restarts

tasks == <<stage, todo, dead, snap, fd>>
disk == <<tmp, file>>
ghosts == <<disturbed, clash, unsaved>>
counters == <<calls, pushes, restarts>>
registryVars ==
  <<devices, tasks, disk, refused, gone, revived, ghosts, counters>>

Tasks == Handlers \cup Dispatchers
Platform == {"ios", "android"}
Device == [platform : Platform, pushed : BOOLEAN]
Registry == [Tokens -> Device \cup {NoDevice}]
NewPhone == [platform |-> "ios", pushed |-> FALSE]
Empty == [t \in Tokens |-> NoDevice]

(* A file's content: nothing yet, the text of one registry, or the text of *)
(* one over the rest of another's.                                         *)
Content == [state : {"missing", "empty", "whole", "mixed"}, devs : Registry]
File(state, devs) == [state |-> state, devs |-> devs]
Missing == File("missing", Empty)

Saving == {k \in Tasks : stage[k] \in {"snapshot", "open", "write", "orphan",
                                       "rename"}}
Registered(reg) == {t \in Tokens : reg[t] # NoDevice}

RegistryTypeOK ==
  /\ devices \in Registry
  /\ stage \in [Tasks -> {"idle", "send", "snapshot", "open", "write",
                          "orphan", "rename"}]
  /\ todo \in [Tasks -> SUBSET Tokens] /\ dead \in [Tasks -> SUBSET Tokens]
  /\ \A k \in Tasks : stage[k] # "send" => todo[k] = {} /\ dead[k] = {}
  /\ \A h \in Handlers : stage[h] # "send"
  /\ snap \in [Tasks -> Registry]
  /\ fd \in [Tasks -> {"none", "tmp", "file", "unlinked"}]
  /\ tmp \in Content /\ file \in Content
  /\ gone \subseteq Tokens /\ revived \subseteq Tokens
  /\ disturbed \subseteq Saving
  /\ {refused, clash, unsaved} \subseteq BOOLEAN
  /\ {calls, pushes, restarts} \subseteq Nat

(* The process starts from the file an earlier one left.                   *)
RegistryInit ==
  /\ \E ts \in SUBSET Tokens :
       /\ devices = [t \in Tokens |-> IF t \in ts THEN NewPhone ELSE NoDevice]
       /\ file = IF ts = {} THEN Missing ELSE File("whole", devices)
  /\ stage = [k \in Tasks |-> "idle"]
  /\ todo = [k \in Tasks |-> {}] /\ dead = [k \in Tasks |-> {}]
  /\ snap = [k \in Tasks |-> Empty]
  /\ fd = [k \in Tasks |-> "none"]
  /\ tmp = Missing
  /\ refused = FALSE
  /\ gone = {} /\ revived = {}
  /\ disturbed = {} /\ clash = FALSE /\ unsaved = FALSE
  /\ calls = 0 /\ pushes = 0 /\ restarts = 0
-----------------------------------------------------------------------------
(* The save.                                                               *)

(* A change of the map puts its task before the snapshot of its save.      *)
BeginSave(k) ==
  /\ stage' = [stage EXCEPT ![k] = "snapshot"]
  /\ disturbed' = IF Saving = {} THEN disturbed
                  ELSE disturbed \cup Saving \cup {k}
  /\ clash' = (clash \/ Saving # {})
  /\ unsaved' = TRUE

(* The save of k ends; one that ran alone makes up for what came before.   *)
EndSave(k, done) ==
  /\ stage' = [stage EXCEPT ![k] = "idle"]
  /\ snap' = [snap EXCEPT ![k] = Empty]
  /\ disturbed' = disturbed \ {k}
  /\ clash' = (clash /\ ~(done /\ k \notin disturbed))
  /\ unsaved' = (unsaved /\ ~(done /\ k \notin disturbed))

NotSaved == <<devices, todo, dead, refused, gone, revived, counters>>

TakeSnapshot(k) ==
  /\ stage[k] = "snapshot"
  /\ stage' = [stage EXCEPT ![k] = "open"]
  /\ snap' = [snap EXCEPT ![k] = devices]
  /\ UNCHANGED <<fd, disk, ghosts, NotSaved>>

(* Mutant: the registry file is written in place.                          *)
OpenInPlace(k) ==
  /\ stage[k] = "open"
  /\ file' = File("empty", Empty)
  /\ stage' = [stage EXCEPT ![k] = "write"]
  /\ fd' = [fd EXCEPT ![k] = "file"]
  /\ UNCHANGED <<snap, tmp, ghosts, NotSaved>>

(* Creates the temporary file, or truncates the one that is there.         *)
OpenTmp(k) ==
  /\ stage[k] = "open"
  /\ tmp' = File("empty", Empty)
  /\ stage' = [stage EXCEPT ![k] = "write"]
  /\ fd' = [fd EXCEPT ![k] = "tmp"]
  /\ UNCHANGED <<snap, file, ghosts, NotSaved>>

(* A text written from the start of a file over another one: the old end   *)
(* stays if the new text is the shorter.                                   *)
Overwritten(content, reg) ==
  {File("whole", reg)} \cup
    IF content.state = "empty" \/ content = File("whole", reg)
    THEN {} ELSE {File("mixed", Empty)}

(* The bytes go where the handle leads by now.                             *)
WriteTmp(k) ==
  /\ stage[k] \in {"write", "orphan"}
  /\ tmp' \in IF fd[k] = "tmp" THEN Overwritten(tmp, snap[k]) ELSE {tmp}
  /\ file' \in IF fd[k] = "file" THEN Overwritten(file, snap[k]) ELSE {file}
  /\ fd' = [fd EXCEPT ![k] = "none"]
  /\ IF stage[k] = "write"
     THEN /\ stage' = [stage EXCEPT ![k] = "rename"]
          /\ UNCHANGED <<snap, ghosts>>
     ELSE EndSave(k, FALSE)
  /\ UNCHANGED NotSaved

(* A handle on the temporary file follows it, one on the replaced file     *)
(* leads nowhere.                                                          *)
Moved(handle) ==
  CASE handle = "tmp" -> "file"
    [] handle = "file" -> "unlinked"
    [] OTHER -> handle

(* rename puts whatever the temporary file is by now over the registry     *)
(* file; it fails if another save has moved it already.                    *)
RenameTmp(k) ==
  /\ stage[k] = "rename"
  /\ IF tmp = Missing
     THEN UNCHANGED <<disk, fd>>
     ELSE /\ file' = tmp
          /\ tmp' = Missing
          /\ fd' = [j \in Tasks |-> Moved(fd[j])]
  /\ EndSave(k, tmp # Missing)
  /\ UNCHANGED NotSaved

(* An error of the file system, which is logged and swallowed; a write     *)
(* that fails may leave a part of the text.                                *)
SaveFails(k) ==
  /\ stage[k] \in {"open", "write", "orphan", "rename"}
  /\ tmp' = IF fd[k] = "tmp" THEN File("mixed", Empty) ELSE tmp
  /\ file' = IF fd[k] = "file" THEN File("mixed", Empty) ELSE file
  /\ fd' = [fd EXCEPT ![k] = "none"]
  /\ EndSave(k, FALSE)
  /\ UNCHANGED NotSaved
-----------------------------------------------------------------------------
(* The /devices handlers.                                                  *)

(* A known token keeps what it has but its platform and label.             *)
Register(h, t, platform) ==
  /\ ~refused /\ stage[h] = "idle" /\ calls < MaxCalls
  /\ calls' = calls + 1
  /\ devices' = [devices EXCEPT ![t] =
       [platform |-> platform,
        pushed |-> IF devices[t] = NoDevice THEN FALSE
                   ELSE devices[t].pushed]]
  /\ BeginSave(h)
  /\ UNCHANGED <<todo, dead, snap, fd, disk, refused, gone, revived,
                 pushes, restarts>>

(* Mutant: the removal is not saved.                                       *)
UnregisterUnsaved(h, t) ==
  /\ ~refused /\ stage[h] = "idle" /\ calls < MaxCalls
  /\ calls' = calls + 1
  /\ devices' = [devices EXCEPT ![t] = NoDevice]
  /\ UNCHANGED <<tasks, disk, refused, gone, revived, ghosts, pushes, restarts>>

(* A token that is not there is answered 404 and nothing is saved.         *)
Unregister(h, t) ==
  /\ ~refused /\ stage[h] = "idle" /\ calls < MaxCalls
  /\ devices[t] # NoDevice
  /\ calls' = calls + 1
  /\ devices' = [devices EXCEPT ![t] = NoDevice]
  /\ BeginSave(h)
  /\ UNCHANGED <<todo, dead, snap, fd, disk, refused, gone, revived,
                 pushes, restarts>>

(* The caller hangs up: the handler is dropped where it awaits, except     *)
(* that a write under way completes without it.                            *)
HangUp(h) ==
  /\ stage[h] \in {"snapshot", "open", "write", "rename"}
  /\ IF stage[h] = "write"
     THEN /\ stage' = [stage EXCEPT ![h] = "orphan"]
          /\ UNCHANGED <<snap, ghosts>>
     ELSE EndSave(h, FALSE)
  /\ UNCHANGED <<fd, disk, NotSaved>>
-----------------------------------------------------------------------------
(* The push dispatches.                                                    *)

PhonesIn(reg) == {t \in Registered(reg) : reg[t].platform = "ios"}

(* A notification that is not exclusive was broadcast.                     *)
StartDispatch(d) ==
  /\ ~refused /\ stage[d] = "idle" /\ pushes < MaxPushes
  /\ PhonesIn(devices) # {}
  /\ pushes' = pushes + 1
  /\ stage' = [stage EXCEPT ![d] = "send"]
  /\ todo' = [todo EXCEPT ![d] = PhonesIn(devices)]
  /\ UNCHANGED <<devices, dead, snap, fd, disk, refused, gone, revived, ghosts,
                 calls, restarts>>

(* What comes of one send: APNs answers a status and a reason; status 0    *)
(* stands for a request without an answer, 1 for a provider token that     *)
(* cannot be signed.                                                       *)
Answer(t) ==
  {<<0, "">>, <<1, "">>, <<403, "Forbidden">>, <<400, "PayloadTooLarge">>,
   <<429, "TooManyRequests">>, <<503, "ServiceUnavailable">>, <<404, "BadPath">>}
  \cup IF t \in gone
       THEN {<<410, "Unregistered">>, <<400, "BadDeviceToken">>,
             <<400, "DeviceTokenNotForTopic">>}
       ELSE {<<200, "">>}

(* Mutant: every 400 is taken for a dead token.                            *)
ClassifyAny400(status, reason) ==
  CASE status = 200 -> "delivered"
    [] status \in {400, 410} -> "prune"
    [] status = 403 -> "auth_rejected"
    [] status = 1 -> "error"
    [] OTHER -> "retryable"

Classify(status, reason) ==
  CASE status = 200 -> "delivered"
    [] status = 410 -> "prune"
    [] status = 400 -> IF reason \in {"BadDeviceToken", "DeviceTokenNotForTopic"}
                       THEN "prune" ELSE "auth_rejected"
    [] status = 403 -> "auth_rejected"
    [] status = 1 -> "error"
    [] OTHER -> "retryable"

(* Mutant: the delivery puts the device it sent to back into the map.      *)
RecordPushInserting(reg, t) ==
  [reg EXCEPT ![t] = [platform |-> "ios", pushed |-> TRUE]]

RecordPush(reg, t) ==
  IF reg[t] = NoDevice THEN reg
  ELSE [reg EXCEPT ![t] = [platform |-> reg[t].platform, pushed |-> TRUE]]

(* Mutant: a rejected provider token returns from the dispatch.            *)
SendReturning(d, t) ==
  /\ stage[d] = "send" /\ t \in todo[d]
  /\ \E a \in Answer(t) :
       LET outcome == Classify(a[1], a[2]) IN
       /\ todo' = [todo EXCEPT ![d] =
                     IF outcome = "auth_rejected" THEN {} ELSE @ \ {t}]
       /\ dead' = [dead EXCEPT ![d] =
                     CASE outcome = "prune" -> @ \cup {t}
                       [] outcome = "auth_rejected" -> {}
                       [] OTHER -> @]
       /\ devices' = IF outcome = "delivered" THEN RecordPush(devices, t)
                     ELSE devices
  /\ UNCHANGED <<stage, snap, fd, disk, refused, gone, revived, ghosts, counters>>

(* One device at a time, in the map's arbitrary order; a rejected provider *)
(* token ends the loop, every other failure goes on with the next device.  *)
Send(d, t) ==
  /\ stage[d] = "send" /\ t \in todo[d]
  /\ \E a \in Answer(t) :
       LET outcome == Classify(a[1], a[2]) IN
       /\ todo' = [todo EXCEPT ![d] =
                     IF outcome = "auth_rejected" THEN {} ELSE @ \ {t}]
       /\ dead' = [dead EXCEPT ![d] =
                     IF outcome = "prune" THEN @ \cup {t} ELSE @]
       /\ devices' = IF outcome = "delivered" THEN RecordPush(devices, t)
                     ELSE devices
  /\ UNCHANGED <<stage, snap, fd, disk, refused, gone, revived, ghosts, counters>>

(* Mutant: the tokens found dead are kept for the next dispatch.           *)
EndDispatchKeeping(d) ==
  /\ stage[d] = "send" /\ todo[d] = {}
  /\ devices' = [t \in Tokens |-> IF t \in dead[d] THEN NoDevice ELSE devices[t]]
  /\ IF dead[d] = {}
     THEN /\ stage' = [stage EXCEPT ![d] = "idle"]
          /\ UNCHANGED ghosts
     ELSE BeginSave(d)
  /\ UNCHANGED <<todo, dead, snap, fd, disk, refused, gone, revived, counters>>

(* The loop is over: the dead tokens are removed and the map is saved.     *)
EndDispatch(d) ==
  /\ stage[d] = "send" /\ todo[d] = {}
  /\ devices' = [t \in Tokens |-> IF t \in dead[d] THEN NoDevice ELSE devices[t]]
  /\ IF dead[d] = {}
     THEN /\ stage' = [stage EXCEPT ![d] = "idle"]
          /\ UNCHANGED ghosts
     ELSE BeginSave(d)
  /\ dead' = [dead EXCEPT ![d] = {}]
  /\ revived' = {t \in revived : \E e \in Dispatchers \ {d} : t \in dead[e]}
  /\ UNCHANGED <<todo, snap, fd, disk, refused, gone, counters>>
-----------------------------------------------------------------------------
(* The app is removed from its phone, and installed again with its token,  *)
(* while a dispatch is there to notice.                                    *)
Noticed == \E d \in Dispatchers : stage[d] = "send"

Uninstall(t) ==
  /\ t \notin gone /\ Noticed
  /\ gone' = gone \cup {t}
  /\ revived' = revived \ {t}
  /\ UNCHANGED <<devices, tasks, disk, refused, ghosts, counters>>

Reinstall(t) ==
  /\ t \in gone /\ Noticed
  /\ gone' = gone \ {t}
  /\ revived' = IF \E d \in Dispatchers : t \in dead[d] THEN revived \cup {t}
                ELSE revived
  /\ UNCHANGED <<devices, tasks, disk, refused, ghosts, counters>>

(* The process ends anywhere and starts again: a missing file is an empty  *)
(* registry, one that does not parse is an error and the process is down.  *)
Restart ==
  /\ ~refused /\ restarts < MaxCrashes
  /\ restarts' = restarts + 1
  /\ refused' = (file.state \notin {"missing", "whole"})
  /\ devices' = file.devs
  /\ stage' = [k \in Tasks |-> "idle"]
  /\ todo' = [k \in Tasks |-> {}] /\ dead' = [k \in Tasks |-> {}]
  /\ snap' = [k \in Tasks |-> Empty]
  /\ fd' = [k \in Tasks |-> "none"]
  /\ disturbed' = {}
  /\ clash' = (file.state \notin {"missing", "whole"})
  /\ unsaved' = FALSE
  /\ revived' = {}
  /\ UNCHANGED <<disk, gone, calls, pushes>>

TaskStep(k) ==
  \/ TakeSnapshot(k) \/ OpenTmp(k) \/ WriteTmp(k) \/ RenameTmp(k)
  \/ k \in Dispatchers /\ (EndDispatch(k) \/ \E t \in Tokens : Send(k, t))

RegistryNext ==
  \/ \E h \in Handlers, t \in Tokens :
       Unregister(h, t)
  \/ \E h \in Handlers, r \in Requests : Register(h, r[1], r[2])
  \/ \E h \in Handlers : HangUp(h)
  \/ \E d \in Dispatchers : StartDispatch(d)
  \/ \E k \in Tasks : TaskStep(k) \/ SaveFails(k)
  \/ \E t \in Tokens : Uninstall(t) \/ Reinstall(t)
  \/ Restart

RegistrySpec == RegistryInit /\ [][RegistryNext]_registryVars
-----------------------------------------------------------------------------
(* However saves, hang-ups and crashes interleave, the registry file never *)
(* holds part of a text unless two saves overlapped, and one save that     *)
(* then runs alone mends it: the start that refuses a corrupt file         *)
(* (from_file) and the write to a temporary file (write_atomic) rest on    *)
(* it.                                                                     *)
FileIsWhole == ~clash => file.state \in {"missing", "whole"}

Platforms(reg) ==
  [t \in Tokens |-> IF reg[t] = NoDevice THEN NoDevice ELSE reg[t].platform]

(* When the last change was followed by a save that ran alone, a restart   *)
(* finds every registered device, with its platform, and no removed one:   *)
(* register, unregister and remove_many each save, and the times of the    *)
(* pushes are all that a restart may lose.                                 *)
SavedSurvivesRestart == ~unsaved /\ ~refused => Platforms(file.devs) = Platforms(devices)

(* Between the calls of the /devices handlers no device enters the map, and *)
(* one leaves it only because APNs named its token dead to a dispatch   *)
(* and it has not been taken into use again since: no transient failure,   *)
(* late delivery or rejected credential removes or restores one            *)
(* (dispatch_push, record_push, remove_many).                              *)
ChangesByRequestOrDeath ==
  [][restarts' = restarts /\ calls' = calls =>
       \A t \in Tokens :
         IF devices[t] = NoDevice THEN devices'[t] = NoDevice
         ELSE devices'[t] = NoDevice => t \in gone \cup revived]_registryVars

(* A token that APNs named dead to a dispatch is out of the map when the   *)
(* dispatch is over, also if a rejected provider token cut it short, unless *)
(* the process ended first (dispatch_push).                                *)
DeadArePruned ==
  [][restarts' = restarts =>
       \A d \in Dispatchers : \A t \in dead[d] :
         t \in dead'[d] \/ devices'[t] = NoDevice]_registryVars
=============================================================================
