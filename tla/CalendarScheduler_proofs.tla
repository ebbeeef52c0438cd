---------------------- MODULE CalendarScheduler_proofs ----------------------
(***************************************************************************)
(* Safety of CalendarScheduler for any set of reminders, firing times and  *)
(* bounds.                                                                 *)
(***************************************************************************)
EXTENDS CalendarScheduler, TLAPS

(* Only a running service ticks, and what a tick has yet to deliver is     *)
(* still due: no command is handled in between.                            *)
DueStaysDue ==
  /\ svc = "down" => tick = NoTick
  /\ tick.busy => \A o \in tick.due : IsDue(o, pending[o], tick.at)

IInv == TypeOK /\ DueStaysDue /\ DiskIsCurrent
-----------------------------------------------------------------------------
(***************************************************************************)
(* Types                                                                   *)
(***************************************************************************)
LEMMA FireTypes ==
  /\ Absent \in PendingFire
  /\ New \in PendingFire
  /\ EmptyMap \in [Occurrences -> PendingFire]
BY DEF PendingFire, Absent, New, EmptyMap, Time

LEMMA CommandTypes ==
  /\ Tick \in Command
  /\ Shutdown \in Command
  /\ Callbacks \subseteq Command
  /\ \A occs \in SUBSET Occurrences, at \in Nat : Refresh(occs, at) \in Command
<1>1. Tick \in Command /\ Shutdown \in Command
  BY DEF Tick, Shutdown, Cmd, Command
<1>2. ASSUME NEW o \in Occurrences, NEW d \in SnoozeFor
      PROVE  Snooze(o, d) \in Command
  BY ConstantsAssumption DEF Snooze, Cmd, Command
<1>3. ASSUME NEW o \in Occurrences PROVE Dismiss(o) \in Command
  BY DEF Dismiss, Cmd, Command
<1>4. Callbacks \subseteq Command
  BY <1>2, <1>3 DEF Callbacks
<1>5. ASSUME NEW occs \in SUBSET Occurrences, NEW at \in Nat
      PROVE  Refresh(occs, at) \in Command
  BY DEF Refresh, Cmd, Command
<1>6. QED
  BY <1>1, <1>4, <1>5

LEMMA SendTypes ==
  ASSUME queue \in Seq(Command), NEW c \in Command
  PROVE  Append(queue, c) \in Seq(Command)
OBVIOUS

LEMMA TickTypes ==
  ASSUME tick \in [busy : BOOLEAN, at : Nat, due : SUBSET Occurrences],
         NEW due \in SUBSET Occurrences
  PROVE  /\ [tick EXCEPT !.due = due]
              \in [busy : BOOLEAN, at : Nat, due : SUBSET Occurrences]
         /\ [tick EXCEPT !.due = due].busy = tick.busy
         /\ [tick EXCEPT !.due = due].at = tick.at
         /\ [tick EXCEPT !.due = due].due = due
<1>1. tick = [busy |-> tick.busy, at |-> tick.at, due |-> tick.due]
  OBVIOUS
<1>2. [tick EXCEPT !.due = due]
        = [busy |-> tick.busy, at |-> tick.at, due |-> due]
  BY <1>1
<1>3. QED
  BY <1>2

(* A delivery and a dismissal disarm, a snooze re-arms: each leaves one of *)
(* the two times set.                                                      *)
LEMMA Disarmed ==
  ASSUME NEW p \in PendingFire, p.present, NEW t \in Nat
  PROVE  Done(p, t) \in PendingFire
BY ConstantsAssumption DEF PendingFire, Time, Done

LEMMA Rearmed ==
  ASSUME NEW p \in PendingFire, p.present, NEW t \in Nat
  PROVE  Snoozed(p, t) \in PendingFire
BY ConstantsAssumption DEF PendingFire, Time, Snoozed

LEMMA HeadType ==
  ASSUME queue \in Seq(Command), NEW c, Receives(c)
  PROVE  Head(queue) \in Command /\ queue' \in Seq(Command)
BY DEF Receives

LEMMA PersistTypes ==
  ASSUME TypeOK, Persist, pending' \in [Occurrences -> PendingFire]
  PROVE  disk' \in [Occurrences -> PendingFire] /\ errors' \in Nat
BY DEF TypeOK, Persist

LEMMA InitIInv == Init => IInv
<1> SUFFICES ASSUME Init PROVE IInv
  OBVIOUS
<1>1. queue \in Seq(Command)
  BY DEF Init
<1>2. TypeOK
  BY <1>1, FireTypes DEF Init, TypeOK, NoTick
<1>3. QED
  BY <1>2 DEF Init, IInv, DueStaysDue, DiskIsCurrent, Running, NoTick

LEMMA TypeStep == TypeOK /\ DueStaysDue /\ [Next]_vars => TypeOK'
<1> SUFFICES ASSUME TypeOK, DueStaysDue, [Next]_vars PROVE TypeOK'
  OBVIOUS
<1> USE DEF service, history, failures
<1>1. CASE UNCHANGED vars
  BY <1>1 DEF TypeOK, vars
<1>2. CASE OnRefresh
  <2>1. queue' \in Seq(Command)
    BY <1>2, HeadType DEF OnRefresh, TypeOK
  <2>2. pending' \in [Occurrences -> PendingFire]
    BY <1>2, FireTypes DEF OnRefresh, TypeOK, Merged
  <2>3. QED
    BY <1>2, <2>1, <2>2, PersistTypes DEF OnRefresh, TypeOK
<1>3. CASE OnSnooze
  <2> DEFINE o == Head(queue).id
  <2>1. /\ Head(queue) \in Command /\ queue' \in Seq(Command)
        /\ Head(queue).cmd = "snooze"
    BY <1>3, HeadType DEF OnSnooze, TypeOK, Receives
  <2>2. o \in Occurrences /\ now + Head(queue).delay \in Nat
    BY <2>1 DEF Command, TypeOK
  <2>3. pending' \in [Occurrences -> PendingFire]
    BY <1>3, <2>2, Rearmed DEF OnSnooze, TypeOK
  <2>4. snoozes' \in [Occurrences -> Nat] /\ dismissed' \subseteq Occurrences
    BY <1>3, <2>2 DEF OnSnooze, TypeOK
  <2>5. QED
    BY <1>3, <2>1, <2>3, <2>4, PersistTypes DEF OnSnooze, TypeOK
<1>4. CASE OnDismiss
  <2> DEFINE o == Head(queue).id
  <2>1. /\ Head(queue) \in Command /\ queue' \in Seq(Command)
        /\ Head(queue).cmd = "dismiss"
    BY <1>4, HeadType DEF OnDismiss, TypeOK, Receives
  <2>2. o \in Occurrences
    BY <2>1 DEF Command
  <2>3. pending' \in [Occurrences -> PendingFire]
    BY <1>4, <2>2, Disarmed DEF OnDismiss, TypeOK
  <2>4. dismissed' \subseteq Occurrences
    BY <1>4, <2>2 DEF OnDismiss, TypeOK
  <2>5. QED
    BY <1>4, <2>1, <2>3, <2>4, PersistTypes DEF OnDismiss, TypeOK
<1>5. CASE OnUnknown
  <2>1. queue' \in Seq(Command)
    BY <1>5, HeadType DEF OnUnknown, TypeOK
  <2>2. QED
    BY <1>5, <2>1 DEF OnUnknown, TypeOK
<1>6. CASE StartTick
  <2>1. queue' \in Seq(Command)
    BY <1>6, HeadType DEF StartTick, TypeOK
  <2>2. QED
    BY <1>6, <2>1 DEF StartTick, TypeOK
<1>7. CASE EndTick
  <2>1. pending' \in [Occurrences -> PendingFire]
    BY <1>7, FireTypes DEF EndTick, TypeOK, Collected
  <2>2. QED
    BY <1>7, <2>1, PersistTypes DEF EndTick, TypeOK, NoTick
<1>8. ASSUME NEW o \in Occurrences, Deliver(o) PROVE TypeOK'
  <2>1. pending[o].present
    BY <1>8 DEF Deliver, DueStaysDue, IsDue
  <2>2. pending' \in [Occurrences -> PendingFire]
    BY <1>8, <2>1, Disarmed DEF Deliver, TypeOK
  <2>3. tick' \in [busy : BOOLEAN, at : Nat, due : SUBSET Occurrences]
    <3>1. tick.due \ {o} \in SUBSET Occurrences
      BY DEF TypeOK
    <3>2. tick' = [tick EXCEPT !.due = tick.due \ {o}]
      BY <1>8 DEF Deliver
    <3>3. QED
      BY <3>1, <3>2, TickTypes DEF TypeOK
  <2>4. QED
    BY <1>8, <2>2, <2>3 DEF Deliver, TypeOK
<1>9. ASSUME NEW o \in Occurrences, DeliveryFails(o) PROVE TypeOK'
  <2>1. tick' \in [busy : BOOLEAN, at : Nat, due : SUBSET Occurrences]
    <3>1. tick.due \ {o} \in SUBSET Occurrences
      BY DEF TypeOK
    <3>2. tick' = [tick EXCEPT !.due = tick.due \ {o}]
      BY <1>9 DEF DeliveryFails
    <3>3. QED
      BY <3>1, <3>2, TickTypes DEF TypeOK
  <2>2. QED
    BY <1>9, <2>1 DEF DeliveryFails, TypeOK
<1>10. CASE TickerElapses
  <2>1. queue' \in Seq(Command)
    BY <1>10, CommandTypes, SendTypes DEF TickerElapses, TypeOK
  <2>2. QED
    BY <1>10, <2>1 DEF TickerElapses, TypeOK
<1>11. CASE SendRefresh
  <2>1. PICK occs \in SUBSET Occurrences : queue' = Append(queue, Refresh(occs, now))
    BY <1>11 DEF SendRefresh
  <2>2. queue' \in Seq(Command)
    <3>1. Refresh(occs, now) \in Command
      BY CommandTypes DEF TypeOK
    <3>2. QED
      BY <2>1, <3>1, SendTypes DEF TypeOK
  <2>3. QED
    BY <1>11, <2>2 DEF SendRefresh, TypeOK
<1>12. ASSUME NEW c \in Callbacks, TakeHandle(c) PROVE TypeOK'
  BY <1>12 DEF TakeHandle, TypeOK
<1>13. CASE SendCommand
  <2>1. request \in Command
    BY <1>13, CommandTypes DEF SendCommand, TypeOK
  <2>2. queue' \in Seq(Command)
    BY <1>13, <2>1, SendTypes DEF SendCommand, TypeOK
  <2>3. QED
    BY <1>13, <2>2 DEF SendCommand, TypeOK
<1>14. CASE Start
  BY <1>14, FireTypes DEF Start, TypeOK
<1>15. CASE BeginShutdown
  BY <1>15 DEF BeginShutdown, TypeOK
<1>16. CASE SendShutdown
  <2>1. queue' \in Seq(Command)
    BY <1>16, CommandTypes, SendTypes DEF SendShutdown, TypeOK
  <2>2. QED
    BY <1>16, <2>1 DEF SendShutdown, TypeOK
<1>17. CASE OnShutdown
  BY <1>17, FireTypes DEF OnShutdown, Forget, TypeOK, NoTick
<1>18. CASE Crash
  BY <1>18, FireTypes DEF Crash, Forget, TypeOK, NoTick
<1>19. CASE Advance
  BY <1>19 DEF Advance, TypeOK
<1>20. QED
  BY <1>1, <1>2, <1>3, <1>4, <1>5, <1>6, <1>7, <1>8, <1>9, <1>10, <1>11,
     <1>12, <1>13, <1>14, <1>15, <1>16, <1>17, <1>18, <1>19
     DEF Next, Scheduler, Service
-----------------------------------------------------------------------------
(***************************************************************************)
(* The tick and the state file                                             *)
(***************************************************************************)
(* The steps that leave the map, the file and the tick alone.              *)
Quiet ==
  /\ UNCHANGED <<pending, disk, tick>>
  /\ errors' = errors
  /\ svc' = svc \/ (Running /\ svc' # "down")

(* A command's handler: no tick runs, and the map is saved or an error is  *)
(* counted.                                                                *)
Handled ==
  /\ Running /\ svc' = svc
  /\ ~tick.busy /\ tick' = tick
  /\ Persist

LEMMA StepCases ==
  ASSUME [Next]_vars
  PROVE  \/ Quiet \/ Handled \/ StartTick \/ EndTick \/ Start
         \/ OnShutdown \/ Crash
         \/ \E o \in Occurrences : Deliver(o) \/ DeliveryFails(o)
<1> USE DEF service, history, failures
<1>1. CASE UNCHANGED vars
  BY <1>1 DEF vars, Quiet
<1>2. CASE OnRefresh \/ OnSnooze \/ OnDismiss
  BY <1>2 DEF OnRefresh, OnSnooze, OnDismiss, Receives, Handled, Running
<1>3. CASE OnUnknown \/ TickerElapses \/ SendRefresh \/ SendCommand \/ Advance
  BY <1>3 DEF OnUnknown, TickerElapses, SendRefresh, SendCommand, Advance, Quiet
<1>4. CASE BeginShutdown \/ SendShutdown
  BY <1>4 DEF BeginShutdown, SendShutdown, Quiet, Running
<1>5. CASE \E c \in Callbacks : TakeHandle(c)
  BY <1>5 DEF TakeHandle, Quiet
<1>6. QED
  BY <1>1, <1>2, <1>3, <1>4, <1>5 DEF Next, Scheduler, Service

LEMMA TickStep == TypeOK /\ DueStaysDue /\ [Next]_vars => DueStaysDue'
<1> SUFFICES ASSUME TypeOK, DueStaysDue, [Next]_vars PROVE DueStaysDue'
  OBVIOUS
<1> USE DEF service, history, failures
<1>1. CASE Quiet \/ Handled
  BY <1>1 DEF Quiet, Handled, Running, DueStaysDue, TypeOK
<1>2. CASE StartTick
  BY <1>2 DEF StartTick, Receives, DueStaysDue, IsDue, EffectiveFireAt
<1>3. CASE EndTick \/ OnShutdown \/ Crash
  BY <1>3 DEF EndTick, OnShutdown, Crash, Forget, DueStaysDue, NoTick
<1>4. CASE Start
  BY <1>4 DEF Start, DueStaysDue, NoTick
<1>5. ASSUME NEW x \in Occurrences, Deliver(x) PROVE DueStaysDue'
  <2>1. /\ tick.busy /\ x \in tick.due /\ svc' = svc
        /\ pending' = [pending EXCEPT ![x] = Done(@, tick.at)]
        /\ tick' = [tick EXCEPT !.due = tick.due \ {x}]
    BY <1>5 DEF Deliver
  <2>2. tick'.busy /\ tick'.at = tick.at /\ tick'.due = tick.due \ {x}
    BY <2>1, TickTypes DEF TypeOK
  <2>3. svc # "down"
    BY <2>1 DEF DueStaysDue, NoTick
  <2>4. \A o \in tick.due \ {x} : pending'[o] = pending[o]
    BY <2>1 DEF TypeOK
  <2>5. QED
    BY <2>1, <2>2, <2>3, <2>4 DEF DueStaysDue, IsDue, EffectiveFireAt
<1>6. ASSUME NEW x \in Occurrences, DeliveryFails(x) PROVE DueStaysDue'
  <2>1. /\ tick.busy /\ x \in tick.due /\ svc' = svc /\ pending' = pending
        /\ tick' = [tick EXCEPT !.due = tick.due \ {x}]
    BY <1>6 DEF DeliveryFails
  <2>2. tick'.busy /\ tick'.at = tick.at /\ tick'.due = tick.due \ {x}
    BY <2>1, TickTypes DEF TypeOK
  <2>3. svc # "down"
    BY <2>1 DEF DueStaysDue, NoTick
  <2>4. QED
    BY <2>1, <2>2, <2>3 DEF DueStaysDue
<1>7. QED
  BY <1>1, <1>2, <1>3, <1>4, <1>5, <1>6, StepCases

(* A command saves before the next one is read; a delivery leaves the file *)
(* with the due entry it has just disarmed in the map.                     *)
LEMMA DiskStep == IInv /\ [Next]_vars => DiskIsCurrent'
<1> SUFFICES ASSUME TypeOK, DueStaysDue, DiskIsCurrent, [Next]_vars
             PROVE  DiskIsCurrent'
  BY DEF IInv
<1> USE DEF service, history, failures
<1>1. CASE Quiet
  BY <1>1 DEF Quiet, DiskIsCurrent, Running, IsDue, EffectiveFireAt
<1>2. CASE Handled \/ EndTick
  BY <1>2 DEF Handled, EndTick, Persist, DiskIsCurrent, TypeOK
<1>3. CASE StartTick
  BY <1>3 DEF StartTick, Receives, DiskIsCurrent, Running
<1>4. CASE Start
  BY <1>4 DEF Start, DiskIsCurrent, TypeOK
<1>5. CASE OnShutdown \/ Crash
  BY <1>5 DEF OnShutdown, Crash, Forget, DiskIsCurrent, Running
<1>6. ASSUME NEW x \in Occurrences, Deliver(x) PROVE DiskIsCurrent'
  <2> SUFFICES ASSUME Running', errors' = 0, NEW o \in Occurrences
               PROVE  \/ disk'[o] = pending'[o]
                      \/ /\ tick'.busy /\ o \notin tick'.due
                         /\ IsDue(o, disk'[o], tick'.at)
                         /\ pending'[o].fired_at = tick'.at
    BY DEF DiskIsCurrent, IsDue, EffectiveFireAt
  <2>1. /\ tick.busy /\ x \in tick.due /\ svc' = svc /\ disk' = disk
        /\ errors' = errors
        /\ pending' = [pending EXCEPT ![x] = Done(@, tick.at)]
        /\ tick' = [tick EXCEPT !.due = tick.due \ {x}]
    BY <1>6 DEF Deliver
  <2>2. tick'.busy /\ tick'.at = tick.at /\ tick'.due = tick.due \ {x}
    BY <2>1, TickTypes DEF TypeOK
  <2>3. \/ disk[o] = pending[o]
        \/ /\ tick.busy /\ o \notin tick.due
           /\ IsDue(o, disk[o], tick.at) /\ pending[o].fired_at = tick.at
    BY <2>1 DEF DiskIsCurrent, Running
  <2>4. CASE o = x
    <3>1. disk[x] = pending[x] /\ IsDue(x, pending[x], tick.at)
      BY <2>1, <2>3, <2>4 DEF DueStaysDue
    <3>2. pending'[x] = Done(pending[x], tick.at)
      BY <2>1 DEF TypeOK
    <3>3. pending[x] \in [present : BOOLEAN, snoozed_until : Time, fired_at : Time]
      BY DEF TypeOK, PendingFire
    <3>4. Done(pending[x], tick.at).fired_at = tick.at
      BY <3>3 DEF Done
    <3>5. QED
      BY <2>1, <2>2, <2>4, <3>1, <3>2, <3>4
  <2>5. CASE o # x
    <3>1. pending'[o] = pending[o]
      BY <2>1, <2>5 DEF TypeOK
    <3>2. QED
      BY <2>1, <2>2, <2>3, <2>5, <3>1
  <2>6. QED
    BY <2>4, <2>5
<1>7. ASSUME NEW x \in Occurrences, DeliveryFails(x) PROVE DiskIsCurrent'
  <2>1. errors' = errors + 1 /\ errors \in Nat
    BY <1>7 DEF DeliveryFails, TypeOK
  <2>2. QED
    BY <2>1 DEF DiskIsCurrent
<1>8. QED
  BY <1>1, <1>2, <1>3, <1>4, <1>5, <1>6, <1>7, StepCases

LEMMA StepIInv == IInv /\ [Next]_vars => IInv'
BY TypeStep, TickStep, DiskStep DEF IInv

LEMMA Invariance == Spec => []IInv
BY InitIInv, StepIInv, PTL DEF Spec

(* The scheduler's state stays well typed; above all an entry is never     *)
(* both snoozed and fired, whatever handlers, ticks and restarts do to it. *)
THEOREM SchedulerTypes == Spec => []TypeOK
<1>1. IInv => TypeOK
  BY DEF IInv
<1>2. QED
  BY <1>1, Invariance, PTL

(* The state file is the scheduler's map, but for what the tick in         *)
(* progress has delivered, for any reminders, windows and bounds.          *)
THEOREM FileFollowsMap == Spec => []DiskIsCurrent
<1>1. IInv => DiskIsCurrent
  BY DEF IInv
<1>2. QED
  BY <1>1, Invariance, PTL
-----------------------------------------------------------------------------
(***************************************************************************)
(* How often a reminder may still ring                                     *)
(***************************************************************************)
(* A refresh in the channel was parsed a short while ago.                  *)
RefreshesAreFresh ==
  \A i \in DOMAIN queue : queue[i].cmd = "refresh" =>
    /\ now <= queue[i].at + Lag
    /\ \A o \in queue[i].occs : queue[i].at <= FireAt[o] + Grace[o]

TimesArePast ==
  /\ \A o \in Occurrences : \A p \in {pending[o], disk[o]} :
       p.fired_at = Never \/ p.fired_at <= now
  /\ tick.busy => tick.at <= now

(* An entry that is not in the map may yet be put there.                   *)
MayBeListed(o) ==
  \/ now <= FireAt[o] + Grace[o]
  \/ \E i \in DOMAIN queue : queue[i].cmd = "refresh" /\ o \in queue[i].occs

(* The rings entry p of o still owes if no one snoozes it again: one while *)
(* it is armed, and one more if it can ring so early that it is collected  *)
(* and listed anew.                                                        *)
Owed(o, p, listed) ==
  IF ~p.present THEN (IF listed THEN 1 ELSE 0)
  ELSE IF p.snoozed_until # Never
  THEN (IF p.snoozed_until < FireAt[o] THEN 2 ELSE 1)
  ELSE IF p.fired_at = Never \/ p.fired_at < FireAt[o] THEN 1 ELSE 0

Allowed(o) == 1 + snoozes[o] + crashes + errors

(* The file may lag behind by the one ring of the tick in progress.        *)
Unsaved(o) == IF tick.busy /\ o \notin tick.due THEN 1 ELSE 0

MapOwes(o) ==
  Running => bell[o] + Owed(o, pending[o], MayBeListed(o)) <= Allowed(o)
FileOwes(o) ==
  bell[o] + Owed(o, disk[o], MayBeListed(o)) <= Allowed(o) + Unsaved(o)

RingInv ==
  /\ RefreshesAreFresh
  /\ TimesArePast
  /\ \A o \in Occurrences : MapOwes(o) /\ FileOwes(o)
-----------------------------------------------------------------------------
(* What a step does to the channel and the clock.                          *)
Parsed(c) ==
  c.cmd = "refresh" =>
    c.at = now /\ \A o \in c.occs : now <= FireAt[o] + Grace[o]

ChannelMoves ==
  \/ queue' = queue /\ now' = now
  \/ queue' = <<>> /\ now' = now
  \/ queue # <<>> /\ queue' = Tail(queue) /\ now' = now
  \/ \E c \in Command : Parsed(c) /\ queue' = Append(queue, c) /\ now' = now
  \/ /\ queue' = queue /\ now' = now + 1
     /\ \A i \in DOMAIN queue :
          queue[i].cmd = "refresh" => now < queue[i].at + Lag

LEMMA ChannelCases == TypeOK /\ [Next]_vars => ChannelMoves
<1> SUFFICES ASSUME TypeOK, [Next]_vars PROVE ChannelMoves
  OBVIOUS
<1> USE DEF service, history, failures
<1>1. CASE UNCHANGED vars
  BY <1>1 DEF vars, ChannelMoves
<1>2. CASE OnRefresh \/ OnSnooze \/ OnDismiss \/ OnUnknown \/ StartTick
  BY <1>2 DEF OnRefresh, OnSnooze, OnDismiss, OnUnknown, StartTick, Receives,
              ChannelMoves
<1>3. CASE EndTick \/ \E o \in Occurrences : Deliver(o) \/ DeliveryFails(o)
  BY <1>3 DEF EndTick, Deliver, DeliveryFails, ChannelMoves
<1>4. CASE TickerElapses \/ SendShutdown \/ SendCommand
  <2>1. \A c \in Callbacks \cup {Tick, Shutdown} : c \in Command /\ Parsed(c)
    <3>1. \A c \in Callbacks \cup {Tick, Shutdown} : c.cmd # "refresh"
      BY DEF Callbacks, Snooze, Dismiss, Tick, Shutdown, Cmd
    <3> QED BY <3>1, CommandTypes DEF Parsed
  <2>2. CASE TickerElapses \/ SendShutdown
    BY <2>1, <2>2 DEF TickerElapses, SendShutdown, ChannelMoves
  <2>3. CASE SendCommand
    BY <2>1, <2>3 DEF SendCommand, ChannelMoves, TypeOK
  <2> QED BY <1>4, <2>2, <2>3
<1>5. CASE SendRefresh
  <2>1. PICK occs \in SUBSET {o \in Occurrences : InWindow(o, now)} :
          queue' = Append(queue, Refresh(occs, now))
    BY <1>5 DEF SendRefresh
  <2>2. Refresh(occs, now) \in Command
    BY CommandTypes DEF TypeOK
  <2>3. Parsed(Refresh(occs, now))
    BY DEF Parsed, Refresh, Cmd, InWindow
  <2> QED BY <1>5, <2>1, <2>2, <2>3 DEF SendRefresh, ChannelMoves
<1>6. CASE \/ \E c \in Callbacks : TakeHandle(c)
           \/ Start \/ BeginShutdown
  BY <1>6 DEF TakeHandle, Start, BeginShutdown, ChannelMoves
<1>7. CASE OnShutdown \/ Crash
  BY <1>7 DEF OnShutdown, Crash, Forget, ChannelMoves
<1>8. CASE Advance
  BY <1>8 DEF Advance, ChannelMoves
<1> QED
  BY <1>1, <1>2, <1>3, <1>4, <1>5, <1>6, <1>7, <1>8 DEF Next, Scheduler, Service

LEMMA TailElements ==
  ASSUME queue \in Seq(Command), queue # <<>>
  PROVE  \A i \in DOMAIN Tail(queue) :
           i + 1 \in DOMAIN queue /\ Tail(queue)[i] = queue[i + 1]
OBVIOUS

LEMMA SentElements ==
  ASSUME queue \in Seq(Command), NEW c \in Command
  PROVE  \A i \in DOMAIN Append(queue, c) :
           \/ i \in DOMAIN queue /\ Append(queue, c)[i] = queue[i]
           \/ Append(queue, c)[i] = c
OBVIOUS

(* Nothing becomes listable again, and what is listed is fresh.            *)
LEMMA ListingStep ==
  ASSUME TypeOK, RefreshesAreFresh, ChannelMoves
  PROVE  /\ RefreshesAreFresh'
         /\ \A o \in Occurrences : MayBeListed(o)' => MayBeListed(o)
         /\ now' \in Nat /\ now <= now'
<1>1. now \in Nat /\ queue \in Seq(Command)
  BY DEF TypeOK
<1>2. \A i \in DOMAIN queue : queue[i] \in Command
  BY <1>1
<1>3. \A c \in Command : c.at \in Nat /\ c.occs \subseteq Occurrences
  BY DEF Command
<1>4. CASE queue' = queue /\ now' = now
  BY <1>1, <1>4 DEF RefreshesAreFresh, MayBeListed
<1>5. CASE queue' = <<>> /\ now' = now
  BY <1>1, <1>5 DEF RefreshesAreFresh, MayBeListed
<1>6. CASE queue # <<>> /\ queue' = Tail(queue) /\ now' = now
  BY <1>1, <1>6, TailElements DEF RefreshesAreFresh, MayBeListed
<1>7. ASSUME NEW c \in Command, Parsed(c), queue' = Append(queue, c), now' = now
      PROVE  /\ RefreshesAreFresh'
             /\ \A o \in Occurrences : MayBeListed(o)' => MayBeListed(o)
  <2>1. \A i \in DOMAIN queue' :
          (i \in DOMAIN queue /\ queue'[i] = queue[i]) \/ queue'[i] = c
    BY <1>1, <1>7, SentElements
  <2>2. c.cmd = "refresh" => now <= c.at + Lag
    BY <1>1, <1>7, ConstantsAssumption DEF Parsed
  <2>3. RefreshesAreFresh'
    BY <1>1, <1>7, <2>1, <2>2 DEF RefreshesAreFresh, Parsed
  <2>4. \A o \in Occurrences : MayBeListed(o)' => MayBeListed(o)
    BY <1>7, <2>1 DEF MayBeListed, Parsed
  <2> QED BY <2>3, <2>4
<1>8. CASE /\ queue' = queue /\ now' = now + 1
           /\ \A i \in DOMAIN queue :
                queue[i].cmd = "refresh" => now < queue[i].at + Lag
  <2>1. RefreshesAreFresh'
    BY <1>1, <1>2, <1>3, <1>8, ConstantsAssumption DEF RefreshesAreFresh
  <2>2. \A o \in Occurrences : FireAt[o] \in Nat /\ Grace[o] \in Nat
    BY ConstantsAssumption
  <2>3. \A o \in Occurrences : MayBeListed(o)' => MayBeListed(o)
    BY <1>1, <1>8, <2>2 DEF MayBeListed
  <2> QED BY <1>1, <1>8, <2>1, <2>3
<1> QED BY <1>1, <1>4, <1>5, <1>6, <1>7, <1>8 DEF ChannelMoves
-----------------------------------------------------------------------------
(***************************************************************************)
(* What an entry owes, step by step                                        *)
(***************************************************************************)
LEMMA OwedRange ==
  ASSUME NEW o, NEW p, NEW listed \in BOOLEAN PROVE Owed(o, p, listed) \in 0..2
BY DEF Owed

LEMMA OwedFalls ==
  ASSUME NEW o, NEW p, NEW before \in BOOLEAN, NEW after \in BOOLEAN,
         after => before
  PROVE  Owed(o, p, after) <= Owed(o, p, before)
BY DEF Owed

LEMMA ListedOwesOne ==
  ASSUME NEW o, NEW listed \in BOOLEAN
  PROVE  /\ Owed(o, New, listed) = 1
         /\ Owed(o, Absent, listed) <= 1
         /\ Owed(o, Absent, TRUE) = 1
BY DEF Owed, New, Absent

(* A ring is one less to owe, whatever becomes listable.                   *)
LEMMA RingIsOwed ==
  ASSUME NEW o \in Occurrences, NEW p \in PendingFire, NEW t \in Nat,
         NEW listed \in BOOLEAN, IsDue(o, p, t)
  PROVE  Owed(o, Done(p, t), listed) + 1 <= Owed(o, p, listed)
<1>1. p.present /\ Done(p, t).present
  BY DEF IsDue, Done, PendingFire
<1>2. Done(p, t).snoozed_until = Never /\ Done(p, t).fired_at = t
  BY DEF Done, PendingFire
<1>3. t # Never /\ FireAt[o] \in Nat /\ p.snoozed_until \in Nat \cup {Never}
  BY ConstantsAssumption DEF PendingFire, Time
<1>4. CASE p.snoozed_until # Never
  BY <1>1, <1>2, <1>3, <1>4 DEF Owed, IsDue, EffectiveFireAt
<1>5. CASE p.snoozed_until = Never
  BY <1>1, <1>2, <1>3, <1>5 DEF Owed, IsDue, EffectiveFireAt
<1> QED BY <1>4, <1>5

LEMMA DismissalOwesNoMore ==
  ASSUME NEW o \in Occurrences, NEW p \in PendingFire, NEW t \in Nat,
         NEW listed \in BOOLEAN, p.present, p.fired_at = Never \/ p.fired_at <= t
  PROVE  Owed(o, Done(p, t), listed) <= Owed(o, p, listed)
<1>1. Done(p, t).present /\ Done(p, t).snoozed_until = Never /\ Done(p, t).fired_at = t
  BY DEF Done, PendingFire
<1>2. /\ t # Never /\ FireAt[o] \in Nat /\ p.snoozed_until \in Nat \cup {Never}
      /\ p.fired_at \in Nat \cup {Never}
  BY ConstantsAssumption DEF PendingFire, Time
<1> QED BY <1>1, <1>2 DEF Owed

LEMMA SnoozeOwesOneMore ==
  ASSUME NEW o \in Occurrences, NEW p \in PendingFire, NEW t \in Nat, NEW d \in Nat,
         NEW listed \in BOOLEAN, p.present, p.fired_at = Never \/ p.fired_at <= t
  PROVE  Owed(o, Snoozed(p, t + d), listed) <= Owed(o, p, listed) + 1
<1>1. /\ Snoozed(p, t + d).present
      /\ Snoozed(p, t + d).snoozed_until = t + d
  BY DEF Snoozed, PendingFire
<1>2. /\ t + d # Never /\ FireAt[o] \in Nat /\ p.snoozed_until \in Nat \cup {Never}
      /\ p.fired_at \in Nat \cup {Never}
  BY ConstantsAssumption DEF PendingFire, Time
<1> QED BY <1>1, <1>2 DEF Owed

(* What is dropped was never armed beyond its listing, or rang so long ago *)
(* that no refresh lists it any more: the purpose of the retention.        *)
LEMMA DroppedOwesNoMore ==
  ASSUME TypeOK, RefreshesAreFresh,
         NEW o \in Occurrences, NEW p \in PendingFire, p.present,
         p.snoozed_until = Never,
         p.fired_at = Never \/ ~Within(p.fired_at, Retain, now)
  PROVE  Owed(o, Absent, MayBeListed(o)) <= Owed(o, p, MayBeListed(o))
<1>1. /\ now \in Nat /\ FireAt[o] \in Nat /\ Grace[o] \in Nat /\ Lag \in Nat
      /\ Retain \in Nat /\ Grace[o] + Lag < Retain /\ Never \notin Nat
  BY ConstantsAssumption DEF TypeOK
<1>2. p.fired_at \in Nat \cup {Never}
  BY DEF PendingFire, Time
<1>3. CASE p.fired_at = Never \/ p.fired_at < FireAt[o]
  <2>1. Owed(o, p, MayBeListed(o)) = 1
    BY <1>3 DEF Owed
  <2>2. Owed(o, Absent, MayBeListed(o)) <= 1
    BY DEF Owed, Absent
  <2> QED BY <2>1, <2>2
<1>4. CASE p.fired_at # Never /\ FireAt[o] <= p.fired_at
  <2>1. FireAt[o] + Retain <= now
    BY <1>1, <1>2, <1>4 DEF Within
  <2>2. \A i \in DOMAIN queue : queue[i] \in Command /\ queue[i].at \in Nat
    BY DEF TypeOK, Command
  <2>3. ~MayBeListed(o)
    BY <1>1, <2>1, <2>2 DEF MayBeListed, RefreshesAreFresh
  <2>4. Owed(o, Absent, MayBeListed(o)) = 0
    BY <2>3 DEF Owed, Absent
  <2> QED BY <2>4 DEF Owed
<1> QED BY <1>1, <1>2, <1>3, <1>4

(* The steps, by what they do to one entry: none, a command or the end of  *)
(* a tick, which save the map.                                             *)
Calm ==
  /\ UNCHANGED <<pending, disk, bell, snoozes, crashes, errors>>
  /\ svc' = svc \/ (Running /\ Running')
  /\ tick' = tick \/ (~tick.busy /\ Running)

EntryChanges(o) ==
  /\ Owed(o, pending'[o], MayBeListed(o)')
       <= Owed(o, pending[o], MayBeListed(o)) + (snoozes'[o] - snoozes[o])
  /\ snoozes'[o] >= snoozes[o]

Saves ==
  /\ Running /\ svc' = svc
  /\ Persist /\ UNCHANGED <<bell, crashes>>
  /\ \A o \in Occurrences : EntryChanges(o)

LEMMA CalmCases ==
  ASSUME TypeOK,
         \/ UNCHANGED vars \/ OnUnknown \/ TickerElapses \/ SendRefresh \/ SendCommand
         \/ Advance \/ BeginShutdown \/ SendShutdown \/ StartTick
         \/ \E c \in Callbacks : TakeHandle(c)
  PROVE  Calm
<1> USE DEF service, history, failures
<1>1. CASE UNCHANGED vars
  BY <1>1 DEF vars, Calm
<1>2. CASE OnUnknown \/ TickerElapses \/ SendRefresh \/ SendCommand \/ Advance
  BY <1>2 DEF OnUnknown, TickerElapses, SendRefresh, SendCommand, Advance, Calm
<1>3. CASE BeginShutdown \/ SendShutdown
  BY <1>3 DEF BeginShutdown, SendShutdown, Calm, Running
<1>4. CASE StartTick
  BY <1>4 DEF StartTick, Receives, Calm, Running
<1>5. CASE \E c \in Callbacks : TakeHandle(c)
  BY <1>5 DEF TakeHandle, Calm
<1> QED BY <1>1, <1>2, <1>3, <1>4, <1>5

LEMMA EntryTypes ==
  ASSUME TypeOK, NEW o \in Occurrences
  PROVE  /\ pending[o] \in PendingFire /\ disk[o] \in PendingFire
         /\ pending[o].fired_at \in Time /\ pending[o].snoozed_until \in Time
         /\ pending[o].present \/ pending[o] = Absent
         /\ disk[o].fired_at \in Time /\ disk[o].snoozed_until \in Time
         /\ bell[o] \in Nat /\ snoozes[o] \in Nat
         /\ Owed(o, pending[o], MayBeListed(o)) \in 0..2
         /\ Owed(o, disk[o], MayBeListed(o)) \in 0..2
<1>1. /\ pending[o] \in PendingFire /\ disk[o] \in PendingFire
      /\ bell[o] \in Nat /\ snoozes[o] \in Nat
  BY DEF TypeOK
<1>2. MayBeListed(o) \in BOOLEAN
  BY DEF MayBeListed
<1>3. /\ Owed(o, pending[o], MayBeListed(o)) \in 0..2
      /\ Owed(o, disk[o], MayBeListed(o)) \in 0..2
  BY <1>2, OwedRange
<1> QED BY <1>1, <1>3 DEF PendingFire, Absent

(* A refresh keeps what may still ring, and arms only what was absent.     *)
LEMMA RefreshChanges ==
  ASSUME TypeOK, RingInv, OnRefresh, NEW o \in Occurrences,
         MayBeListed(o)' => MayBeListed(o)
  PROVE  EntryChanges(o)
<1> DEFINE fresh == Head(queue).occs
           before == MayBeListed(o)
           after == MayBeListed(o)'
<1>1. snoozes' = snoozes /\ pending' = Merged(fresh) /\ Receives("refresh")
  BY DEF OnRefresh, history
<1>2. pending'[o] = IF pending[o].present /\ KeptByRefresh(o, pending[o], fresh)
                    THEN pending[o] ELSE IF o \in fresh THEN New ELSE Absent
  BY <1>1 DEF Merged
<1>3. before \in BOOLEAN /\ after \in BOOLEAN
  BY DEF MayBeListed
<1>4. \A p : Owed(o, p, after) <= Owed(o, p, before)
  BY <1>3, OwedFalls
<1>5. Owed(o, pending'[o], after) <= Owed(o, pending[o], before)
  <2>1. CASE pending[o].present /\ KeptByRefresh(o, pending[o], fresh)
    BY <1>2, <1>4, <2>1
  <2>2. CASE pending[o].present /\ ~KeptByRefresh(o, pending[o], fresh)
    <3>1. /\ o \notin fresh /\ pending[o].snoozed_until = Never
          /\ pending[o].fired_at = Never \/ ~Within(pending[o].fired_at, Retain, now)
      BY <2>2, EntryTypes DEF KeptByRefresh, PendingFire
    <3>2. Owed(o, Absent, before) <= Owed(o, pending[o], before)
      BY <2>2, <3>1, EntryTypes, DroppedOwesNoMore DEF RingInv
    <3>3. Owed(o, Absent, after) <= Owed(o, Absent, before)
      BY <1>4
    <3>4. /\ Owed(o, Absent, after) \in 0..2 /\ Owed(o, Absent, before) \in 0..2
          /\ Owed(o, pending[o], before) \in 0..2
      BY <1>3, OwedRange
    <3> QED BY <1>2, <2>2, <3>1, <3>2, <3>3, <3>4
  <2>3. CASE ~pending[o].present /\ o \in fresh
    <3>1. 1 \in DOMAIN queue /\ Head(queue) = queue[1] /\ queue[1].cmd = "refresh"
      BY <1>1 DEF Receives, TypeOK
    <3>2. before
      BY <2>3, <3>1 DEF MayBeListed
    <3>3. Owed(o, pending[o], before) = 1
      BY <2>3, <3>2 DEF Owed
    <3>4. Owed(o, New, after) = 1
      BY <1>3, ListedOwesOne
    <3> QED BY <1>2, <2>3, <3>3, <3>4
  <2>4. CASE ~pending[o].present /\ o \notin fresh
    <3>1. pending[o] = Absent
      BY <2>4, EntryTypes
    <3> QED BY <1>2, <1>4, <2>4, <3>1
  <2> QED BY <2>1, <2>2, <2>3, <2>4
<1> QED BY <1>1, <1>5, EntryTypes DEF EntryChanges

LEMMA CollectChanges ==
  ASSUME TypeOK, RingInv, EndTick, NEW o \in Occurrences,
         MayBeListed(o)' => MayBeListed(o)
  PROVE  EntryChanges(o)
<1> DEFINE before == MayBeListed(o)
           after == MayBeListed(o)'
<1>1. snoozes' = snoozes /\ pending' = Collected(tick.at) /\ tick.busy
  BY DEF EndTick, history
<1>2. pending'[o] = IF pending[o].present /\ KeptByTick(pending[o], tick.at)
                    THEN pending[o] ELSE Absent
  BY <1>1 DEF Collected
<1>3. before \in BOOLEAN /\ after \in BOOLEAN
  BY DEF MayBeListed
<1>4. \A p : Owed(o, p, after) <= Owed(o, p, before)
  BY <1>3, OwedFalls
<1>5. Owed(o, pending'[o], after) <= Owed(o, pending[o], before)
  <2>1. CASE pending[o].present /\ KeptByTick(pending[o], tick.at)
    BY <1>2, <1>4, <2>1
  <2>2. CASE pending[o].present /\ ~KeptByTick(pending[o], tick.at)
    <3>1. tick.at <= now /\ tick.at \in Nat /\ now \in Nat /\ Retain \in Nat
      BY <1>1, ConstantsAssumption DEF RingInv, TimesArePast, TypeOK
    <3>2. /\ pending[o].snoozed_until = Never /\ pending[o].fired_at # Never
          /\ ~Within(pending[o].fired_at, Retain, tick.at)
      BY <2>2, EntryTypes DEF KeptByTick, PendingFire
    <3>3. ~Within(pending[o].fired_at, Retain, now)
      BY <3>1, <3>2, EntryTypes DEF Within, Time
    <3>4. Owed(o, Absent, before) <= Owed(o, pending[o], before)
      BY <2>2, <3>2, <3>3, EntryTypes, DroppedOwesNoMore DEF RingInv
    <3>5. Owed(o, Absent, after) <= Owed(o, Absent, before)
      BY <1>4
    <3>6. /\ Owed(o, Absent, after) \in 0..2 /\ Owed(o, Absent, before) \in 0..2
          /\ Owed(o, pending[o], before) \in 0..2
      BY <1>3, OwedRange
    <3> QED BY <1>2, <2>2, <3>4, <3>5, <3>6
  <2>3. CASE ~pending[o].present
    <3>1. pending[o] = Absent
      BY <2>3, EntryTypes
    <3> QED BY <1>2, <1>4, <2>3, <3>1
  <2> QED BY <2>1, <2>2, <2>3
<1> QED BY <1>1, <1>5, EntryTypes DEF EntryChanges

(* A snooze owes one ring more, which it also allows; a dismissal none.    *)
LEMMA CommandChanges ==
  ASSUME TypeOK, RingInv, OnSnooze \/ OnDismiss, NEW o \in Occurrences,
         MayBeListed(o)' => MayBeListed(o)
  PROVE  EntryChanges(o)
<1> DEFINE x == Head(queue).id
           before == MayBeListed(o)
           after == MayBeListed(o)'
<1>1. before \in BOOLEAN /\ after \in BOOLEAN
  BY DEF MayBeListed
<1>2. \A p : Owed(o, p, after) <= Owed(o, p, before)
  BY <1>1, OwedFalls
<1>3. \A p : Owed(o, p, after) \in 0..2 /\ Owed(o, p, before) \in 0..2
  BY <1>1, OwedRange
<1>4. PICK c \in {"snooze", "dismiss"} : Receives(c)
  BY DEF OnSnooze, OnDismiss
<1>5. Head(queue) \in Command /\ Head(queue).cmd \in {"snooze", "dismiss"}
  BY <1>4, HeadType DEF Receives, TypeOK
<1>6. x \in Occurrences /\ Head(queue).delay \in Nat /\ now \in Nat
  BY <1>5 DEF Command, TypeOK
<1>7. /\ pending[x].present /\ pending[x] \in PendingFire
      /\ pending[x].fired_at = Never \/ pending[x].fired_at <= now
  BY <1>6, EntryTypes DEF OnSnooze, OnDismiss, RingInv, TimesArePast
<1>8. CASE OnSnooze
  <2>1. /\ pending' = [pending EXCEPT ![x] = Snoozed(@, now + Head(queue).delay)]
        /\ snoozes' = [snoozes EXCEPT ![x] = @ + 1]
    BY <1>8 DEF OnSnooze
  <2>2. CASE o = x
    <3>1. /\ pending'[o] = Snoozed(pending[o], now + Head(queue).delay)
          /\ snoozes'[o] = snoozes[o] + 1
      BY <1>6, <2>1, <2>2 DEF TypeOK
    <3>2. Owed(o, pending'[o], after) <= Owed(o, pending[o], after) + 1
      BY <1>1, <1>6, <1>7, <2>2, <3>1, SnoozeOwesOneMore
    <3> QED BY <1>2, <1>3, <3>1, <3>2, EntryTypes DEF EntryChanges
  <2>3. CASE o # x
    <3>1. pending'[o] = pending[o] /\ snoozes'[o] = snoozes[o]
      BY <1>6, <2>1, <2>3 DEF TypeOK
    <3> QED BY <1>2, <3>1, EntryTypes DEF EntryChanges
  <2> QED BY <2>2, <2>3
<1>9. CASE OnDismiss
  <2>1. /\ pending' = [pending EXCEPT ![x] = Done(@, now)]
        /\ snoozes' = snoozes
    BY <1>9 DEF OnDismiss
  <2>2. CASE o = x
    <3>1. pending'[o] = Done(pending[o], now)
      BY <1>6, <2>1, <2>2 DEF TypeOK
    <3>2. Owed(o, pending'[o], after) <= Owed(o, pending[o], after)
      BY <1>1, <1>6, <1>7, <2>2, <3>1, DismissalOwesNoMore
    <3> QED BY <1>2, <1>3, <2>1, <3>1, <3>2, EntryTypes DEF EntryChanges
  <2>3. CASE o # x
    <3>1. pending'[o] = pending[o]
      BY <1>6, <2>1, <2>3 DEF TypeOK
    <3> QED BY <1>2, <2>1, <3>1, EntryTypes DEF EntryChanges
  <2> QED BY <2>2, <2>3
<1> QED BY <1>8, <1>9

LEMMA SavingCases ==
  ASSUME TypeOK, RingInv, OnRefresh \/ OnSnooze \/ OnDismiss \/ EndTick,
         \A o \in Occurrences : MayBeListed(o)' => MayBeListed(o),
         svc = "down" => tick = NoTick
  PROVE  Saves
<1>1. \A o \in Occurrences : EntryChanges(o)
  BY RefreshChanges, CommandChanges, CollectChanges
<1>2. Running /\ svc' = svc /\ Persist /\ UNCHANGED <<bell, crashes>>
  BY DEF OnRefresh, OnSnooze, OnDismiss, EndTick, Receives, Running, NoTick, service,
         history
<1> QED BY <1>1, <1>2 DEF Saves

LEMMA RingCases ==
  ASSUME TypeOK, DueStaysDue, RingInv, [Next]_vars,
         \A o \in Occurrences : MayBeListed(o)' => MayBeListed(o)
  PROVE  \/ Calm \/ Saves \/ Start \/ OnShutdown \/ Crash
         \/ \E o \in Occurrences : Deliver(o) \/ DeliveryFails(o)
<1>1. svc = "down" => tick = NoTick
  BY DEF DueStaysDue
<1> QED BY <1>1, CalmCases, SavingCases DEF Next, Scheduler, Service

(* No entry fired later than now.                                          *)
LEMMA TimesStep ==
  ASSUME TypeOK, DueStaysDue, RingInv, [Next]_vars, now' \in Nat, now <= now'
  PROVE  TimesArePast'
<1> USE DEF service, history, failures
<1>0. now \in Nat /\ Never \notin Nat /\ tick.at \in Nat
  BY ConstantsAssumption DEF TypeOK
<1>1. \A o \in Occurrences : \A p \in {pending[o], disk[o], New, Absent} :
        p.fired_at = Never \/ p.fired_at <= now'
  <2>1. New.fired_at = Never /\ Absent.fired_at = Never
    BY DEF New, Absent
  <2>2. \A o \in Occurrences : pending[o].fired_at \in Time /\ disk[o].fired_at \in Time
    BY EntryTypes
  <2> QED BY <1>0, <2>1, <2>2 DEF RingInv, TimesArePast, Time
<1>2. tick.busy => tick.at <= now'
  BY <1>0 DEF RingInv, TimesArePast
<1>3. SUFFICES
        /\ \A o \in Occurrences :
             /\ pending'[o].fired_at = Never \/ pending'[o].fired_at <= now'
             /\ disk'[o] \in {pending'[o], disk[o]}
        /\ tick'.busy => tick'.at <= now'
  BY <1>1 DEF TimesArePast
<1>4. Persist => \A o \in Occurrences : disk'[o] \in {pending'[o], disk[o]}
  BY DEF Persist
<1>5. CASE Calm /\ ~StartTick
  <2>1. tick' = tick
    BY <1>5 DEF Next, Scheduler, Service, vars, OnRefresh, OnSnooze, OnDismiss,
                OnUnknown, EndTick, Deliver, DeliveryFails, TickerElapses, SendRefresh,
                TakeHandle, SendCommand, Start, BeginShutdown, SendShutdown,
                OnShutdown, Crash, Forget, Advance, Calm, Running, DueStaysDue
  <2> QED BY <1>1, <1>2, <1>5, <2>1 DEF Calm
<1>6. CASE StartTick
  BY <1>0, <1>1, <1>6 DEF StartTick
<1>7. CASE OnRefresh
  BY <1>1, <1>2, <1>4, <1>7 DEF OnRefresh, Merged
<1>8. CASE EndTick
  BY <1>1, <1>4, <1>8 DEF EndTick, Collected, NoTick
<1>9. CASE OnSnooze \/ OnDismiss
  <2> DEFINE x == Head(queue).id
  <2>1. PICK c \in {"snooze", "dismiss"} : Receives(c)
    BY <1>9 DEF OnSnooze, OnDismiss
  <2>2. x \in Occurrences /\ Head(queue).delay \in Nat
    BY <2>1, HeadType DEF Receives, Command, TypeOK
  <2>3. \A t : /\ Snoozed(pending[x], t).fired_at = Never
               /\ Done(pending[x], t).fired_at = t
    BY <2>2, EntryTypes DEF Snoozed, Done, PendingFire
  <2>4. tick' = tick /\ now' = now /\ Persist
    BY <1>9 DEF OnSnooze, OnDismiss
  <2>5. \A o \in Occurrences :
          pending'[o].fired_at = Never \/ pending'[o].fired_at <= now'
    <3>1. \E t \in Nat : \/ pending' = [pending EXCEPT ![x] = Snoozed(@, t)]
                         \/ pending' = [pending EXCEPT ![x] = Done(@, now)]
      BY <1>0, <1>9, <2>2 DEF OnSnooze, OnDismiss
    <3>2. pending'[x].fired_at \in {Never, now}
      BY <2>2, <2>3, <3>1 DEF TypeOK
    <3>3. \A o \in Occurrences \ {x} : pending'[o] = pending[o]
      BY <3>1 DEF TypeOK
    <3> QED BY <1>0, <1>1, <2>4, <3>2, <3>3
  <2> QED BY <1>2, <1>4, <2>4, <2>5
<1>10. ASSUME NEW x \in Occurrences, Deliver(x)
       PROVE  /\ \A o \in Occurrences :
                   /\ pending'[o].fired_at = Never \/ pending'[o].fired_at <= now'
                   /\ disk'[o] \in {pending'[o], disk[o]}
              /\ tick'.busy => tick'.at <= now'
  <2>1. Done(pending[x], tick.at).fired_at = tick.at
    BY EntryTypes DEF Done, PendingFire
  <2>2. tick'.at = tick.at /\ tick.busy /\ disk' = disk
    BY <1>10, TickTypes DEF Deliver, TypeOK
  <2>3. \A o \in Occurrences :
          pending'[o].fired_at = Never \/ pending'[o].fired_at <= now'
    BY <1>1, <1>2, <1>10, <2>1, <2>2 DEF Deliver, TypeOK
  <2> QED BY <1>2, <2>2, <2>3
<1>11. ASSUME NEW x \in Occurrences, DeliveryFails(x)
       PROVE  /\ \A o \in Occurrences :
                   /\ pending'[o].fired_at = Never \/ pending'[o].fired_at <= now'
                   /\ disk'[o] \in {pending'[o], disk[o]}
              /\ tick'.busy => tick'.at <= now'
  <2>1. tick'.at = tick.at /\ tick.busy /\ disk' = disk /\ pending' = pending
    BY <1>11, TickTypes DEF DeliveryFails, TypeOK
  <2> QED BY <1>1, <1>2, <2>1
<1>12. CASE Start
  BY <1>1, <1>2, <1>12 DEF Start, EmptyMap
<1>13. CASE OnShutdown \/ Crash
  BY <1>1, <1>13 DEF OnShutdown, Crash, Forget, EmptyMap, NoTick
<1> QED
  BY <1>5, <1>6, <1>7, <1>8, <1>9, <1>10, <1>11, <1>12, <1>13, CalmCases
     DEF Next, Scheduler, Service

LEMMA RingStep == IInv /\ RingInv /\ [Next]_vars => RingInv'
<1> SUFFICES ASSUME IInv, RingInv, [Next]_vars PROVE RingInv'
  OBVIOUS
<1>1. TypeOK /\ DueStaysDue /\ TypeOK'
  BY StepIInv DEF IInv
<1>2. /\ RefreshesAreFresh' /\ now' \in Nat /\ now <= now'
      /\ \A o \in Occurrences : MayBeListed(o)' => MayBeListed(o)
  BY <1>1, ChannelCases, ListingStep DEF RingInv
<1>3. TimesArePast'
  BY <1>1, <1>2, TimesStep
<1>4. ASSUME NEW o \in Occurrences PROVE MapOwes(o)' /\ FileOwes(o)'
  <2> DEFINE before == MayBeListed(o)
             after == MayBeListed(o)'
  <2>1. before \in BOOLEAN /\ after \in BOOLEAN
    BY DEF MayBeListed
  <2>2. \A p : /\ Owed(o, p, after) <= Owed(o, p, before)
               /\ Owed(o, p, after) \in 0..2 /\ Owed(o, p, before) \in 0..2
    BY <1>2, <2>1, OwedFalls, OwedRange
  <2>3. /\ Running => bell[o] + Owed(o, pending[o], before) <= Allowed(o)
        /\ bell[o] + Owed(o, disk[o], before) <= Allowed(o) + Unsaved(o)
    BY DEF RingInv, MapOwes, FileOwes
  <2>4. /\ bell[o] \in Nat /\ snoozes[o] \in Nat /\ crashes \in Nat /\ errors \in Nat
        /\ bell'[o] \in Nat /\ snoozes'[o] \in Nat /\ crashes' \in Nat /\ errors' \in Nat
    BY <1>1 DEF TypeOK
  <2>5. Unsaved(o) \in {0, 1} /\ Unsaved(o)' \in {0, 1}
    BY DEF Unsaved
  <2> SUFFICES
        /\ Running' => bell'[o] + Owed(o, pending'[o], after)
                         <= 1 + snoozes'[o] + crashes' + errors'
        /\ bell'[o] + Owed(o, disk'[o], after)
             <= 1 + snoozes'[o] + crashes' + errors' + Unsaved(o)'
    BY DEF MapOwes, FileOwes, Allowed
  <2>6. CASE Calm
    <3>1. Running' <=> Running
      BY <2>6 DEF Calm, Running
    <3>2. Unsaved(o) <= Unsaved(o)'
      BY <2>6, <2>5 DEF Calm, Unsaved
    <3> QED BY <2>2, <2>3, <2>4, <2>5, <2>6, <3>1, <3>2 DEF Calm, Allowed
  <2>7. CASE Saves
    <3>1. /\ Running /\ bell' = bell /\ crashes' = crashes /\ EntryChanges(o)
          /\ Persist
      BY <2>7 DEF Saves
    <3>2. bell'[o] + Owed(o, pending'[o], after)
            <= 1 + snoozes'[o] + crashes' + errors
      BY <2>2, <2>3, <2>4, <3>1 DEF EntryChanges, Allowed
    <3>3. CASE disk' = pending' /\ errors' = errors
      BY <2>2, <2>4, <2>5, <3>2, <3>3
    <3>4. CASE errors' = errors + 1 /\ disk' = disk
      BY <2>2, <2>3, <2>4, <2>5, <3>1, <3>2, <3>4 DEF EntryChanges, Allowed
    <3> QED BY <3>1, <3>3, <3>4 DEF Persist
  <2>8. ASSUME NEW x \in Occurrences, Deliver(x)
        PROVE  /\ Running' => bell'[o] + Owed(o, pending'[o], after)
                                <= 1 + snoozes'[o] + crashes' + errors'
               /\ bell'[o] + Owed(o, disk'[o], after)
                    <= 1 + snoozes'[o] + crashes' + errors' + Unsaved(o)'
    <3>1. /\ tick.busy /\ x \in tick.due /\ Running /\ disk' = disk
          /\ UNCHANGED <<svc, snoozes, crashes, errors>>
      BY <1>1, <2>8 DEF Deliver, DueStaysDue, NoTick, Running, service, failures
    <3>2. tick'.busy /\ tick'.due = tick.due \ {x} /\ tick.at \in Nat
      BY <1>1, <2>8, TickTypes DEF Deliver, TypeOK
    <3>3. CASE o = x
      <4>1. bell'[o] = bell[o] + 1 /\ pending'[o] = Done(pending[o], tick.at)
        BY <1>1, <2>8, <3>3 DEF Deliver, TypeOK
      <4>2. IsDue(o, pending[o], tick.at)
        BY <1>1, <3>1, <3>3 DEF DueStaysDue
      <4>3. Owed(o, pending'[o], after) + 1 <= Owed(o, pending[o], after)
        BY <1>1, <2>1, <3>2, <4>1, <4>2, RingIsOwed, EntryTypes
      <4>4. Unsaved(o) = 0 /\ Unsaved(o)' = 1
        BY <3>1, <3>2, <3>3 DEF Unsaved
      <4> QED BY <2>2, <2>3, <2>4, <3>1, <4>1, <4>3, <4>4 DEF Allowed
    <3>4. CASE o # x
      <4>1. bell'[o] = bell[o] /\ pending'[o] = pending[o]
        BY <1>1, <2>8, <3>4 DEF Deliver, TypeOK
      <4>2. Unsaved(o)' = Unsaved(o)
        BY <3>1, <3>2, <3>4 DEF Unsaved
      <4> QED BY <2>2, <2>3, <2>4, <2>5, <3>1, <4>1, <4>2 DEF Allowed
    <3> QED BY <3>3, <3>4
  <2>9. ASSUME NEW x \in Occurrences, DeliveryFails(x)
        PROVE  /\ Running' => bell'[o] + Owed(o, pending'[o], after)
                                <= 1 + snoozes'[o] + crashes' + errors'
               /\ bell'[o] + Owed(o, disk'[o], after)
                    <= 1 + snoozes'[o] + crashes' + errors' + Unsaved(o)'
    <3>1. /\ UNCHANGED <<svc, pending, disk, bell, snoozes, crashes>>
          /\ errors' = errors + 1
      BY <2>9 DEF DeliveryFails, service, history
    <3> QED BY <2>2, <2>3, <2>4, <2>5, <3>1 DEF Allowed, Running
  <2>10. CASE Start
    <3>1. UNCHANGED <<disk, bell, snoozes, crashes, tick>> /\ ~tick.busy
      BY <1>1, <2>10 DEF Start, history, DueStaysDue, NoTick
    <3>2. Unsaved(o) = 0 /\ Unsaved(o)' = 0
      BY <3>1 DEF Unsaved
    <3>3. CASE pending' = disk /\ errors' = errors
      BY <2>2, <2>3, <2>4, <3>1, <3>2, <3>3 DEF Allowed
    <3>4. CASE errors' = errors + 1 /\ pending' = EmptyMap
      <4>1. Owed(o, pending'[o], after) <= 1
        BY <2>1, <3>4, ListedOwesOne DEF EmptyMap
      <4> QED BY <2>2, <2>3, <2>4, <3>1, <3>2, <3>4, <4>1 DEF Allowed
    <3> QED BY <2>10, <3>3, <3>4 DEF Start
  <2>11. CASE OnShutdown
    <3>1. /\ ~tick.busy /\ ~tick'.busy /\ ~Running'
          /\ UNCHANGED <<disk, bell, snoozes, crashes, errors>>
      BY <2>11 DEF OnShutdown, Forget, NoTick, Running, history, failures
    <3>2. Unsaved(o) = 0 /\ Unsaved(o)' = 0
      BY <3>1 DEF Unsaved
    <3> QED BY <2>2, <2>3, <2>4, <3>1, <3>2 DEF Allowed
  <2>12. CASE Crash
    <3>1. /\ ~tick'.busy /\ ~Running' /\ crashes' = crashes + 1
          /\ UNCHANGED <<disk, bell, snoozes, errors>>
      BY <2>12 DEF Crash, Forget, NoTick, Running, history
    <3> QED BY <2>2, <2>3, <2>4, <2>5, <3>1 DEF Allowed
  <2> QED
    BY <1>1, <1>2, <2>6, <2>7, <2>8, <2>9, <2>10, <2>11, <2>12, RingCases
<1> QED BY <1>2, <1>3, <1>4 DEF RingInv

LEMMA InitRingInv == Init => RingInv
<1> SUFFICES ASSUME Init PROVE RingInv
  OBVIOUS
<1>1. /\ now = 0 /\ queue = <<>> /\ svc = "down" /\ tick = NoTick
      /\ crashes = 0 /\ errors = 0
      /\ \A o \in Occurrences : /\ pending[o] = Absent /\ disk[o] = Absent
                                /\ bell[o] = 0 /\ snoozes[o] = 0
  BY DEF Init, EmptyMap
<1>2. RefreshesAreFresh /\ TimesArePast
  BY <1>1 DEF RefreshesAreFresh, TimesArePast, Absent, NoTick
<1>3. ASSUME NEW o \in Occurrences PROVE MapOwes(o) /\ FileOwes(o)
  <2>1. MayBeListed(o) \in BOOLEAN
    BY DEF MayBeListed
  <2>2. Owed(o, Absent, MayBeListed(o)) \in 0..1
    BY <2>1 DEF Owed, Absent
  <2> QED BY <1>1, <2>2 DEF MapOwes, FileOwes, Running, Allowed, Unsaved, NoTick
<1> QED BY <1>2, <1>3 DEF RingInv

(* No refresh, collection, reload or restart makes a reminder ring more    *)
(* often than once, and once more for each snooze, crash and failed save   *)
(* or load: the retention outlasts the time in which a refresh still lists *)
(* what has rung (RETAIN_AFTER_DONE against parse's grace).                *)
THEOREM RingsOncePerArming == Spec => []OncePerArming
<1>1. IInv /\ RingInv => OncePerArming
  <2> SUFFICES ASSUME IInv, RingInv, NEW o \in Occurrences
               PROVE  bell[o] <= 1 + snoozes[o] + crashes + errors
    BY DEF OncePerArming
  <2>1. /\ Owed(o, pending[o], MayBeListed(o)) \in 0..2
        /\ Owed(o, disk[o], MayBeListed(o)) \in 0..2
        /\ bell[o] \in Nat /\ snoozes[o] \in Nat /\ crashes \in Nat /\ errors \in Nat
    BY EntryTypes DEF IInv, TypeOK
  <2>2. MapOwes(o) /\ FileOwes(o)
    BY DEF RingInv
  <2>3. CASE Running
    BY <2>1, <2>2, <2>3 DEF MapOwes, Allowed
  <2>4. CASE ~Running
    <3>1. Unsaved(o) = 0
      BY <2>4 DEF IInv, DueStaysDue, Running, NoTick, Unsaved
    <3> QED BY <2>1, <2>2, <3>1 DEF FileOwes, Allowed
  <2> QED BY <2>3, <2>4
<1>2. Spec => []RingInv
  BY InitRingInv, RingStep, Invariance, PTL DEF Spec
<1> QED BY <1>1, <1>2, Invariance, PTL

(* A snooze that was applied is lost to no refresh, collection, reload or  *)
(* crash: the entry stays snoozed, in the map or in the file a restart     *)
(* reads, until it rings, is dismissed or a save or load fails.            *)
THEOREM SnoozesSurvive == Spec => SnoozeSurvives
<1> USE DEF service, history, failures
<1>1. ASSUME IInv, [Next]_vars, NEW o \in Occurrences, HeldSnoozed(o), ~HeldSnoozed(o)',
             bell'[o] = bell[o], errors' = 0
      PROVE  o \in dismissed'
  <2>1. TypeOK /\ DueStaysDue /\ DiskIsCurrent /\ TypeOK'
    BY <1>1, StepIInv DEF IInv
  <2>2. errors = 0 /\ errors \in Nat
    BY <1>1, <2>1 DEF Next, Scheduler, Service, vars, OnRefresh, OnSnooze, OnDismiss,
                OnUnknown, StartTick, EndTick, Deliver, DeliveryFails, TickerElapses,
                SendRefresh, TakeHandle, SendCommand, Start, BeginShutdown,
                SendShutdown, OnShutdown, Crash, Forget, Advance, Persist, TypeOK
  <2>3. CASE Calm
    BY <1>1, <2>3 DEF Calm, HeldSnoozed, Held, Running
  <2>4. CASE OnRefresh
    <3>1. Running /\ Running' /\ pending[o].snoozed_until # Never
      BY <1>1, <2>4 DEF OnRefresh, Receives, Running, HeldSnoozed, Held
    <3>2. pending[o].present /\ pending[o].fired_at = Never
      BY <2>1, <3>1, EntryTypes DEF PendingFire
    <3>3. pending'[o] = pending[o]
      BY <2>4, <3>1, <3>2 DEF OnRefresh, Merged, KeptByRefresh
    <3> QED BY <1>1, <3>1, <3>3 DEF HeldSnoozed, Held
  <2>5. CASE EndTick
    <3>1. Running /\ Running' /\ pending[o].snoozed_until # Never
      BY <1>1, <2>1, <2>5
         DEF EndTick, DueStaysDue, NoTick, Running, HeldSnoozed, Held
    <3>2. pending[o].present
      BY <2>1, <3>1, EntryTypes DEF PendingFire
    <3>3. pending'[o] = pending[o]
      BY <2>5, <3>1, <3>2 DEF EndTick, Collected, KeptByTick
    <3> QED BY <1>1, <3>1, <3>3 DEF HeldSnoozed, Held
  <2>6. CASE OnSnooze \/ OnDismiss
    <3> DEFINE x == Head(queue).id
    <3>1. PICK c \in {"snooze", "dismiss"} : Receives(c)
      BY <2>6 DEF OnSnooze, OnDismiss
    <3>2. /\ x \in Occurrences /\ Head(queue).delay \in Nat /\ now \in Nat
          /\ Running /\ Running'
      BY <2>1, <2>6, <3>1, HeadType
         DEF Receives, Command, TypeOK, Running, OnSnooze, OnDismiss
    <3>3. CASE o # x
      <4>1. pending'[o] = pending[o]
        BY <2>1, <2>6, <3>2, <3>3 DEF OnSnooze, OnDismiss, TypeOK
      <4> QED BY <1>1, <3>2, <4>1 DEF HeldSnoozed, Held
    <3>4. CASE o = x /\ OnSnooze
      <4>1. pending'[o] = Snoozed(pending[o], now + Head(queue).delay)
        BY <2>1, <3>2, <3>4 DEF OnSnooze, TypeOK
      <4>2. pending'[o].snoozed_until = now + Head(queue).delay
        BY <2>1, <4>1, EntryTypes DEF Snoozed, PendingFire
      <4> QED BY <1>1, <3>2, <4>2, ConstantsAssumption DEF HeldSnoozed, Held
    <3>5. CASE o = x /\ OnDismiss
      BY <3>5 DEF OnDismiss
    <3> QED BY <2>6, <3>3, <3>4, <3>5
  <2>7. ASSUME NEW x \in Occurrences, Deliver(x) PROVE o \in dismissed'
    <3>1. o # x
      BY <1>1, <2>1, <2>7 DEF Deliver, TypeOK
    <3>2. pending'[o] = pending[o] /\ Running /\ Running'
      BY <2>1, <2>7, <3>1 DEF Deliver, TypeOK, DueStaysDue, NoTick, Running
    <3> QED BY <1>1, <3>2 DEF HeldSnoozed, Held
  <2>8. ASSUME NEW x \in Occurrences, DeliveryFails(x) PROVE o \in dismissed'
    BY <1>1, <2>2, <2>8 DEF DeliveryFails
  <2>9. CASE Start
    <3>1. pending' = disk
      BY <1>1, <2>2, <2>9 DEF Start
    <3> QED BY <1>1, <2>9, <3>1 DEF Start, HeldSnoozed, Held, Running
  <2>10. CASE OnShutdown \/ Crash
    <3>1. Running /\ ~Running' /\ disk' = disk
      BY <2>10 DEF OnShutdown, Crash, Forget, Running
    <3>2. pending[o].snoozed_until # Never /\ disk[o].snoozed_until = Never
      BY <1>1, <3>1 DEF HeldSnoozed, Held
    <3>3. tick.busy /\ pending[o].fired_at = tick.at
      BY <2>1, <2>2, <3>1, <3>2 DEF DiskIsCurrent
    <3>4. pending[o].fired_at = Never /\ tick.at \in Nat
      BY <2>1, <3>2, EntryTypes DEF PendingFire, TypeOK
    <3> QED BY <3>3, <3>4, ConstantsAssumption
  <2> QED
    BY <1>1, <2>1, <2>3, <2>4, <2>5, <2>6, <2>7, <2>8, <2>9, <2>10, CalmCases
       DEF Next, Scheduler, Service
<1>2. IInv /\ [Next]_vars =>
        \A o \in Occurrences :
          HeldSnoozed(o) /\ ~HeldSnoozed(o)' =>
            bell[o] # bell'[o] \/ o \in dismissed' \/ errors' # 0
  BY <1>1
<1> QED BY <1>2, Invariance, PTL DEF Spec, SnoozeSurvives
-----------------------------------------------------------------------------
(***************************************************************************)
(* What OverdueIsSettled rests on                                          *)
(***************************************************************************)

(* What a tick has yet to deliver is all that was due when it began.       *)
TickHasAllDue ==
  tick.busy /\ errors = 0 =>
    tick.due = {o \in Occurrences : IsDue(o, pending[o], tick.at)}

LEMMA DueStep ==
  ASSUME IInv, TickHasAllDue, [Next]_vars PROVE TickHasAllDue'
<1> USE DEF service, history, failures
<1>1. TypeOK /\ DueStaysDue
  BY DEF IInv
<1>2. errors' = 0 => errors = 0
  BY <1>1 DEF Next, Scheduler, Service, vars, OnRefresh, OnSnooze, OnDismiss,
              OnUnknown, StartTick, EndTick, Deliver, DeliveryFails, TickerElapses,
              SendRefresh, TakeHandle, SendCommand, Start, BeginShutdown,
              SendShutdown, OnShutdown, Crash, Forget, Advance, Persist, TypeOK
<1>3. CASE Quiet
  BY <1>2, <1>3 DEF Quiet, TickHasAllDue
<1>4. CASE Handled
  BY <1>4 DEF Handled, TickHasAllDue
<1>5. CASE StartTick
  BY <1>5 DEF StartTick, TickHasAllDue
<1>6. CASE EndTick \/ OnShutdown \/ Crash
  BY <1>6 DEF EndTick, OnShutdown, Crash, Forget, NoTick, TickHasAllDue
<1>7. CASE Start
  BY <1>1, <1>7 DEF Start, DueStaysDue, NoTick, TickHasAllDue
<1>8. ASSUME NEW x \in Occurrences, Deliver(x) PROVE TickHasAllDue'
  <2>1. /\ tick.busy /\ x \in tick.due /\ errors' = errors
        /\ pending' = [pending EXCEPT ![x] = Done(@, tick.at)]
        /\ tick' = [tick EXCEPT !.due = tick.due \ {x}]
    BY <1>8 DEF Deliver
  <2>2. tick'.busy /\ tick'.at = tick.at /\ tick'.due = tick.due \ {x}
    BY <1>1, <2>1, TickTypes DEF TypeOK
  <2>3. \A o \in Occurrences \ {x} : pending'[o] = pending[o]
    BY <1>1, <2>1 DEF TypeOK
  <2>4. ~IsDue(x, pending'[x], tick.at)
    <3>1. /\ pending[x] \in [present : BOOLEAN, snoozed_until : Time, fired_at : Time]
          /\ pending'[x] = Done(pending[x], tick.at) /\ tick.at # Never
      BY <1>1, <2>1, ConstantsAssumption DEF TypeOK, PendingFire
    <3> QED BY <3>1 DEF Done, IsDue
  <2>5. errors = 0 => tick.due = {o \in Occurrences : IsDue(o, pending[o], tick.at)}
    BY <2>1 DEF TickHasAllDue
  <2>6. errors = 0 => \A o \in Occurrences : o \in tick.due \ {x} <=> IsDue(o, pending'[o], tick.at)
    BY <2>3, <2>4, <2>5
  <2>7. tick.due \subseteq Occurrences
    BY <1>1 DEF TypeOK
  <2> QED BY <2>1, <2>2, <2>6, <2>7 DEF TickHasAllDue
<1>9. ASSUME NEW x \in Occurrences, DeliveryFails(x) PROVE TickHasAllDue'
  <2>1. errors' = errors + 1 /\ errors \in Nat
    BY <1>1, <1>9 DEF DeliveryFails, TypeOK
  <2> QED BY <2>1 DEF TickHasAllDue
<1> QED BY <1>3, <1>4, <1>5, <1>6, <1>7, <1>8, <1>9, StepCases

LEMMA EndSettles ==
  ASSUME IInv, TickHasAllDue, EndTick, errors = 0, NEW o \in Occurrences
  PROVE  ~IsDue(o, pending'[o], tick.at)
<1>1. tick.busy /\ tick.due = {} /\ pending' = Collected(tick.at)
  BY DEF EndTick
<1>2. ~IsDue(o, pending[o], tick.at)
  BY <1>1 DEF TickHasAllDue
<1>3. pending'[o] = pending[o] \/ pending'[o] = Absent
  BY <1>1 DEF Collected
<1>4. ~Absent.present
  BY DEF Absent
<1> QED BY <1>2, <1>3, <1>4 DEF IsDue

(* No overdue reminder is passed over: a tick takes all that is due when   *)
(* it begins, and while no delivery, save or load has failed nothing that  *)
(* was due then is due any more when it ends (on_tick).  This is the state *)
(* fact of OverdueIsSettled; that ticks come is fairness.                  *)
THEOREM TicksMissNothing ==
  Spec => /\ []TickHasAllDue
          /\ [][EndTick /\ errors = 0 =>
                  \A o \in Occurrences : ~IsDue(o, pending'[o], tick.at)]_vars
<1>1. Init => TickHasAllDue
  BY DEF Init, NoTick, TickHasAllDue
<1>2. IInv /\ TickHasAllDue /\ [Next]_vars => TickHasAllDue'
  BY DueStep
<1>3. IInv /\ TickHasAllDue =>
        (EndTick /\ errors = 0 => \A o \in Occurrences : ~IsDue(o, pending'[o], tick.at))
  BY EndSettles
<1>4. IInv /\ TickHasAllDue /\ [Next]_vars =>
        [EndTick /\ errors = 0 =>
           \A o \in Occurrences : ~IsDue(o, pending'[o], tick.at)]_vars
  BY <1>3
<1> QED BY <1>1, <1>2, <1>4, Invariance, PTL DEF Spec
=============================================================================
