------------------------- MODULE CalendarScheduler -------------------------
(***************************************************************************)
(* The calendar reminder scheduler (crates/calendar/src/scheduler.rs) with *)
(* what feeds it: the refresh loop and the start and shutdown of the       *)
(* service (service.rs), the snooze and dismiss handlers (router.rs), the  *)
(* JSON store (store.rs) and the refresh window (parse.rs).                *)
(*                                                                         *)
(* The scheduler is one task that reads commands off an unbounded channel, *)
(* so a command's handler is atomic against other commands; the tick is    *)
(* not one step, because it awaits every delivery, and the process may     *)
(* crash between a delivery and the save that ends the tick.  A save is    *)
(* part of its handler: a crash between the two loses the handler's effect *)
(* on memory as well.                                                      *)
(*                                                                         *)
(* An occurrence's id hashes its event, start and trigger (stable_id), so  *)
(* it determines when it fires: FireAt is a constant, and an event that    *)
(* moves is an occurrence that leaves the feed and another that enters it. *)
(***************************************************************************)
EXTENDS Naturals, Sequences

CONSTANTS
  Occurrences,   \* reminders the calendar may contain
  FireAt,        \* FireAt[o]: the time o fires at
  Grace,         \* Grace[o]: how long after FireAt[o] a refresh lists o
  Horizon,       \* how far ahead a refresh looks
  Retain,        \* RETAIN_AFTER_DONE
  SnoozeFor,     \* the durations a snooze may ask for
  Lag,           \* longest time a refresh waits in the channel
  MaxTime,       \* bound on the clock
  MaxSnoozes,    \* bound on the snoozes of each reminder
  MaxCrashes, MaxErrors, MaxReloads,  \* bounds on failures and reloads
  Never, NoOccurrence

ASSUME ConstantsAssumption ==
  /\ FireAt \in [Occurrences -> Nat]
  /\ Grace \in [Occurrences -> Nat]
  /\ Horizon \in Nat /\ Retain \in Nat /\ Lag \in Nat
  /\ SnoozeFor \subseteq Nat
  /\ \A o \in Occurrences : Grace[o] + Lag < Retain   \* minutes, days
  /\ {MaxTime, MaxSnoozes, MaxCrashes, MaxErrors, MaxReloads} \subseteq Nat
  /\ Never \notin Nat
  /\ NoOccurrence \notin Occurrences

VARIABLES
  now,        \* the wall clock
  svc,        \* the service: up, stopping its loops, draining, or down
  queue,      \* the scheduler's command channel
  request,    \* a snooze or dismiss request that holds the channel's sender
  pending,    \* the scheduler's map: pending[o]
  disk,       \* the map in the state file
  tick,       \* the tick in progress: its time and what it has yet to deliver
  bell,       \* bell[o]: deliveries of o
  snoozes,    \* snoozes[o]: snoozes of o that the scheduler applied
  dismissed,  \* reminders whose last decision by the user was to dismiss
  crashes, errors, reloads

service == <<svc, request>>
history == <<bell, snoozes, dismissed>>
failures == <<crashes, errors, reloads>>
vars == <<now, service, queue, pending, disk, tick, history, failures>>

Time == Nat \cup {Never}

(* Both fields are never set at once: a snooze clears fired_at, a delivery *)
(* and a dismissal clear snoozed_until.                                    *)
PendingFire ==
  {p \in [present : BOOLEAN, snoozed_until : Time, fired_at : Time] :
     /\ p.snoozed_until = Never \/ p.fired_at = Never
     /\ p.present \/ (p.snoozed_until = Never /\ p.fired_at = Never)}
Absent == [present |-> FALSE, snoozed_until |-> Never, fired_at |-> Never]
New == [Absent EXCEPT !.present = TRUE]
Snoozed(p, until) == [p EXCEPT !.snoozed_until = until, !.fired_at = Never]
Done(p, time) == [p EXCEPT !.snoozed_until = Never, !.fired_at = time]
EmptyMap == [o \in Occurrences |-> Absent]

Command ==
  {c \in [cmd : {"refresh", "snooze", "dismiss", "tick", "shutdown"},
          id : Occurrences \cup {NoOccurrence}, delay : Nat,
          occs : SUBSET Occurrences, at : Nat] :
     c.cmd \in {"snooze", "dismiss"} => c.id \in Occurrences}
Cmd(cmd, id, delay, occs, at) ==
  [cmd |-> cmd, id |-> id, delay |-> delay, occs |-> occs, at |-> at]
Refresh(occs, at) == Cmd("refresh", NoOccurrence, 0, occs, at)
Snooze(o, delay) == Cmd("snooze", o, delay, {}, 0)
Dismiss(o) == Cmd("dismiss", o, 0, {}, 0)
Tick == Cmd("tick", NoOccurrence, 0, {}, 0)
Shutdown == Cmd("shutdown", NoOccurrence, 0, {}, 0)
NoRequest == Tick
Callbacks ==
  {Snooze(o, d) : o \in Occurrences, d \in SnoozeFor}
    \cup {Dismiss(o) : o \in Occurrences}

NoTick == [busy |-> FALSE, at |-> 0, due |-> {}]

TypeOK ==
  /\ now \in Nat
  /\ svc \in {"down", "up", "stopping", "draining"}
  /\ queue \in Seq(Command)
  /\ request \in Callbacks \cup {NoRequest}
  /\ pending \in [Occurrences -> PendingFire]
  /\ disk \in [Occurrences -> PendingFire]
  /\ tick \in [busy : BOOLEAN, at : Nat, due : SUBSET Occurrences]
  /\ bell \in [Occurrences -> Nat]
  /\ snoozes \in [Occurrences -> Nat]
  /\ dismissed \subseteq Occurrences
  /\ crashes \in Nat /\ errors \in Nat /\ reloads \in Nat

Init ==
  /\ now = 0
  /\ svc = "down"
  /\ queue = <<>>
  /\ request = NoRequest
  /\ pending = EmptyMap
  /\ disk = EmptyMap
  /\ tick = NoTick
  /\ bell = [o \in Occurrences |-> 0]
  /\ snoozes = [o \in Occurrences |-> 0]
  /\ dismissed = {}
  /\ crashes = 0 /\ errors = 0 /\ reloads = 0
-----------------------------------------------------------------------------
(* t lies less than d before time.                                         *)
Within(t, d, time) == t + d > time

EffectiveFireAt(o, p) ==
  IF p.snoozed_until # Never THEN p.snoozed_until ELSE FireAt[o]

IsDue(o, p, time) ==
  /\ p.present
  /\ EffectiveFireAt(o, p) <= time
  /\ p.snoozed_until # Never \/ p.fired_at = Never

(* What expand_event keeps of the fetched calendar at a given time.        *)
InWindow(o, time) ==
  /\ time <= FireAt[o] + Grace[o]
  /\ FireAt[o] <= time + Horizon

(* Mutant: a snoozed reminder is not spared.                               *)
KeptByRefreshIfListed(o, p, fresh) ==
  o \in fresh \/ (p.fired_at # Never /\ Within(p.fired_at, Retain, now))

KeptByRefresh(o, p, fresh) ==
  \/ o \in fresh
  \/ p.fired_at # Never /\ Within(p.fired_at, Retain, now)
  \/ p.fired_at = Never /\ p.snoozed_until # Never

Merged(fresh) ==
  [o \in Occurrences |->
     IF pending[o].present /\ KeptByRefresh(o, pending[o], fresh)
     THEN pending[o]
     ELSE IF o \in fresh THEN New ELSE Absent]

KeptByTick(p, time) ==
  \/ p.fired_at = Never \/ Within(p.fired_at, Retain, time)
  \/ p.snoozed_until # Never

Collected(time) ==
  [o \in Occurrences |->
     IF pending[o].present /\ KeptByTick(pending[o], time) THEN pending[o]
                                                           ELSE Absent]

(* A failed save is logged and the old file stays.                         *)
Persist ==
  \/ disk' = pending' /\ errors' = errors
  \/ errors < MaxErrors /\ errors' = errors + 1 /\ disk' = disk
-----------------------------------------------------------------------------
(***************************************************************************)
(* The scheduler task                                                      *)
(***************************************************************************)
Receives(c) ==
  /\ svc # "down" /\ ~tick.busy
  /\ queue # <<>> /\ Head(queue).cmd = c
  /\ queue' = Tail(queue)

OnRefresh ==
  /\ Receives("refresh")
  /\ pending' = Merged(Head(queue).occs)
  /\ Persist
  /\ UNCHANGED <<now, service, tick, history, crashes, reloads>>

(* Mutant: a dismissal is not saved.                                       *)
OnDismissUnsaved ==
  /\ Receives("dismiss")
  /\ LET o == Head(queue).id IN
     /\ pending[o].present
     /\ pending' = [pending EXCEPT ![o] = Done(@, now)]
     /\ dismissed' = dismissed \cup {o}
  /\ UNCHANGED <<now, service, disk, tick, bell, snoozes, failures>>

(* Mutant: a snooze does not clear fired_at.                               *)
OnSnoozeStillFired ==
  /\ Receives("snooze")
  /\ LET o == Head(queue).id IN
     /\ pending[o].present
     /\ pending' = [pending EXCEPT
                      ![o].snoozed_until = now + Head(queue).delay]
     /\ snoozes' = [snoozes EXCEPT ![o] = @ + 1]
     /\ dismissed' = dismissed \ {o}
  /\ Persist
  /\ UNCHANGED <<now, service, tick, bell, crashes, reloads>>

OnSnooze ==
  /\ Receives("snooze")
  /\ LET o == Head(queue).id IN
     /\ pending[o].present
     /\ pending' = [pending EXCEPT ![o] = Snoozed(@, now + Head(queue).delay)]
     /\ snoozes' = [snoozes EXCEPT ![o] = @ + 1]
     /\ dismissed' = dismissed \ {o}
  /\ Persist
  /\ UNCHANGED <<now, service, tick, bell, crashes, reloads>>

OnDismiss ==
  /\ Receives("dismiss")
  /\ LET o == Head(queue).id IN
     /\ pending[o].present
     /\ pending' = [pending EXCEPT ![o] = Done(@, now)]
     /\ dismissed' = dismissed \cup {o}
  /\ Persist
  /\ UNCHANGED <<now, service, tick, bell, snoozes, crashes, reloads>>

(* The occurrence is no longer, or not yet, in the map.                    *)
OnUnknown ==
  /\ Receives("snooze") \/ Receives("dismiss")
  /\ ~pending[Head(queue).id].present
  /\ UNCHANGED <<now, service, pending, disk, tick, history, failures>>

(* The ticker's branch of the loop's select: a Tick goes through the       *)
(* channel.  Bound: one Tick in the channel at a time.                     *)
TickerElapses ==
  /\ svc # "down" /\ ~tick.busy
  /\ \A i \in DOMAIN queue : queue[i].cmd # "tick"
  /\ queue' = Append(queue, Tick)
  /\ UNCHANGED <<now, service, pending, disk, tick, history, failures>>

(* Mutant: a tick takes only what came due at its own time.                *)
StartTickRecent ==
  /\ Receives("tick")
  /\ tick' = [busy |-> TRUE, at |-> now,
              due |-> {o \in Occurrences :
                         /\ IsDue(o, pending[o], now)
                         /\ EffectiveFireAt(o, pending[o]) = now}]
  /\ UNCHANGED <<now, service, pending, disk, history, failures>>

StartTick ==
  /\ Receives("tick")
  /\ tick' = [busy |-> TRUE, at |-> now,
              due |-> {o \in Occurrences : IsDue(o, pending[o], now)}]
  /\ UNCHANGED <<now, service, pending, disk, history, failures>>

(* Mutant: a snoozed reminder's delivery leaves it armed.                  *)
DeliverWithoutDisarming(o) ==
  /\ tick.busy /\ o \in tick.due
  /\ bell' = [bell EXCEPT ![o] = @ + 1]
  /\ pending' = [pending EXCEPT ![o].fired_at = tick.at]
  /\ tick' = [tick EXCEPT !.due = @ \ {o}]
  /\ UNCHANGED <<now, service, queue, disk, snoozes, dismissed, failures>>

Deliver(o) ==
  /\ tick.busy /\ o \in tick.due
  /\ bell' = [bell EXCEPT ![o] = @ + 1]
  /\ pending' = [pending EXCEPT ![o] = Done(@, tick.at)]
  /\ tick' = [tick EXCEPT !.due = @ \ {o}]
  /\ UNCHANGED <<now, service, queue, disk, snoozes, dismissed, failures>>

DeliveryFails(o) ==
  /\ tick.busy /\ o \in tick.due
  /\ errors < MaxErrors /\ errors' = errors + 1
  /\ tick' = [tick EXCEPT !.due = @ \ {o}]
  /\ UNCHANGED <<now, service, queue, pending, disk, history, crashes,
                 reloads>>

(* Mutant: the map is only saved when entries were collected.              *)
EndTickSavingIfPruned ==
  /\ tick.busy /\ tick.due = {}
  /\ pending' = Collected(tick.at)
  /\ IF pending' # pending THEN Persist ELSE UNCHANGED <<disk, errors>>
  /\ tick' = NoTick
  /\ UNCHANGED <<now, service, queue, history, crashes, reloads>>

EndTick ==
  /\ tick.busy /\ tick.due = {}
  /\ pending' = Collected(tick.at)
  /\ Persist
  /\ tick' = NoTick
  /\ UNCHANGED <<now, service, queue, history, crashes, reloads>>

Scheduler ==
  \/ OnRefresh \/ OnSnooze \/ OnDismiss \/ OnUnknown
  \/ StartTick \/ EndTick
  \/ \E o \in Occurrences : Deliver(o) \/ DeliveryFails(o)
-----------------------------------------------------------------------------
(***************************************************************************)
(* The refresh loop                                                        *)
(***************************************************************************)
(* fetch() and parse(): the remote calendar may hold any occurrences, and  *)
(* expand_event keeps those in the window.  A loop that was told to stop   *)
(* first sends the refresh it was fetching.  Bound: one refresh is in the  *)
(* channel at a time.                                                      *)
SendRefresh ==
  /\ svc \in {"up", "stopping"}
  /\ \A i \in DOMAIN queue : queue[i].cmd # "refresh"
  /\ \E occs \in SUBSET {o \in Occurrences : InWindow(o, now)} :
       queue' = Append(queue, Refresh(occs, now))
  /\ UNCHANGED <<now, service, pending, disk, tick, history, failures>>
-----------------------------------------------------------------------------
(***************************************************************************)
(* POST /calendar/action/{snooze,dismiss}                                  *)
(***************************************************************************)
(* The handler clones the sender out of the slot.  Bound: one request is   *)
(* between this and its send, and one snooze or dismissal is in the        *)
(* channel; each reminder is snoozed at most MaxSnoozes times.             *)
TakeHandle(c) ==
  /\ svc = "up" /\ request = NoRequest
  /\ c.cmd = "snooze" => snoozes[c.id] < MaxSnoozes
  /\ \A i \in DOMAIN queue : queue[i].cmd \notin {"snooze", "dismiss"}
  /\ request' = c
  /\ UNCHANGED <<now, svc, queue, pending, disk, tick, history, failures>>

(* The send succeeds, and 204 is answered, as long as the receiver lives.  *)
SendCommand ==
  /\ svc # "down" /\ request # NoRequest
  /\ queue' = Append(queue, request)
  /\ request' = NoRequest
  /\ UNCHANGED <<now, svc, pending, disk, tick, history, failures>>
-----------------------------------------------------------------------------
(***************************************************************************)
(* Start, shutdown and crash of the service; the calendar; the clock       *)
(***************************************************************************)
Start ==
  /\ svc = "down"
  /\ svc' = "up"
  /\ \/ pending' = disk /\ errors' = errors
     \/ errors < MaxErrors /\ errors' = errors + 1 /\ pending' = EmptyMap
  /\ UNCHANGED <<now, request, queue, disk, tick, history, crashes,
                 reloads>>

(* reload_calendar empties the slot and signals the refresh loop, ...      *)
BeginShutdown ==
  /\ svc = "up" /\ reloads < MaxReloads
  /\ svc' = "stopping"
  /\ reloads' = reloads + 1
  /\ UNCHANGED <<now, request, queue, pending, disk, tick,
                 history, crashes, errors>>

(* ... awaits it, a refresh in flight included, and sends Shutdown.        *)
SendShutdown ==
  /\ svc = "stopping"
  /\ svc' = "draining"
  /\ queue' = Append(queue, Shutdown)
  /\ UNCHANGED <<now, request, pending, disk, tick, history, failures>>

(* The task ends: what is in the channel is lost, and a request that still *)
(* holds the sender gets 503.                                              *)
Forget ==
  /\ svc' = "down"
  /\ pending' = EmptyMap
  /\ queue' = <<>>
  /\ request' = NoRequest
  /\ tick' = NoTick

OnShutdown ==
  /\ svc # "down" /\ ~tick.busy
  /\ queue # <<>> /\ Head(queue).cmd = "shutdown"
  /\ Forget
  /\ UNCHANGED <<now, disk, history, failures>>

Crash ==
  /\ svc # "down" /\ crashes < MaxCrashes
  /\ crashes' = crashes + 1
  /\ Forget
  /\ UNCHANGED <<now, disk, history, errors, reloads>>

(* Timing: a refresh is handled within Lag of its parsing.                 *)
Advance ==
  /\ now < MaxTime
  /\ \A i \in DOMAIN queue :
       queue[i].cmd = "refresh" => now < queue[i].at + Lag
  /\ now' = now + 1
  /\ UNCHANGED <<service, queue, pending, disk, tick, history, failures>>

Service ==
  \/ TickerElapses \/ SendRefresh
  \/ \E c \in Callbacks : TakeHandle(c)
  \/ SendCommand
  \/ Start \/ BeginShutdown \/ SendShutdown \/ OnShutdown \/ Crash

Next == Scheduler \/ Service \/ Advance

Spec == Init /\ [][Next]_vars

(* The runtime runs the scheduler while it has something to do, its ticker *)
(* elapses, a shutdown that began completes, and a service that went down  *)
(* is started again.  Nothing is assumed of the calendar, the refresh      *)
(* loop, the users or the clock.                                           *)
Fairness ==
  /\ WF_vars(OnRefresh \/ OnSnooze \/ OnDismiss \/ OnUnknown \/ StartTick
             \/ EndTick \/ OnShutdown)
  /\ \A o \in Occurrences : WF_vars(Deliver(o) \/ DeliveryFails(o))
  /\ WF_vars(TickerElapses)
  /\ WF_vars(Start)
  /\ WF_vars(SendShutdown)

FairSpec == Spec /\ Fairness
-----------------------------------------------------------------------------
(***************************************************************************)
(* Properties                                                              *)
(***************************************************************************)

(* The scheduler's state as a restart would find it, or has it.            *)
Running == svc # "down"
Held == IF Running THEN pending ELSE disk
HeldSnoozed(o) == Held[o].snoozed_until # Never

(* Every command's effect is on disk before the next command is read, and  *)
(* within a tick only what the tick delivered is missing from the file, as *)
(* long as no save or load failed.                                         *)
DiskIsCurrent ==
  Running /\ errors = 0 =>
    \A o \in Occurrences :
      \/ disk[o] = pending[o]
      \/ tick.busy /\ o \notin tick.due /\ IsDue(o, disk[o], tick.at)
         /\ pending[o].fired_at = tick.at

(* A reminder rings once, and once more for each snooze; a refresh, the    *)
(* collection of old entries or a reload never rings it again.  Only a     *)
(* crash between a delivery and the tick's save, or a failed save or load, *)
(* can repeat a delivery, once each.                                       *)
OncePerArming ==
  \A o \in Occurrences : bell[o] <= 1 + snoozes[o] + crashes + errors

(* A snooze that the scheduler applied survives refreshes, the event's     *)
(* removal, collection, reloads and crashes, until the reminder rings or   *)
(* is dismissed (README: "in-flight snoozes survive restarts").            *)
SnoozeSurvives ==
  [][\A o \in Occurrences :
       HeldSnoozed(o) /\ ~HeldSnoozed(o)' =>
         bell[o] # bell'[o] \/ o \in dismissed' \/ errors' # 0]_vars

(* An overdue reminder does not stay overdue: a tick delivers it, the user *)
(* dismisses or snoozes it, or a refresh drops it.                         *)
OverdueIsSettled ==
  \A o \in Occurrences :
    IsDue(o, Held[o], now) ~> ~IsDue(o, Held[o], now)

(* What the retention is for: "Keep delivered-and-done entries around for  *)
(* this long after fire_at so a subsequent calendar refresh doesn't        *)
(* resurrect them".  A dismissed reminder never rings again.               *)
DismissedStaysQuiet ==
  [][\A o \in dismissed : bell'[o] = bell[o]]_vars

(* CalendarService::shutdown is to "drain the scheduler": no snooze or     *)
(* dismissal that was answered 204 is left unread when the task ends.      *)
ShutdownDrainsCommands ==
  [][svc = "draining" /\ svc' = "down" /\ crashes' = crashes =>
       \A i \in DOMAIN queue : queue[i].cmd \notin {"snooze", "dismiss"}]_vars
=============================================================================
