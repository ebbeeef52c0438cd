---------------------------- MODULE DailySummary ----------------------------
(***************************************************************************)
(* The daily-summary loop of the calendar service (service.rs): it sleeps  *)
(* until the configured local time, fetches the calendar and delivers      *)
(* tomorrow's agenda as one notification.                                  *)
(*                                                                         *)
(* Hours are counted from local midnight before the zone changes its       *)
(* offset.  The sleep is measured by a clock that neither a suspend nor a  *)
(* correction of the wall clock moves.                                     *)
(***************************************************************************)
EXTENDS CalendarFeed

CONSTANTS
  Zones,      \* [at, before, after]: from `at` (UTC) the offset is `after`
  FireHours,  \* configured hours
  Agendas,    \* calendars: sets of events
  MaxClock,   \* bound on the wall clock
  MaxFaults   \* bound: failed deliveries, suspends, corrections

ASSUME SummaryAssumption ==
  /\ {MaxClock, MaxFaults} \subseteq Nat
  /\ FireHours \subseteq 0..Day - 1
  /\ \A z \in Zones :
       z.at \in Int /\ {z.before, z.after} \subseteq (1 - Day)..(Day - 1)
  /\ \A a \in Agendas : \A e \in a :
       /\ e.start \in Int /\ {e.length, e.period} \subseteq Nat
       /\ e.allday => e.start % Day = 0 /\ e.length >= Day

VARIABLES
  zone, hour, agenda,  \* the machine's zone, the configuration, the calendar
  utc,                \* the wall clock, UTC
  loop,                \* where the loop stands
  left,                \* hours of sleep left
  woke,                \* the local date at which it woke up
  begun,               \* history: when the process started
  sent,                \* history: how often each date's agenda was delivered
  latest,              \* history: the latest agenda: date, time, instances
  slept, stepped,      \* history: a suspend, a backward correction happened
  failed,              \* history: the dates whose delivery failed
  faults

summaryVars == <<zone, hour, agenda, utc, loop, left, woke, begun, sent, latest,
                 slept, stepped, failed, faults>>

OffsetAt(u) == IF u < zone.at THEN zone.before ELSE zone.after
LocalAt(u) == u + OffsetAt(u)
DateOf(l) == l \div Day
Today == DateOf(LocalAt(utc))
Dates == -1..(MaxClock \div Day) + 3

(* from_local_datetime: none in a gap, two in an overlap.                  *)
InstantsOf(l) == {u \in {l - zone.before, l - zone.after} : LocalAt(u) = l}

SummaryTypeOK ==
  /\ zone \in Zones /\ hour \in FireHours /\ agenda \in Agendas
  /\ utc \in Int /\ left \in Nat /\ begun \in Int
  /\ loop \in {"top", "asleep", "fetching", "ended"}
  /\ sent \in [Dates -> Nat]

SummaryInit ==
  /\ zone \in Zones /\ hour \in FireHours /\ agenda \in Agendas
  /\ utc \in 0..Day - 1 /\ begun = utc
  /\ loop = "top" /\ left = 0 /\ woke = 0
  /\ sent = [d \in Dates |-> 0]
  /\ latest = [date |-> -3, at |-> 0, listed |-> {}]  \* before all dates
  /\ slept = FALSE /\ stepped = FALSE /\ failed = {} /\ faults = 0
-----------------------------------------------------------------------------
(* Mutant: today's time still counts when it is now.                       *)
NextFireAgain ==
  LET today == InstantsOf(Today * Day + hour)
      tomorrow == InstantsOf((Today + 1) * Day + hour)
  IN IF today = {} THEN {}
     ELSE IF Min(today) >= utc THEN {Min(today)}
     ELSE IF tomorrow = {} THEN {} ELSE {Min(tomorrow)}

(* Mutant: an hour that comes twice counts as no time (single, not         *)
(* earliest).                                                              *)
NextFireSingle ==
  LET today == InstantsOf(Today * Day + hour)
      tomorrow == InstantsOf((Today + 1) * Day + hour)
  IN IF Cardinality(today) # 1 THEN {}
     ELSE IF Min(today) > utc THEN {Min(today)}
     ELSE IF Cardinality(tomorrow) # 1 THEN {} ELSE {Min(tomorrow)}

(* next_summary_fire: the instant, or none.  Today's time is looked up     *)
(* first, even where only tomorrow's will be used.                         *)
NextFire ==
  LET today == InstantsOf(Today * Day + hour)
      tomorrow == InstantsOf((Today + 1) * Day + hour)
  IN IF today = {} THEN {}
     ELSE IF Min(today) > utc THEN {Min(today)}
     ELSE IF tomorrow = {} THEN {} ELSE {Min(tomorrow)}

(* No next time ends the loop for good.  One that is past already is waited *)
(* for a second.                                                           *)
PlanNext ==
  /\ loop = "top"
  /\ IF NextFire = {} THEN loop' = "ended" /\ UNCHANGED left
     ELSE /\ loop' = "asleep"
          /\ left' = IF Min(NextFire) > utc THEN Min(NextFire) - utc ELSE 0
  /\ UNCHANGED <<zone, hour, agenda, utc, woke, begun, sent, latest, slept,
                 stepped, failed, faults>>

WakeUp ==
  /\ loop = "asleep" /\ left = 0
  /\ loop' = "fetching" /\ woke' = Today
  /\ UNCHANGED <<zone, hour, agenda, utc, left, begun, sent, latest, slept,
                 stepped, failed, faults>>

(* An event's own date: the stored UTC date if it is all-day.              *)
EventDate(e, s) == IF e.allday THEN DateOf(s) ELSE DateOf(LocalAt(s))

(* Mutant: all-day events, too, are put on their local date.               *)
ListedLocally(date) ==
  {i \in agenda \X ((utc - 2 * Day)..(utc + 2 * Day)) :
     i[2] \in Instances(i[1], utc, utc + 2 * Day) /\ DateOf(LocalAt(i[2])) = date}

(* run_summary_once: the instances of the next two days that start on the  *)
(* given date.                                                             *)
Listed(date) ==
  {i \in agenda \X ((utc - 2 * Day)..(utc + 2 * Day)) :
     i[2] \in Instances(i[1], utc, utc + 2 * Day) /\ EventDate(i[1], i[2]) = date}

DeliverSummary ==
  /\ loop = "fetching" /\ loop' = "top"
  /\ sent' = [sent EXCEPT ![woke + 1] = @ + 1]
  /\ latest' = [date |-> woke + 1, at |-> utc, listed |-> Listed(woke + 1)]
  /\ UNCHANGED <<zone, hour, agenda, utc, left, woke, begun, slept, stepped, failed,
                 faults>>

(* The fetch or the delivery fails: the next attempt is tomorrow's.        *)
SummaryFails ==
  /\ loop = "fetching" /\ loop' = "top"
  /\ faults < MaxFaults /\ faults' = faults + 1
  /\ failed' = failed \cup {woke + 1}
  /\ UNCHANGED <<zone, hour, agenda, utc, left, woke, begun, sent, latest, slept,
                 stepped>>

(* An hour passes.  A fetch is over within the hour, the rest at once.     *)
ClockTicks ==
  /\ utc < MaxClock
  /\ loop = "ended" \/ (loop = "asleep" /\ left > 0)
  /\ utc' = utc + 1
  /\ left' = IF loop = "asleep" THEN left - 1 ELSE left
  /\ UNCHANGED <<zone, hour, agenda, loop, woke, begun, sent, latest, slept, stepped,
                 failed, faults>>

(* The machine is suspended for half a day; or its clock is set back.      *)
Suspend ==
  /\ loop = "asleep" /\ faults < MaxFaults /\ faults' = faults + 1
  /\ utc + Day \div 2 <= MaxClock
  /\ utc' = utc + Day \div 2 /\ slept' = TRUE
  /\ UNCHANGED <<zone, hour, agenda, loop, left, woke, begun, sent, latest, stepped,
                 failed>>

SetBack ==
  /\ loop = "asleep" /\ faults < MaxFaults /\ faults' = faults + 1
  /\ utc > begun
  /\ utc' = utc - 1 /\ stepped' = TRUE
  /\ UNCHANGED <<zone, hour, agenda, loop, left, woke, begun, sent, latest, slept,
                 failed>>

SummaryNext ==
  PlanNext \/ WakeUp \/ DeliverSummary \/ SummaryFails \/ ClockTicks \/ Suspend \/ SetBack

SummarySpec == SummaryInit /\ [][SummaryNext]_summaryVars
-----------------------------------------------------------------------------
Undisturbed == ~slept /\ ~stepped

(* The clocks are not set back from one date into the one before.          *)
DatesGoForward == DateOf(zone.at - 1 + zone.before) <= DateOf(zone.at + zone.after)

(* An agenda comes once a day, also where the clocks change and the hour   *)
(* comes twice, unless the machine was suspended over the time or its      *)
(* clock set back: the loop then wakes late, or early and again; or the    *)
(* clocks go back over midnight.  While the day that had ended is repeated *)
(* today's time is past, and tomorrow's first one is, too, so that the     *)
(* loop waits a second and delivers, again and again (next_summary_fire,   *)
(* daily_summary_loop).                                                    *)
OneAgendaPerDay ==
  Undisturbed /\ DatesGoForward => \A d \in Dates : sent[d] <= 1

(* The comment at next_summary_fire: it returns None, and the loop ends,   *)
(* only if the configured hour is invalid, and of a skipped local time it  *)
(* picks the earliest valid instant.  The hours here are all valid; but a  *)
(* local time that the zone skips has no instant at all.                   *)
EndsOnlyIfInvalid == loop # "ended"

(* While the process runs, every evening's agenda comes: the loop misses   *)
(* none and does not end, unless the delivery failed or the configured     *)
(* hour is skipped by the zone on some evening.                            *)
NoDayMissed ==
  Undisturbed /\ (\A d \in Dates : InstantsOf((d - 1) * Day + hour) # {}) =>
    \A d \in Dates :
      LET fire == Min(InstantsOf((d - 1) * Day + hour)) IN
      begun < fire /\ fire < utc => sent[d] > 0 \/ d \in failed

(* More starts in the two days than an expansion yields.                   *)
Crowded(e) == e.period # 0 /\ (2 * Day) \div e.period >= Limit

(* The agenda is complete: it lists what starts on its date.  Left out are *)
(* all-day events of a series once the date has begun in UTC, because the  *)
(* expansion starts now; what an expansion breaks off; asked at midnight   *)
(* before a day of more than Day hours, what lies beyond the two days the  *)
(* parse looks ahead; and what is over already where the clocks go back    *)
(* over midnight (run_summary_once, expand_event_instances).               *)
AgendaIsComplete ==
  DatesGoForward =>
    \A e \in agenda : \A s \in -Day..(MaxClock + 3 * Day) :
      /\ s \in (IF e.period = 0 THEN {e.start} ELSE Recurrences(e, s, s))
      /\ EventDate(e, s) = latest.date
      /\ e.allday /\ e.period # 0 => s >= latest.at
      /\ s <= latest.at + 2 * Day
      /\ ~Crowded(e)
      => <<e, s>> \in latest.listed
=============================================================================
