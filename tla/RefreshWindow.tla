---------------------------- MODULE RefreshWindow ----------------------------
(***************************************************************************)
(* The refresh loop of the calendar service (service.rs) as a source of    *)
(* reminders: each refresh parses the document as of its own moment, and   *)
(* whatever no refresh ever handed over is a reminder nobody will get.     *)
(* What the scheduler does with the reminders is CalendarScheduler.        *)
(***************************************************************************)
EXTENDS CalendarFeed, SequencesExt

CONSTANTS
  Events,    \* the events a calendar may hold
  Calendars, \* documents: sequences of blocks <<how it is written, event>>
  MaxTime    \* bound on the clock

ASSUME WindowAssumption ==
  /\ MaxTime \in Nat
  /\ \A e \in Events : /\ e.start \in Int /\ e.period \in Nat
                         /\ e.exdates \in Seq(SUBSET Int) /\ e.triggers \subseteq Int
  /\ Calendars \subseteq Seq({"whole", "open", "bad"} \X Events)

VARIABLES
  clock,
  text,    \* the calendar, a sequence of blocks
  handed,  \* the reminders handed to the scheduler: <<event, start, trigger>>
  last,    \* when the last refresh was, 0 before the first
  longest  \* the longest time that passed between two refreshes

windowVars == <<clock, text, handed, last, longest>>

(* A whole block, one whose end is missing, one that does not parse.       *)
Lines(block) ==
  CASE block[1] = "whole" -> <<Begin, <<"event", block[2]>>, End>>
    [] block[1] = "open"  -> <<Begin, <<"event", block[2]>>>>
    [] block[1] = "bad"   -> <<Begin, Garbled, <<"event", block[2]>>, End>>

Document(t) == FlattenSeq([i \in DOMAIN t |-> Lines(t[i])])

WindowTypeOK ==
  /\ clock \in 0..MaxTime /\ last \in 0..clock /\ longest \in 0..clock
  /\ text \in Calendars
  /\ \A h \in handed : h[1] \in Events

WindowInit ==
  /\ clock = 0 /\ last = 0 /\ longest = 0 /\ handed = {}
  /\ text \in Calendars

(* do_refresh: fetched, parsed and sent in one go.  A fetch that fails     *)
(* changes nothing.                                                        *)
RefreshOnce ==
  /\ last < clock
  /\ handed' = handed \cup
       UNION {{<<e, r[1], r[2]>> : r \in Reminders(e, clock)} :
                e \in EventsIn(Document(text))}
  /\ last' = clock
  /\ longest' = IF clock - last > longest THEN clock - last ELSE longest
  /\ UNCHANGED <<clock, text>>

HourPasses ==
  /\ clock < MaxTime
  /\ clock' = clock + 1
  /\ UNCHANGED <<text, handed, last, longest>>

WindowNext == RefreshOnce \/ HourPasses

WindowSpec == WindowInit /\ [][WindowNext]_windowVars
-----------------------------------------------------------------------------
Quiet == IF clock - last > longest THEN clock - last ELSE longest

(* The blocks that are whole and not swallowed by an open one before them. *)
Sound(t) == {i \in DOMAIN t : t[i][1] = "whole" /\ (i = 1 \/ t[i - 1][1] # "open")}

(* All the starts an event ever has, as the calendar means them.           *)
TrueStarts(e) ==
  {s \in 0..MaxTime + Horizon :
     IF e.period = 0 THEN s = e.start
     ELSE /\ s >= e.start /\ (s - e.start) % e.period = 0
          /\ e.until.form = "none" \/ s <= LastStart(e)
          /\ \A i \in DOMAIN e.exdates : s \notin e.exdates[i]}

(* When a refresh picks a reminder up: from when on, and until when.        *)
From(e, s, t) == IF e.period = 0 \/ t >= 0 THEN s + t - Horizon ELSE s - Horizon
Until(e, s, t) == IF e.period = 0 \/ s + t + Grace <= s THEN s + t + Grace ELSE s
Dense(e) == e.period # 0 /\ Horizon \div e.period >= Limit

(* A reminder is missed only when the refreshes paused for longer than the *)
(* time in which it could be picked up.  For a single event that is the    *)
(* horizon and the grace; for one of a series the start, too, must lie in  *)
(* the window of the refresh, so the grace is lost when the reminder is    *)
(* due at the start, and a lead longer than the horizon is never seen.     *)
(* Blocks that do not parse cost no other block, except one that follows a *)
(* block without an end (parse, expand_event, expand_recurrence).          *)
MissedOnlyInPause ==
  \A i \in Sound(text) : LET e == text[i][2] IN
    \A s \in TrueStarts(e), t \in e.triggers :
      LET from == From(e, s, t)
          to == Until(e, s, t)
      IN from >= 0 /\ to >= from /\ clock > to /\ Quiet <= to - from /\ ~Dense(e)
           => <<e, s, t>> \in handed
=============================================================================
