---------------------------- MODULE CalendarFeed ----------------------------
(***************************************************************************)
(* What parse.rs makes of a calendar document: the blocks a CalDAV answer  *)
(* concatenates, the starts of an event, the reminders a refresh hands to  *)
(* the scheduler and the instances the daily summary lists.  Operators     *)
(* only; RefreshWindow and DailySummary use them.                          *)
(*                                                                         *)
(* Time is counted in hours.  An event is a record: its start and length,  *)
(* whether it is all-day, the period of its RRULE (0 without one), the     *)
(* rule's UNTIL as written, its EXDATE properties (a sequence of sets of   *)
(* times) and the triggers of its alarms.  Reading dates and components    *)
(* out of text is the icalendar crate's and chrono's work.                 *)
(***************************************************************************)
EXTENDS Integers, Sequences, FiniteSets, FiniteSetsExt

CONSTANTS
  Day,      \* hours of a day
  Horizon,  \* how far a parse looks ahead
  Grace,    \* how long ago a reminder may have been due
  Limit     \* recurrences one rule expands to at most

ASSUME FeedAssumption ==
  /\ {Day, Horizon, Limit} \subseteq Nat \ {0}
  /\ Grace \in Nat
-----------------------------------------------------------------------------
(* The lines of a document: BEGIN:VCALENDAR, END:VCALENDAR, anything the   *)
(* parser trips over, or an event, <<"event", e>>.                         *)
Begin == <<"begin">>
End == <<"end">>
Garbled == <<"garbled">>
Marks(doc) == {i \in DOMAIN doc : doc[i] = Begin}

(* Mutant: a block reaches to the last END.                                *)
SplitGreedily(doc) ==
  {SubSeq(doc, Min(Marks(doc)), Max({e \in DOMAIN doc : doc[e] = End} \cup {1}))}

(* split_vcalendar_blocks: a block reaches from a marker to the next END,  *)
(* or to the end of the text; a marker inside one starts none.             *)
SplitBlocks(doc) ==
  IF Cardinality(Marks(doc)) <= 1 THEN {doc}
  ELSE LET Ends(b) == {e \in DOMAIN doc : e > b /\ doc[e] = End}
           heads == {b \in Marks(doc) : \A c \in Marks(doc) :
                                          c < b => \E e \in Ends(c) : e < b}
       IN {SubSeq(doc, b, IF Ends(b) = {} THEN Len(doc) ELSE Min(Ends(b))) :
             b \in heads}

(* read_calendar and collect_events on one block: all of it or an error,   *)
(* which costs this block only.                                            *)
BlockEvents(block) ==
  IF /\ Len(block) >= 2 /\ block[1] = Begin /\ block[Len(block)] = End
     /\ \A i \in 2..Len(block) - 1 : block[i] \notin {Begin, End, Garbled}
  THEN {block[i][2] : i \in 2..Len(block) - 1} ELSE {}

EventsIn(doc) == UNION {BlockEvents(b) : b \in SplitBlocks(doc)}
-----------------------------------------------------------------------------
(* normalize_until_to_utc: a date stands for the end of that day, a        *)
(* floating time for the same time in UTC.                                 *)
LastStart(e) == IF e.until.form = "date" THEN e.until.at + Day - 1 ELSE e.until.at

(* `prop` finds the first EXDATE property; further ones are not read.      *)
Excluded(e) == IF e.exdates = <<>> THEN {} ELSE e.exdates[1]

(* expand_recurrence: the starts in the window from now, Limit at most.    *)
Recurrences(e, now, until) ==
  LET starts == {s \in now..until : /\ s >= e.start
                                    /\ (s - e.start) % e.period = 0
                                    /\ e.until.form = "none" \/ s <= LastStart(e)
                                    /\ s \notin Excluded(e)}
  IN {s \in starts : Cardinality({r \in starts : r < s}) < Limit}

Starts(e, now, until) == IF e.period = 0 THEN {e.start}
                         ELSE Recurrences(e, now, until)

(* Mutant: a reminder that is due already is left out.                     *)
RemindersNoGrace(e, now) ==
  {r \in Starts(e, now, now + Horizon) \X e.triggers :
     now <= r[1] + r[2] /\ r[1] + r[2] <= now + Horizon}

(* expand_event: the alarms of the starts that are due in the window, from *)
(* a little before now; each is a start and the trigger's offset from it.  *)
Reminders(e, now) ==
  {r \in Starts(e, now, now + Horizon) \X e.triggers :
     now - Grace <= r[1] + r[2] /\ r[1] + r[2] <= now + Horizon}

(* expand_event_instances: what is still to end and starts by `until`.     *)
Instances(e, now, until) ==
  {s \in Starts(e, now, until) : s <= until /\ s + e.length >= now}
=============================================================================
