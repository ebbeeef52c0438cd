--------------------------- MODULE MC_ServerParts ---------------------------
(***************************************************************************)
(* The parts of the server that share no state with one another, as one    *)
(* specification: a behaviour chooses a part and is a behaviour of that    *)
(* part's specification; the others stay in one of their initial states.   *)
(***************************************************************************)
EXTENDS DeviceRegistry, ProviderToken, RefreshWindow, DailySummary,
        Alertmanager, ServerStartup, TLC

VARIABLE part

SilentText == CHOOSE t \in Calendars : Sound(t) = {}
AnySetup == CHOOSE s \in Setups : TRUE

(* The initial state in which a part that was not chosen stays.            *)
RegistryRests == file = Missing /\ devices = Empty /\ RegistryInit
TokenRests == wall = 0 /\ TokenInit
WindowRests == text = SilentText /\ WindowInit
SummaryRests ==
  /\ zone = CHOOSE z \in Zones : TRUE
  /\ hour = 2 /\ agenda = {} /\ utc = 0
  /\ SummaryInit
AlertRests == groupKey = "" /\ AlertInit
StartRests == setup = AnySetup /\ StartInit

Init ==
  \/ /\ part = "registry" /\ RegistryInit
     /\ TokenRests /\ WindowRests /\ SummaryRests /\ AlertRests /\ StartRests
  \/ /\ part = "token" /\ TokenInit
     /\ RegistryRests /\ WindowRests /\ SummaryRests /\ AlertRests /\ StartRests
  \/ /\ part = "window" /\ WindowInit
     /\ RegistryRests /\ TokenRests /\ SummaryRests /\ AlertRests /\ StartRests
  \/ /\ part = "summary" /\ SummaryInit
     /\ RegistryRests /\ TokenRests /\ WindowRests /\ AlertRests /\ StartRests
  \/ /\ part = "alerts" /\ AlertInit
     /\ RegistryRests /\ TokenRests /\ WindowRests /\ SummaryRests /\ StartRests
  \/ /\ part = "start" /\ StartInit
     /\ RegistryRests /\ TokenRests /\ WindowRests /\ SummaryRests /\ AlertRests

Next ==
  /\ UNCHANGED part
  /\ \/ /\ part = "registry" /\ RegistryNext
        /\ UNCHANGED <<tokenVars, windowVars, summaryVars, alertVars, startVars>>
     \/ /\ part = "token" /\ TokenNext
        /\ UNCHANGED <<registryVars, windowVars, summaryVars, alertVars, startVars>>
     \/ /\ part = "window" /\ WindowNext
        /\ UNCHANGED <<registryVars, tokenVars, summaryVars, alertVars, startVars>>
     \/ /\ part = "summary" /\ SummaryNext
        /\ UNCHANGED <<registryVars, tokenVars, windowVars, alertVars, startVars>>
     \/ /\ part = "alerts" /\ AlertNext
        /\ UNCHANGED <<registryVars, tokenVars, windowVars, summaryVars, startVars>>
     \/ /\ part = "start" /\ StartNext
        /\ UNCHANGED <<registryVars, tokenVars, windowVars, summaryVars, alertVars>>

vars == <<part, registryVars, tokenVars, windowVars, summaryVars, alertVars, startVars>>
Spec == Init /\ [][Next]_vars

(* Every variable of every part has its type.                              *)
ServerTypeOK ==
  /\ RegistryTypeOK /\ TokenTypeOK /\ WindowTypeOK
  /\ SummaryTypeOK /\ AlertTypeOK
  /\ part = "start" => StartTypeOK
-----------------------------------------------------------------------------
(* Values of the constants.                                                *)

MCRequests == {<<"t1", "ios">>, <<"t2", "ios">>, <<"t2", "android">>}

MCSteps == {-3, -2, 1, 2}

(* Events: one reminder at the start, before and after it; a series that   *)
(* ends on a date, with a cancelled start and a lead of a whole period; a  *)
(* series with two EXDATE properties.                                      *)
Never == [form |-> "none", at |-> 0]
Event3(start, period, until, exdates, triggers) ==
  [start |-> start, length |-> 1, allday |-> FALSE, period |-> period,
   until |-> until, exdates |-> exdates, triggers |-> triggers]
Single == Event3(6, 0, Never, <<>>, {0, -2, 1})
Ending == Event3(1, 3, [form |-> "date", at |-> 6], <<{7}>>, {0, -1, -3})
Twice == Event3(2, 2, Never, <<{4}, {8}>>, {0, -2})
MCEvents == {Single, Ending, Twice}
MCCalendars ==
  {<<<<a, Single>>, <<b, Ending>>, <<c, Twice>>>> : a, b, c \in {"whole", "open", "bad"}}

(* Agendas: none; a meeting and a daily all-day event; a single all-day    *)
(* event and a frequent meeting.  Zones: the clocks go forward, back, back *)
(* at midnight.                                                            *)
Item(start, length, allday, period) ==
  [start |-> start, length |-> length, allday |-> allday, period |-> period,
   until |-> Never, exdates |-> <<>>, triggers |-> {}]
MCAgendas == {{}, {Item(14, 1, FALSE, 0), Item(12, 6, TRUE, 6)},
              {Item(18, 6, TRUE, 0), Item(3, 1, FALSE, 4)}}
MCZones == {[at |-> 20, before |-> 1, after |-> 2], [at |-> 20, before |-> -2, after |-> -3],
            [at |-> 21, before |-> 0, after |-> -1]}

Alert(severity, alertname, summary, description, instance, generator) ==
  [severity |-> severity, alertname |-> alertname, summary |-> summary,
   description |-> description, instance |-> instance, generator |-> generator]
MCTexts == [p |-> Alert("page", "", "", "d1", "", ""),
            q |-> Alert("page", "Disk", "s2", "", "i2", "g2"),
            r |-> Alert("critical", "", "", "", "", ""),
            s |-> Alert("warning", "Disk", "", "", "i4", "g4")]
MCAlerts == <<"p", "q", "r", "s">>

(* Setups: a complete environment with two variables and one flag amiss;   *)
(* and setups without push, with every way to name a calendar.             *)
Unset(S) == [n \in S |-> "unset"]
Complete == [n \in Names |-> IF n \in {"secret", "team", "key", "bundle", "base64"}
                             THEN "given" ELSE "unset"]
AmissSetups ==
  {[cli |-> [Unset(Names) EXCEPT ![k] = x],
    env |-> [Complete @@ Unset(CalNames) EXCEPT ![n] = v, ![m] = w],
    registry |-> "whole", free |-> TRUE] :
      n, m \in Names, v, w \in {"unset", "empty", "bad"},
      k \in {"secret", "team", "path", "devices", "port"},
      x \in {"unset", "empty", "given"}}
CalendarSetups ==
  {[cli |-> [Unset(Names) EXCEPT !["secret"] = "given", ![k] = x],
    env |-> [Unset(Names) @@ Unset(CalNames) EXCEPT ![c] = v],
    registry |-> r, free |-> f] :
      c \in CalNames, v \in {"empty", "given", "bad"}, r \in {"missing", "torn"},
      f \in BOOLEAN, k \in ApnsNames \cup {"devices"}, x \in {"unset", "empty", "given"}}
MCSetups == AmissSetups \cup CalendarSetups
=============================================================================
