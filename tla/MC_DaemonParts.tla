--------------------------- MODULE MC_DaemonParts ---------------------------
(***************************************************************************)
(* The parts of the desktop daemon that share no state with one another,   *)
(* as one specification: a behaviour chooses a part and is a behaviour of  *)
(* that part's specification, its fairness included; the others stay in    *)
(* one of their initial states.                                            *)
(***************************************************************************)
EXTENDS RemoteLink, DaemonApp, DaemonSettings, CenterPanel, TLC

VARIABLE part

SettingsRest ==
  /\ config = (CHOOSE f \in Files : TRUE) /\ watching = TRUE /\ service = NoService
  /\ SettingsInit
PanelRests == rows = <<>> /\ PanelInit

Init ==
  \/ part = "link" /\ LinkInit /\ AppInit /\ SettingsRest /\ PanelRests
  \/ part = "app" /\ LinkInit /\ AppInit /\ SettingsRest /\ PanelRests
  \/ part = "settings" /\ LinkInit /\ AppInit /\ SettingsInit /\ PanelRests
  \/ part = "panel" /\ LinkInit /\ AppInit /\ SettingsRest /\ PanelInit

Next ==
  /\ UNCHANGED part
  /\ \/ /\ part = "link" /\ LinkNext
        /\ UNCHANGED <<appVars, settingsVars, panelVars>>
     \/ /\ part = "app" /\ AppNext
        /\ UNCHANGED <<linkVars, settingsVars, panelVars>>
     \/ /\ part = "settings" /\ SettingsNext
        /\ UNCHANGED <<linkVars, appVars, panelVars>>
     \/ /\ part = "panel" /\ PanelNext
        /\ UNCHANGED <<linkVars, appVars, settingsVars>>

vars == <<part, linkVars, appVars, settingsVars, panelVars>>

(* LinkFairness and AppFairness, of the part that was chosen.              *)
LinkAlone == part = "link" /\ UNCHANGED <<part, appVars, settingsVars, panelVars>>
AppAlone == part = "app" /\ UNCHANGED <<part, linkVars, settingsVars, panelVars>>

Fairness ==
  /\ WF_vars(LinkAlone /\ TaskMoves)
  /\ WF_vars(AppAlone /\ RenderPopup)
  /\ WF_vars(AppAlone /\ TimePasses)

Spec == Init /\ [][Next]_vars /\ Fairness

(* Every variable of every part has its type.                              *)
DaemonTypeOK == LinkTypeOK /\ AppTypeOK /\ SettingsTypeOK /\ PanelTypeOK

(* LinkRecovers, when the part is the link: once the failures stop, the    *)
(* latest client task comes to be connected for good and everything that   *)
(* is broadcast from then on reaches the daemon (client_loop,              *)
(* ws_client_loop).                                                        *)
LinkComesBack == <>[](part = "link" => Settled)
-----------------------------------------------------------------------------
(* Values of the constants.                                                *)

(* A timed card that is kept, may overflow and whose button sends a        *)
(* request; a timed one that is not kept; a silent one that opens a page;  *)
(* one the rules drop.                                                     *)
Arrival(rule, timed, keep, sid, button, long) ==
  [rule |-> rule, timed |-> timed, keep |-> keep, sid |-> sid, button |-> button,
   long |-> long]
MCPayloads == {Arrival("normal", TRUE, TRUE, "x", "http", TRUE),
               Arrival("normal", TRUE, FALSE, "", "none", FALSE),
               Arrival("silent", FALSE, TRUE, "", "open", FALSE),
               Arrival("dismiss", FALSE, TRUE, "", "none", FALSE)}

(* Two files: servers a and b, with a rule for each and one whose pattern  *)
(* is broken; and server b alone, with a rule for the local source.        *)
At(url, label) == [url |-> url, label |-> label]
Rule(server, status, text, action, suppress) ==
  [server |-> server, status |-> status, text |-> text, action |-> action,
   suppress |-> suppress]
MCFiles ==
  {[name |-> "n", servers |-> <<At("a", "A"), At("b", "B")>>, on |-> TRUE,
    rules |-> <<Rule("B", "", NoText, "normal", TRUE), Rule("A", "error", "t", "silent", FALSE),
                Rule("", "", BadPattern, "dismiss", FALSE)>>,
    calendar |-> "work"],
   [name |-> "n", servers |-> <<At("b", "B")>>, on |-> TRUE,
    rules |-> <<Rule("local", "", NoText, "dismiss", FALSE)>>, calendar |-> NoCalendar]}
MCSamples == [label : {"A", "B", "local"}, status : {"error", "info"}, text : {"t"}]

(* Three cards, two of which unfold, over a window that shows two; one has *)
(* an icon and two buttons, which are drawn at 7..9 and 10..12 and hovered *)
(* at 3..5 and 6..8, one has a button at 3..5.                             *)
MCFolded == [n1 |-> 4, n2 |-> 3, n3 |-> 4]
MCExtra == [n1 |-> 0, n2 |-> 2, n3 |-> 2]
MCWidths == [n1 |-> <<2, 2>>, n2 |-> <<>>, n3 |-> <<2>>]
MCCardSpan == 1..20
MCClearSpan == 11..15
MCCloseSpan == {18, 19}
MCSpots == {<<18, 1>>, <<11, 1>>, <<7, 4>>, <<18, 6>>, <<4, 9>>}
=============================================================================
