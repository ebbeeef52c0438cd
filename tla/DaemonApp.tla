----------------------------- MODULE DaemonApp -----------------------------
(***************************************************************************)
(* The desktop daemon's event loop (bin/daemon/src/main.rs) with the queue *)
(* of popup cards (notification.rs), the notification store and its file   *)
(* (store.rs), the center panel's life (center.rs), the tray's count and   *)
(* the tasks that touch the store from outside the loop: the HTTP handlers *)
(* of server.rs and the requests behind the center's buttons.              *)
(*                                                                         *)
(* An arrival is one notification that reached the event loop's queue; it  *)
(* is named by its number and its payload is one of Payloads: the verdict  *)
(* of the rules (`rule`), whether it has a duration (`timed`), storeOnExpire *)
(* (`keep`), the server's id (`sid`), what its button does (`button`) and  *)
(* whether its message overflows the card (`long`).  Drawing is left out.  *)
(*                                                                         *)
(* The queue and the store number what they are given and append it, so    *)
(* both are the sets of their elements, which stand in the order of their  *)
(* ids.                                                                    *)
(***************************************************************************)
EXTENDS Integers, Sequences, FiniteSets

CONSTANTS
  Payloads,     \* the payloads that may arrive
  MaxArrivals,  \* bound: notifications in a behaviour
  MaxInputs,    \* bound: clicks, toggles, requests
  MaxDeaths,    \* bound: times the daemon is killed
  FullSwell,    \* frames the hover-expand animation takes
  Torn          \* what is left in a file whose rewriting was cut short

ASSUME AppAssumption ==
  /\ {MaxArrivals, MaxInputs, MaxDeaths} \subseteq Nat
  /\ FullSwell \in Nat \ {0}
  /\ \A p \in Payloads : /\ p.rule \in {"normal", "silent", "dismiss"}
                         /\ {p.timed, p.keep, p.long} \subseteq BOOLEAN
                         /\ p.button \in {"none", "open", "http"}

VARIABLES
  inbox,     \* user events sent through the EventLoopProxy
  payload,   \* payload[a]: what arrival a carries
  fate,      \* history: how arrival a left the daemon
  due,       \* the arrivals whose expires_at has passed
  deck,      \* NotificationQueue.notifications
  cards,     \* NotificationQueue.next_id - 1
  store,     \* NotificationStore.notifications
  ids,       \* NotificationStore.next_id - 1
  file,      \* notifications.json
  panel,     \* App.center
  hover,     \* whether the cursor is over the topmost card
  swell,     \* App.expand_t, in frames
  shown,     \* whether the popup window is visible
  tray,      \* the count the tray shows
  told,      \* history: whether the tray was updated since the start
  tasks,     \* the requests of execute_action, by press
  listed,    \* history: the entries an HTTP client has listed
  ended,     \* history: server ids whose end a remote server announced
  inputs,    \* the inputs so far
  deaths     \* the kills so far

popupVars == <<deck, cards, hover, swell, shown>>
storeVars == <<store, ids, file>>
trayVars == <<tray, told>>
boundVars == <<listed, ended, inputs, deaths>>
appVars == <<inbox, payload, fate, due, popupVars, storeVars, panel,
                trayVars, tasks, boundVars>>

Arrivals == 1..Len(payload)
Numbers == 1..MaxArrivals
Press == 1..MaxInputs
Closed == [life |-> "closed", sliding |-> FALSE, aim |-> <<"none", 0, 0>>]
Card(i, a) == [id |-> i, of |-> a, expanded |-> FALSE]
Entry(i, a) == [id |-> i, of |-> a]
Of(s) == {x.of : x \in s}
Ids(s) == {x.id : x \in s}
HasId(s, i) == i \in Ids(s)

(* A user event: what happened, and the arrival or server id it is about.  *)
AppEvent(type, about) == [type |-> type, about |-> about]
Dirty == AppEvent("dirty", 0)

(* The verdict on an arrival is recorded once.                             *)
Decide(as, f) == [a \in Numbers |-> IF a \in as /\ fate[a] = "none"
                                    THEN f ELSE fate[a]]

AppTypeOK ==
  /\ payload \in Seq(Payloads)
  /\ fate \in [Numbers -> {"none", "dropped", "clicked", "ended", "expired",
                           "removed", "cleared", "lost"}]
  /\ due \subseteq Arrivals
  /\ \A c \in deck : c.id \in 1..cards /\ c.of \in Arrivals
  /\ \A e \in store : e.id \in 1..ids /\ e.of \in Arrivals
  /\ panel.life \in {"closed", "open", "closing"}
  /\ swell \in 0..FullSwell
  /\ {hover, shown, told} \subseteq BOOLEAN
  /\ tray \in 0..MaxArrivals
  /\ \A t \in tasks : t.id \in 1..ids /\ t.stage \in {"sent", "removed"}

AppInit ==
  /\ inbox = <<>> /\ payload = <<>> /\ due = {}
  /\ fate = [a \in Numbers |-> "none"]
  /\ deck = {} /\ cards = 0 /\ hover = FALSE /\ swell = 0 /\ shown = FALSE
  /\ store = {} /\ ids = 0 /\ file = {}
  /\ panel = Closed /\ tray = 0 /\ told = FALSE /\ tasks = {}
  /\ listed = {} /\ ended = {} /\ inputs = 0 /\ deaths = 0
-----------------------------------------------------------------------------
(* The store: every change rewrites the file under the same lock.          *)

SaveStore == file' = store'

AddEntry(a) ==
  /\ store' = store \cup {Entry(ids + 1, a)} /\ ids' = ids + 1
  /\ SaveStore

(* Adds one card after the other, in the order of the queue.               *)
Nth(c, cs) == Cardinality({d \in cs : d.id <= c.id})
AddAll(cs) ==
  /\ store' = store \cup {Entry(ids + Nth(c, cs), c.of) : c \in cs}
  /\ ids' = ids + Cardinality(cs)
  /\ IF cs = {} THEN UNCHANGED file ELSE SaveStore

(* `remove` saves only if it found the entry.                              *)
RemoveEntry(i) ==
  /\ store' = {e \in store : e.id # i}
  /\ IF HasId(store, i) THEN SaveStore ELSE UNCHANGED file
  /\ UNCHANGED ids

(* Mutant: clearing starts the ids again, as loading an empty file does.   *)
ClearEntriesResetting ==
  /\ store' = {} /\ ids' = 0
  /\ SaveStore

ClearEntries ==
  /\ store' = {} /\ UNCHANGED ids
  /\ SaveStore

UpdateTray == tray' = Cardinality(store') /\ told' = TRUE
-----------------------------------------------------------------------------
(* The popup cards.                                                        *)

AddCard(a) ==
  /\ deck' = deck \cup {Card(cards + 1, a)}
  /\ cards' = cards + 1

First(c, cs) == c \in cs /\ \A d \in cs : c.id <= d.id
DismissCard(c) == deck' = {d \in deck : d.id # c.id}

(* Mutant: the window is shown when the queue was not empty before.        *)
HandleNotificationHidden(a) ==
  LET p == payload[a] IN
  CASE p.rule = "dismiss" ->
         fate' = Decide({a}, "dropped")
         /\ UNCHANGED <<popupVars, storeVars, trayVars>>
    [] p.rule = "silent" \/ (p.rule = "normal" /\ panel # Closed) ->
         AddEntry(a) /\ UpdateTray /\ UNCHANGED <<popupVars, fate>>
    [] OTHER ->
         /\ AddCard(a) /\ shown' = (shown \/ deck # {})
         /\ UNCHANGED <<storeVars, fate, hover, swell>>
         /\ UpdateTray

(* The rules decide first; then an open center, which includes one that is *)
(* sliding out, sends the notification to the store with no popup.         *)
HandleNotification(a) ==
  LET p == payload[a] IN
  CASE p.rule = "dismiss" ->
         fate' = Decide({a}, "dropped")
         /\ UNCHANGED <<popupVars, storeVars, trayVars>>
    [] p.rule = "silent" \/ (p.rule = "normal" /\ panel # Closed) ->
         AddEntry(a) /\ UpdateTray /\ UNCHANGED <<popupVars, fate>>
    [] OTHER ->
         /\ AddCard(a) /\ shown' = TRUE
         /\ UNCHANGED <<storeVars, fate, hover, swell>>
         /\ UpdateTray

(* Resolved and expired: the first card with this server id is dismissed.  *)
(* The store is not searched.                                              *)
HandleEnded(s) ==
  LET same == {c \in deck : payload[c.of].sid = s} IN
  \/ same = {} /\ UNCHANGED <<popupVars, trayVars, storeVars, fate>>
  \/ \E c \in deck :
       /\ First(c, same) /\ DismissCard(c)
       /\ fate' = Decide({c.of}, "ended")
       /\ UNCHANGED <<cards, hover, swell, shown, storeVars>>
       /\ UpdateTray

ToggleCenter ==
  panel' = CASE panel.life = "closed" -> [Closed EXCEPT !.life = "open",
                                                        !.sliding = TRUE]
             [] panel.life = "open" -> [panel EXCEPT !.life = "closing",
                                                     !.sliding = TRUE]
             [] OTHER -> panel

(* user_event: the loop takes the oldest event.                            *)
UserEvent ==
  /\ inbox # <<>>
  /\ inbox' = Tail(inbox)
  /\ LET e == Head(inbox) IN
     \/ e.type = "notify" /\ HandleNotification(e.about) /\ UNCHANGED panel
     \/ e.type = "ended" /\ HandleEnded(e.about) /\ UNCHANGED panel
     \/ /\ e.type = "toggle" /\ ToggleCenter
        /\ UNCHANGED <<popupVars, storeVars, trayVars, fate>>
     \/ /\ e.type = "dirty" /\ UNCHANGED <<popupVars, storeVars, fate, panel>>
        /\ UpdateTray
  /\ UNCHANGED <<payload, due, tasks, boundVars>>
-----------------------------------------------------------------------------
(* The popup window.                                                       *)

Expired(c) == c.of \in due /\ ~c.expanded

(* The animation of the topmost card, by a frame.                          *)
NextSwell ==
  LET target == IF \E c \in deck : First(c, deck) /\ hover /\ payload[c.of].long
                THEN FullSwell ELSE 0
  IN CASE deck = {} -> 0
       [] deck # {} /\ swell < target -> swell + 1
       [] deck # {} /\ swell > target -> swell - 1
       [] OTHER -> swell

(* Mutant: the tray is refreshed before the expired cards are stored.      *)
RenderPopupTrayFirst ==
  LET next == NextSwell
      synced == {IF First(c, deck) THEN [c EXCEPT !.expanded = next > 0]
                                     ELSE c : c \in deck}
      gone == {c \in synced : Expired(c)}
      kept == {c \in gone : payload[c.of].keep}
  IN /\ swell' = next
     /\ deck' = synced \ gone
     /\ fate' = Decide(Of(gone \ kept), "expired")
     /\ AddAll(kept)
     /\ IF gone = {} THEN UNCHANGED trayVars
        ELSE tray' = Cardinality(store) /\ told' = TRUE
     /\ shown' = (shown /\ deck' # {})
     /\ UNCHANGED <<inbox, payload, due, cards, hover, panel, tasks, boundVars>>

(* Mutant: a card that was expanded once counts as expanded ever after.    *)
RenderPopupSticky ==
  LET next == NextSwell
      synced == {IF First(c, deck) THEN [c EXCEPT !.expanded = @ \/ next > 0]
                                     ELSE c : c \in deck}
      gone == {c \in synced : Expired(c)}
      kept == {c \in gone : payload[c.of].keep}
  IN /\ swell' = next
     /\ deck' = synced \ gone
     /\ fate' = Decide(Of(gone \ kept), "expired")
     /\ AddAll(kept)
     /\ IF gone = {} THEN UNCHANGED trayVars ELSE UpdateTray
     /\ shown' = (shown /\ deck' # {})
     /\ UNCHANGED <<inbox, payload, due, cards, hover, panel, tasks, boundVars>>

(* render_popup: animate the topmost card, mark it expanded while any of   *)
(* the animation is left, prune, store what is kept, hide an empty window. *)
RenderPopup ==
  LET next == NextSwell
      synced == {IF First(c, deck) THEN [c EXCEPT !.expanded = next > 0]
                                     ELSE c : c \in deck}
      gone == {c \in synced : Expired(c)}
      kept == {c \in gone : payload[c.of].keep}
  IN /\ swell' = next
     /\ deck' = synced \ gone
     /\ fate' = Decide(Of(gone \ kept), "expired")
     /\ AddAll(kept)
     /\ IF gone = {} THEN UNCHANGED trayVars ELSE UpdateTray
     /\ shown' = (shown /\ deck' # {})
     /\ UNCHANGED <<inbox, payload, due, cards, hover, panel, tasks, boundVars>>

AppInput == inputs < MaxInputs /\ inputs' = inputs + 1

CursorMoved ==
  /\ deck # {}
  /\ hover' = ~hover
  /\ AppInput
  /\ UNCHANGED <<inbox, payload, fate, due, deck, cards, swell, shown, storeVars,
                 panel, trayVars, tasks, listed, ended, deaths>>

(* Only the topmost card is clickable; it is dismissed and not stored.     *)
ClickPopup ==
  /\ hover
  /\ \E c \in deck : /\ First(c, deck) /\ DismissCard(c)
                     /\ fate' = Decide({c.of}, "clicked")
  /\ swell' = 0
  /\ UNCHANGED storeVars
  /\ UpdateTray
  /\ AppInput
  /\ UNCHANGED <<inbox, payload, due, cards, hover, shown, panel, tasks,
                 listed, ended, deaths>>

(* A card's expires_at passes.                                             *)
TimePasses ==
  \E c \in deck :
    /\ payload[c.of].timed /\ c.of \notin due
    /\ due' = due \cup {c.of}
    /\ UNCHANGED <<inbox, payload, fate, popupVars, storeVars, panel, trayVars,
                   tasks, boundVars>>
-----------------------------------------------------------------------------
(* The center.                                                             *)

(* What the cursor may rest on: one render decides, a later click uses it. *)
Aims == {<<"none", 0, 0>>, <<"close", 0, 0>>}
        \cup (IF store = {} THEN {} ELSE {<<"clear", 0, 0>>})
        \cup {<<"card", e.id, e.of>> : e \in store}
        \cup {<<"button", e.id, e.of>> :
                e \in {x \in store : payload[x.of].button # "none"}}

(* One frame; `last` is the one in which the slide has taken its time.     *)
RenderCenter(last) ==
  /\ panel # Closed
  /\ IF last /\ panel.sliding /\ panel.life = "closing"
     THEN panel' = Closed
     ELSE panel' \in {[panel EXCEPT !.sliding = @ /\ ~last, !.aim = a] : a \in Aims}
  /\ UNCHANGED <<inbox, payload, fate, due, popupVars, storeVars, trayVars,
                 tasks, boundVars>>

StartClosing == panel' = [panel EXCEPT !.life = "closing",
                                       !.sliding = @ \/ panel.life = "open"]

(* execute_action on the entry the cursor was over: a URL opens in the     *)
(* browser and the entry goes; a request is sent and decides later.        *)
PressButton(i) ==
  \/ ~HasId(store, i) /\ UNCHANGED <<storeVars, trayVars, tasks, fate>>
  \/ \E e \in store :
       /\ e.id = i /\ payload[e.of].button = "open"
       /\ RemoveEntry(i) /\ UpdateTray /\ UNCHANGED tasks
       /\ fate' = Decide({panel.aim[3]}, "removed")
  \/ \E e \in store :
       /\ e.id = i /\ payload[e.of].button # "open"
       /\ tasks' = tasks \cup {[press |-> inputs, id |-> i, stage |-> "sent",
                                of |-> panel.aim[3]]}
       /\ UNCHANGED <<storeVars, trayVars, fate>>

ClickCenter ==
  /\ panel # Closed /\ AppInput
  /\ LET aim == panel.aim IN
     \/ /\ aim[1] = "close" /\ StartClosing
        /\ UNCHANGED <<storeVars, trayVars, tasks, fate>>
     \/ /\ aim[1] = "clear" /\ ClearEntries /\ fate' = Decide(Of(store), "cleared")
        /\ UpdateTray /\ UNCHANGED <<tasks, panel>>
     \/ aim[1] = "button" /\ PressButton(aim[2]) /\ UNCHANGED panel
     \/ /\ aim[1] = "card" /\ RemoveEntry(aim[2])
        /\ fate' = Decide({aim[3]}, "removed")
        /\ UpdateTray /\ UNCHANGED <<tasks, panel>>
  /\ UNCHANGED <<inbox, payload, due, popupVars, listed, ended, deaths>>

(* A click elsewhere: the panel loses the focus (half a second after it    *)
(* was opened at the earliest) or is closed by the window manager.         *)
FocusLost ==
  /\ panel.life = "open" /\ AppInput
  /\ StartClosing
  /\ UNCHANGED <<inbox, payload, fate, due, popupVars, storeVars, trayVars,
                 tasks, listed, ended, deaths>>

(* The request's answer: only a 2xx removes the entry.                     *)
ActionAnswered(t) ==
  /\ t \in tasks /\ t.stage = "sent"
  /\ \/ /\ RemoveEntry(t.id)
        /\ fate' = Decide({t.of}, "removed")
        /\ tasks' = (tasks \ {t}) \cup {[t EXCEPT !.stage = "removed"]}
     \/ /\ tasks' = tasks \ {t}
        /\ UNCHANGED <<storeVars, fate>>
  /\ UNCHANGED <<inbox, payload, due, popupVars, panel, trayVars, boundVars>>

(* After the lock is released, the task tells the loop.                    *)
ActionReports(t) ==
  /\ t \in tasks /\ t.stage = "removed"
  /\ tasks' = tasks \ {t}
  /\ inbox' = Append(inbox, Dirty)
  /\ UNCHANGED <<payload, fate, due, popupVars, storeVars, panel, trayVars, boundVars>>
-----------------------------------------------------------------------------
(* The other threads: the bridge from the embedded server, the remote      *)
(* clients, the tray menu, the HTTP handlers.                              *)

NotifyDaemon(p) ==
  /\ Len(payload) < MaxArrivals
  /\ payload' = Append(payload, p)
  /\ inbox' = Append(inbox, AppEvent("notify", Len(payload) + 1))
  /\ UNCHANGED <<fate, due, popupVars, storeVars, panel, trayVars, tasks, boundVars>>

(* The end of an exclusive notification, told by the local bridge.         *)
EndedLocally(s) ==
  /\ AppInput
  /\ inbox' = Append(inbox, AppEvent("ended", s))
  /\ UNCHANGED <<payload, fate, due, popupVars, storeVars, panel, trayVars, tasks,
                 listed, ended, deaths>>

(* The same, told by a remote server: the server writes the field `id`,    *)
(* the daemon's types require `notificationId`; handle_message logs the    *)
(* failure to parse and sends no event.                                    *)
EndedRemotely(s) ==
  /\ AppInput /\ s \in {payload[a].sid : a \in Arrivals}
  /\ ended' = ended \cup {s}
  /\ UNCHANGED <<inbox, payload, fate, due, popupVars, storeVars, panel, trayVars,
                 tasks, listed, deaths>>

ClickTray ==
  /\ AppInput
  /\ inbox' = Append(inbox, AppEvent("toggle", 0))
  /\ UNCHANGED <<payload, fate, due, popupVars, storeVars, panel, trayVars, tasks,
                 listed, ended, deaths>>

(* GET /center                                                             *)
CenterList ==
  /\ store \ listed # {}
  /\ listed' = listed \cup store
  /\ UNCHANGED <<inbox, payload, fate, due, popupVars, storeVars, panel, trayVars,
                 tasks, ended, inputs, deaths>>

(* DELETE /center/{id} of an entry listed before                           *)
CenterDismiss(e) ==
  /\ e \in listed /\ AppInput
  /\ RemoveEntry(e.id)
  /\ fate' = Decide({e.of}, "removed")
  /\ inbox' = IF HasId(store, e.id) THEN Append(inbox, Dirty) ELSE inbox
  /\ UNCHANGED <<payload, due, popupVars, panel, trayVars, tasks, listed, ended, deaths>>

(* DELETE /center?confirm=true                                             *)
CenterClear ==
  /\ AppInput
  /\ ClearEntries
  /\ fate' = Decide(Of(store), "cleared")
  /\ inbox' = Append(inbox, Dirty)
  /\ UNCHANGED <<payload, due, popupVars, panel, trayVars, tasks, listed, ended, deaths>>

(* The daemon is killed and started again.  A CenterClear may always be    *)
(* saving, so the file may be cut short; a file that does not parse loads  *)
(* as an empty store.  Cards, events and requests are lost.  Ids that were *)
(* listed before are forgotten with them: the new process may give them to *)
(* other entries.  The tray starts empty and is not told of the store.     *)
KillAndStart ==
  /\ deaths < MaxDeaths /\ deaths' = deaths + 1
  /\ file' \in {file, Torn}
  /\ store' = IF file' = Torn THEN {} ELSE file'
  /\ ids' \in {i \in {0} \cup Ids(store') : \A j \in Ids(store') : j <= i}
  /\ fate' = Decide(Arrivals \ Of(store'), "lost")
  /\ inbox' = <<>> /\ deck' = {} /\ cards' = 0 /\ hover' = FALSE
  /\ swell' = 0 /\ shown' = FALSE /\ panel' = Closed /\ tray' = 0 /\ told' = FALSE
  /\ tasks' = {} /\ listed' = {} /\ due' = {}
  /\ UNCHANGED <<payload, ended, inputs>>

ServerIds == {p.sid : p \in Payloads} \ {""}

AppNext ==
  \/ UserEvent \/ RenderPopup \/ CursorMoved \/ ClickPopup \/ TimePasses
  \/ \E last \in BOOLEAN : RenderCenter(last)
  \/ ClickCenter \/ FocusLost
  \/ \E t \in tasks : ActionAnswered(t) \/ ActionReports(t)
  \/ \E p \in Payloads : NotifyDaemon(p)
  \/ \E s \in ServerIds : EndedLocally(s) \/ EndedRemotely(s)
  \/ ClickTray \/ CenterList \/ CenterClear
  \/ \E e \in listed : CenterDismiss(e)
  \/ KillAndStart

(* The loop turns: about_to_wait asks for a redraw while a card is queued, *)
(* and time passes.  Of events nothing is assumed.                         *)
AppFairness == WF_appVars(RenderPopup) /\ WF_appVars(TimePasses)

AppSafety == AppInit /\ [][AppNext]_appVars
AppSpec == AppSafety /\ AppFairness
-----------------------------------------------------------------------------
(* Every notification is accounted for: until it is dropped by a rule,     *)
(* clicked away, ended by its server, let expire unkept, removed or        *)
(* cleared by someone who asked for that very entry, or lost in a kill, it *)
(* is in exactly one place (the event queue, the cards, the store), and    *)
(* afterwards in none, not even after a restart.                           *)
EachInOnePlace ==
  \A a \in Arrivals :
    Cardinality({i \in DOMAIN inbox : inbox[i] = AppEvent("notify", a)})
      + Cardinality({c \in deck : c.of = a})
      + Cardinality({e \in store : e.of = a})
    = IF fate[a] = "none" THEN 1 ELSE 0

(* Once the tray has been updated in this process, its count is that of    *)
(* the center, unless news of a change from another thread is on its way.  *)
TrayTellsTheStore ==
  told => \/ tray = Cardinality(store)
          \/ \E i \in DOMAIN inbox : inbox[i] = Dirty
          \/ \E t \in tasks : t.stage = "removed"

(* While a card is queued the popup window is on the screen.               *)
CardsAreOnScreen == deck # {} => shown

(* No timed card stays on the screen: though the expand animation of a     *)
(* card holds it back, again and again none is left, unless the user rests *)
(* the cursor on the topmost (render_popup, prune_expired).                *)
TimedCardsLeave == []<>(hover \/ \A c \in deck : ~payload[c.of].timed)

(* Once a remote server has announced that a notification was resolved and *)
(* the loop has taken all its events, no card of it is shown any more.     *)
ResolvedIsDismissed ==
  inbox = <<>> => \A c \in deck : payload[c.of].sid \notin ended
=============================================================================
