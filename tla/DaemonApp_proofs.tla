-------------------------- MODULE DaemonApp_proofs --------------------------
(***************************************************************************)
(* EachInOnePlace, TrayTellsTheStore, CardsAreOnScreen and the types for   *)
(* any payloads and any numbers of arrivals, inputs and kills.             *)
(*                                                                         *)
(* EachInOnePlace rests on AppInv.  A click, a request or an HTTP client   *)
(* names an entry by an id that it read earlier; what makes the removal    *)
(* safe is Refers: an id that is in somebody's hands belongs to the entry  *)
(* it was read from or, once that is gone, to none, because the store      *)
(* never gives an id twice within a process.  A step is shown by what it   *)
(* does to each place (Queue..., Deck..., Store...), and then to all.      *)
(***************************************************************************)
EXTENDS DaemonApp, FiniteSetTheorems, TLAPS

Fates == {"none", "dropped", "clicked", "ended", "expired", "removed", "cleared", "lost"}
AppEvents == [type : {"notify", "ended", "toggle", "dirty"}, about : Nat \cup ServerIds]

(* What is on its way: the events, and the requests of the center.         *)
Events ==
  /\ inbox \in Seq(AppEvents)
  /\ payload \in Seq(Payloads)
  /\ \A t \in tasks :
       t = [press |-> t.press, id |-> t.id, stage |-> t.stage, of |-> t.of]

Queued(a) == \E i \in DOMAIN inbox : inbox[i] = AppEvent("notify", a)

InboxInv ==
  /\ \A i \in DOMAIN inbox : inbox[i].type = "notify" => inbox[i].about \in Arrivals
  /\ \A i, j \in DOMAIN inbox :
       inbox[i].type = "notify" /\ inbox[i] = inbox[j] => i = j

(* Cards are told apart by their ids and by their arrivals; so are entries. *)
DeckInv ==
  /\ cards \in Nat
  /\ \A c \in deck : /\ c = [id |-> c.id, of |-> c.of, expanded |-> c.expanded]
                     /\ c.id \in 1..cards /\ c.of \in Arrivals
  /\ \A c, d \in deck : c.id = d.id \/ c.of = d.of => c = d

StoreInv ==
  /\ ids \in Nat
  /\ \A e \in store : e = Entry(e.id, e.of) /\ e.id \in 1..ids /\ e.of \in Arrivals
  /\ \A e, f \in store : e.id = f.id \/ e.of = f.of => e = f

(* The file holds what the store holds, or was cut short when the daemon   *)
(* was last killed.                                                        *)
FileInv == file = store \/ (file = Torn /\ store = {})

(* An arrival without a fate is in one place, one with a fate in none.     *)
Placed(a) ==
  /\ fate[a] = "none" <=> Queued(a) \/ a \in Of(deck) \/ a \in Of(store)
  /\ ~(Queued(a) /\ a \in Of(deck))
  /\ ~(Queued(a) /\ a \in Of(store))
  /\ ~(a \in Of(deck) /\ a \in Of(store))

FateInv ==
  /\ Len(payload) <= MaxArrivals
  /\ fate \in [Numbers -> Fates]
  /\ \A a \in Numbers \ Arrivals : fate[a] = "none"

Accounted == \A a \in Arrivals : Placed(a)

(* Who holds the id i of arrival a's entry cannot hit another entry.       *)
Refers(i, a) ==
  /\ i \in 1..ids /\ a \in Arrivals
  /\ Entry(i, a) \in store \/ (~HasId(store, i) /\ fate[a] # "none")

RefsInv ==
  /\ panel = [life |-> panel.life, sliding |-> panel.sliding, aim |-> panel.aim]
  /\ panel.aim[1] \in {"card", "button"} => Refers(panel.aim[2], panel.aim[3])
  /\ \A t \in tasks : Refers(t.id, t.of)
  /\ \A e \in listed : e = Entry(e.id, e.of) /\ Refers(e.id, e.of)

PlacesInv == InboxInv /\ DeckInv /\ StoreInv /\ FileInv /\ FateInv /\ Accounted
AppInv == Events /\ PlacesInv /\ RefsInv
-----------------------------------------------------------------------------
(* While a card is queued the popup window is on the screen: the window is *)
(* shown with every card that is added and hidden only with none left.     *)
THEOREM WindowShowsCards == AppSafety => []CardsAreOnScreen
<1>1. AppInit => CardsAreOnScreen
  BY DEF AppInit, CardsAreOnScreen
<1>2. CardsAreOnScreen /\ [AppNext]_appVars => CardsAreOnScreen'
  <2> SUFFICES ASSUME CardsAreOnScreen, [AppNext]_appVars, deck' # {}
               PROVE  shown'
    BY DEF CardsAreOnScreen
  <2> USE DEF CardsAreOnScreen
  <2>1. CASE UserEvent
    <3>1. CASE \E a : HandleNotification(a)
      BY <3>1 DEF HandleNotification, popupVars
    <3>2. CASE \E s : HandleEnded(s)
      <4>1. UNCHANGED popupVars \/ (deck # {} /\ UNCHANGED shown)
        BY <3>2 DEF HandleEnded
      <4> QED BY <4>1 DEF popupVars
    <3>3. CASE UNCHANGED popupVars
      BY <3>3 DEF popupVars
    <3> QED BY <2>1, <3>1, <3>2, <3>3 DEF UserEvent
  <2>2. CASE RenderPopup
    BY <2>2 DEF RenderPopup
  <2>3. CASE ClickPopup
    BY <2>3 DEF ClickPopup, First
  <2>4. CASE CursorMoved
    BY <2>4 DEF CursorMoved
  <2>5. CASE KillAndStart
    BY <2>5 DEF KillAndStart
  <2>6. CASE UNCHANGED popupVars
    BY <2>6 DEF popupVars
  <2>7. \/ UserEvent \/ RenderPopup \/ ClickPopup \/ CursorMoved \/ KillAndStart
        \/ UNCHANGED popupVars
    BY DEF AppNext, appVars, TimePasses, RenderCenter, ClickCenter, FocusLost,
           ActionAnswered, ActionReports, NotifyDaemon, EndedLocally, EndedRemotely,
           ClickTray, CenterList, CenterClear, CenterDismiss
  <2> QED BY <2>1, <2>2, <2>3, <2>4, <2>5, <2>6, <2>7
<1> QED BY <1>1, <1>2, PTL DEF AppSafety
-----------------------------------------------------------------------------
(* The event loop's queue: what a step takes from it or puts into it.      *)
LEMMA Popped ==
  ASSUME NEW q \in Seq(AppEvents), q # <<>>
  PROVE  /\ Tail(q) \in Seq(AppEvents) /\ 1 \in DOMAIN q /\ Head(q) = q[1]
         /\ \A i \in DOMAIN Tail(q) : i + 1 \in DOMAIN q /\ Tail(q)[i] = q[i + 1]
         /\ \A i \in DOMAIN q \ {1} : i - 1 \in DOMAIN Tail(q) /\ Tail(q)[i - 1] = q[i]
  OBVIOUS

LEMMA Sent ==
  ASSUME NEW q \in Seq(AppEvents), NEW e \in AppEvents
  PROVE  /\ Append(q, e) \in Seq(AppEvents) /\ Len(q) + 1 \in DOMAIN Append(q, e)
         /\ Append(q, e)[Len(q) + 1] = e
         /\ \A i \in DOMAIN q : i \in DOMAIN Append(q, e) /\ Append(q, e)[i] = q[i]
         /\ \A i \in DOMAIN Append(q, e) : i \in DOMAIN q \/ i = Len(q) + 1
  OBVIOUS

LEMMA EventTypes ==
  /\ Dirty \in AppEvents /\ AppEvent("toggle", 0) \in AppEvents
  /\ \A a \in Nat : AppEvent("notify", a) \in AppEvents
  /\ \A s \in ServerIds : AppEvent("ended", s) \in AppEvents
  BY DEF Dirty, AppEvent, AppEvents

LEMMA EventsInit == AppInit => Events
  BY DEF AppInit, Events

LEMMA RequestsStep ==
  ASSUME Events, [AppNext]_appVars, NEW t \in tasks'
  PROVE  t = [press |-> t.press, id |-> t.id, stage |-> t.stage, of |-> t.of]
<1>1. CASE t \in tasks
  BY <1>1 DEF Events
<1>2. CASE ClickCenter
  BY <1>2 DEF ClickCenter, PressButton, Events
<1>3. CASE \E u \in tasks : ActionAnswered(u)
  BY <1>3 DEF ActionAnswered, Events
<1>4. tasks' \subseteq tasks \/ ClickCenter \/ \E u \in tasks : ActionAnswered(u)
  BY DEF AppNext, appVars, UserEvent, RenderPopup, CursorMoved, ClickPopup, TimePasses,
         RenderCenter, FocusLost, ActionReports, NotifyDaemon, EndedLocally, EndedRemotely,
         ClickTray, CenterList, CenterClear, CenterDismiss, KillAndStart
<1> QED BY <1>1, <1>2, <1>3, <1>4

LEMMA EventsStep == Events /\ [AppNext]_appVars => Events'
<1> SUFFICES ASSUME Events, [AppNext]_appVars
             PROVE  inbox' \in Seq(AppEvents) /\ payload' \in Seq(Payloads)
  BY RequestsStep DEF Events
<1> USE DEF Events
<1>1. CASE UserEvent
  BY <1>1, Popped DEF UserEvent
<1>2. CASE \E p \in Payloads : NotifyDaemon(p)
  BY <1>2, Sent, EventTypes DEF NotifyDaemon
<1>3. CASE KillAndStart
  BY <1>3 DEF KillAndStart
<1>4. ASSUME UNCHANGED payload,
             UNCHANGED inbox \/ \E e \in AppEvents : inbox' = Append(inbox, e)
      PROVE  inbox' \in Seq(AppEvents) /\ payload' \in Seq(Payloads)
  BY <1>4, Sent
<1>5. CASE \E t \in tasks : ActionReports(t)
  BY <1>4, <1>5, EventTypes DEF ActionReports
<1>6. CASE \E s \in ServerIds : EndedLocally(s)
  BY <1>4, <1>6, EventTypes DEF EndedLocally
<1>7. CASE ClickTray \/ CenterClear
  BY <1>4, <1>7, EventTypes DEF ClickTray, CenterClear
<1>8. CASE \E e \in listed : CenterDismiss(e)
  BY <1>4, <1>8, EventTypes DEF CenterDismiss
<1>9. CASE UNCHANGED <<inbox, payload>>
  BY <1>9
<1>10. UNCHANGED <<inbox, payload>> \/ UserEvent \/ KillAndStart \/ ClickTray \/ CenterClear
       \/ (\E p \in Payloads : NotifyDaemon(p)) \/ (\E t \in tasks : ActionReports(t))
       \/ (\E s \in ServerIds : EndedLocally(s)) \/ (\E e \in listed : CenterDismiss(e))
  BY DEF AppNext, appVars, RenderPopup, CursorMoved, ClickPopup, TimePasses, RenderCenter,
         ClickCenter, FocusLost, ActionAnswered, EndedRemotely, CenterList
<1> QED BY <1>1, <1>2, <1>3, <1>5, <1>6, <1>7, <1>8, <1>9, <1>10
-----------------------------------------------------------------------------
(* The tray's count is that of the store, or news is on its way.           *)
NewsInInbox == \E i \in DOMAIN inbox : inbox[i] = Dirty
NewsInTask == \E t \in tasks : t.stage = "removed"

LEMMA NewsStays ==
  ASSUME Events, NEW e \in AppEvents, NewsInInbox,
         \/ UNCHANGED inbox
         \/ inbox' = Append(inbox, e)
         \/ inbox # <<>> /\ Head(inbox) # Dirty /\ inbox' = Tail(inbox)
  PROVE  NewsInInbox'
<1> PICK i \in DOMAIN inbox : inbox[i] = Dirty
  BY DEF NewsInInbox
<1>1. CASE UNCHANGED inbox
  BY <1>1 DEF NewsInInbox
<1>2. CASE inbox' = Append(inbox, e)
  BY <1>2, Sent DEF NewsInInbox, Events
<1>3. CASE inbox # <<>> /\ Head(inbox) # Dirty /\ inbox' = Tail(inbox)
  <2>1. i - 1 \in DOMAIN Tail(inbox) /\ Tail(inbox)[i - 1] = Dirty
    BY <1>3, Popped DEF Events
  <2> QED BY <1>3, <2>1 DEF NewsInInbox
<1> QED BY <1>1, <1>2, <1>3

LEMMA NewsComes ==
  ASSUME Events, inbox' = Append(inbox, Dirty)
  PROVE  NewsInInbox'
  BY Sent, EventTypes DEF Events, NewsInInbox

LEMMA TrayStep ==
  Events /\ TrayTellsTheStore /\ [AppNext]_appVars => TrayTellsTheStore'
<1> SUFFICES ASSUME Events, TrayTellsTheStore, [AppNext]_appVars
             PROVE  TrayTellsTheStore'
  OBVIOUS
<1>1. ASSUME UpdateTray PROVE TrayTellsTheStore'
  BY <1>1 DEF UpdateTray, TrayTellsTheStore
<1>2. ASSUME UNCHANGED <<store, tray, told>>, NewsInInbox => NewsInInbox',
             NewsInTask => NewsInTask' \/ NewsInInbox'
      PROVE  TrayTellsTheStore'
  BY <1>2 DEF TrayTellsTheStore, NewsInInbox, NewsInTask
<1>3. ASSUME NewsInTask' \/ NewsInInbox' PROVE TrayTellsTheStore'
  BY <1>3 DEF TrayTellsTheStore, NewsInInbox, NewsInTask
<1>4. ASSUME UNCHANGED <<store, tray, told>>, UNCHANGED <<inbox, tasks>>
      PROVE  TrayTellsTheStore'
  BY <1>2, <1>4 DEF NewsInInbox, NewsInTask
<1>5. CASE UserEvent
  <2>1. ASSUME UNCHANGED <<store, tray, told>>, Head(inbox).type # "dirty"
        PROVE  TrayTellsTheStore'
    <3>1. Head(inbox) # Dirty
      BY <2>1 DEF Dirty, AppEvent
    <3>2. NewsInInbox => NewsInInbox'
      BY <1>5, <3>1, NewsStays, EventTypes DEF UserEvent
    <3>3. UNCHANGED tasks
      BY <1>5 DEF UserEvent
    <3> QED BY <1>2, <2>1, <3>2, <3>3 DEF NewsInTask
  <2>2. ASSUME NEW a, HandleNotification(a)
        PROVE  UpdateTray \/ UNCHANGED <<store, tray, told>>
    BY <2>2 DEF HandleNotification, storeVars, trayVars
  <2>3. ASSUME NEW s, HandleEnded(s)
        PROVE  UpdateTray \/ UNCHANGED <<store, tray, told>>
    BY <2>3 DEF HandleEnded, storeVars, trayVars
  <2>4. UpdateTray \/ (UNCHANGED <<store, tray, told>> /\ Head(inbox).type # "dirty")
    BY <1>5, <2>2, <2>3 DEF UserEvent, storeVars, trayVars
  <2> QED BY <1>1, <2>1, <2>4
<1>6. CASE RenderPopup
  <2>1. UpdateTray \/ (UNCHANGED <<tray, told>> /\ store' = store)
    BY <1>6 DEF RenderPopup, AddAll, trayVars
  <2>2. UNCHANGED <<inbox, tasks>>
    BY <1>6 DEF RenderPopup
  <2> QED BY <1>1, <1>4, <2>1, <2>2
<1>7. CASE ClickPopup
  BY <1>1, <1>7 DEF ClickPopup
<1>8. CASE ClickCenter
  <2>1. UpdateTray \/ (UNCHANGED <<store, tray, told>> /\ tasks \subseteq tasks')
    BY <1>8 DEF ClickCenter, PressButton, storeVars, trayVars
  <2>2. UNCHANGED inbox
    BY <1>8 DEF ClickCenter
  <2> QED BY <1>1, <1>2, <2>1, <2>2 DEF NewsInInbox, NewsInTask
<1>9. ASSUME NEW t \in tasks, ActionAnswered(t) PROVE TrayTellsTheStore'
  <2>1. UNCHANGED <<inbox, tray, told>>
    BY <1>9 DEF ActionAnswered, trayVars
  <2>2. CASE tasks' = (tasks \ {t}) \cup {[t EXCEPT !.stage = "removed"]}
    <3>1. [t EXCEPT !.stage = "removed"].stage = "removed"
      BY DEF Events
    <3> QED BY <1>3, <2>2, <3>1 DEF NewsInTask
  <2>3. CASE tasks' = tasks \ {t} /\ UNCHANGED store
    <3>1. NewsInTask => NewsInTask'
      BY <1>9, <2>3 DEF ActionAnswered, NewsInTask
    <3> QED BY <1>2, <2>1, <2>3, <3>1 DEF NewsInInbox
  <2> QED BY <1>9, <2>2, <2>3 DEF ActionAnswered, storeVars
<1>10. CASE \/ \E t \in tasks : ActionReports(t)
            \/ CenterClear
  BY <1>3, <1>10, NewsComes DEF ActionReports, CenterClear
<1>11. CASE \E e \in listed : CenterDismiss(e)
  <2> PICK e \in listed : CenterDismiss(e)
    BY <1>11
  <2>1. CASE HasId(store, e.id)
    BY <1>3, <2>1, NewsComes DEF CenterDismiss
  <2>2. CASE ~HasId(store, e.id)
    <3>1. store' = store
      BY <2>2 DEF CenterDismiss, RemoveEntry, HasId, Ids
    <3>2. UNCHANGED <<inbox, tasks, tray, told>>
      BY <2>2 DEF CenterDismiss, trayVars
    <3> QED BY <1>4, <3>1, <3>2
  <2> QED BY <2>1, <2>2
<1>12. CASE KillAndStart
  BY <1>12 DEF KillAndStart, TrayTellsTheStore
<1>13. ASSUME UNCHANGED <<store, tray, told, tasks>>,
              NEW e \in AppEvents, inbox' = Append(inbox, e)
       PROVE  TrayTellsTheStore'
  BY <1>2, <1>13, NewsStays DEF NewsInTask
<1>14. CASE \/ \E p \in Payloads : NotifyDaemon(p)
            \/ \E s \in ServerIds : EndedLocally(s)
            \/ ClickTray
  <2>1. \E e \in AppEvents : inbox' = Append(inbox, e)
    BY <1>14, EventTypes DEF Events, NotifyDaemon, EndedLocally, ClickTray
  <2>2. UNCHANGED <<store, tray, told, tasks>>
    BY <1>14 DEF NotifyDaemon, EndedLocally, ClickTray, storeVars, trayVars
  <2> QED BY <1>13, <2>1, <2>2
<1>15. CASE \/ CursorMoved \/ TimePasses \/ \E last \in BOOLEAN : RenderCenter(last)
            \/ FocusLost \/ CenterList \/ UNCHANGED appVars
            \/ \E s \in ServerIds : EndedRemotely(s)
  <2>1. UNCHANGED <<store, tray, told, inbox, tasks>>
    BY <1>15 DEF CursorMoved, TimePasses, RenderCenter, FocusLost, CenterList, appVars,
                 EndedRemotely, storeVars, trayVars
  <2> QED BY <1>4, <2>1
<1> QED BY <1>5, <1>6, <1>7, <1>8, <1>9, <1>10, <1>11, <1>12, <1>14, <1>15 DEF AppNext

(* The tray shows the store's size, whenever no thread's report of its     *)
(* change waits (update_tray after every change the loop makes itself,     *)
(* StoreChanged after every change made elsewhere).                        *)
THEOREM TrayIsTold == AppSafety => []TrayTellsTheStore
<1>1. AppInit => TrayTellsTheStore
  BY DEF AppInit, TrayTellsTheStore
<1> QED BY <1>1, EventsInit, EventsStep, TrayStep, PTL DEF AppSafety
-----------------------------------------------------------------------------
(* Counting.                                                               *)

LEMMA AtMostOne ==
  ASSUME NEW S, \A x, y \in S : x = y
  PROVE  Cardinality(S) = IF S = {} THEN 0 ELSE 1
<1>1. CASE S = {}
  BY <1>1, FS_EmptySet
<1>2. CASE S # {}
  <2> PICK x : x \in S
    BY <1>2
  <2>1. S = {x}
    OBVIOUS
  <2> QED BY <1>2, <2>1, FS_Singleton
<1> QED BY <1>1, <1>2

LEMMA FiniteById ==
  ASSUME NEW cs, NEW n \in Nat, \A c \in cs : c.id \in 1..n,
         \A c, d \in cs : c.id = d.id => c = d
  PROVE  IsFiniteSet(cs)
<1> DEFINE f == [c \in cs |-> c.id]
<1>1. f \in Injection(cs, 1..n)
  BY DEF Injection, IsInjective
<1>2. IsFiniteSet(1..n)
  BY FS_Interval
<1> QED BY <1>1, <1>2, FS_Injection

(* The cards of a set are given different numbers, from 1 to their count.  *)
LEMMA NthNumbers ==
  ASSUME NEW cs, IsFiniteSet(cs), \A c \in cs : c.id \in Nat,
         \A c, d \in cs : c.id = d.id => c = d
  PROVE  /\ Cardinality(cs) \in Nat
         /\ \A c \in cs : Nth(c, cs) \in 1..Cardinality(cs)
         /\ \A c, d \in cs : Nth(c, cs) = Nth(d, cs) => c = d
<1> DEFINE L(c) == {d \in cs : d.id <= c.id}
<1>1. Cardinality(cs) \in Nat
  BY FS_CardinalityType
<1>2. ASSUME NEW c \in cs
      PROVE  /\ IsFiniteSet(L(c)) /\ Nth(c, cs) = Cardinality(L(c))
             /\ Nth(c, cs) \in 1..Cardinality(cs)
  <2>1. L(c) \in SUBSET cs
    OBVIOUS
  <2>2. IsFiniteSet(L(c)) /\ Cardinality(L(c)) <= Cardinality(cs)
    BY <2>1, FS_Subset
  <2>3. Cardinality(L(c)) \in Nat
    BY <2>2, FS_CardinalityType
  <2>4. c \in L(c)
    OBVIOUS
  <2>5. Cardinality(L(c)) # 0
    BY <2>2, <2>4, FS_EmptySet
  <2>6. Nth(c, cs) = Cardinality(L(c))
    BY DEF Nth
  <2> QED BY <1>1, <2>2, <2>3, <2>5, <2>6
<1>3. ASSUME NEW c \in cs, NEW d \in cs, c.id < d.id
      PROVE  Nth(c, cs) # Nth(d, cs)
  <2>1. L(c) \in SUBSET L(d)
    BY <1>3
  <2>2. d \in L(d) /\ d \notin L(c)
    BY <1>3
  <2> HIDE DEF L
  <2> QED BY <1>2, <2>1, <2>2, FS_Subset
<1>4. ASSUME NEW c \in cs, NEW d \in cs, Nth(c, cs) = Nth(d, cs) PROVE c = d
  <2>1. ~(c.id < d.id) /\ ~(d.id < c.id)
    BY <1>3, <1>4
  <2> QED BY <2>1
<1> HIDE DEF L
<1> QED BY <1>1, <1>2, <1>4
-----------------------------------------------------------------------------
(* What one kind of step does to one place.                                *)

LEMMA ArrivalsAreNumbers ==
  ASSUME Events, FateInv PROVE Arrivals \subseteq Numbers /\ Arrivals \subseteq Nat
  BY AppAssumption DEF Events, FateInv, Arrivals, Numbers

(* A verdict is recorded once and stays.                                   *)
LEMMA Decided ==
  ASSUME Events, FateInv, UNCHANGED payload,
         NEW as, NEW f \in Fates \ {"none"}, fate' = Decide(as, f)
  PROVE  /\ as \subseteq Arrivals => FateInv'
         /\ \A a \in Arrivals : fate'[a] = "none" <=> fate[a] = "none" /\ a \notin as
  BY ArrivalsAreNumbers DEF FateInv, Decide, Fates, Numbers, Arrivals

LEMMA QueueSame ==
  ASSUME InboxInv, UNCHANGED <<inbox, payload>>
  PROVE  InboxInv' /\ \A a \in Nat : Queued(a)' <=> Queued(a)
  BY DEF InboxInv, Queued, Arrivals

LEMMA QueueSent ==
  ASSUME Events, InboxInv, UNCHANGED payload, NEW e \in AppEvents, e.type # "notify",
         inbox' = Append(inbox, e)
  PROVE  InboxInv' /\ \A a \in Nat : Queued(a)' <=> Queued(a)
<1>1. /\ \A i \in DOMAIN inbox : i \in DOMAIN inbox' /\ inbox'[i] = inbox[i]
      /\ \A i \in DOMAIN inbox' : i \in DOMAIN inbox \/ inbox'[i] = e
  BY Sent DEF Events
<1>2. \A a \in Nat : e # AppEvent("notify", a)
  BY DEF AppEvent
<1>3. \A a \in Nat : Queued(a)' <=> Queued(a)
  BY <1>1, <1>2 DEF Queued
<1>4. InboxInv'
  BY <1>1 DEF InboxInv, Arrivals
<1> QED BY <1>3, <1>4

LEMMA QueuePopped ==
  ASSUME Events, InboxInv, UNCHANGED payload, inbox # <<>>, inbox' = Tail(inbox)
  PROVE  /\ InboxInv'
         /\ \A a \in Nat : Queued(a)' <=> Queued(a) /\ Head(inbox) # AppEvent("notify", a)
<1>1. /\ 1 \in DOMAIN inbox /\ Head(inbox) = inbox[1] /\ DOMAIN inbox \subseteq Nat
      /\ \A i \in DOMAIN inbox' : i \in Nat \ {0} /\ i + 1 \in DOMAIN inbox /\ inbox'[i] = inbox[i + 1]
      /\ \A i \in DOMAIN inbox \ {1} : i - 1 \in DOMAIN inbox' /\ inbox'[i - 1] = inbox[i]
  BY Popped DEF Events
<1>2. InboxInv'
  BY <1>1 DEF InboxInv, Arrivals
<1>3. ASSUME NEW a \in Nat, Queued(a)'
      PROVE  Queued(a) /\ Head(inbox) # AppEvent("notify", a)
  <2> PICK i \in DOMAIN inbox' : inbox'[i] = AppEvent("notify", a)
    BY <1>3 DEF Queued
  <2>1. i + 1 \in DOMAIN inbox /\ inbox[i + 1] = AppEvent("notify", a) /\ i + 1 # 1
    BY <1>1
  <2>2. inbox[i + 1].type = "notify"
    BY <2>1 DEF AppEvent
  <2> QED BY <1>1, <2>1, <2>2 DEF InboxInv, Queued
<1>4. ASSUME NEW a \in Nat, Queued(a), Head(inbox) # AppEvent("notify", a)
      PROVE  Queued(a)'
  <2>1. PICK i \in DOMAIN inbox : inbox[i] = AppEvent("notify", a)
    BY <1>4 DEF Queued
  <2>2. i # 1
    BY <1>1, <1>4, <2>1
  <2>3. i - 1 \in DOMAIN inbox' /\ inbox'[i - 1] = AppEvent("notify", a)
    BY <1>1, <2>1, <2>2
  <2> QED BY <2>3 DEF Queued
<1> QED BY <1>2, <1>3, <1>4

LEMMA DeckSame ==
  ASSUME DeckInv, UNCHANGED <<deck, cards, payload>>
  PROVE  DeckInv' /\ Of(deck') = Of(deck)
  BY DEF DeckInv, Of, Arrivals

LEMMA DeckAdded ==
  ASSUME DeckInv, NEW a \in Arrivals, a \notin Of(deck), AddCard(a), UNCHANGED payload
  PROVE  DeckInv' /\ Of(deck') = Of(deck) \cup {a}
<1> DEFINE new == Card(cards + 1, a)
<1>1. /\ new.id = cards + 1 /\ new.of = a
      /\ new = [id |-> new.id, of |-> new.of, expanded |-> new.expanded]
  BY DEF Card
<1>2. deck' = deck \cup {new} /\ cards' = cards + 1
  BY DEF AddCard
<1> HIDE DEF new
<1>3. \A c \in deck : c.id # new.id /\ c.of # new.of
  BY <1>1 DEF DeckInv, Of
<1> QED BY <1>1, <1>2, <1>3 DEF DeckInv, Of, Arrivals

LEMMA DeckDismissed ==
  ASSUME DeckInv, NEW c \in deck, DismissCard(c), UNCHANGED <<cards, payload>>
  PROVE  DeckInv' /\ c.of \in Arrivals /\ c.of \in Of(deck) /\ Of(deck') = Of(deck) \ {c.of}
  BY DEF DeckInv, DismissCard, Of, Arrivals

LEMMA StoreSame ==
  ASSUME StoreInv, FileInv, UNCHANGED <<store, ids, file, payload>>
  PROVE  StoreInv' /\ FileInv' /\ Of(store') = Of(store)
  BY DEF StoreInv, FileInv, Of, Arrivals

LEMMA StoreAdded ==
  ASSUME StoreInv, NEW a \in Arrivals, a \notin Of(store), AddEntry(a), UNCHANGED payload
  PROVE  StoreInv' /\ FileInv' /\ Of(store') = Of(store) \cup {a}
<1> DEFINE new == Entry(ids + 1, a)
<1>1. new.id = ids + 1 /\ new.of = a /\ new = Entry(new.id, new.of)
  BY DEF Entry
<1>2. store' = store \cup {new} /\ ids' = ids + 1 /\ file' = store'
  BY DEF AddEntry, SaveStore
<1> HIDE DEF new
<1>3. \A e \in store : e.id # new.id /\ e.of # new.of
  BY <1>1 DEF StoreInv, Of
<1> QED BY <1>1, <1>2, <1>3 DEF StoreInv, FileInv, Of, Arrivals

LEMMA StoreRemoved ==
  ASSUME StoreInv, FileInv, NEW i, RemoveEntry(i), UNCHANGED payload
  PROVE  /\ StoreInv' /\ FileInv'
         /\ \A a : a \in Of(store') <=> \E e \in store : e.of = a /\ e.id # i
  BY DEF StoreInv, FileInv, RemoveEntry, HasId, Ids, SaveStore, Of, Arrivals

LEMMA StoreCleared ==
  ASSUME StoreInv, ClearEntries, UNCHANGED payload
  PROVE  StoreInv' /\ FileInv' /\ Of(store') = {}
  BY DEF StoreInv, FileInv, ClearEntries, SaveStore, Of
-----------------------------------------------------------------------------
(* Who holds an id keeps hold of the right entry: in a step that gives new *)
(* ids to what it adds and a fate to what it takes away.                   *)
HoldsOn == \A i, a : Refers(i, a) => Refers(i, a)'

LEMMA RefersKept ==
  ASSUME StoreInv, StoreInv', ids <= ids', Arrivals \subseteq Arrivals',
         \A e \in store : e \in store' \/ fate'[e.of] # "none",
         \A e \in store' : e \in store \/ e.id > ids,
         \A a \in Arrivals : fate[a] # "none" => fate'[a] # "none"
  PROVE  HoldsOn
<1> SUFFICES ASSUME NEW i, NEW a, Refers(i, a) PROVE Refers(i, a)'
  BY DEF HoldsOn
<1>1. i \in 1..ids' /\ a \in Arrivals' /\ i \in Nat /\ i <= ids
  BY DEF Refers, StoreInv
<1>2. ASSUME Entry(i, a) \notin store' PROVE ~HasId(store', i)
  <2>1. SUFFICES ASSUME NEW e \in store', e.id = i PROVE FALSE
    BY DEF HasId, Ids
  <2>2. e \in store
    BY <1>1, <2>1 DEF StoreInv
  <2>3. Entry(i, a) \in store
    BY <2>1, <2>2 DEF Refers, HasId, Ids
  <2>4. Entry(i, a).id = i
    BY DEF Entry
  <2> QED BY <1>2, <2>1, <2>2, <2>3, <2>4 DEF StoreInv
<1>3. Entry(i, a).of = a
  BY DEF Entry
<1>4. ASSUME Entry(i, a) \notin store' PROVE fate'[a] # "none"
  BY <1>3, <1>4 DEF Refers
<1> QED BY <1>1, <1>2, <1>4 DEF Refers

LEMMA EntryRefers ==
  ASSUME StoreInv PROVE \A e \in store : Refers(e.id, e.of)
  BY DEF StoreInv, Refers

(* A step that moves no notification and takes no entry.                   *)
LEMMA NothingMoves ==
  ASSUME PlacesInv, UNCHANGED <<payload, fate, deck, cards, store, ids, file>>,
         InboxInv', \A a \in Nat : Queued(a)' <=> Queued(a)
  PROVE  PlacesInv' /\ HoldsOn
<1> USE DEF PlacesInv
<1>1. DeckInv' /\ Of(deck') = Of(deck)
  BY DeckSame
<1>2. StoreInv' /\ FileInv' /\ Of(store') = Of(store)
  BY StoreSame
<1>3. FateInv' /\ Arrivals' = Arrivals /\ Arrivals \subseteq Nat
  BY DEF FateInv, Arrivals
<1>4. Accounted'
  BY <1>1, <1>2, <1>3 DEF Accounted, Placed
<1>5. HoldsOn
  BY <1>3 DEF HoldsOn, Refers, HasId, Ids
<1> QED BY <1>1, <1>2, <1>3, <1>4, <1>5

(* A new notification is in the event queue and nowhere else.              *)
LEMMA Arrives ==
  ASSUME Events, PlacesInv, NEW p \in Payloads, NotifyDaemon(p)
  PROVE  PlacesInv' /\ HoldsOn
<1> DEFINE new == Len(payload) + 1
<1> USE DEF PlacesInv
<1>1. /\ UNCHANGED <<fate, deck, cards, store, ids, file>>
      /\ inbox' = Append(inbox, AppEvent("notify", new))
      /\ new \in Nat /\ new \in 1..MaxArrivals /\ new \notin Arrivals
      /\ Arrivals' = Arrivals \cup {new} /\ Arrivals \subseteq Nat
      /\ Len(payload') = new
  BY AppAssumption DEF NotifyDaemon, popupVars, storeVars, Events, Arrivals
<1> HIDE DEF new
<1>2. AppEvent("notify", new).type = "notify" /\ AppEvent("notify", new).about = new
  BY DEF AppEvent
<1>3. /\ \A i \in DOMAIN inbox : i \in DOMAIN inbox' /\ inbox'[i] = inbox[i]
      /\ \A i \in DOMAIN inbox' : i \in DOMAIN inbox
                                  \/ (i = Len(inbox) + 1 /\ inbox'[i] = AppEvent("notify", new))
      /\ \E i \in DOMAIN inbox' : inbox'[i] = AppEvent("notify", new)
  BY <1>1, Sent, EventTypes DEF Events
<1>4. ~Queued(new)
  BY <1>1, <1>2 DEF Queued, InboxInv
<1>5. InboxInv'
  BY <1>1, <1>2, <1>3 DEF InboxInv
<1>6. \A a \in Nat : Queued(a)' <=> Queued(a) \/ a = new
  BY <1>2, <1>3 DEF Queued, AppEvent
<1>7. DeckInv' /\ StoreInv' /\ FileInv'
  BY <1>1 DEF DeckInv, StoreInv, FileInv
<1>8. new \notin Of(deck) /\ new \notin Of(store)
  BY <1>1 DEF DeckInv, StoreInv, Of
<1>9. fate[new] = "none"
  BY <1>1 DEF FateInv, Numbers
<1>10. FateInv'
  BY <1>1, <1>9 DEF FateInv
<1>11. ASSUME NEW a \in Arrivals' PROVE Placed(a)'
  <2>1. CASE a = new
    BY <1>1, <1>6, <1>8, <1>9, <2>1 DEF Placed
  <2>2. CASE a \in Arrivals /\ a # new
    BY <1>1, <1>6, <2>2 DEF Placed, Accounted
  <2> QED BY <1>1, <2>1, <2>2
<1>12. HoldsOn
  BY <1>1, <1>7, RefersKept DEF StoreInv
<1> QED BY <1>5, <1>7, <1>10, <1>11, <1>12 DEF Accounted
(* The loop takes a notification: no more in the queue, it is dropped, or  *)
(* goes to the store or the cards.                                         *)
LEMMA NotificationHandled ==
  ASSUME Events, PlacesInv, inbox # <<>>, inbox' = Tail(inbox), UNCHANGED payload,
         Head(inbox).type = "notify", HandleNotification(Head(inbox).about)
  PROVE  PlacesInv' /\ HoldsOn
<1> DEFINE a == Head(inbox).about
<1> USE DEF PlacesInv
<1>1. Head(inbox) = AppEvent("notify", a)
  <2>1. Head(inbox) \in AppEvents
    BY DEF Events
  <2> QED BY <2>1 DEF AppEvents, AppEvent
<1>2. a \in Arrivals /\ a \in Nat /\ Arrivals' = Arrivals /\ Arrivals \subseteq Nat
  BY Popped, ArrivalsAreNumbers DEF Events, InboxInv, Arrivals
<1> HIDE DEF a
<1>3. InboxInv' /\ \A b \in Nat : Queued(b)' <=> Queued(b) /\ b # a
  <2>1. \A b \in Nat : AppEvent("notify", a) = AppEvent("notify", b) <=> b = a
    BY DEF AppEvent
  <2> QED BY <1>1, <2>1, QueuePopped
<1>4. Queued(a)
  BY <1>1, Popped DEF Queued, Events
<1>5. a \notin Of(deck) /\ a \notin Of(store) /\ fate[a] = "none"
  BY <1>2, <1>4 DEF Accounted, Placed
<1>6. CASE fate' = Decide({a}, "dropped") /\ UNCHANGED <<popupVars, storeVars>>
  <2>1. DeckInv' /\ Of(deck') = Of(deck)
    BY <1>6, DeckSame DEF popupVars
  <2>2. StoreInv' /\ FileInv' /\ Of(store') = Of(store)
    BY <1>6, StoreSame DEF storeVars
  <2>3. FateInv' /\ \A b \in Arrivals : fate'[b] = "none" <=> fate[b] = "none" /\ b # a
    BY <1>2, <1>6, Decided DEF Fates
  <2>4. Accounted'
    BY <1>2, <1>3, <1>5, <2>1, <2>2, <2>3 DEF Accounted, Placed
  <2>5. HoldsOn
    <3>1. store' = store /\ ids' = ids /\ ids <= ids'
      BY <1>6 DEF storeVars, StoreInv
    <3>2. \A b \in Arrivals : fate[b] # "none" => fate'[b] # "none"
      BY <2>3
    <3> QED BY <1>2, <2>2, <3>1, <3>2, RefersKept
  <2> QED BY <1>3, <2>1, <2>2, <2>3, <2>4, <2>5
<1>7. CASE AddEntry(a) /\ UNCHANGED <<popupVars, fate>>
  <2>1. DeckInv' /\ Of(deck') = Of(deck)
    BY <1>7, DeckSame DEF popupVars
  <2>2. StoreInv' /\ FileInv' /\ Of(store') = Of(store) \cup {a}
    BY <1>2, <1>5, <1>7, StoreAdded
  <2>3. FateInv'
    BY <1>2, <1>7 DEF FateInv, Arrivals
  <2>4. Accounted'
    BY <1>2, <1>3, <1>4, <1>5, <1>7, <2>1, <2>2 DEF Accounted, Placed
  <2>5. ids <= ids' /\ store \subseteq store' /\ \A e \in store' : e \in store \/ e.id > ids
    BY <1>7 DEF AddEntry, StoreInv, Entry
  <2>6. HoldsOn
    BY <1>2, <1>7, <2>2, <2>5, RefersKept
  <2> QED BY <1>3, <2>1, <2>2, <2>3, <2>4, <2>6
<1>8. CASE AddCard(a) /\ UNCHANGED <<storeVars, fate>>
  <2>1. DeckInv' /\ Of(deck') = Of(deck) \cup {a}
    BY <1>2, <1>5, <1>8, DeckAdded
  <2>2. StoreInv' /\ FileInv' /\ Of(store') = Of(store)
    BY <1>8, StoreSame DEF storeVars
  <2>3. FateInv'
    BY <1>2, <1>8 DEF FateInv, Arrivals
  <2>4. Accounted'
    BY <1>2, <1>3, <1>4, <1>5, <1>8, <2>1, <2>2 DEF Accounted, Placed
  <2>5. HoldsOn
    BY <1>2, <1>8, <2>2, RefersKept DEF storeVars, StoreInv
  <2> QED BY <1>3, <2>1, <2>2, <2>3, <2>4, <2>5
<1>9. HandleNotification(a)
  BY DEF a
<1> QED BY <1>6, <1>7, <1>8, <1>9 DEF HandleNotification

(* A card is dismissed for good.                                           *)
LEMMA CardLeaves ==
  ASSUME Events, PlacesInv, NEW c \in deck, DismissCard(c),
         NEW f \in Fates \ {"none"}, fate' = Decide({c.of}, f),
         UNCHANGED <<payload, cards, store, ids, file>>,
         InboxInv', \A a \in Nat : Queued(a)' <=> Queued(a)
  PROVE  PlacesInv' /\ HoldsOn
<1> USE DEF PlacesInv
<1>1. /\ DeckInv' /\ c.of \in Arrivals /\ c.of \in Of(deck)
      /\ Of(deck') = Of(deck) \ {c.of}
  BY DeckDismissed
<1>2. StoreInv' /\ FileInv' /\ Of(store') = Of(store)
  BY StoreSame
<1>3. FateInv' /\ \A a \in Arrivals : fate'[a] = "none" <=> fate[a] = "none" /\ a # c.of
  BY <1>1, Decided
<1>4. Arrivals' = Arrivals /\ Arrivals \subseteq Nat
  BY DEF Arrivals
<1>5. Accounted'
  BY <1>1, <1>2, <1>3, <1>4 DEF Accounted, Placed
<1>6. HoldsOn
  <2>1. ids <= ids' /\ store' = store
    BY DEF StoreInv
  <2>2. \A a \in Arrivals : fate[a] # "none" => fate'[a] # "none"
    BY <1>3
  <2>3. StoreInv /\ StoreInv' /\ Arrivals \subseteq Arrivals'
    BY <1>2, <1>4
  <2> QED BY ONLY <2>1, <2>2, <2>3, RefersKept
<1> QED BY <1>1, <1>2, <1>3, <1>5, <1>6

(* Who removes the entry it refers to, or finds it gone, hits no other.    *)
LEMMA EntryLeaves ==
  ASSUME Events, PlacesInv, NEW i, NEW a, Refers(i, a), RemoveEntry(i),
         NEW f \in Fates \ {"none"}, fate' = Decide({a}, f),
         UNCHANGED <<payload, deck, cards>>,
         InboxInv', \A b \in Nat : Queued(b)' <=> Queued(b)
  PROVE  PlacesInv' /\ HoldsOn
<1> USE DEF PlacesInv
<1>1. DeckInv' /\ Of(deck') = Of(deck)
  BY DeckSame
<1>2. a \in Arrivals /\ Arrivals' = Arrivals /\ Arrivals \subseteq Nat
  BY DEF Refers, Arrivals
<1>3. FateInv' /\ \A b \in Arrivals : fate'[b] = "none" <=> fate[b] = "none" /\ b # a
  BY <1>2, Decided
<1>4. /\ StoreInv' /\ FileInv'
      /\ \A b : b \in Of(store') <=> \E e \in store : e.of = b /\ e.id # i
  BY StoreRemoved
<1>5. ids' = ids /\ store' = {e \in store : e.id # i}
  BY DEF RemoveEntry
<1>6. CASE Entry(i, a) \in store
  <2>1. Entry(i, a).id = i /\ Entry(i, a).of = a
    BY DEF Entry
  <2>2. \A e \in store : e.id = i <=> e.of = a
    BY <1>6, <2>1 DEF StoreInv
  <2>3. a \in Of(store) /\ \A b : b \in Of(store') <=> b \in Of(store) /\ b # a
    <3>1. \A b : b \in Of(store') <=> \E e \in store : e.of = b /\ e.of # a
      BY <1>4, <2>2
    <3>2. \A b : b \in Of(store) <=> \E e \in store : e.of = b
      BY DEF Of
    <3>3. a \in Of(store)
      BY <1>6, <2>1, <3>2
    <3> QED BY <3>1, <3>2, <3>3
  <2>4. Accounted'
    BY <1>1, <1>2, <1>3, <2>3 DEF Accounted, Placed
  <2>5. \A e \in store : e \in store' \/ fate'[e.of] # "none"
    BY <1>2, <1>3, <1>5, <2>2
  <2>6. ids <= ids' /\ store' \subseteq store
    BY <1>5 DEF StoreInv
  <2>7. HoldsOn
    BY <1>2, <1>3, <1>4, <2>5, <2>6, RefersKept
  <2> QED BY <1>1, <1>3, <1>4, <2>4, <2>7
<1>7. CASE ~HasId(store, i) /\ fate[a] # "none"
  <2>1. store' = store
    BY <1>5, <1>7 DEF HasId, Ids
  <2>2. \A b \in Arrivals : fate'[b] = "none" <=> fate[b] = "none"
    BY <1>3, <1>7
  <2>3. Accounted'
    BY <1>1, <1>2, <2>1, <2>2 DEF Accounted, Placed
  <2>4. ids <= ids'
    BY <1>5 DEF StoreInv
  <2>5. HoldsOn
    BY <1>2, <1>4, <2>1, <2>2, <2>4, RefersKept
  <2> QED BY <1>1, <1>3, <1>4, <2>3, <2>5
<1> QED BY <1>6, <1>7 DEF Refers

(* The whole store is cleared.                                             *)
LEMMA AllEntriesLeave ==
  ASSUME Events, PlacesInv, ClearEntries, fate' = Decide(Of(store), "cleared"),
         UNCHANGED <<payload, deck, cards>>,
         InboxInv', \A a \in Nat : Queued(a)' <=> Queued(a)
  PROVE  PlacesInv' /\ HoldsOn
<1> USE DEF PlacesInv
<1>1. DeckInv' /\ Of(deck') = Of(deck)
  BY DeckSame
<1>2. StoreInv' /\ FileInv' /\ Of(store') = {} /\ store' = {} /\ ids' = ids
  BY StoreCleared DEF ClearEntries
<1>3. Arrivals' = Arrivals /\ Arrivals \subseteq Nat /\ Of(store) \subseteq Arrivals
  BY DEF Arrivals, StoreInv, Of
<1>4. FateInv' /\ \A a \in Arrivals : fate'[a] = "none" <=> fate[a] = "none" /\ a \notin Of(store)
  BY <1>3, Decided DEF Fates
<1>5. Accounted'
  BY <1>1, <1>2, <1>3, <1>4 DEF Accounted, Placed
<1>6. \A e \in store : e.of \in Of(store)
  BY DEF Of
<1>7. HoldsOn
  <2>1. ids <= ids'
    BY <1>2 DEF StoreInv
  <2>2. \A e \in store : fate'[e.of] # "none"
    BY <1>3, <1>4, <1>6
  <2>3. \A a \in Arrivals : fate[a] # "none" => fate'[a] # "none"
    BY <1>4
  <2> QED BY <1>2, <1>3, <2>1, <2>2, <2>3, RefersKept
<1> QED BY <1>1, <1>2, <1>4, <1>5, <1>7
-----------------------------------------------------------------------------
(* Rendering: the cards whose time is up leave, some of them to the store. *)

LEMMA StoreAddedAll ==
  ASSUME StoreInv, FileInv, UNCHANGED payload,
         NEW cs, NEW n \in Nat, AddAll(cs),
         \A c \in cs : c.id \in 1..n /\ c.of \in Arrivals /\ c.of \notin Of(store),
         \A c, d \in cs : c.id = d.id \/ c.of = d.of => c = d
  PROVE  /\ StoreInv' /\ FileInv' /\ Of(store') = Of(store) \cup Of(cs)
         /\ ids <= ids' /\ store \subseteq store'
         /\ \A e \in store' : e \in store \/ e.id > ids
<1> DEFINE E(c) == Entry(ids + Nth(c, cs), c.of)
<1>1. IsFiniteSet(cs) /\ \A c \in cs : c.id \in Nat
  BY FiniteById
<1>2. /\ Cardinality(cs) \in Nat
      /\ \A c \in cs : Nth(c, cs) \in 1..Cardinality(cs)
      /\ \A c, d \in cs : Nth(c, cs) = Nth(d, cs) => c = d
  BY <1>1, NthNumbers
<1>3. /\ store' = store \cup {E(c) : c \in cs} /\ ids' = ids + Cardinality(cs)
      /\ file' = store' \/ (cs = {} /\ file' = file)
  BY DEF AddAll, SaveStore
<1>4. \A c \in cs : /\ E(c).id = ids + Nth(c, cs) /\ E(c).of = c.of
                    /\ E(c) = Entry(E(c).id, E(c).of)
  BY DEF Entry
<1> HIDE DEF E
<1>5. \A c \in cs : E(c).id \in 1..ids' /\ E(c).id > ids /\ E(c).of \in Arrivals
  BY <1>2, <1>3, <1>4 DEF StoreInv
<1>6. \A c, d \in cs : E(c).id = E(d).id \/ E(c).of = E(d).of => c = d
  BY <1>2, <1>4 DEF StoreInv
<1>7. \A e \in store : e.id \in 1..ids' /\ e.id <= ids
  BY <1>2, <1>3 DEF StoreInv
<1>8. \A e \in store, c \in cs : e.id # E(c).id /\ e.of # E(c).of
  BY <1>4, <1>5, <1>7 DEF Of, StoreInv
<1>9. ids' \in Nat /\ ids <= ids' /\ Arrivals' = Arrivals
  BY <1>2, <1>3 DEF StoreInv, Arrivals
<1>10. \A e, f \in store' : e.id = f.id \/ e.of = f.of => e = f
  BY <1>3, <1>6, <1>8 DEF StoreInv
<1>11. \A e \in store' : e = Entry(e.id, e.of) /\ e.id \in 1..ids' /\ e.of \in Arrivals'
  BY <1>3, <1>4, <1>5, <1>7, <1>9 DEF StoreInv
<1>12. StoreInv'
  BY <1>9, <1>10, <1>11 DEF StoreInv
<1>13. FileInv'
  BY <1>3 DEF FileInv
<1>14. Of(store') = Of(store) \cup Of(cs)
  BY <1>3, <1>4 DEF Of
<1> QED BY <1>3, <1>5, <1>9, <1>12, <1>13, <1>14

LEMMA PopupRendered ==
  ASSUME Events, PlacesInv, RenderPopup
  PROVE  PlacesInv' /\ HoldsOn
<1> DEFINE S(c) == IF First(c, deck) THEN [c EXCEPT !.expanded = NextSwell > 0] ELSE c
           synced == {S(c) : c \in deck}
           gone == {c \in synced : Expired(c)}
           kept == {c \in gone : payload[c.of].keep}
<1> USE DEF PlacesInv
<1>1. /\ deck' = synced \ gone /\ fate' = Decide(Of(gone \ kept), "expired")
      /\ AddAll(kept) /\ UNCHANGED <<inbox, payload, cards>>
  BY DEF RenderPopup
<1>2. \A c \in deck : /\ S(c).id = c.id /\ S(c).of = c.of
                      /\ S(c) = [id |-> S(c).id, of |-> S(c).of, expanded |-> S(c).expanded]
  BY DEF DeckInv
<1> HIDE DEF S
<1>3. /\ \A c \in synced : /\ c = [id |-> c.id, of |-> c.of, expanded |-> c.expanded]
                           /\ c.id \in 1..cards /\ c.of \in Arrivals
      /\ \A c, d \in synced : c.id = d.id \/ c.of = d.of => c = d
  BY <1>2 DEF DeckInv
<1>4. Of(synced) = Of(deck)
  BY <1>2 DEF Of
<1>5. gone \subseteq synced /\ kept \subseteq gone
  OBVIOUS
<1> HIDE DEF synced, gone, kept
<1>6. Arrivals' = Arrivals /\ Arrivals \subseteq Nat
  BY <1>1 DEF Arrivals
<1>7. DeckInv'
  BY <1>1, <1>3, <1>6 DEF DeckInv
<1>8. \A a : a \in Of(deck') <=> a \in Of(deck) /\ a \notin Of(gone)
  BY <1>1, <1>3, <1>4, <1>5 DEF Of
<1>9. \A a : a \in Of(gone) <=> a \in Of(kept) \/ a \in Of(gone \ kept)
  BY <1>5 DEF Of
<1>10. ~ \E a : a \in Of(kept) /\ a \in Of(gone \ kept)
  BY <1>3, <1>5 DEF Of
<1>11. Of(gone) \subseteq Of(deck) /\ Of(gone) \subseteq Arrivals
  BY <1>3, <1>4, <1>5 DEF Of
<1>12. \A c \in kept : c.id \in 1..cards /\ c.of \in Arrivals /\ c.of \notin Of(store)
  <2>1. \A c \in kept : c.of \in Of(deck)
    BY <1>4, <1>5 DEF Of
  <2> QED BY <1>3, <1>5, <2>1 DEF Accounted, Placed
<1>13. \A c, d \in kept : c.id = d.id \/ c.of = d.of => c = d
  BY <1>3, <1>5
<1>14. /\ StoreInv' /\ FileInv' /\ Of(store') = Of(store) \cup Of(kept)
       /\ ids <= ids' /\ store \subseteq store'
       /\ \A e \in store' : e \in store \/ e.id > ids
  BY <1>1, <1>12, <1>13, StoreAddedAll DEF DeckInv
<1>15. FateInv' /\ \A a \in Arrivals : fate'[a] = "none"
                                        <=> fate[a] = "none" /\ a \notin Of(gone \ kept)
  BY <1>1, <1>9, <1>11, Decided DEF Fates
<1>16. InboxInv' /\ \A a \in Nat : Queued(a)' <=> Queued(a)
  BY <1>1, QueueSame
<1>17. ASSUME NEW a \in Arrivals PROVE Placed(a)'
  BY <1>6, <1>8, <1>9, <1>10, <1>11, <1>14, <1>15, <1>16 DEF Accounted, Placed
<1>18. HoldsOn
  BY <1>6, <1>14, <1>15, RefersKept
<1> QED BY <1>6, <1>7, <1>14, <1>15, <1>16, <1>17, <1>18 DEF Accounted

(* The daemon comes back with what its file holds.                         *)
LEMMA Restarted ==
  ASSUME Events, PlacesInv, KillAndStart
  PROVE  PlacesInv'
<1> USE DEF PlacesInv
<1>1. /\ inbox' = <<>> /\ deck' = {} /\ cards' = 0 /\ UNCHANGED payload
      /\ file' \in {file, Torn} /\ store' = (IF file' = Torn THEN {} ELSE file')
      /\ ids' \in {i \in {0} \cup Ids(store') : \A j \in Ids(store') : j <= i}
      /\ fate' = Decide(Arrivals \ Of(store'), "lost")
  BY DEF KillAndStart
<1>2. store' \in {{}, store} /\ FileInv'
  BY <1>1 DEF FileInv
<1>3. Arrivals' = Arrivals /\ Arrivals \subseteq Nat
  BY <1>1 DEF Arrivals
<1>4. InboxInv' /\ \A a : ~Queued(a)'
  BY <1>1 DEF InboxInv, Queued
<1>5. DeckInv' /\ Of(deck') = {}
  BY <1>1 DEF DeckInv, Of
<1>6. StoreInv'
  <2>1. ids' \in Nat
    BY <1>1, <1>2 DEF StoreInv, Ids
  <2>2. \A e \in store' : e.id <= ids'
    BY <1>1 DEF Ids
  <2> QED BY <1>2, <1>3, <2>1, <2>2 DEF StoreInv
<1>7. FateInv' /\ \A a \in Arrivals : fate'[a] = "none" <=> fate[a] = "none" /\ a \in Of(store')
  <2> DEFINE lost == Arrivals \ Of(store')
  <2>1. lost \subseteq Arrivals /\ \A a \in Arrivals : a \in lost <=> a \notin Of(store')
    OBVIOUS
  <2>2. fate' = Decide(lost, "lost") /\ "lost" \in Fates \ {"none"}
    BY <1>1 DEF Fates
  <2> HIDE DEF lost
  <2> QED BY <1>1, <2>1, <2>2, Decided
<1>8. \A a \in Of(store') : a \in Of(store)
  BY <1>2 DEF Of
<1>9. Accounted'
  BY <1>3, <1>4, <1>5, <1>7, <1>8 DEF Accounted, Placed
<1> QED BY <1>2, <1>4, <1>5, <1>6, <1>7, <1>9
-----------------------------------------------------------------------------
(* Every step keeps every notification in its one place.                   *)
LEMMA PlacesInit == AppInit => PlacesInv /\ RefsInv
  BY AppAssumption DEF AppInit, PlacesInv, InboxInv, DeckInv, StoreInv, FileInv, FateInv,
     Accounted, RefsInv, Arrivals, Numbers, Fates, Closed

LEMMA UserEventKeeps ==
  ASSUME AppInv, UserEvent
  PROVE  PlacesInv' /\ HoldsOn
<1> USE DEF AppInv
<1>1. inbox # <<>> /\ inbox' = Tail(inbox) /\ UNCHANGED payload
  BY DEF UserEvent
<1>2. CASE Head(inbox).type = "notify" /\ HandleNotification(Head(inbox).about)
  BY <1>1, <1>2, NotificationHandled
<1>3. CASE Head(inbox).type # "notify"
  <2>1. \A a \in Nat : Head(inbox) # AppEvent("notify", a)
    BY <1>3 DEF AppEvent
  <2>2. InboxInv' /\ \A a \in Nat : Queued(a)' <=> Queued(a)
    BY <1>1, <2>1, QueuePopped DEF PlacesInv
  <2>3. CASE HandleEnded(Head(inbox).about)
    <3>1. CASE UNCHANGED <<popupVars, storeVars, fate>>
      BY <1>1, <2>2, <3>1, NothingMoves DEF popupVars, storeVars
    <3>2. CASE \E c \in deck : /\ DismissCard(c) /\ fate' = Decide({c.of}, "ended")
                               /\ UNCHANGED <<cards, storeVars>>
      <4>1. "ended" \in Fates \ {"none"}
        BY DEF Fates
      <4> QED BY <1>1, <2>2, <3>2, <4>1, CardLeaves DEF storeVars
    <3> QED BY <2>3, <3>1, <3>2 DEF HandleEnded
  <2>4. CASE UNCHANGED <<popupVars, storeVars, fate>>
    BY <1>1, <2>2, <2>4, NothingMoves DEF popupVars, storeVars
  <2> QED BY <1>3, <2>3, <2>4 DEF UserEvent
<1> QED BY <1>2, <1>3 DEF UserEvent

LEMMA ClickCenterKeeps ==
  ASSUME AppInv, ClickCenter
  PROVE  PlacesInv' /\ HoldsOn
<1> USE DEF AppInv
<1>1. UNCHANGED <<inbox, payload, deck, cards>>
  BY DEF ClickCenter, popupVars
<1>2. InboxInv' /\ \A a \in Nat : Queued(a)' <=> Queued(a)
  BY <1>1, QueueSame DEF PlacesInv
<1>3. "removed" \in Fates \ {"none"}
  BY DEF Fates
<1>4. ASSUME panel.aim[1] \in {"card", "button"},
             RemoveEntry(panel.aim[2]), fate' = Decide({panel.aim[3]}, "removed")
      PROVE  PlacesInv' /\ HoldsOn
  BY <1>1, <1>2, <1>3, <1>4, EntryLeaves DEF RefsInv
<1>5. CASE ClearEntries /\ fate' = Decide(Of(store), "cleared")
  BY <1>1, <1>2, <1>5, AllEntriesLeave
<1>6. CASE UNCHANGED <<storeVars, fate>>
  BY <1>1, <1>2, <1>6, NothingMoves DEF storeVars
<1>7. CASE panel.aim[1] = "button" /\ PressButton(panel.aim[2])
  BY <1>4, <1>6, <1>7 DEF PressButton, storeVars
<1>8. CASE panel.aim[1] = "card" /\ RemoveEntry(panel.aim[2])
           /\ fate' = Decide({panel.aim[3]}, "removed")
  BY <1>4, <1>8
<1> QED BY <1>5, <1>6, <1>7, <1>8 DEF ClickCenter

LEMMA PlacesStep ==
  ASSUME AppInv, [AppNext]_appVars
  PROVE  PlacesInv' /\ (HoldsOn \/ KillAndStart)
<1> USE DEF AppInv
<1>1. ASSUME UNCHANGED <<payload, fate, popupVars, storeVars>>,
             \/ UNCHANGED inbox
             \/ \E e \in AppEvents : e.type # "notify" /\ inbox' = Append(inbox, e)
      PROVE  PlacesInv' /\ HoldsOn
  <2>1. InboxInv' /\ \A a \in Nat : Queued(a)' <=> Queued(a)
    BY <1>1, QueueSame, QueueSent DEF PlacesInv
  <2> QED BY <1>1, <2>1, NothingMoves DEF popupVars, storeVars
<1>2. Dirty \in AppEvents /\ Dirty.type # "notify"
  BY EventTypes DEF Dirty, AppEvent
<1>3. CASE ClickPopup
  <2>1. "clicked" \in Fates \ {"none"}
    BY DEF Fates
  <2>2. InboxInv' /\ \A a \in Nat : Queued(a)' <=> Queued(a)
    BY <1>3, QueueSame DEF ClickPopup, PlacesInv
  <2> QED BY <1>3, <2>1, <2>2, CardLeaves DEF ClickPopup, storeVars
<1>4. ASSUME NEW t \in tasks, ActionAnswered(t) PROVE PlacesInv' /\ HoldsOn
  <2>1. UNCHANGED <<inbox, payload, deck, cards>>
    BY <1>4 DEF ActionAnswered, popupVars
  <2>2. CASE RemoveEntry(t.id) /\ fate' = Decide({t.of}, "removed")
    <3>1. InboxInv' /\ \A a \in Nat : Queued(a)' <=> Queued(a)
      BY <2>1, QueueSame DEF PlacesInv
    <3>2. Refers(t.id, t.of) /\ "removed" \in Fates \ {"none"}
      BY DEF RefsInv, Fates
    <3> QED BY <2>1, <2>2, <3>1, <3>2, EntryLeaves
  <2>3. CASE UNCHANGED <<storeVars, fate>>
    BY <1>1, <1>4, <2>3 DEF ActionAnswered
  <2> QED BY <1>4, <2>2, <2>3 DEF ActionAnswered
<1>5. ASSUME NEW t \in tasks, ActionReports(t) PROVE PlacesInv' /\ HoldsOn
  BY <1>1, <1>2, <1>5 DEF ActionReports
<1>6. ASSUME NEW s \in ServerIds, EndedLocally(s) PROVE PlacesInv' /\ HoldsOn
  <2>1. AppEvent("ended", s) \in AppEvents /\ AppEvent("ended", s).type # "notify"
    BY EventTypes DEF AppEvent
  <2> QED BY <1>1, <1>6, <2>1 DEF EndedLocally
<1>7. CASE ClickTray
  <2>1. AppEvent("toggle", 0) \in AppEvents /\ AppEvent("toggle", 0).type # "notify"
    BY EventTypes DEF AppEvent
  <2> QED BY <1>1, <1>7, <2>1 DEF ClickTray
<1>8. ASSUME NEW e \in listed, CenterDismiss(e) PROVE PlacesInv' /\ HoldsOn
  <2>1. UNCHANGED <<payload, deck, cards>> /\ RemoveEntry(e.id) /\ fate' = Decide({e.of}, "removed")
    BY <1>8 DEF CenterDismiss, popupVars
  <2>2. InboxInv' /\ \A a \in Nat : Queued(a)' <=> Queued(a)
    BY <1>2, <1>8, QueueSame, QueueSent DEF CenterDismiss, PlacesInv
  <2>3. Refers(e.id, e.of) /\ "removed" \in Fates \ {"none"}
    BY DEF RefsInv, Fates
  <2> QED BY <2>1, <2>2, <2>3, EntryLeaves
<1>9. CASE CenterClear
  <2>1. UNCHANGED <<payload, deck, cards>> /\ ClearEntries /\ fate' = Decide(Of(store), "cleared")
    BY <1>9 DEF CenterClear, popupVars
  <2>2. InboxInv' /\ \A a \in Nat : Queued(a)' <=> Queued(a)
    BY <1>2, <1>9, QueueSent DEF CenterClear, PlacesInv
  <2> QED BY <2>1, <2>2, AllEntriesLeave
<1>10. CASE \/ CursorMoved \/ TimePasses \/ \E last \in BOOLEAN : RenderCenter(last)
            \/ FocusLost \/ CenterList \/ UNCHANGED appVars
            \/ \E s \in ServerIds : EndedRemotely(s)
  <2>1. UNCHANGED <<inbox, payload, fate, deck, cards, storeVars>>
    BY <1>10 DEF CursorMoved, TimePasses, RenderCenter, FocusLost, CenterList, appVars,
                 EndedRemotely, popupVars
  <2>2. InboxInv' /\ \A a \in Nat : Queued(a)' <=> Queued(a)
    BY <2>1, QueueSame DEF PlacesInv
  <2> QED BY <2>1, <2>2, NothingMoves DEF storeVars
<1>11. CASE UserEvent
  BY <1>11, UserEventKeeps
<1>12. CASE ClickCenter
  BY <1>12, ClickCenterKeeps
<1>13. CASE RenderPopup
  BY <1>13, PopupRendered
<1>14. CASE \E p \in Payloads : NotifyDaemon(p)
  BY <1>14, Arrives
<1>15. CASE KillAndStart
  BY <1>15, Restarted
<1> QED BY <1>3, <1>4, <1>5, <1>6, <1>7, <1>8, <1>9, <1>10, <1>11, <1>12, <1>13, <1>14, <1>15
        DEF AppNext

(* What the cursor rests on is left alone, or read from the store.         *)
LEMMA PanelStep ==
  ASSUME RefsInv, [AppNext]_appVars
  PROVE  /\ (panel = [life |-> panel.life, sliding |-> panel.sliding, aim |-> panel.aim])'
         /\ \/ UNCHANGED panel.aim
            \/ panel'.aim[1] \notin {"card", "button"}
            \/ \E e \in store : panel'.aim[2] = e.id /\ panel'.aim[3] = e.of
<1>1. CASE UNCHANGED panel
  BY <1>1 DEF RefsInv
<1>2. CASE panel' = Closed
  BY <1>2 DEF Closed
<1>3. CASE ToggleCenter
  <2>1. \/ panel' = [Closed EXCEPT !.life = "open", !.sliding = TRUE]
        \/ panel' = [panel EXCEPT !.life = "closing", !.sliding = TRUE]
        \/ panel' = panel
    BY <1>3 DEF ToggleCenter
  <2>3. CASE panel' = [Closed EXCEPT !.life = "open", !.sliding = TRUE]
    BY <2>3 DEF Closed
  <2>4. CASE panel' = [panel EXCEPT !.life = "closing", !.sliding = TRUE]
    BY <2>4 DEF RefsInv
  <2> QED BY <1>1, <2>1, <2>3, <2>4
<1>4. CASE StartClosing
  <2> DEFINE slides == panel.sliding \/ panel.life = "open"
  <2>1. panel' = [panel EXCEPT !.life = "closing", !.sliding = slides]
    BY <1>4, Zenon DEF StartClosing
  <2> HIDE DEF slides
  <2>2. (panel = [life |-> panel.life, sliding |-> panel.sliding, aim |-> panel.aim])'
        /\ panel'.aim = panel.aim
    BY <2>1 DEF RefsInv
  <2> QED BY <2>2
<1>5. CASE \E last \in BOOLEAN, a \in Aims :
             panel' = [panel EXCEPT !.sliding = @ /\ ~last, !.aim = a]
  <2> PICK last \in BOOLEAN, a \in Aims :
             panel' = [panel EXCEPT !.sliding = @ /\ ~last, !.aim = a]
    BY <1>5
  <2> DEFINE slides == panel.sliding /\ ~last
  <2>1. panel' = [panel EXCEPT !.sliding = slides, !.aim = a]
    BY Zenon
  <2>2. a[1] \in {"card", "button"} => \E e \in store : a[2] = e.id /\ a[3] = e.of
    BY DEF Aims
  <2> HIDE DEF slides
  <2>3. (panel = [life |-> panel.life, sliding |-> panel.sliding, aim |-> panel.aim])'
        /\ panel'.aim = a
    BY <2>1 DEF RefsInv
  <2> QED BY <2>2, <2>3
<1>6. \/ UNCHANGED panel \/ panel' = Closed \/ ToggleCenter \/ StartClosing
      \/ \E last \in BOOLEAN, a \in Aims :
           panel' = [panel EXCEPT !.sliding = @ /\ ~last, !.aim = a]
  <2>1. \/ UNCHANGED panel \/ panel' = Closed \/ ToggleCenter \/ StartClosing
        \/ \E last \in BOOLEAN : RenderCenter(last)
    BY DEF AppNext, appVars, UserEvent, RenderPopup, CursorMoved, ClickPopup, TimePasses,
           ClickCenter, FocusLost, ActionAnswered, ActionReports, NotifyDaemon,
           EndedLocally, EndedRemotely, ClickTray, CenterList, CenterClear, CenterDismiss,
           KillAndStart
  <2> QED BY <2>1, Zenon DEF RenderCenter
<1> QED BY <1>1, <1>2, <1>3, <1>4, <1>5, <1>6

(* Every id that is handed out refers to an entry of the store.            *)
LEMMA RefsStep ==
  ASSUME AppInv, [AppNext]_appVars
  PROVE  RefsInv'
<1> USE DEF AppInv
<1>1. CASE KillAndStart
  BY <1>1 DEF KillAndStart, RefsInv, Closed
<1>2. CASE HoldsOn
  <2>1. \A e \in store : Refers(e.id, e.of)'
    BY <1>2, EntryRefers DEF PlacesInv, HoldsOn
  <2>2. \A e \in store : e = Entry(e.id, e.of)
    BY DEF PlacesInv, StoreInv
  <2>3. ASSUME NEW e \in listed' PROVE e = Entry(e.id, e.of) /\ Refers(e.id, e.of)'
    <3>1. e \in listed \/ e \in store
      BY DEF AppNext, appVars, UserEvent, RenderPopup, CursorMoved, ClickPopup, TimePasses,
             RenderCenter, ClickCenter, FocusLost, ActionAnswered, ActionReports, NotifyDaemon,
             EndedLocally, EndedRemotely, ClickTray, CenterList, CenterClear, CenterDismiss,
             KillAndStart, boundVars
    <3> QED BY <1>2, <2>1, <2>2, <3>1 DEF HoldsOn, RefsInv
  <2>4. ASSUME NEW t \in tasks' PROVE Refers(t.id, t.of)'
    <3>1. CASE t \in tasks
      BY <1>2, <3>1 DEF HoldsOn, RefsInv
    <3>2. CASE \E u \in tasks : ActionAnswered(u)
      <4>1. t \in tasks \/ \E u \in tasks : t = [u EXCEPT !.stage = "removed"]
        BY <3>2 DEF ActionAnswered
      <4>2. \E u \in tasks : t.id = u.id /\ t.of = u.of
        BY <4>1 DEF Events
      <4> QED BY <1>2, <4>2 DEF HoldsOn, RefsInv
    <3>3. CASE ClickCenter
      <4>1. \/ t \in tasks
            \/ panel.aim[1] = "button" /\ t.id = panel.aim[2] /\ t.of = panel.aim[3]
        BY <3>3 DEF ClickCenter, PressButton
      <4> QED BY <1>2, <4>1 DEF HoldsOn, RefsInv
    <3>4. tasks' \subseteq tasks \/ ClickCenter \/ \E u \in tasks : ActionAnswered(u)
      BY DEF AppNext, appVars, UserEvent, RenderPopup, CursorMoved, ClickPopup, TimePasses,
             RenderCenter, FocusLost, ActionReports, NotifyDaemon, EndedLocally, EndedRemotely,
             ClickTray, CenterList, CenterClear, CenterDismiss, KillAndStart
    <3> QED BY <3>1, <3>2, <3>3, <3>4
  <2>5. (panel = [life |-> panel.life, sliding |-> panel.sliding, aim |-> panel.aim])'
    BY PanelStep
  <2>6. \/ UNCHANGED panel.aim
        \/ panel'.aim[1] \notin {"card", "button"}
        \/ \E e \in store : panel'.aim[2] = e.id /\ panel'.aim[3] = e.of
    BY PanelStep
  <2>7. (panel.aim[1] \in {"card", "button"} => Refers(panel.aim[2], panel.aim[3]))'
    BY <1>2, <2>1, <2>6 DEF HoldsOn, RefsInv
  <2> QED BY <2>3, <2>4, <2>5, <2>7 DEF RefsInv
<1> QED BY <1>1, <1>2, PlacesStep

LEMMA AppInvHolds == AppSafety => []AppInv
<1>1. AppInit => AppInv
  BY EventsInit, PlacesInit DEF AppInv
<1>2. AppInv /\ [AppNext]_appVars => AppInv'
  BY EventsStep, PlacesStep, RefsStep DEF AppInv
<1> QED BY <1>1, <1>2, PTL DEF AppSafety

LEMMA OnePlace == AppInv => EachInOnePlace
<1> SUFFICES ASSUME AppInv, NEW a \in Arrivals
             PROVE  Cardinality({i \in DOMAIN inbox : inbox[i] = AppEvent("notify", a)})
                      + Cardinality({c \in deck : c.of = a})
                      + Cardinality({e \in store : e.of = a})
                    = IF fate[a] = "none" THEN 1 ELSE 0
  BY DEF EachInOnePlace
<1> DEFINE Q == {i \in DOMAIN inbox : inbox[i] = AppEvent("notify", a)}
           D == {c \in deck : c.of = a}
           E == {e \in store : e.of = a}
<1> USE DEF AppInv, PlacesInv
<1>1. AppEvent("notify", a).type = "notify"
  BY DEF AppEvent
<1>2. \A i, j \in Q : i = j
  BY <1>1 DEF InboxInv
<1>3. \A c, d \in D : c = d
  BY DEF DeckInv
<1>4. \A e, f \in E : e = f
  BY DEF StoreInv
<1>5. (Q # {} <=> Queued(a)) /\ (D # {} <=> a \in Of(deck)) /\ (E # {} <=> a \in Of(store))
  BY DEF Queued, Of
<1>6. Placed(a)
  BY DEF Accounted
<1> HIDE DEF Q, D, E
<1>7. /\ Cardinality(Q) = IF Queued(a) THEN 1 ELSE 0
      /\ Cardinality(D) = IF a \in Of(deck) THEN 1 ELSE 0
      /\ Cardinality(E) = IF a \in Of(store) THEN 1 ELSE 0
  BY <1>2, <1>3, <1>4, <1>5, AtMostOne
<1>8. Cardinality(Q) + Cardinality(D) + Cardinality(E) = IF fate[a] = "none" THEN 1 ELSE 0
  BY <1>6, <1>7 DEF Placed
<1> QED BY <1>8 DEF Q, D, E

(* No notification is lost, shown twice or brought back: it is in one      *)
(* place until somebody decided it, and in none afterwards, whichever      *)
(* clicks, requests, deletions and kills cross each other.                 *)
THEOREM NothingIsLost == AppSafety => []EachInOnePlace
  BY AppInvHolds, OnePlace, PTL
-----------------------------------------------------------------------------
(* The types of what AppInv does not speak of, variable by variable.       *)

LEMMA FewEntries ==
  ASSUME NEW S, NEW n \in Nat, \A e \in S : e.of \in 1..n,
         \A e, f \in S : e.of = f.of => e = f
  PROVE  Cardinality(S) \in 0..n
<1> DEFINE g == [e \in S |-> e.of]
<1>1. g \in Injection(S, 1..n)
  BY DEF Injection, IsInjective
<1>2. IsFiniteSet(1..n) /\ Cardinality(1..n) = n
  BY FS_Interval
<1>3. IsFiniteSet(S) /\ Cardinality(S) <= Cardinality(1..n)
  BY <1>1, <1>2, FS_Injection
<1>4. Cardinality(S) \in Nat
  BY <1>3, FS_CardinalityType
<1> QED BY <1>2, <1>3, <1>4

AppTypes ==
  /\ due \subseteq Arrivals
  /\ panel.life \in {"closed", "open", "closing"}
  /\ swell \in 0..FullSwell
  /\ {hover, shown, told} \subseteq BOOLEAN
  /\ tray \in 0..MaxArrivals
  /\ \A t \in tasks : t.stage \in {"sent", "removed"}

LEMMA DueStep ==
  ASSUME AppInv, AppTypes, [AppNext]_appVars
  PROVE  due' \subseteq Arrivals'
<1>1. CASE TimePasses
  BY <1>1 DEF TimePasses, AppInv, PlacesInv, DeckInv, AppTypes, Arrivals
<1>2. CASE KillAndStart
  BY <1>2 DEF KillAndStart
<1>3. CASE \E p \in Payloads : NotifyDaemon(p)
  <2>1. payload \in Seq(Payloads) /\ UNCHANGED due /\ due \subseteq 1..Len(payload)
        /\ \E p \in Payloads : payload' = Append(payload, p)
    BY <1>3 DEF NotifyDaemon, AppInv, Events, AppTypes, Arrivals
  <2> QED BY <2>1 DEF Arrivals
<1>4. CASE UNCHANGED <<due, payload>>
  BY <1>4 DEF AppTypes, Arrivals
<1>5. \/ TimePasses \/ KillAndStart \/ UNCHANGED <<due, payload>>
      \/ \E p \in Payloads : NotifyDaemon(p)
  BY DEF AppNext, appVars, UserEvent, RenderPopup, CursorMoved, ClickPopup, RenderCenter,
         ClickCenter, FocusLost, ActionAnswered, ActionReports, EndedLocally, EndedRemotely,
         ClickTray, CenterList, CenterClear, CenterDismiss
<1> QED BY <1>1, <1>2, <1>3, <1>4, <1>5

(* The panel is opened from closed, closed by a click, a toggle or the     *)
(* loss of the focus, and gone when its slide is over.                     *)
LEMMA PanelLifeStep ==
  ASSUME AppInv, AppTypes, [AppNext]_appVars
  PROVE  panel'.life \in {"closed", "open", "closing"}
<1> USE DEF AppTypes
<1>1. panel = [life |-> panel.life, sliding |-> panel.sliding, aim |-> panel.aim]
  BY DEF AppInv, RefsInv
<1>2. Closed.life = "closed"
  BY DEF Closed
<1>3. ASSUME ToggleCenter PROVE panel'.life \in {"closed", "open", "closing"}
  BY <1>1, <1>3 DEF ToggleCenter, Closed
<1>4. ASSUME StartClosing PROVE panel'.life \in {"closed", "open", "closing"}
  BY <1>1, <1>4 DEF StartClosing
<1>5. ASSUME NEW last \in BOOLEAN, RenderCenter(last)
      PROVE  panel'.life \in {"closed", "open", "closing"}
  BY <1>1, <1>2, <1>5 DEF RenderCenter
<1>6. CASE KillAndStart
  BY <1>2, <1>6 DEF KillAndStart
<1>7. \/ UNCHANGED panel \/ ToggleCenter \/ StartClosing \/ KillAndStart
      \/ \E last \in BOOLEAN : RenderCenter(last)
  BY DEF AppNext, appVars, UserEvent, RenderPopup, CursorMoved, ClickPopup, TimePasses,
         ClickCenter, FocusLost, ActionAnswered, ActionReports, NotifyDaemon, EndedLocally,
         EndedRemotely, ClickTray, CenterList, CenterClear, CenterDismiss
<1> QED BY <1>3, <1>4, <1>5, <1>6, <1>7

LEMMA SwellStep ==
  ASSUME AppTypes, [AppNext]_appVars
  PROVE  swell' \in 0..FullSwell
<1> USE AppAssumption DEF AppTypes
<1>1. NextSwell \in 0..FullSwell
  <2> DEFINE target == IF \E c \in deck : First(c, deck) /\ hover /\ payload[c.of].long
                       THEN FullSwell ELSE 0
  <2>1. target \in 0..FullSwell
    OBVIOUS
  <2> HIDE DEF target
  <2>2. CASE deck = {}
    BY <2>2 DEF NextSwell
  <2>3. CASE deck # {} /\ swell < target
    BY <2>1, <2>3 DEF NextSwell, target
  <2>4. CASE deck # {} /\ swell > target
    BY <2>1, <2>4 DEF NextSwell, target
  <2>5. CASE deck # {} /\ ~(swell < target) /\ ~(swell > target)
    BY <2>1, <2>5 DEF NextSwell, target
  <2> QED BY <2>2, <2>3, <2>4, <2>5
<1>2. swell' = swell \/ swell' = 0 \/ swell' = NextSwell
  <2>1. ASSUME NEW a, HandleNotification(a) PROVE swell' = swell
    BY <2>1 DEF HandleNotification, popupVars
  <2>2. ASSUME NEW s, HandleEnded(s) PROVE swell' = swell
    BY <2>2 DEF HandleEnded, popupVars
  <2>3. CASE UserEvent
    BY <2>1, <2>2, <2>3 DEF UserEvent, popupVars
  <2>4. CASE RenderPopup
    BY <2>4 DEF RenderPopup
  <2>5. CASE ClickPopup \/ KillAndStart
    BY <2>5 DEF ClickPopup, KillAndStart
  <2>6. \/ UserEvent \/ RenderPopup \/ ClickPopup \/ KillAndStart \/ UNCHANGED swell
    BY DEF AppNext, appVars, popupVars, TimePasses, CursorMoved, RenderCenter, ClickCenter,
           FocusLost, ActionAnswered, ActionReports, NotifyDaemon, EndedLocally,
           EndedRemotely, ClickTray, CenterList, CenterClear, CenterDismiss
  <2> QED BY <2>3, <2>4, <2>5, <2>6
<1> QED BY <1>1, <1>2

LEMMA PopupFlagsStep ==
  ASSUME AppTypes, [AppNext]_appVars
  PROVE  hover' \in BOOLEAN /\ shown' \in BOOLEAN
<1>1. hover \in BOOLEAN /\ shown \in BOOLEAN
  BY DEF AppTypes
<1>2. ASSUME NEW a, HandleNotification(a) PROVE hover' = hover /\ shown' \in BOOLEAN
  BY <1>1, <1>2 DEF HandleNotification, popupVars
<1>3. ASSUME NEW s, HandleEnded(s) PROVE hover' = hover /\ shown' = shown
  BY <1>3 DEF HandleEnded, popupVars
<1>4. CASE UserEvent
  BY <1>1, <1>2, <1>3, <1>4 DEF UserEvent, popupVars
<1>5. CASE RenderPopup
  <2>1. hover' = hover
    BY <1>5 DEF RenderPopup
  <2>2. shown' = (shown /\ deck' # {})
    BY <1>5, Zenon DEF RenderPopup
  <2> QED BY <1>1, <2>1, <2>2
<1>6. CASE CursorMoved
  <2>1. hover' = ~hover /\ shown' = shown
    BY <1>6 DEF CursorMoved
  <2> QED BY <1>1, <2>1
<1>7. CASE KillAndStart
  BY <1>7 DEF KillAndStart
<1>8. CASE UNCHANGED <<hover, shown>>
  BY <1>1, <1>8
<1>9. \/ UserEvent \/ RenderPopup \/ CursorMoved \/ KillAndStart
      \/ UNCHANGED <<hover, shown>>
  BY DEF AppNext, appVars, popupVars, TimePasses, ClickPopup, RenderCenter, ClickCenter,
         FocusLost, ActionAnswered, ActionReports, NotifyDaemon, EndedLocally,
         EndedRemotely, ClickTray, CenterList, CenterClear, CenterDismiss
<1> QED BY <1>4, <1>5, <1>6, <1>7, <1>8, <1>9

(* The tray shows a number of entries, each of another arrival.            *)
LEMMA TrayTypeStep ==
  ASSUME AppInv', AppTypes, [AppNext]_appVars
  PROVE  tray' \in 0..MaxArrivals /\ told' \in BOOLEAN
<1>1. tray \in 0..MaxArrivals /\ told \in BOOLEAN
  BY DEF AppTypes
<1>2. Cardinality(store') \in 0..MaxArrivals
  <2> DEFINE S == store'
             n == Len(payload')
  <2>1. (StoreInv /\ FateInv /\ Events)'
    BY DEF AppInv, PlacesInv
  <2>2. n \in Nat /\ n <= MaxArrivals
    BY <2>1 DEF Events, FateInv
  <2>3. /\ \A e \in S : e.of \in 1..n
        /\ \A e, f \in S : e.of = f.of => e = f
    BY <2>1 DEF StoreInv, Arrivals
  <2> HIDE DEF S, n
  <2>4. Cardinality(S) \in 0..n
    BY <2>2, <2>3, FewEntries
  <2>5. MaxArrivals \in Nat
    BY AppAssumption
  <2>6. Cardinality(S) \in 0..MaxArrivals
    BY <2>2, <2>4, <2>5
  <2> QED BY <2>6 DEF S
<1>3. ASSUME UpdateTray PROVE tray' \in 0..MaxArrivals /\ told' \in BOOLEAN
  BY <1>2, <1>3 DEF UpdateTray
<1>4. CASE KillAndStart
  <2>1. tray' = 0 /\ told' = FALSE
    BY <1>4 DEF KillAndStart
  <2>2. 0 \in 0..MaxArrivals
    BY AppAssumption
  <2> QED BY <2>1, <2>2
<1>5. UpdateTray \/ KillAndStart \/ UNCHANGED <<tray, told>>
  <2>1. ASSUME NEW a, HandleNotification(a) PROVE UpdateTray \/ UNCHANGED <<tray, told>>
    BY <2>1 DEF HandleNotification, trayVars
  <2>2. ASSUME NEW s, HandleEnded(s) PROVE UpdateTray \/ UNCHANGED <<tray, told>>
    BY <2>2 DEF HandleEnded, trayVars
  <2>3. CASE UserEvent
    BY <2>1, <2>2, <2>3 DEF UserEvent, trayVars
  <2>4. CASE RenderPopup
    BY <2>4 DEF RenderPopup, trayVars
  <2>5. CASE ClickCenter
    BY <2>5 DEF ClickCenter, PressButton, trayVars
  <2>6. CASE ClickPopup
    BY <2>6 DEF ClickPopup
  <2>7. \/ UserEvent \/ RenderPopup \/ ClickPopup \/ ClickCenter \/ KillAndStart
        \/ UNCHANGED <<tray, told>>
    BY DEF AppNext, appVars, trayVars, TimePasses, CursorMoved, RenderCenter, FocusLost,
           ActionAnswered, ActionReports, NotifyDaemon, EndedLocally, EndedRemotely,
           ClickTray, CenterList, CenterClear, CenterDismiss
  <2> QED BY <2>3, <2>4, <2>5, <2>6, <2>7
<1> QED BY <1>1, <1>3, <1>4, <1>5

LEMMA StageStep ==
  ASSUME AppInv, AppTypes, [AppNext]_appVars, NEW t \in tasks'
  PROVE  t.stage \in {"sent", "removed"}
<1>1. CASE t \in tasks
  BY <1>1 DEF AppTypes
<1>2. CASE ClickCenter
  BY <1>2 DEF ClickCenter, PressButton, AppTypes
<1>3. ASSUME NEW u \in tasks, ActionAnswered(u) PROVE t.stage \in {"sent", "removed"}
  <2>1. u = [press |-> u.press, id |-> u.id, stage |-> u.stage, of |-> u.of]
    BY DEF AppInv, Events
  <2>2. [u EXCEPT !.stage = "removed"].stage = "removed"
    BY <2>1
  <2> QED BY <1>1, <1>3, <2>2 DEF ActionAnswered
<1>4. tasks' \subseteq tasks \/ ClickCenter \/ \E u \in tasks : ActionAnswered(u)
  BY DEF AppNext, appVars, UserEvent, RenderPopup, CursorMoved, ClickPopup, TimePasses,
         RenderCenter, FocusLost, ActionReports, NotifyDaemon, EndedLocally, EndedRemotely,
         ClickTray, CenterList, CenterClear, CenterDismiss, KillAndStart
<1> QED BY <1>1, <1>2, <1>3, <1>4

LEMMA AppTypesInit == AppInit => AppTypes
<1> SUFFICES ASSUME AppInit PROVE AppTypes
  OBVIOUS
<1>1. 0 \in 0..FullSwell /\ 0 \in 0..MaxArrivals
  BY AppAssumption
<1> QED BY <1>1 DEF AppInit, AppTypes, Closed

LEMMA AppTypesStep ==
  ASSUME AppInv, AppInv', AppTypes, [AppNext]_appVars
  PROVE  AppTypes'
<1>1. {hover, shown, told}' \subseteq BOOLEAN
  BY PopupFlagsStep, TrayTypeStep
<1> QED BY <1>1, DueStep, PanelLifeStep, SwellStep, TrayTypeStep, StageStep DEF AppTypes

(* Everything in the daemon's loop is of its type: cards, entries and      *)
(* requests speak of notifications that arrived and of ids that were       *)
(* given, and the tray never shows more than have arrived.                 *)
THEOREM AppIsWellTyped == AppSafety => []AppTypeOK
<1>1. AppInv /\ AppTypes => AppTypeOK
  <2> SUFFICES ASSUME AppInv, AppTypes PROVE AppTypeOK
    OBVIOUS
  <2>1. \A t \in tasks : t.id \in 1..ids
    BY DEF AppInv, RefsInv, Refers
  <2> QED BY <2>1 DEF AppInv, PlacesInv, Events, DeckInv, StoreInv, FateInv, Fates,
                      AppTypes, AppTypeOK
<1>2. AppInv /\ AppInv' /\ AppTypes /\ [AppNext]_appVars => AppTypes'
  BY AppTypesStep
<1> QED BY <1>1, <1>2, AppTypesInit, AppInvHolds, PTL DEF AppSafety
=============================================================================
