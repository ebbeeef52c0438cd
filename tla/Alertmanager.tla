---------------------------- MODULE Alertmanager ----------------------------
(***************************************************************************)
(* Alertmanager's webhook (crates/core/src/alertmanager.rs): a group of    *)
(* alerts is posted again and again as its alerts fire and resolve, and    *)
(* each post becomes one notification.                                     *)
(*                                                                         *)
(* Alertmanager itself is the environment: the labels and annotations of a *)
(* post are those its alerts share, its status is "firing" while one alert *)
(* fires, and a post that was not answered is sent again later.            *)
(* A text is a value; "" is one that is absent or empty.                   *)
(***************************************************************************)
EXTENDS Naturals, Sequences, FiniteSets

CONSTANTS
  Alerts,      \* the alerts of the group, in the order they are posted
  Texts,       \* Texts[a]: an alert's severity, summary, description, ...
  GroupKeys,   \* group keys; hashes of them are not told to collide
  ExternalURL, \* Alertmanager's own address, "" if it names none
  MaxPosts     \* bound

Fields == {"severity", "alertname", "summary", "description", "instance",
           "generator"}

ASSUME AlertAssumption ==
  /\ Alerts \in Seq(DOMAIN Texts)
  /\ \A a \in DOMAIN Texts : \E i \in DOMAIN Alerts : Alerts[i] = a
  /\ \A a \in DOMAIN Texts : DOMAIN Texts[a] = Fields
  /\ MaxPosts \in Nat

VARIABLES
  groupKey,
  firing,    \* alerts that fire
  resolved,  \* alerts that resolved and are posted once more as such
  owed,      \* the group changed since a post of it was answered
  accepted,  \* history: the last post that was answered 202, NoPost before
  card,      \* the notification it was broadcast as
  posts

alertVars == <<groupKey, firing, resolved, owed, accepted, card, posts>>

NoPost == [status |-> "none"]
NoCard == [title |-> <<>>]

Shared(as, field) ==
  IF \E v \in {Texts[a][field] : a \in as} : \A a \in as : Texts[a][field] = v
  THEN Texts[CHOOSE a \in as : TRUE][field] ELSE ""

(* What Alertmanager posts.  The alerts are listed in the order of Alerts.  *)
Webhook(on, off) ==
  [groupKey |-> groupKey,
   status |-> IF on = {} THEN "resolved" ELSE "firing",
   common |-> [f \in Fields |-> Shared(on \cup off, f)],
   alerts |-> on \cup off]
-----------------------------------------------------------------------------
(* The translation.                                                        *)

CardStatus(w) ==
  CASE w.status = "resolved" -> "success"
    [] w.common.severity \in {"page", "critical"} -> "error"
    [] w.common.severity = "warning" -> "warning"
    [] OTHER -> "info"

First(as, field) ==
  LET hits == {i \in DOMAIN Alerts : Alerts[i] \in as /\ Texts[Alerts[i]][field] # ""}
  IN IF hits = {} THEN ""
     ELSE Texts[Alerts[CHOOSE i \in hits : \A j \in hits : i <= j]][field]

(* Mutant: without a summary or a name the post is not worth a card.       *)
TitleNamed(w) ==
  CASE w.common.summary # "" -> <<w.common.summary>>
    [] First(w.alerts, "summary") # "" -> <<First(w.alerts, "summary")>>
    [] w.common.alertname # "" -> <<"Alert", w.common.alertname>>
    [] OTHER -> <<>>

(* derive_title: <<>> is None.                                             *)
Title(w) ==
  CASE w.common.summary # "" -> <<w.common.summary>>
    [] First(w.alerts, "summary") # "" -> <<First(w.alerts, "summary")>>
    [] w.common.alertname # "" -> <<"Alert", w.common.alertname>>
    [] w.alerts # {} -> <<"alerts", Cardinality(w.alerts)>>
    [] OTHER -> <<>>

(* derive_message: the group's description, or those of three alerts, and  *)
(* the count.                                                              *)
Line(a) == CASE Texts[a].description # "" -> <<Texts[a].description>>
             [] Texts[a].instance # "" -> <<Texts[a].instance>>
             [] OTHER -> <<>>

Place(a) == CHOOSE i \in DOMAIN Alerts : Alerts[i] = a
FirstThree(as) == {a \in as : Cardinality({b \in as : Place(b) < Place(a)}) < 3}

Message(w) ==
  LET n == Cardinality(w.alerts) IN
  [ended |-> w.status = "resolved",
   body |-> IF w.common.description # "" THEN {<<w.common.description>>}
            ELSE {Line(a) : a \in FirstThree(w.alerts)} \ {<<>>},
   more |-> IF n > 3 THEN n - 3 ELSE 0,
   count |-> IF n \in 2..3 THEN n ELSE 0]

(* derive_actions                                                          *)
Actions(w) == {First(w.alerts, "generator"), ExternalURL} \ {""}

(* derive_id: a hash of the group key alone, the empty one included.       *)
CardId(w) == <<"am", w.groupKey>>

(* Never exclusive, so it is broadcast and pushed, never pending.          *)
ToNotification(w) ==
  [id |-> CardId(w), title |-> Title(w), message |-> Message(w),
   status |-> CardStatus(w), actions |-> Actions(w), exclusive |-> FALSE]
-----------------------------------------------------------------------------
AlertTypeOK ==
  /\ groupKey \in GroupKeys
  /\ firing \subseteq DOMAIN Texts /\ resolved \subseteq DOMAIN Texts
  /\ firing \cap resolved = {}
  /\ posts \in 0..MaxPosts /\ owed \in BOOLEAN
  /\ accepted # NoPost => accepted.alerts \subseteq DOMAIN Texts
  /\ (accepted = NoPost) = (card = NoCard)

AlertInit ==
  /\ groupKey \in GroupKeys
  /\ firing = {} /\ resolved = {} /\ owed = FALSE
  /\ accepted = NoPost /\ card = NoCard /\ posts = 0

AlertFires(a) ==
  /\ a \notin firing /\ posts < MaxPosts
  /\ firing' = firing \cup {a} /\ resolved' = resolved \ {a} /\ owed' = TRUE
  /\ UNCHANGED <<groupKey, accepted, card, posts>>

AlertResolves(a) ==
  /\ a \in firing
  /\ firing' = firing \ {a} /\ resolved' = resolved \cup {a} /\ owed' = TRUE
  /\ UNCHANGED <<groupKey, accepted, card, posts>>

(* One post of the group: after a change, or after repeat_interval.  It is *)
(* handled or refused (400, nothing to display); the answer may be lost,   *)
(* and then Alertmanager posts again what it still owes.                   *)
PostGroup(answered) ==
  /\ posts < MaxPosts /\ firing \cup resolved # {}
  /\ posts' = posts + 1
  /\ LET w == Webhook(firing, resolved)  n == ToNotification(w) IN
     IF n.title = <<>> THEN UNCHANGED <<accepted, card>>
     ELSE accepted' = w /\ card' = n
  /\ IF answered THEN owed' = FALSE /\ resolved' = {}
     ELSE UNCHANGED <<owed, resolved>>
  /\ UNCHANGED <<groupKey, firing>>

AlertNext ==
  \/ \E a \in DOMAIN Texts : AlertFires(a) \/ AlertResolves(a)
  \/ \E ok \in BOOLEAN : PostGroup(ok)

AlertSpec == AlertInit /\ [][AlertNext]_alertVars
-----------------------------------------------------------------------------
Urgent == {"page", "critical"}

(* No group that pages is shown as anything less than an error, whatever   *)
(* its other alerts are, as long as its alerts write the severity alike; a *)
(* group that mixes page and critical shares no severity and is "info".    *)
(* And no post with an alert in it goes undisplayed.                       *)
PagesAreLoud ==
  ~owed /\ firing # {} =>
    /\ card # NoCard
    /\ (\E s \in Urgent : \A a \in accepted.alerts : Texts[a].severity = s)
         => card.status = "error"
=============================================================================
