------------------------- MODULE ServerParts_proofs -------------------------
(***************************************************************************)
(* Theorems about the small parts of the server, for all values of their   *)
(* constants. ProviderToken: the age the cache computes differs from the   *)
(* real one by what the clock was corrected since the token was minted.    *)
(* ServerStartup: what has been put together by each step of the start,    *)
(* and that the state has one owner until the last part is attached.       *)
(* Alertmanager: once nothing is owed, the notification is the one the     *)
(* group as it is makes. And of all parts together, that what is proved of *)
(* a part alone holds beside the others.                                   *)
(***************************************************************************)
EXTENDS MC_ServerParts, DeviceRegistry_proofs, CalendarService_proofs, TLAPS

(* ProviderToken                                                            *)

(* What the wall clock shows of the token's age.                           *)
AgeByTheClock == jwt # NoToken => wall - jwt = age + ahead - back

TokenInv == TokenTypeOK /\ AgeByTheClock

LEMMA TokenInitially == TokenInit => TokenInv
BY TokenAssumption DEF TokenInit, TokenInv, TokenTypeOK, AgeByTheClock

LEMMA SendKeepsAge == TokenInv /\ SendWithToken => TokenInv'
<1> SUFFICES ASSUME TokenInv, SendWithToken PROVE TokenInv'
  OBVIOUS
<1>1. CASE Cached
  BY <1>1 DEF TokenInv, TokenTypeOK, AgeByTheClock, SendWithToken
<1>2. CASE ~Cached
  BY <1>2, TokenAssumption
  DEF TokenInv, TokenTypeOK, AgeByTheClock, SendWithToken, Mint
<1> QED BY <1>1, <1>2

LEMMA PassKeepsInv == TokenInv /\ Pass => TokenInv'
BY TokenAssumption DEF TokenInv, TokenTypeOK, AgeByTheClock, Pass

LEMMA StepClockKeepsInv ==
  ASSUME TokenInv, NEW d \in Steps, StepClock(d)
  PROVE  TokenInv'
<1>1. d \in Int
  BY TokenAssumption
<1>2. CASE d < 0
  BY <1>1, <1>2, TokenAssumption
  DEF TokenInv, TokenTypeOK, AgeByTheClock, StepClock
<1>3. CASE ~(d < 0)
  BY <1>1, <1>3, TokenAssumption
  DEF TokenInv, TokenTypeOK, AgeByTheClock, StepClock
<1> QED BY <1>2, <1>3

LEMMA TokenStep == TokenInv /\ [TokenNext]_tokenVars => TokenInv'
<1> SUFFICES ASSUME TokenInv, [TokenNext]_tokenVars PROVE TokenInv'
  OBVIOUS
<1>1. CASE SendWithToken
  BY <1>1, SendKeepsAge
<1>2. CASE Pass
  BY <1>2, PassKeepsInv
<1>3. CASE \E d \in Steps : StepClock(d)
  BY <1>3, StepClockKeepsInv
<1>4. CASE UNCHANGED tokenVars
  BY <1>4 DEF TokenInv, TokenTypeOK, AgeByTheClock, tokenVars
<1> QED BY <1>1, <1>2, <1>3, <1>4 DEF TokenNext

(* The state of the cache stays well typed, and the age of the token by    *)
(* the clock is off by the corrections since it was minted, no more.       *)
THEOREM TokenAgeIsTracked == TokenSpec => []TokenInv
BY TokenInitially, TokenStep, PTL DEF TokenSpec

(* A send that finds its token in the cache: the refresh mark leaves room  *)
(* for the setting back of the clock.                                      *)
LEMMA CachedIsYoung ==
  ASSUME TokenInv, Cached, back <= AppleMaxAge - JwtMaxAge
  PROVE  age < AppleMaxAge
BY TokenAssumption DEF TokenInv, TokenTypeOK, AgeByTheClock, Cached

(* A send that mints while a token is cached: that one is old enough.      *)
LEMMA MintedInTime ==
  ASSUME TokenInv, ~Cached, jwt # NoToken, ahead <= JwtMaxAge - AppleMinGap
  PROVE  age >= AppleMinGap
BY TokenAssumption DEF TokenInv, TokenTypeOK, AgeByTheClock, Cached

Limits ==
  /\ sends' # sends /\ back' <= AppleMaxAge - JwtMaxAge => age' < AppleMaxAge
  /\ mints' # mints /\ jwt # NoToken /\ ahead <= JwtMaxAge - AppleMinGap
       => age >= AppleMinGap

LEMMA SendWithinLimits == TokenInv /\ SendWithToken => Limits
<1> SUFFICES ASSUME TokenInv, SendWithToken PROVE Limits
  OBVIOUS
<1>1. CASE Cached
  <2>1. age' = age /\ back' = back /\ mints' = mints
    BY <1>1 DEF SendWithToken
  <2> QED BY <1>1, <2>1, CachedIsYoung DEF Limits
<1>2. CASE ~Cached
  <2>1. age' = 0
    BY <1>2 DEF SendWithToken, Mint
  <2>2. 0 < AppleMaxAge
    BY TokenAssumption
  <2> QED BY <1>2, <2>1, <2>2, MintedInTime DEF Limits
<1> QED BY <1>1, <1>2

LEMMA StepWithinLimits == TokenInv /\ [TokenNext]_tokenVars => [Limits]_tokenVars
<1> SUFFICES ASSUME TokenInv, TokenNext PROVE Limits
  OBVIOUS
<1>1. CASE SendWithToken
  BY <1>1, SendWithinLimits
<1>2. CASE Pass
  BY <1>2 DEF Pass, Limits
<1>3. CASE \E d \in Steps : StepClock(d)
  BY <1>3 DEF StepClock, Limits
<1> QED BY <1>1, <1>2, <1>3 DEF TokenNext

(* However the clock is corrected within the margins of the refresh mark,  *)
(* no token of an hour or more is sent and none is minted within twenty    *)
(* minutes of the one before (current_jwt).                                *)
THEOREM TokensStayWithinLimits == TokenSpec => WithinAppleLimits
<1>1. TokenInv /\ [TokenNext]_tokenVars => [Limits]_tokenVars
  BY StepWithinLimits
<1> QED BY <1>1, TokenAgeIsTracked, PTL DEF TokenSpec, WithinAppleLimits, Limits
-----------------------------------------------------------------------------
(* ServerStartup                                                            *)

(* The state is first cloned for the calendar's notifier.                  *)
OneOwner ==
  /\ step \in {"args", "registry", "apns", "fallback", "info", "calendar"} =>
       owners = 1 /\ calendar.source = "none"
  /\ step # "panicked"

(* The calendar that is advertised, that runs and whose actions are        *)
(* mounted is the configured one.                                          *)
CalendarSoFar ==
  /\ step \in {"calendar", "mount", "bind", "serving"} =>
       info = CalendarSource(setup)
  /\ step \in {"mount", "bind", "serving"} => calendar.source = info
  /\ step \in {"bind", "serving"} => actions = (info # "none")

(* Push is attached where it is configured, and then a registry is.        *)
PushSoFar ==
  /\ step \notin {"args", "exited"} => ApnsConfig(setup) \in {"on", "off"}
  /\ step \in {"args", "registry", "apns"} => push = FALSE
  /\ step \in {"fallback", "info", "calendar", "mount", "bind", "serving"} =>
       push = (ApnsConfig(setup) = "on")
  /\ step \in {"info", "calendar", "mount", "bind", "serving"} =>
       (push => attached # "none")

StartInv == StartTypeOK /\ OneOwner /\ CalendarSoFar /\ PushSoFar

LEMMA ApnsConfigType ==
  ASSUME NEW s PROVE ApnsConfig(s) \in {"on", "off", "error"}
BY DEF ApnsConfig

(* into_config answers None only if nothing at all is set ...              *)
LEMMA OffIsUnset ==
  ASSUME NEW s, ApnsConfig(s) = "off", NEW n \in ApnsNames
  PROVE  ~Present(s.cli[n]) /\ (s.cli[n] = "unset" => ~Present(s.env[n]))
<1>1. /\ \A m \in {"team", "key", "bundle"} : TextOf(s, m) = "unset"
      /\ KeyOf(s, "path") = "unset" /\ KeyOf(s, "base64") = "unset"
      /\ TextOf(s, "environment") = "unset"
  <2> DEFINE ids == {TextOf(s, m) : m \in {"team", "key", "bundle"}}
             all == ids \cup {KeyOf(s, "path"), KeyOf(s, "base64"),
                              TextOf(s, "environment")}
  <2>1. all = {"unset"}
    BY DEF ApnsConfig
  <2>2. \A m \in {"team", "key", "bundle"} : TextOf(s, m) \in all
    OBVIOUS
  <2> QED BY <2>1, <2>2
<1>2. CASE n \in {"path", "base64"}
  BY <1>1, <1>2 DEF KeyOf, Present
<1>3. CASE n \in {"team", "key", "bundle", "environment"}
  BY <1>1, <1>3 DEF TextOf, Present
<1> QED BY <1>2, <1>3 DEF ApnsNames

(* ... and a configuration only if every id is there.                      *)
LEMMA OnHasIds ==
  ASSUME NEW s, ApnsConfig(s) = "on", NEW n \in {"team", "key", "bundle"}
  PROVE  Present(TextOf(s, n))
<1> DEFINE ids == {TextOf(s, m) : m \in {"team", "key", "bundle"}}
<1>1. "unset" \notin ids
  BY DEF ApnsConfig
<1>2. TextOf(s, n) # "unset"
  BY <1>1
<1> QED BY <1>2 DEF TextOf, Present

LEMMA StartInitially == StartInit => StartInv
<1> SUFFICES ASSUME StartInit PROVE StartInv
  OBVIOUS
<1>1. StartTypeOK
  BY DEF StartInit, StartTypeOK
<1>2. OneOwner
  BY DEF StartInit, OneOwner
<1>3. CalendarSoFar /\ PushSoFar
  BY DEF StartInit, CalendarSoFar, PushSoFar
<1> QED BY <1>1, <1>2, <1>3 DEF StartInv

LEMMA ParseArgsKeepsInv == StartInv /\ ParseArgs => StartInv'
BY ApnsConfigType
DEF StartInv, StartTypeOK, OneOwner, CalendarSoFar, PushSoFar, ParseArgs, Exit, Go

LEMMA LoadRegistryKeepsInv == StartInv /\ LoadRegistry => StartInv'
BY DEF StartInv, StartTypeOK, OneOwner, CalendarSoFar, PushSoFar, LoadRegistry,
       Attach, Exit, Go

LEMMA AttachApnsKeepsInv == StartInv /\ AttachApns => StartInv'
BY DEF StartInv, StartTypeOK, OneOwner, CalendarSoFar, PushSoFar, AttachApns,
       Attach, Go

LEMMA FallBackKeepsInv == StartInv /\ FallBackToMemory => StartInv'
BY DEF StartInv, StartTypeOK, OneOwner, CalendarSoFar, PushSoFar,
       FallBackToMemory, Attach, Go

LEMMA AttachInfoKeepsInv == StartInv /\ AttachInfo => StartInv'
BY DEF StartInv, StartTypeOK, OneOwner, CalendarSoFar, PushSoFar, AttachInfo,
       Attach, Go

LEMMA SpawnCalendarKeepsInv == StartInv /\ SpawnCalendar => StartInv'
BY DEF StartInv, StartTypeOK, OneOwner, CalendarSoFar, PushSoFar, SpawnCalendar,
       Go

LEMMA MountAndBindKeepInv == StartInv /\ (MountRoutes \/ Bind) => StartInv'
BY DEF StartInv, StartTypeOK, OneOwner, CalendarSoFar, PushSoFar, MountRoutes,
       Bind, Go

LEMMA StartStep == StartInv /\ [StartNext]_startVars => StartInv'
<1> SUFFICES ASSUME StartInv, [StartNext]_startVars PROVE StartInv'
  OBVIOUS
<1>1. CASE StartNext
  BY <1>1, ParseArgsKeepsInv, LoadRegistryKeepsInv, AttachApnsKeepsInv,
     FallBackKeepsInv, AttachInfoKeepsInv, SpawnCalendarKeepsInv,
     MountAndBindKeepInv
  DEF StartNext
<1>2. CASE UNCHANGED startVars
  BY <1>2
  DEF startVars, StartInv, StartTypeOK, OneOwner, CalendarSoFar, PushSoFar
<1> QED BY <1>1, <1>2

LEMMA StartAlwaysInv == StartSpec => []StartInv
BY StartInitially, StartStep, PTL DEF StartSpec

(* For every command line, environment and registry file: a server that    *)
(* runs has push exactly when something of it was asked for, with a        *)
(* registry to push to (into_config, run in bin/server/src/main.rs).       *)
THEOREM PushIsAsAsked == StartSpec => []PushAsAsked
<1>1. StartInv => PushAsAsked
  <2> SUFFICES ASSUME StartInv, step = "serving" PROVE
        /\ push => attached # "none"
        /\ ~push => \A n \in ApnsNames : ~Present(setup.cli[n])
                      /\ (setup.cli[n] = "unset" => ~Present(setup.env[n]))
        /\ push => \A n \in {"team", "key", "bundle"} : Present(TextOf(setup, n))
    BY DEF PushAsAsked
  <2>1. /\ push => attached # "none"
        /\ ApnsConfig(setup) \in {"on", "off"}
        /\ push = (ApnsConfig(setup) = "on")
    BY DEF StartInv, PushSoFar
  <2>2. ~push => ApnsConfig(setup) = "off"
    BY <2>1
  <2> QED BY <2>1, <2>2, OffIsUnset, OnHasIds
<1> QED BY <1>1, StartAlwaysInv, PTL

(* For every setup the parts are attached before the state is cloned:      *)
(* Arc::get_mut never fails, and the calendar a client is told of is the   *)
(* one that runs (run in bin/server/src/main.rs).                          *)
THEOREM PartsAreAttachedInTime == StartSpec => []AttachedInTime
<1>1. StartInv => AttachedInTime
  BY DEF StartInv, StartTypeOK, OneOwner, CalendarSoFar, AttachedInTime
<1> QED BY <1>1, StartAlwaysInv, PTL
-----------------------------------------------------------------------------
(* Alertmanager                                                             *)

(* The last post that was accepted is one of the group as it was then, and *)
(* its notification is what the store has; once nothing is owed, it is the *)
(* group as it is, but for what has resolved since.                        *)
AlertInv ==
  /\ firing \subseteq DOMAIN Texts /\ resolved \subseteq DOMAIN Texts
  /\ accepted # NoPost => card = ToNotification(accepted)
  /\ firing # {} /\ ~owed =>
       \E off \in SUBSET DOMAIN Texts : accepted = Webhook(firing, off)

LEMMA WebhookIsPost ==
  ASSUME NEW on, NEW off
  PROVE  Webhook(on, off) # NoPost /\ Webhook(on, off).alerts = on \cup off
<1>1. Webhook(on, off).status \in {"resolved", "firing"} /\ NoPost.status = "none"
  BY DEF Webhook, NoPost
<1> QED BY <1>1 DEF Webhook

(* A post with an alert in it has a title (derive_title).                  *)
LEMMA PostsAreTitled ==
  ASSUME NEW w, w.alerts # {}
  PROVE  Title(w) # <<>>
BY DEF Title

(* What all alerts have in common is the value they share.                 *)
LEMMA SharedValue ==
  ASSUME NEW as, NEW field, NEW v, as # {}, \A a \in as : Texts[a][field] = v
  PROVE  Shared(as, field) = v
<1>1. PICK b \in as : Texts[b][field] = v
  OBVIOUS
<1>2. v \in {Texts[a][field] : a \in as}
  BY <1>1
<1>3. (CHOOSE a \in as : TRUE) \in as
  BY <1>1
<1> QED BY <1>2, <1>3 DEF Shared

LEMMA AlertStep ==
  ASSUME AlertInv, [AlertNext]_alertVars
  PROVE  AlertInv'
<1>1. CASE \E a \in DOMAIN Texts : AlertFires(a) \/ AlertResolves(a)
  <2>1. firing' \subseteq DOMAIN Texts /\ resolved' \subseteq DOMAIN Texts
    BY <1>1 DEF AlertFires, AlertResolves, AlertInv
  <2>2. accepted' = accepted /\ card' = card /\ owed'
    BY <1>1 DEF AlertFires, AlertResolves
  <2>3. accepted' # NoPost => card' = ToNotification(accepted')
    BY <2>2 DEF AlertInv
  <2>4. \A w : (ToNotification(w))' = ToNotification(w)
    BY DEF ToNotification, CardId, Title, Message, CardStatus, Actions
  <2> QED BY <2>1, <2>2, <2>3 DEF AlertInv
<1>2. ASSUME NEW ok \in BOOLEAN, PostGroup(ok)
      PROVE  AlertInv'
  <2> DEFINE w == Webhook(firing, resolved)
  <2>1. w.alerts # {} /\ w # NoPost
    <3>1. w.alerts = firing \cup resolved /\ w # NoPost
      BY WebhookIsPost
    <3>2. firing \cup resolved # {}
      BY <1>2 DEF PostGroup
    <3> QED BY <3>1, <3>2
  <2>2. ToNotification(w).title # <<>>
    BY <2>1, PostsAreTitled DEF ToNotification
  <2>3. accepted' = w /\ card' = ToNotification(w) /\ firing' = firing
        /\ groupKey' = groupKey /\ (resolved' = resolved \/ resolved' = {})
    BY <1>2, <2>2 DEF PostGroup
  <2>4. \A off : (Webhook(firing, off))' = Webhook(firing, off)
    BY <2>3 DEF Webhook
  <2>5. resolved \in SUBSET DOMAIN Texts /\ resolved' \subseteq DOMAIN Texts
        /\ firing' \subseteq DOMAIN Texts
    BY <2>3 DEF AlertInv
  <2>6. \E off \in SUBSET DOMAIN Texts : accepted' = (Webhook(firing, off))'
    BY <2>3, <2>4, <2>5
  <2>7. accepted' # NoPost => card' = ToNotification(accepted')
    BY <2>3
  <2> QED BY <2>5, <2>6, <2>7 DEF AlertInv
<1>3. CASE UNCHANGED alertVars
  BY <1>3 DEF AlertInv, alertVars, Webhook, Shared
<1> QED BY <1>1, <1>2, <1>3 DEF AlertNext

(* The title is there; the severity the alerts share makes an error.       *)
LEMMA LoudCard ==
  ASSUME AlertInv, ~owed, firing # {}
  PROVE  /\ card # NoCard
         /\ (\E s \in Urgent : \A a \in accepted.alerts : Texts[a].severity = s)
              => card.status = "error"
<1>1. PICK off \in SUBSET DOMAIN Texts : accepted = Webhook(firing, off)
  BY DEF AlertInv
<1> DEFINE as == firing \cup off
<1>2. accepted # NoPost /\ accepted.alerts = as /\ as # {} /\ accepted.status = "firing"
      /\ accepted.common = [f \in Fields |-> Shared(as, f)]
  <2> DEFINE w == Webhook(firing, off)
  <2>1. w # NoPost
    BY WebhookIsPost
  <2>2. w.alerts = as /\ w.status = "firing" /\ w.common = [f \in Fields |-> Shared(as, f)]
    BY DEF Webhook
  <2> HIDE DEF w
  <2>3. accepted = w
    BY <1>1 DEF w
  <2> QED BY <2>1, <2>2, <2>3
<1> HIDE DEF as
<1>3. card = ToNotification(accepted)
  BY <1>2 DEF AlertInv
<1>4. card.title = Title(accepted) /\ card.status = CardStatus(accepted)
  BY <1>3 DEF ToNotification
<1>5. card # NoCard
  <2>1. Title(accepted) # <<>>
    BY <1>2, PostsAreTitled
  <2>2. NoCard.title = <<>>
    BY DEF NoCard
  <2> QED BY <1>4, <2>1, <2>2
<1>6. ASSUME NEW s \in Urgent, \A a \in accepted.alerts : Texts[a].severity = s
      PROVE  card.status = "error"
  <2>1. \A a \in as : Texts[a]["severity"] = s
    BY <1>2, <1>6
  <2>2. Shared(as, "severity") = s
    <3>1. as # {}
      BY <1>2
    <3> QED BY <2>1, <3>1, SharedValue, Zenon
  <2>3. accepted.common.severity = s
    BY <1>2, <2>2 DEF Fields
  <2> QED BY <1>2, <1>4, <2>3 DEF CardStatus, Urgent
<1> QED BY <1>5, <1>6

(* For any alerts, texts and order of posts: a group that pages with one  *)
(* severity is shown as an error, and no post of it goes undisplayed      *)
(* (cross_notifier_status, derive_title).                                 *)
THEOREM PagesAreShown == AlertSpec => []PagesAreLoud
<1>1. AlertInit => AlertInv
  BY DEF AlertInit, AlertInv
<1>2. AlertInv /\ [AlertNext]_alertVars => AlertInv'
  BY AlertStep
<1>3. AlertInv => PagesAreLoud
  BY LoudCard DEF PagesAreLoud
<1> QED BY <1>1, <1>2, <1>3, PTL DEF AlertSpec
-----------------------------------------------------------------------------
(* Alertmanager's types: a card is there when a post was accepted.         *)
AlertTypes ==
  /\ AlertInv
  /\ groupKey \in GroupKeys /\ posts \in 0..MaxPosts /\ owed \in BOOLEAN
  /\ firing \cap resolved = {}
  /\ accepted # NoPost => accepted.alerts \subseteq DOMAIN Texts
  /\ (accepted = NoPost) = (card = NoCard)

LEMMA PostKeepsTypes ==
  ASSUME AlertTypes, NEW ok \in BOOLEAN, PostGroup(ok)
  PROVE  AlertTypes'
<1> DEFINE w == Webhook(firing, resolved)
           n == ToNotification(w)
<1>1. w # NoPost /\ w.alerts = firing \cup resolved
  BY WebhookIsPost
<1>2. w.alerts # {}
  <2>1. firing \cup resolved # {}
    BY DEF PostGroup
  <2> QED BY <1>1, <2>1
<1>3. n.title # <<>> /\ n # NoCard
  <2>1. Title(w) # <<>>
    BY <1>2, PostsAreTitled
  <2>2. n.title = Title(w) /\ NoCard.title = <<>>
    BY DEF ToNotification, NoCard
  <2> QED BY <2>1, <2>2
<1>4. w.alerts \subseteq DOMAIN Texts
  BY <1>1 DEF AlertTypes, AlertInv
<1>5. accepted' = w /\ card' = n
  BY <1>3 DEF PostGroup
<1>6. NoPost' = NoPost /\ NoCard' = NoCard
  BY DEF NoPost, NoCard
<1> HIDE DEF w, n
<1>7. (accepted' = NoPost) = (card' = NoCard)
  BY <1>1, <1>3, <1>5
<1>8. AlertInv'
  BY AlertStep DEF AlertTypes, AlertNext
<1>9. /\ groupKey' = groupKey /\ firing' = firing /\ posts < MaxPosts /\ posts' = posts + 1
      /\ resolved' \subseteq resolved /\ owed' \in BOOLEAN
  BY DEF PostGroup, AlertTypes
<1>10. posts' \in 0..MaxPosts
  BY <1>9, AlertAssumption DEF AlertTypes
<1>11. firing' \cap resolved' = {}
  BY <1>9 DEF AlertTypes
<1>12. groupKey' \in GroupKeys
  BY <1>9 DEF AlertTypes
<1> QED BY <1>4, <1>5, <1>6, <1>7, <1>8, <1>9, <1>10, <1>11, <1>12 DEF AlertTypes

LEMMA AlertIsTyped == AlertSpec => []AlertTypeOK
<1>1. AlertInit => AlertTypes
  <2> SUFFICES ASSUME AlertInit PROVE AlertTypes
    OBVIOUS
  <2>1. AlertInv /\ posts \in 0..MaxPosts
    BY AlertAssumption DEF AlertInit, AlertInv
  <2>2. accepted = NoPost /\ card = NoCard /\ firing = {} /\ owed = FALSE
    BY DEF AlertInit
  <2> QED BY <2>1, <2>2 DEF AlertTypes, AlertInit
<1>2. ASSUME AlertTypes, [AlertNext]_alertVars
      PROVE  AlertTypes'
  <2>1. AlertInv'
    BY <1>2, AlertStep DEF AlertTypes
  <2>2. CASE \E a \in DOMAIN Texts : AlertFires(a) \/ AlertResolves(a)
    <3>1. /\ UNCHANGED <<groupKey, accepted, card, posts>> /\ owed' = TRUE
          /\ firing' \cap resolved' = {}
      BY <1>2, <2>2 DEF AlertTypes, AlertFires, AlertResolves
    <3>2. /\ accepted' # NoPost => accepted'.alerts \subseteq DOMAIN Texts
          /\ (accepted' = NoPost) = (card' = NoCard)
      BY <1>2, <3>1 DEF AlertTypes
    <3>3. NoPost' = NoPost /\ NoCard' = NoCard
      BY DEF NoPost, NoCard
    <3>4. posts' \in 0..MaxPosts /\ groupKey' \in GroupKeys /\ owed' \in BOOLEAN
      BY <1>2, <3>1 DEF AlertTypes
    <3> QED BY <2>1, <3>1, <3>2, <3>3, <3>4 DEF AlertTypes
  <2>3. CASE \E ok \in BOOLEAN : PostGroup(ok)
    BY <1>2, <2>3, PostKeepsTypes
  <2>4. CASE UNCHANGED alertVars
    BY <1>2, <2>1, <2>4 DEF AlertTypes, alertVars, NoPost, NoCard
  <2> QED BY <1>2, <2>2, <2>3, <2>4 DEF AlertNext
<1>3. AlertTypes => AlertTypeOK
  BY DEF AlertTypes, AlertInv, AlertTypeOK
<1> QED BY <1>1, <1>2, <1>3, PTL DEF AlertSpec
-----------------------------------------------------------------------------
(* The parts together: every behaviour of the server's specification is    *)
(* one of each part's, so the theorems about the parts hold of it.         *)
THEOREM PartsBehave ==
  Spec => /\ RegistrySpec /\ TokenSpec /\ WindowSpec
          /\ SummarySpec /\ AlertSpec /\ StartSpec
<1>1. Init => /\ RegistryInit /\ TokenInit /\ WindowInit
              /\ SummaryInit /\ AlertInit /\ StartInit
  BY DEF Init, RegistryRests, TokenRests, WindowRests, SummaryRests, AlertRests,
         StartRests
<1>2. [Next]_vars => /\ [RegistryNext]_registryVars /\ [TokenNext]_tokenVars
                     /\ [WindowNext]_windowVars /\ [SummaryNext]_summaryVars
                     /\ [AlertNext]_alertVars /\ [StartNext]_startVars
  BY DEF Next, vars
<1> QED BY <1>1, <1>2, PTL
        DEF Spec, RegistrySpec, TokenSpec, WindowSpec, SummarySpec, AlertSpec, StartSpec

(* Every variable of every part keeps its type, whatever the registrations *)
(* and pushes, clock corrections, calendars, zones, alerts and setups.     *)
THEOREM ServerIsTyped == Spec => []ServerTypeOK
<1>1. TokenInv => TokenTypeOK
  BY DEF TokenInv
<1>2. StartInv => StartTypeOK
  BY DEF StartInv
<1>3. RegistryTypeOK /\ TokenTypeOK /\ WindowTypeOK /\ SummaryTypeOK /\ AlertTypeOK
        /\ StartTypeOK => ServerTypeOK
  BY DEF ServerTypeOK
<1> QED BY <1>1, <1>2, <1>3, PartsBehave, RegistryIsTyped, TokenAgeIsTracked,
           WindowIsTyped, SummaryIsTyped, AlertIsTyped, StartAlwaysInv, PTL
=============================================================================
