------------------------- MODULE DaemonParts_proofs -------------------------
(***************************************************************************)
(* The theorems about the daemon's settings and its open center panel, and *)
(* about the four parts of MC_DaemonParts together.                        *)
(*                                                                         *)
(* HandlesAreParallel and ConfiguredCalendarRuns are inductive by          *)
(* themselves; ConfigFollowsFile rests on the count of the watcher's       *)
(* events; UntouchedSaveIsHarmless on the form showing the configuration   *)
(* until it is edited, and on what becomes of a rule on its way through    *)
(* the form and back.  NoCardOverlaps is a fact about a running sum.       *)
(***************************************************************************)
EXTENDS MC_DaemonParts, RemoteLink_proofs, DaemonApp_proofs, FiniteSetTheorems,
        WellFoundedInduction, TLAPS

(* Only the servers and the name of a configuration are a client's.        *)
LEMMA ClientsFollow ==
  ASSUME NEW c, NEW d, c.servers = d.servers, c.name = d.name
  PROVE  ClientsOf(c) = ClientsOf(d)
BY DEF ClientsOf, Client

LEMMA ApplyKeepsParallel ==
  ASSUME HandlesAreParallel, NEW c, ApplyConfig(c)
  PROVE  handles' = ClientsOf(c) /\ config' = c
<1>1. CASE c.servers # config.servers \/ c.name # config.name
  BY <1>1 DEF ApplyConfig
<1>2. CASE ~(c.servers # config.servers \/ c.name # config.name)
  BY <1>2, ClientsFollow DEF ApplyConfig, HandlesAreParallel
<1> QED BY <1>1, <1>2

LEMMA SameConfigKeepsParallel ==
  ASSUME HandlesAreParallel, UNCHANGED <<config, handles>>
  PROVE  HandlesAreParallel'
BY DEF HandlesAreParallel, ClientsOf, Client

LEMMA ConfigChangedKeepsParallel ==
  ASSUME HandlesAreParallel, ConfigChanged PROVE HandlesAreParallel'
<1>1. CASE form # ClosedWindow \/ disk = Broken
  BY <1>1, SameConfigKeepsParallel DEF ConfigChanged
<1>2. CASE ~(form # ClosedWindow \/ disk = Broken)
  <2>1. ApplyConfig(disk)
    BY <1>2 DEF ConfigChanged
  <2>2. handles' = ClientsOf(disk) /\ config' = disk
    BY <2>1, ApplyKeepsParallel
  <2> QED BY <2>2 DEF HandlesAreParallel, ClientsOf, Client
<1> QED BY <1>1, <1>2

LEMMA SaveKeepsParallel ==
  ASSUME HandlesAreParallel, NEW w \in BOOLEAN, SaveSettings(w)
  PROVE  HandlesAreParallel'
<1>1. ApplyConfig(ToConfig(form))
  BY DEF SaveSettings
<1>2. handles' = ClientsOf(ToConfig(form)) /\ config' = ToConfig(form)
  BY <1>1, ApplyKeepsParallel
<1> QED BY <1>2 DEF HandlesAreParallel, ClientsOf, Client

(* The fresh client takes the place of one that was given the same.        *)
LEMMA ReconnectKeepsParallel ==
  ASSUME HandlesAreParallel, ReconnectServer PROVE HandlesAreParallel'
<1> DEFINE hits == {i \in DOMAIN config.servers :
                      config.servers[i].url = Head(asked)}
           idx == CHOOSE i \in hits : \A j \in hits : i <= j
<1>1. config' = config
  BY DEF ReconnectServer
<1>2. CASE hits = {}
  BY <1>1, <1>2, SameConfigKeepsParallel DEF ReconnectServer
<1>3. CASE hits # {}
  <2>1. handles' = [handles EXCEPT ![idx] = Client(config.servers[idx], config)]
    BY <1>3 DEF ReconnectServer
  <2> HIDE DEF idx
  <2>2. handles' = ClientsOf(config)
    BY <2>1 DEF HandlesAreParallel, ClientsOf
  <2> QED BY <1>1, <2>2, SameConfigKeepsParallel
          DEF HandlesAreParallel
<1> QED BY <1>2, <1>3

LEMMA ParallelStep ==
  ASSUME HandlesAreParallel, [SettingsNext]_settingsVars
  PROVE  HandlesAreParallel'
<1>1. CASE \/ TruncateFile \/ \E c \in Files : FillFile(c) \/ ReplaceFile(c)
           \/ OpenSettings \/ EditForm \/ CloseSettings \/ AskReconnect
           \/ UNCHANGED settingsVars
  <2>1. UNCHANGED <<config, handles>>
    BY <1>1 DEF TruncateFile, FillFile, ReplaceFile, OpenSettings, EditForm,
                CloseSettings, AskReconnect, settingsVars
  <2> QED BY <2>1, SameConfigKeepsParallel
<1>2. CASE ConfigChanged
  BY <1>2, ConfigChangedKeepsParallel
<1>3. CASE \E w \in BOOLEAN : SaveSettings(w)
  BY <1>3, SaveKeepsParallel
<1>4. CASE ReconnectServer
  BY <1>4, ReconnectKeepsParallel
<1>5. CASE RestartDaemon
  BY <1>5 DEF RestartDaemon, HandlesAreParallel
<1> QED BY <1>1, <1>2, <1>3, <1>4, <1>5 DEF SettingsNext

(* Whatever is edited, saved, reconnected and restarted in whatever order, *)
(* the clients the daemon runs are those of its configuration, one for     *)
(* each server and in its order (apply_config, reconnect_server).          *)
THEOREM ClientsMatchServers == SettingsSpec => []HandlesAreParallel
<1>1. SettingsInit => HandlesAreParallel
  BY DEF SettingsInit, HandlesAreParallel
<1> QED BY <1>1, ParallelStep, PTL DEF SettingsSpec

LEMMA AppliedCalendarRuns ==
  ASSUME ConfiguredCalendarRuns, NEW c, ApplyConfig(c)
  PROVE  ConfiguredCalendarRuns'
<1>1. config' = c
  BY DEF ApplyConfig
<1>2. CASE c.calendar # config.calendar
  <2>1. service' \in Started(c.calendar, DefaultPort)
    BY <1>2 DEF ApplyConfig
  <2> QED BY <1>1, <2>1 DEF ConfiguredCalendarRuns, Started
<1>3. CASE c.calendar = config.calendar
  <2>1. service' = service
    BY <1>3 DEF ApplyConfig
  <2> QED BY <1>1, <1>3, <2>1 DEF ConfiguredCalendarRuns, Started
<1> QED BY <1>2, <1>3

LEMMA CalendarStep ==
  ASSUME ConfiguredCalendarRuns, [SettingsNext]_settingsVars
  PROVE  ConfiguredCalendarRuns'
<1>1. CASE UNCHANGED <<config, service>>
  BY <1>1 DEF ConfiguredCalendarRuns, Started
<1>2. ASSUME NEW c, ApplyConfig(c) PROVE ConfiguredCalendarRuns'
  BY <1>2, AppliedCalendarRuns
<1>3. CASE RestartDaemon
  BY <1>3 DEF RestartDaemon, ConfiguredCalendarRuns, Started
<1>4. \/ UNCHANGED <<config, service>> \/ RestartDaemon
      \/ \E c : ApplyConfig(c)
  BY DEF SettingsNext, settingsVars, TruncateFile, FillFile, ReplaceFile, ConfigChanged,
         OpenSettings, EditForm, SaveSettings, CloseSettings, AskReconnect,
         ReconnectServer
<1> QED BY <1>1, <1>2, <1>3, <1>4

(* Whatever is edited, saved, missed and restarted in whatever order, no   *)
(* calendar runs but the one of the present configuration (apply_config,   *)
(* reload_calendar, App::new).                                             *)
THEOREM CalendarMatchesConfig == SettingsSpec => []ConfiguredCalendarRuns
<1>1. SettingsInit => ConfiguredCalendarRuns
  BY DEF SettingsInit, ConfiguredCalendarRuns, Started
<1> QED BY <1>1, CalendarStep, PTL DEF SettingsSpec

FollowInv == notices \in Nat /\ ConfigFollowsFile

LEMMA FollowStep ==
  ASSUME FollowInv, [SettingsNext]_settingsVars
  PROVE  FollowInv'
<1> USE DEF FollowInv, ConfigFollowsFile, ChangesAreSeen
<1>1. CASE \/ OpenSettings \/ EditForm \/ CloseSettings \/ AskReconnect
           \/ ReconnectServer \/ UNCHANGED settingsVars
  <2>1. UNCHANGED <<config, disk, notices, skipped, unseen>>
    BY <1>1 DEF OpenSettings, EditForm, CloseSettings, AskReconnect,
                ReconnectServer, settingsVars
  <2> QED BY <2>1
<1>2. CASE TruncateFile \/ \E c \in Files : FillFile(c)
  <2>1. FileModified
    BY <1>2 DEF TruncateFile, FillFile
  <2>2. notices' = notices + 1 \/ (unseen' = TRUE /\ notices' = notices)
    BY <2>1 DEF FileModified
  <2> QED BY <2>2
<1>3. CASE \E c \in Files : ReplaceFile(c)
  BY <1>3 DEF ReplaceFile
<1>4. CASE ConfigChanged
  BY <1>4 DEF ConfigChanged, ApplyConfig
<1>5. ASSUME NEW w \in BOOLEAN, SaveSettings(w) PROVE FollowInv'
  BY <1>5 DEF SaveSettings, ApplyConfig
<1>6. CASE RestartDaemon
  BY <1>6 DEF RestartDaemon
<1> QED BY <1>1, <1>2, <1>3, <1>4, <1>5, <1>6 DEF SettingsNext

(* Of what the watcher is told, nothing is lost: the daemon differs from   *)
(* config.json only while an event is on its way, the file does not parse, *)
(* the settings window or a failed write kept the change from it, or the   *)
(* file was changed by a rename or without a watcher (ConfigChanged,       *)
(* save_and_apply_config, start_config_watcher).                           *)
THEOREM DaemonFollowsFile == SettingsSpec => []ConfigFollowsFile
<1>1. SettingsInit => FollowInv
  BY DEF SettingsInit, FollowInv, ConfigFollowsFile, ChangesAreSeen
<1>2. FollowInv => ConfigFollowsFile
  BY DEF FollowInv
<1> QED BY <1>1, <1>2, FollowStep, PTL DEF SettingsSpec
-----------------------------------------------------------------------------
(* The least of a set of numbers.                                          *)

Before == {p \in Nat \X Nat : p[1] < p[2]}

LEMMA NatOrder == IsWellFoundedOn(Before, Nat)
  BY NatLessThanWellFounded DEF OpToRel, Before

LEMMA Least ==
  ASSUME NEW S, S \subseteq Nat, S # {}
  PROVE  \E i \in S : \A j \in S : i <= j
<1>1. PICK i \in S : \A j \in S : <<j, i>> \notin Before
  BY NatOrder, WFMin
<1>2. \A j \in S : ~(j < i)
  BY <1>1 DEF Before
<1> QED BY <1>2
-----------------------------------------------------------------------------
(* The shape of a configuration, and of the form, which is one.            *)

IsList(s) == \E V : s \in Seq(V)
IsConfig(c) ==
  /\ c = [name |-> c.name, servers |-> c.servers, on |-> c.on,
          rules |-> c.rules, calendar |-> c.calendar]
  /\ IsList(c.servers) /\ IsList(c.rules)

LEMMA ListDomain ==
  ASSUME NEW s, IsList(s) PROVE Len(s) \in Nat /\ DOMAIN s = 1..Len(s)
  BY DEF IsList

LEMMA FunctionIsList ==
  ASSUME NEW n \in Nat, NEW s, s = [i \in 1..n |-> s[i]] PROVE IsList(s)
<1> DEFINE V == {s[i] : i \in 1..n}
<1>1. s \in [1..n -> V]
  OBVIOUS
<1>2. s \in Seq(V)
  BY <1>1
<1> QED BY <1>2 DEF IsList

LEMMA ListEdited ==
  ASSUME NEW s, IsList(s), NEW i \in DOMAIN s, NEW x
  PROVE  /\ IsList(SubSeq(s, 1, i - 1) \o SubSeq(s, i + 1, Len(s)))
         /\ IsList([s EXCEPT ![i] = x])
<1> PICK V : s \in Seq(V)
  BY DEF IsList
<1> DEFINE W == V \cup {x}
<1>1. s \in Seq(W)
  OBVIOUS
<1>2. [s EXCEPT ![i] = x] \in Seq(W)
  BY <1>1
<1>3. SubSeq(s, 1, i - 1) \in Seq(W)
  BY <1>1
<1>4. SubSeq(s, i + 1, Len(s)) \in Seq(W)
  BY <1>1
<1>5. SubSeq(s, 1, i - 1) \o SubSeq(s, i + 1, Len(s)) \in Seq(W)
  BY <1>3, <1>4
<1>6. IsList([s EXCEPT ![i] = x])
  BY <1>2 DEF IsList
<1>7. IsList(SubSeq(s, 1, i - 1) \o SubSeq(s, i + 1, Len(s)))
  BY <1>5 DEF IsList
<1> QED BY <1>6, <1>7

LEMMA ListAppended ==
  ASSUME NEW s, IsList(s), NEW x
  PROVE  IsList(Append(s, x))
<1> PICK V : s \in Seq(V)
  BY DEF IsList
<1> DEFINE W == V \cup {x}
<1>1. s \in Seq(W)
  OBVIOUS
<1>2. Append(s, x) \in Seq(W)
  BY <1>1
<1> QED BY <1>2 DEF IsList

LEMMA FilesAreConfigs == \A f \in Files : IsConfig(f)
  BY SettingsAssumption DEF IsConfig, IsList

(* What edits of one field leave of a configuration's shape.               *)
LEMMA FieldsReplaced ==
  ASSUME NEW c, IsConfig(c), NEW s, NEW r, IsList(s), IsList(r)
  PROVE  /\ IsConfig([c EXCEPT !.servers = s])
         /\ IsConfig([c EXCEPT !.rules = r])
         /\ IsConfig([c EXCEPT !.servers = s, !.rules = r])
<1>1. c = [name |-> c.name, servers |-> c.servers, on |-> c.on,
           rules |-> c.rules, calendar |-> c.calendar]
  BY DEF IsConfig
<1>2. [c EXCEPT !.servers = s] = [name |-> c.name, servers |-> s, on |-> c.on,
                                 rules |-> c.rules, calendar |-> c.calendar]
  BY <1>1
<1>3. [c EXCEPT !.rules = r] = [name |-> c.name, servers |-> c.servers, on |-> c.on,
                               rules |-> r, calendar |-> c.calendar]
  BY <1>1
<1>4. [c EXCEPT !.servers = s, !.rules = r]
        = [name |-> c.name, servers |-> s, on |-> c.on, rules |-> r,
           calendar |-> c.calendar]
  <2> DEFINE d == [c EXCEPT !.servers = s]
  <2>1. [c EXCEPT !.servers = s, !.rules = r] = [d EXCEPT !.rules = r]
    OBVIOUS
  <2>2. d = [name |-> c.name, servers |-> s, on |-> c.on, rules |-> c.rules,
             calendar |-> c.calendar]
    BY <1>2
  <2> HIDE DEF d
  <2>3. [d EXCEPT !.rules = r] = [name |-> c.name, servers |-> s, on |-> c.on,
                                 rules |-> r, calendar |-> c.calendar]
    BY <2>2
  <2> QED BY <2>1, <2>3
<1>5. IsList(c.servers) /\ IsList(c.rules)
  BY DEF IsConfig
<1> HIDE DEF IsList
<1>6. IsConfig([c EXCEPT !.servers = s])
  BY <1>2, <1>5 DEF IsConfig
<1>7. IsConfig([c EXCEPT !.rules = r])
  BY <1>3, <1>5 DEF IsConfig
<1>8. IsConfig([c EXCEPT !.servers = s, !.rules = r])
  BY <1>4, <1>5 DEF IsConfig
<1> QED BY <1>6, <1>7, <1>8

LEMMA FieldsOfNoList ==
  ASSUME NEW c, IsConfig(c), NEW x
  PROVE  /\ IsConfig([c EXCEPT !.name = x])
         /\ IsConfig([c EXCEPT !.on = x])
         /\ IsConfig([c EXCEPT !.calendar = x])
BY DEF IsConfig

LEMMA FormIsConfig ==
  ASSUME NEW c, IsConfig(c)
  PROVE  IsConfig(FromConfig(c))
<1> DEFINE r == FromConfig(c).rules
<1>0. "rules" \in DOMAIN c
  BY DEF IsConfig
<1>a. FromConfig(c) = [c EXCEPT !.rules = r]
  BY <1>0 DEF FromConfig
<1>b. r = [i \in DOMAIN c.rules |-> r[i]]
  BY <1>0 DEF FromConfig
<1> HIDE DEF r
<1>1. DOMAIN c.rules = 1..Len(c.rules) /\ Len(c.rules) \in Nat
  BY ListDomain DEF IsConfig
<1>2. IsList(r)
  BY <1>b, <1>1, FunctionIsList
<1>3. IsList(c.servers)
  BY DEF IsConfig
<1>4. IsConfig([c EXCEPT !.rules = r])
  BY <1>2, <1>3, FieldsReplaced
<1> QED BY <1>a, <1>4

LEMMA NamedIsList ==
  ASSUME NEW ss, IsList(ss) PROVE IsList(Named(ss))
<1> DEFINE with == {i \in DOMAIN ss : ss[i].url # ""}
<1>1. IsFiniteSet(1..Len(ss))
  BY ListDomain, FS_Interval
<1>2. with \subseteq 1..Len(ss)
  BY ListDomain
<1>3. IsFiniteSet(with)
  BY <1>1, <1>2, FS_Subset
<1>4. Cardinality(with) \in Nat
  BY <1>3, FS_CardinalityType
<1>5. Named(ss) = [k \in 1..Cardinality(with) |-> Named(ss)[k]]
  BY DEF Named
<1> HIDE DEF with
<1> QED BY <1>4, <1>5, FunctionIsList

LEMMA SavedIsConfig ==
  ASSUME NEW f, IsConfig(f)
  PROVE  IsConfig(ToConfig(f))
<1> DEFINE r == ToConfig(f).rules
<1>0. {"rules", "servers"} \subseteq DOMAIN f
  BY DEF IsConfig
<1>a. ToConfig(f) = [f EXCEPT !.servers = Named(f.servers), !.rules = r]
  BY <1>0 DEF ToConfig
<1>b. r = [i \in DOMAIN f.rules |-> r[i]]
  BY <1>0 DEF ToConfig
<1> HIDE DEF r
<1>1. DOMAIN f.rules = 1..Len(f.rules) /\ Len(f.rules) \in Nat
  BY ListDomain DEF IsConfig
<1>2. IsList(r)
  BY <1>b, <1>1, FunctionIsList
<1>3. IsList(Named(f.servers))
  BY NamedIsList DEF IsConfig
<1>4. IsConfig([f EXCEPT !.servers = Named(f.servers), !.rules = r])
  BY <1>2, <1>3, FieldsReplaced
<1> QED BY <1>a, <1>4
-----------------------------------------------------------------------------
(* The way of a rule through the form and back: its server's label becomes *)
(* the place of the first server with that label, and that place again its *)
(* label; a rule for any server gets place 0, which no server has.         *)

(* The places of a list, which 0 is not one of.                            *)
LEMMA Positions == \A n \in Nat : 1..n \subseteq Nat /\ 0 \notin 1..n
  OBVIOUS

Labelled(c, l) == {i \in DOMAIN c.servers : c.servers[i].label = l}
PlaceOf(c, l) == IF l = "" \/ Labelled(c, l) = {} THEN 0
                 ELSE CHOOSE i \in Labelled(c, l) :
                        \A j \in Labelled(c, l) : i <= j

LEMMA PlaceHasLabel ==
  ASSUME NEW c, IsConfig(c), NEW l,
         l \in {c.servers[j].label : j \in DOMAIN c.servers} \cup {""}
  PROVE  (IF PlaceOf(c, l) \in DOMAIN c.servers
          THEN c.servers[PlaceOf(c, l)].label ELSE "") = l
<1> DEFINE places == DOMAIN c.servers
           k == Len(c.servers)
<1>0. k \in Nat /\ places = 1..k
  BY ListDomain DEF IsConfig
<1> HIDE DEF places, k
<1>1. places \subseteq Nat /\ 0 \notin places
  BY <1>0, Positions, Zenon
<1>2. CASE l = ""
  <2>1. PlaceOf(c, l) = 0
    BY <1>2 DEF PlaceOf
  <2> QED BY <1>1, <1>2, <2>1 DEF places
<1>3. CASE l # ""
  <2>a. Labelled(c, l) # {}
    BY <1>3 DEF Labelled
  <2>b. Labelled(c, l) \subseteq places
    BY DEF Labelled, places
  <2>1. Labelled(c, l) # {} /\ Labelled(c, l) \subseteq Nat
    BY <1>1, <2>a, <2>b
  <2>2. \E i \in Labelled(c, l) : \A j \in Labelled(c, l) : i <= j
    BY <2>1, Least
  <2>3. PlaceOf(c, l) = CHOOSE i \in Labelled(c, l) : \A j \in Labelled(c, l) : i <= j
    BY <1>3, <2>1 DEF PlaceOf
  <2>4. PlaceOf(c, l) \in Labelled(c, l)
    BY <2>2, <2>3
  <2> QED BY <2>4 DEF Labelled
<1> QED BY <1>2, <1>3

LEMMA FormsFields ==
  ASSUME NEW c, IsConfig(c)
  PROVE  /\ FromConfig(c).servers = c.servers /\ FromConfig(c).on = c.on
         /\ DOMAIN FromConfig(c).rules = DOMAIN c.rules
         /\ \A i \in DOMAIN c.rules : FromConfig(c).rules[i] =
              [place |-> PlaceOf(c, c.rules[i].server),
               status |-> IF c.rules[i].status \in StatusOptions
                          THEN c.rules[i].status ELSE "",
               text |-> c.rules[i].text, action |-> EffectiveAction(c.rules[i])]
<1>1. {"servers", "rules", "on"} \subseteq DOMAIN c
  BY DEF IsConfig
<1> QED BY <1>1 DEF FromConfig, PlaceOf, Labelled

LEMMA SavedFields ==
  ASSUME NEW f, IsConfig(f)
  PROVE  /\ ToConfig(f).on = f.on
         /\ DOMAIN ToConfig(f).rules = DOMAIN f.rules
         /\ \A i \in DOMAIN f.rules : ToConfig(f).rules[i] =
              [server |-> IF f.rules[i].place \in DOMAIN f.servers
                          THEN f.servers[f.rules[i].place].label ELSE "",
               status |-> f.rules[i].status, text |-> f.rules[i].text,
               action |-> f.rules[i].action, suppress |-> FALSE]
<1>1. {"servers", "rules", "on"} \subseteq DOMAIN f
  BY DEF IsConfig
<1> QED BY <1>1 DEF ToConfig

(* The same rules apply and decide the same.                               *)
LEMMA RuleReturns ==
  ASSUME NEW c, IsConfig(c), Representable(c), NEW i \in DOMAIN c.rules, NEW n
  PROVE  LET r == ToConfig(FromConfig(c)).rules[i]
         IN /\ MatchesRule(n, r) = MatchesRule(n, c.rules[i])
            /\ EffectiveAction(r) = EffectiveAction(c.rules[i])
<1> DEFINE f == FromConfig(c)
           p == f.rules[i]
           r == ToConfig(f).rules[i]
           q == c.rules[i]
<1>1. IsConfig(f)
  BY FormIsConfig
<1>2. /\ f.servers = c.servers /\ i \in DOMAIN f.rules
      /\ p = [place |-> PlaceOf(c, q.server),
              status |-> IF q.status \in StatusOptions THEN q.status ELSE "",
              text |-> q.text, action |-> EffectiveAction(q)]
  BY FormsFields
<1> HIDE DEF f
<1>3. r = [server |-> IF p.place \in DOMAIN f.servers
                      THEN f.servers[p.place].label ELSE "",
           status |-> p.status, text |-> p.text, action |-> p.action,
           suppress |-> FALSE]
  BY <1>1, <1>2, SavedFields
<1>4. q.status \in StatusOptions \cup {""} /\
      q.server \in {c.servers[j].label : j \in DOMAIN c.servers} \cup {""}
  BY DEF Representable
<1> HIDE DEF p, r, q
<1>5. r.server = q.server
  <2>0. p.place = PlaceOf(c, q.server)
    BY <1>2
  <2>1. r.server = IF PlaceOf(c, q.server) \in DOMAIN c.servers
                   THEN c.servers[PlaceOf(c, q.server)].label ELSE ""
    BY <1>2, <1>3, <2>0
  <2> QED BY <1>4, <2>1, PlaceHasLabel
<1>6. /\ r.status = q.status /\ r.text = q.text
      /\ r.action = EffectiveAction(q) /\ r.suppress = FALSE
  <2>1. p.status = IF q.status \in StatusOptions THEN q.status ELSE ""
    BY <1>2
  <2>2. p.status = q.status
    BY <1>4, <2>1
  <2> QED BY <1>2, <1>3, <2>2
<1>7. MatchesRule(n, r) = MatchesRule(n, q)
  BY <1>5, <1>6 DEF MatchesRule
<1>8. EffectiveAction(r) = EffectiveAction(q)
  BY <1>6 DEF EffectiveAction
<1> QED BY <1>7, <1>8 DEF p, r, q, f

LEMMA RoundTrip ==
  ASSUME NEW c, IsConfig(c), Representable(c), NEW n
  PROVE  Verdict(n, ToConfig(FromConfig(c))) = Verdict(n, c)
<1> DEFINE d == ToConfig(FromConfig(c))
           Hits(e) == {i \in DOMAIN e.rules : MatchesRule(n, e.rules[i])}
           hit == CHOOSE i \in Hits(c) : \A j \in Hits(c) : i <= j
<1>1. d.on = c.on /\ DOMAIN d.rules = DOMAIN c.rules
  BY FormIsConfig, FormsFields, SavedFields
<1>2. \A i \in DOMAIN c.rules :
        /\ MatchesRule(n, d.rules[i]) = MatchesRule(n, c.rules[i])
        /\ EffectiveAction(d.rules[i]) = EffectiveAction(c.rules[i])
  BY RuleReturns
<1> HIDE DEF d
<1>3. Hits(d) = Hits(c)
  BY <1>1, <1>2
<1>4. ASSUME ~c.on \/ Hits(c) = {} PROVE Verdict(n, d) = Verdict(n, c)
  <2>1. Verdict(n, c) = "normal"
    BY <1>4 DEF Verdict
  <2>2. Verdict(n, d) = "normal"
    BY <1>1, <1>3, <1>4 DEF Verdict
  <2> QED BY <2>1, <2>2
<1>5. ASSUME ~(~c.on \/ Hits(c) = {}) PROVE Verdict(n, d) = Verdict(n, c)
  <2>1. Hits(c) \subseteq Nat
    BY ListDomain DEF IsConfig
  <2>2. \E i \in Hits(c) : \A j \in Hits(c) : i <= j
    BY <1>5, <2>1, Least
  <2>3. hit \in DOMAIN c.rules
    BY <2>2
  <2>4. Verdict(n, c) = EffectiveAction(c.rules[hit])
    BY <1>5 DEF Verdict
  <2>5. Verdict(n, d) = EffectiveAction(d.rules[hit])
    BY <1>1, <1>3, <1>5 DEF Verdict
  <2> QED BY <1>2, <2>3, <2>4, <2>5
<1>6. Verdict(n, d) = Verdict(n, c)
  BY <1>4, <1>5
<1> QED BY <1>6 DEF d
-----------------------------------------------------------------------------
(* What the daemon, the file and the window hold are configurations, and   *)
(* the window shows the daemon's until it is edited: no other step changes *)
(* the daemon's while the window is open.                                  *)
SaveInv ==
  /\ IsConfig(config)
  /\ disk = Broken \/ IsConfig(disk)
  /\ form # ClosedWindow =>
       IsConfig(form) /\ (~touched => form = FromConfig(config))

LEMMA ServersEdited ==
  ASSUME IsConfig(form), EditServers PROVE IsConfig(form')
<1> DEFINE ss == form.servers
<1>1. IsList(ss) /\ IsList(form.rules)
  BY DEF IsConfig
<1>2. ASSUME NEW s, IsList(s), form' = [form EXCEPT !.servers = s]
      PROVE  IsConfig(form')
  BY <1>1, <1>2, FieldsReplaced
<1>3. CASE form' = [form EXCEPT !.servers = Append(@, [url |-> "", label |-> ""])]
  BY <1>1, <1>2, <1>3, ListAppended
<1>4. ASSUME NEW i \in DOMAIN ss,
             form' = [form EXCEPT !.servers = SubSeq(@, 1, i - 1) \o SubSeq(@, i + 1, Len(@))]
      PROVE  IsConfig(form')
  BY <1>1, <1>2, <1>4, ListEdited
<1>5. ASSUME NEW i \in DOMAIN ss, form' = [form EXCEPT !.servers[i].url = "ws://new"]
      PROVE  IsConfig(form')
  <2>1. form' = [form EXCEPT !.servers = [ss EXCEPT ![i] = [ss[i] EXCEPT !.url = "ws://new"]]]
    BY <1>5
  <2> QED BY <1>1, <1>2, <2>1, ListEdited
<1>6. ASSUME NEW i \in DOMAIN ss, form' = [form EXCEPT !.servers[i].label = "new"]
      PROVE  IsConfig(form')
  <2>1. form' = [form EXCEPT !.servers = [ss EXCEPT ![i] = [ss[i] EXCEPT !.label = "new"]]]
    BY <1>6
  <2> QED BY <1>1, <1>2, <2>1, ListEdited
<1> QED BY <1>3, <1>4, <1>5, <1>6 DEF EditServers

LEMMA RulesEdited ==
  ASSUME IsConfig(form), EditRules PROVE IsConfig(form')
<1> DEFINE rs == form.rules
           new == [place |-> 0, status |-> "", text |-> NoText, action |-> "normal"]
<1>1. IsList(rs) /\ IsList(form.servers)
  BY DEF IsConfig
<1>2. ASSUME NEW r, IsList(r), form' = [form EXCEPT !.rules = r]
      PROVE  IsConfig(form')
  BY <1>1, <1>2, FieldsReplaced
<1>3. CASE form' = [form EXCEPT !.on = ~@]
  <2> DEFINE on == ~form.on
  <2>1. form' = [form EXCEPT !.on = on]
    BY <1>3, Zenon
  <2> HIDE DEF on
  <2> QED BY <2>1, FieldsOfNoList
<1>4. CASE form' = [form EXCEPT !.rules = Append(@, new)]
  BY <1>1, <1>2, <1>4, ListAppended
<1>5. ASSUME NEW i \in DOMAIN rs,
             form' = [form EXCEPT !.rules = SubSeq(@, 1, i - 1) \o SubSeq(@, i + 1, Len(@))]
      PROVE  IsConfig(form')
  BY <1>1, <1>2, <1>5, ListEdited
<1>6. ASSUME NEW i \in DOMAIN rs, NEW p, form' = [form EXCEPT !.rules[i].place = p]
      PROVE  IsConfig(form')
  <2>1. form' = [form EXCEPT !.rules = [rs EXCEPT ![i] = [rs[i] EXCEPT !.place = p]]]
    BY <1>6
  <2> QED BY <1>1, <1>2, <2>1, ListEdited
<1> QED BY <1>3, <1>4, <1>5, <1>6 DEF EditRules

LEMMA FormEdited ==
  ASSUME IsConfig(form), EditForm PROVE IsConfig(form')
<1>1. CASE EditCalendar
  BY <1>1, FieldsOfNoList DEF EditCalendar
<1>2. CASE form' = [form EXCEPT !.name = "new"]
  BY <1>2, FieldsOfNoList
<1> QED BY <1>1, <1>2, ServersEdited, RulesEdited DEF EditForm

LEMMA SaveStart ==
  ASSUME SettingsInit PROVE SaveInv
BY FilesAreConfigs DEF SettingsInit, SaveInv

LEMMA SaveStep ==
  ASSUME SaveInv, [SettingsNext]_settingsVars PROVE SaveInv'
<1>1. CASE TruncateFile \/ CloseSettings \/ AskReconnect \/ ReconnectServer
           \/ UNCHANGED settingsVars
  BY <1>1 DEF SaveInv, TruncateFile, CloseSettings, AskReconnect, ReconnectServer,
              settingsVars
<1>2. ASSUME NEW c \in Files, FillFile(c) \/ ReplaceFile(c) PROVE SaveInv'
  BY <1>2, FilesAreConfigs DEF SaveInv, FillFile, ReplaceFile
<1>3. CASE ConfigChanged
  BY <1>3 DEF SaveInv, ConfigChanged, ApplyConfig
<1>4. CASE OpenSettings
  BY <1>4, FormIsConfig DEF SaveInv, OpenSettings
<1>5. CASE EditForm
  BY <1>5, FormEdited DEF SaveInv, EditForm
<1>6. ASSUME NEW w \in BOOLEAN, SaveSettings(w) PROVE SaveInv'
  BY <1>6, SavedIsConfig DEF SaveInv, SaveSettings, ApplyConfig
<1>7. CASE RestartDaemon
  <2>1. IsConfig(Default)
    BY DEF Default, IsConfig, IsList
  <2> QED BY <1>7, <2>1 DEF SaveInv, RestartDaemon
<1> QED BY <1>1, <1>2, <1>3, <1>4, <1>5, <1>6, <1>7 DEF SettingsNext

LEMMA SaveDecidesTheSame ==
  ASSUME SaveInv, NEW w \in BOOLEAN, SaveSettings(w), ~touched,
         Representable(config), NEW n
  PROVE  Verdict(n, config') = Verdict(n, config)
<1>1. config' = ToConfig(FromConfig(config))
  BY DEF SaveSettings, ApplyConfig, SaveInv
<1> QED BY <1>1, RoundTrip DEF SaveInv

(* Opening the settings window and saving without an edit leaves the       *)
(* verdict on every notification as it was, provided every rule names a    *)
(* known status and a configured server or none: from_config and to_config *)
(* lose nothing else (SettingsState::from_config, to_config, match_rule).  *)
THEOREM SavingAsShownIsHarmless == SettingsSpec => UntouchedSaveIsHarmless
<1> DEFINE Harmless == (\E w \in BOOLEAN : SaveSettings(w)) /\ ~touched
                          /\ Representable(config)
                       => \A n \in Samples : Verdict(n, config') = Verdict(n, config)
<1>1. SaveInv /\ [SettingsNext]_settingsVars => [Harmless]_settingsVars
  BY SaveDecidesTheSame
<1>2. SettingsInit => SaveInv
  BY SaveStart
<1>3. SaveInv /\ [SettingsNext]_settingsVars => SaveInv'
  BY SaveStep
<1> QED BY <1>1, <1>2, <1>3, PTL DEF SettingsSpec, UntouchedSaveIsHarmless
-----------------------------------------------------------------------------
(* The types of the settings: a rule of the form refers to a server by its *)
(* place, whatever is edited.                                              *)

IsFormRule(r) ==
  /\ r = [place |-> r.place, status |-> r.status, text |-> r.text, action |-> r.action]
  /\ r.place \in Nat
FormRules(rs) == \A i \in DOMAIN rs : IsFormRule(rs[i])

LEMMA PlaceIsNumber ==
  ASSUME NEW c, IsConfig(c), NEW l
  PROVE  PlaceOf(c, l) \in Nat
<1>1. Labelled(c, l) \subseteq Nat
  BY ListDomain DEF Labelled, IsConfig
<1>2. CASE l = "" \/ Labelled(c, l) = {}
  BY <1>2 DEF PlaceOf
<1>3. CASE ~(l = "" \/ Labelled(c, l) = {})
  <2>1. \E i \in Labelled(c, l) : \A j \in Labelled(c, l) : i <= j
    BY <1>1, <1>3, Least
  <2>2. PlaceOf(c, l) = CHOOSE i \in Labelled(c, l) : \A j \in Labelled(c, l) : i <= j
    BY <1>3 DEF PlaceOf
  <2>3. PlaceOf(c, l) \in Labelled(c, l)
    BY <2>1, <2>2
  <2> QED BY <1>1, <2>3
<1> QED BY <1>2, <1>3

LEMMA OpenedFormRules ==
  ASSUME NEW c, IsConfig(c)
  PROVE  FormRules(FromConfig(c).rules)
<1> SUFFICES ASSUME NEW i \in DOMAIN FromConfig(c).rules
             PROVE  IsFormRule(FromConfig(c).rules[i])
  BY DEF FormRules
<1> DEFINE r == FromConfig(c).rules[i]
           k == PlaceOf(c, c.rules[i].server)
           st == IF c.rules[i].status \in StatusOptions THEN c.rules[i].status ELSE ""
<1>0. i \in DOMAIN c.rules
  BY FormsFields
<1>1. r = [place |-> k, status |-> st, text |-> c.rules[i].text,
           action |-> EffectiveAction(c.rules[i])]
  BY <1>0, FormsFields
<1>2. k \in Nat
  BY PlaceIsNumber
<1> HIDE DEF r, k, st
<1>3. IsFormRule(r)
  BY <1>1, <1>2 DEF IsFormRule
<1> QED BY <1>3 DEF r

(* What the buttons of the rules' list do to it.                           *)
LEMMA FormRulesEdited ==
  ASSUME NEW rs, IsList(rs), FormRules(rs)
  PROVE  /\ \A r : IsFormRule(r) => FormRules(Append(rs, r))
         /\ \A i \in DOMAIN rs :
              /\ FormRules(SubSeq(rs, 1, i - 1) \o SubSeq(rs, i + 1, Len(rs)))
              /\ \A p \in Nat : FormRules([rs EXCEPT ![i].place = p])
<1> DEFINE V == {rs[i] : i \in DOMAIN rs}
<1>1. rs \in Seq(V) /\ Len(rs) \in Nat /\ DOMAIN rs = 1..Len(rs)
  BY ListDomain DEF IsList
<1>2. \A v \in V : IsFormRule(v)
  BY DEF FormRules
<1> HIDE DEF V
<1>3. ASSUME NEW r, IsFormRule(r) PROVE FormRules(Append(rs, r))
  <2> DEFINE W == V \cup {r}
             s == Append(rs, r)
  <2>1. \A v \in W : IsFormRule(v)
    BY <1>2, <1>3
  <2>2. s \in Seq(W)
    BY <1>1
  <2> HIDE DEF W, s
  <2>3. \A i \in DOMAIN s : s[i] \in W
    BY <2>2
  <2>4. FormRules(s)
    BY <2>1, <2>3 DEF FormRules
  <2> QED BY <2>4 DEF s
<1>4. ASSUME NEW i \in DOMAIN rs
      PROVE  FormRules(SubSeq(rs, 1, i - 1) \o SubSeq(rs, i + 1, Len(rs)))
  <2> DEFINE s == SubSeq(rs, 1, i - 1) \o SubSeq(rs, i + 1, Len(rs))
  <2>1. SubSeq(rs, 1, i - 1) \in Seq(V) /\ SubSeq(rs, i + 1, Len(rs)) \in Seq(V)
    BY <1>1
  <2>2. s \in Seq(V)
    BY <2>1
  <2> HIDE DEF s
  <2>3. \A j \in DOMAIN s : s[j] \in V
    BY <2>2
  <2>4. FormRules(s)
    BY <1>2, <2>3 DEF FormRules
  <2> QED BY <2>4 DEF s
<1>5. ASSUME NEW i \in DOMAIN rs, NEW p \in Nat
      PROVE  FormRules([rs EXCEPT ![i].place = p])
  <2> DEFINE q == [rs[i] EXCEPT !.place = p]
             s == [rs EXCEPT ![i] = q]
  <2>1. IsFormRule(q)
    <3>1. IsFormRule(rs[i])
      BY DEF FormRules
    <3>2. q = [place |-> p, status |-> rs[i].status, text |-> rs[i].text,
               action |-> rs[i].action]
      BY <3>1 DEF IsFormRule
    <3> HIDE DEF q
    <3> QED BY <3>2 DEF IsFormRule
  <2>2. [rs EXCEPT ![i].place = p] = s
    OBVIOUS
  <2> HIDE DEF q
  <2>3. FormRules(s)
    BY <2>1 DEF FormRules
  <2> QED BY <2>2, <2>3
<1> QED BY <1>3, <1>4, <1>5

SettingsTypes ==
  /\ edits \in 0..MaxEdits
  /\ {watching, touched, skipped, unseen} \subseteq BOOLEAN
  /\ form # ClosedWindow => FormRules(form.rules)

LEMMA EditedFormRules ==
  ASSUME SaveInv, SettingsTypes, EditForm
  PROVE  FormRules(form'.rules)
<1>0. IsConfig(form) /\ FormRules(form.rules)
  BY DEF EditForm, SaveInv, SettingsTypes
<1>1. /\ form = [name |-> form.name, servers |-> form.servers, on |-> form.on,
                 rules |-> form.rules, calendar |-> form.calendar]
      /\ IsList(form.rules) /\ Len(form.servers) \in Nat
  BY <1>0, ListDomain DEF IsConfig
<1>2. ASSUME NEW r, FormRules(r), form' = [form EXCEPT !.rules = r]
      PROVE  FormRules(form'.rules)
  <2>1. form'.rules = r
    BY <1>1, <1>2
  <2> QED BY <1>2, <2>1
<1>3. CASE EditServers
  <2>1. form'.rules = form.rules
    BY <1>1, <1>3 DEF EditServers
  <2> QED BY <1>0, <2>1
<1>4. CASE EditCalendar \/ form' = [form EXCEPT !.name = "new"]
  <2>1. form'.rules = form.rules
    BY <1>1, <1>4 DEF EditCalendar
  <2> QED BY <1>0, <2>1
<1>5. CASE EditRules
  <2> DEFINE rs == form.rules
             new == [place |-> 0, status |-> "", text |-> NoText, action |-> "normal"]
  <2>1. CASE form' = [form EXCEPT !.on = ~@]
    <3> DEFINE on == ~form.on
    <3>1. form' = [form EXCEPT !.on = on]
      BY <2>1, Zenon
    <3> HIDE DEF on
    <3>2. form'.rules = form.rules
      BY <1>1, <3>1
    <3> QED BY <1>0, <3>2
  <2>2. CASE form' = [form EXCEPT !.rules = Append(@, new)]
    <3>1. IsFormRule(new)
      BY DEF IsFormRule
    <3>2. FormRules(Append(rs, new))
      BY <1>0, <1>1, <3>1, FormRulesEdited
    <3>3. form' = [form EXCEPT !.rules = Append(rs, new)]
      BY <2>2
    <3> QED BY <1>2, <3>2, <3>3
  <2>3. ASSUME NEW i \in DOMAIN rs,
               form' = [form EXCEPT !.rules = SubSeq(@, 1, i - 1) \o SubSeq(@, i + 1, Len(@))]
        PROVE  FormRules(form'.rules)
    <3> DEFINE t == SubSeq(rs, 1, i - 1) \o SubSeq(rs, i + 1, Len(rs))
    <3>1. FormRules(t)
      BY <1>0, <1>1, FormRulesEdited
    <3>2. form' = [form EXCEPT !.rules = t]
      BY <2>3
    <3> HIDE DEF t
    <3> QED BY <1>2, <3>1, <3>2
  <2>4. ASSUME NEW i \in DOMAIN rs, NEW p \in 0..Len(form.servers),
               form' = [form EXCEPT !.rules[i].place = p]
        PROVE  FormRules(form'.rules)
    <3> DEFINE t == [rs EXCEPT ![i].place = p]
    <3>0. p \in Nat
      BY <1>1
    <3>1. FormRules(t)
      BY <1>0, <1>1, <3>0, FormRulesEdited
    <3>2. form' = [form EXCEPT !.rules = t]
      BY <2>4
    <3> HIDE DEF t
    <3> QED BY <1>2, <3>1, <3>2
  <2> QED BY <1>5, <2>1, <2>2, <2>3, <2>4 DEF EditRules
<1> QED BY <1>3, <1>4, <1>5 DEF EditForm

LEMMA SettingsTypesStep ==
  ASSUME SaveInv, SettingsTypes, [SettingsNext]_settingsVars
  PROVE  SettingsTypes'
<1> USE DEF SettingsTypes
<1>1. edits' \in 0..MaxEdits
  <2>1. edits' = edits \/ Edit
    BY DEF SettingsNext, settingsVars, TruncateFile, FillFile, ReplaceFile, ConfigChanged,
           OpenSettings, EditForm, SaveSettings, CloseSettings, AskReconnect,
           ReconnectServer, RestartDaemon
  <2> QED BY <2>1, SettingsAssumption DEF Edit
<1>2. {watching', touched', skipped', unseen'} \subseteq BOOLEAN
  BY DEF SettingsNext, settingsVars, FileModified, TruncateFile, FillFile, ReplaceFile,
         ConfigChanged, OpenSettings, EditForm, SaveSettings, CloseSettings,
         AskReconnect, ReconnectServer, RestartDaemon
<1>3. CASE UNCHANGED form \/ form' = ClosedWindow
  BY <1>1, <1>2, <1>3
<1>4. CASE OpenSettings
  BY <1>1, <1>2, <1>4, OpenedFormRules DEF OpenSettings, SaveInv
<1>5. CASE EditForm
  BY <1>1, <1>2, <1>5, EditedFormRules
<1>6. UNCHANGED form \/ form' = ClosedWindow \/ OpenSettings \/ EditForm
  BY DEF SettingsNext, settingsVars, TruncateFile, FillFile, ReplaceFile, ConfigChanged,
         SaveSettings, CloseSettings, AskReconnect, ReconnectServer, RestartDaemon
<1> QED BY <1>3, <1>4, <1>5, <1>6

LEMMA SettingsTypesInit == SettingsInit => SettingsTypes
<1>1. 0 \in 0..MaxEdits
  BY SettingsAssumption
<1> QED BY <1>1 DEF SettingsInit, SettingsTypes

LEMMA SameInterval ==
  ASSUME NEW m \in Nat, NEW n \in Nat, 1..m = 1..n PROVE m = n
<1>1. m \in 1..m => m <= n
  OBVIOUS
<1>2. n \in 1..n => n <= m
  OBVIOUS
<1> QED BY <1>1, <1>2

(* The settings keep their types: whatever servers and rules are added,    *)
(* changed and removed in the form, each of its rules refers to a server   *)
(* by a place or to any, and there are as many handles as the daemon's     *)
(* configuration has servers.                                              *)
THEOREM SettingsAreWellTyped == SettingsSpec => []SettingsTypeOK
<1>1. SaveInv /\ FollowInv /\ HandlesAreParallel /\ SettingsTypes => SettingsTypeOK
  <2> SUFFICES ASSUME SaveInv, FollowInv, HandlesAreParallel, SettingsTypes
               PROVE  SettingsTypeOK
    OBVIOUS
  <2>1. Len(handles) = Len(config.servers)
    <3> DEFINE n == Len(config.servers)
    <3>1. n \in Nat /\ DOMAIN config.servers = 1..n
      BY ListDomain DEF SaveInv, IsConfig
    <3> HIDE DEF n
    <3>2. handles = [i \in 1..n |-> handles[i]]
      BY <3>1 DEF HandlesAreParallel, ClientsOf
    <3>3. IsList(handles) /\ DOMAIN handles = 1..n
      BY <3>1, <3>2, FunctionIsList
    <3>4. Len(handles) \in Nat /\ 1..Len(handles) = 1..n
      BY <3>3, ListDomain
    <3>5. Len(handles) = n
      BY <3>1, <3>4, SameInterval
    <3> QED BY <3>5 DEF n
  <2>2. form # ClosedWindow => \A i \in DOMAIN form.rules : form.rules[i].place \in Nat
    BY DEF SettingsTypes, FormRules, IsFormRule
  <2>3. {watching, touched, skipped, unseen} \subseteq BOOLEAN
    BY DEF SettingsTypes
  <2> QED BY <2>1, <2>2, <2>3 DEF FollowInv, SettingsTypes, SettingsTypeOK
<1>2. SettingsInit => FollowInv
  BY DEF SettingsInit, FollowInv, ConfigFollowsFile, ChangesAreSeen
<1> QED BY <1>1, <1>2, SaveStart, SaveStep, FollowStep, SettingsTypesInit,
           SettingsTypesStep, ClientsMatchServers, PTL DEF SettingsSpec
-----------------------------------------------------------------------------
(* The open center panel: where the cards are.                             *)

(* A running sum exists: a recursive function on an initial segment.       *)
Running(rs, u, j, f) ==
  IF j = 0 THEN 0 ELSE f[j - 1] + Height(rs[j], u) + Gap

LEMMA SumsExist ==
  ASSUME NEW rs, NEW u
  PROVE  \A n \in Nat : \E f : f = [j \in 0..n |-> Running(rs, u, j, f)]
<1> DEFINE Bad == {n \in Nat : ~\E f : f = [j \in 0..n |-> Running(rs, u, j, f)]}
<1>1. ASSUME Bad # {} PROVE FALSE
  <2>1. PICK n \in Bad : \A m \in Bad : n <= m
    <3>1. Bad \subseteq Nat
      OBVIOUS
    <3> HIDE DEF Bad
    <3> QED BY <1>1, <3>1, Least
  <2>2. n \in Nat
    OBVIOUS
  <2>3. n # 0
    <3> DEFINE f == [j \in 0..0 |-> 0]
    <3>1. f = [j \in 0..0 |-> Running(rs, u, j, f)]
      BY DEF Running
    <3> HIDE DEF f
    <3>2. \E g : g = [j \in 0..0 |-> Running(rs, u, j, g)]
      BY <3>1
    <3> QED BY <2>1, <3>2
  <2>4. n - 1 \in Nat /\ n - 1 \notin Bad
    BY <2>1, <2>2, <2>3
  <2>5. PICK f : f = [j \in 0..n - 1 |-> Running(rs, u, j, f)]
    BY <2>4
  <2> DEFINE v == Running(rs, u, n, f)
             g == [j \in 0..n |-> IF j = n THEN v ELSE f[j]]
  <2>6. \A j \in 0..n - 1 : g[j] = f[j] /\ f[j] = Running(rs, u, j, f)
    BY <2>2, <2>5
  <2>7. g[n] = v
    BY <2>2
  <2>8. g = [j \in 0..n |-> g[j]]
    OBVIOUS
  <2> HIDE DEF g
  <2>9. ASSUME NEW j \in 0..n PROVE g[j] = Running(rs, u, j, g)
    <3>1. CASE j = n
      <4>1. g[n - 1] = f[n - 1]
        BY <2>4, <2>6
      <4> QED BY <2>3, <2>7, <3>1, <4>1 DEF Running
    <3>2. CASE j # n /\ j # 0
      <4>1. j \in 0..n - 1 /\ j - 1 \in 0..n - 1
        BY <2>2, <3>2
      <4>2. g[j] = Running(rs, u, j, f) /\ g[j - 1] = f[j - 1]
        BY <2>6, <4>1
      <4> QED BY <3>2, <4>2 DEF Running
    <3>3. CASE j # n /\ j = 0
      <4>1. 0 \in 0..n - 1
        BY <2>2, <2>3
      <4>2. g[0] = Running(rs, u, 0, f)
        BY <2>6, <4>1
      <4> QED BY <3>3, <4>2 DEF Running
    <3> QED BY <3>1, <3>2, <3>3
  <2>10. g = [j \in 0..n |-> Running(rs, u, j, g)]
    BY <2>8, <2>9
  <2> QED BY <2>1, <2>10
<1> QED BY <1>1

LEMMA AboveUnfolds ==
  ASSUME NEW rs, NEW u, NEW n \in Nat, Len(rs) = n
  PROVE  \E f : /\ \A j \in 0..n : f[j] = Running(rs, u, j, f)
                /\ \A i : Above(rs, u, i) = f[i - 1]
<1> DEFINE f == CHOOSE g : g = [j \in 0..n |-> Running(rs, u, j, g)]
<1>1. f = [j \in 0..n |-> Running(rs, u, j, f)]
  BY SumsExist
<1>2. \A i : Above(rs, u, i) = f[i - 1]
  BY DEF Above, Running
<1> HIDE DEF f
<1>3. \A j \in 0..n : f[j] = Running(rs, u, j, f)
  BY <1>1
<1> QED BY <1>2, <1>3

(* Where a card begins is a number, and the next begins below it.          *)
LEMMA AboveNextOf ==
  ASSUME NEW rs \in Seq(Notes), NEW u, \A m \in Notes : Height(m, u) \in Nat,
         NEW n \in Nat, Len(rs) = n
  PROVE  /\ Above(rs, u, 1) = 0
         /\ \A i \in 1..n + 1 : Above(rs, u, i) \in Nat
         /\ \A i \in 1..n :
              Above(rs, u, i + 1) = Above(rs, u, i) + Height(rs[i], u) + Gap
<1>1. n \in Nat /\ Gap \in Nat
  BY PanelAssumption
<1>2. PICK f : /\ \A j \in 0..n : f[j] = Running(rs, u, j, f)
               /\ \A i : Above(rs, u, i) = f[i - 1]
  BY AboveUnfolds
<1>3. \A i : Above(rs, u, i) = f[i - 1]
  BY <1>2
<1>4. \A j \in 0..n : f[j] = Running(rs, u, j, f)
  BY <1>2
<1>5. f[0] = 0
  BY <1>1, <1>4 DEF Running
<1>6. \A i \in 1..n : f[i] = f[i - 1] + Height(rs[i], u) + Gap
  <2> TAKE i \in 1..n
  <2>1. i \in 0..n /\ i # 0
    BY <1>1
  <2> QED BY <1>4, <2>1 DEF Running
<1>7. \A i \in 1..n : Height(rs[i], u) \in Nat
  OBVIOUS
<1>8. \A j \in 0..n : f[j] \in Nat
  <2> DEFINE Bad == {j \in 0..n : f[j] \notin Nat}
  <2>1. ASSUME Bad # {} PROVE FALSE
    <3>1. PICK j \in Bad : \A k \in Bad : j <= k
      <4>1. Bad \subseteq Nat
        BY <1>1
      <4> HIDE DEF Bad
      <4> QED BY <2>1, <4>1, Least
    <3>2. j # 0 /\ j \in 1..n
      BY <1>1, <1>5, <3>1
    <3>3. j - 1 \in 0..n /\ j - 1 \notin Bad
      BY <1>1, <3>1, <3>2
    <3>4. f[j - 1] \in Nat
      BY <3>3
    <3>5. f[j] \in Nat
      BY <1>1, <1>6, <1>7, <3>2, <3>4
    <3> QED BY <3>1, <3>5
  <2> QED BY <2>1
<1>9. \A i \in 1..n + 1 : i - 1 \in 0..n
  BY <1>1
<1>10. \A i \in 1..n : (i + 1) - 1 = i
  BY <1>1
<1>11. \A i \in 1..n : Above(rs, u, i + 1) = f[i] /\ Above(rs, u, i) = f[i - 1]
  BY <1>3, <1>10
<1>12. Above(rs, u, 1) = 0
  <2>1. 1 - 1 = 0
    OBVIOUS
  <2> QED BY <1>3, <1>5, <2>1
<1>13. \A i \in 1..n + 1 : Above(rs, u, i) \in Nat
  BY <1>3, <1>8, <1>9
<1>14. \A i \in 1..n : Above(rs, u, i + 1) = Above(rs, u, i) + Height(rs[i], u) + Gap
  BY <1>6, <1>11
<1> QED BY <1>12, <1>13, <1>14

LEMMA AboveNext ==
  ASSUME NEW rs \in Seq(Notes), NEW u, \A n \in Notes : Height(n, u) \in Nat
  PROVE  /\ Above(rs, u, 1) = 0
         /\ \A i \in 1..Len(rs) + 1 : Above(rs, u, i) \in Nat
         /\ \A i \in 1..Len(rs) :
              Above(rs, u, i + 1) = Above(rs, u, i) + Height(rs[i], u) + Gap
<1>1. Len(rs) \in Nat
  OBVIOUS
<1> QED BY <1>1, AboveNextOf

(* A later card begins below an earlier one.                               *)
LEMMA LaterIsBelow ==
  ASSUME NEW rs \in Seq(Notes), NEW u, \A n \in Notes : Height(n, u) \in Nat,
         NEW i \in 1..Len(rs), NEW k \in 1..Len(rs), i < k
  PROVE  Above(rs, u, i) + Height(rs[i], u) <= Above(rs, u, k)
<1> DEFINE n == Len(rs)
           a(j) == Above(rs, u, j)
           b == a(i) + Height(rs[i], u)
           Bad == {j \in i + 1..n : ~(b <= a(j))}
<1>1. n \in Nat /\ Gap \in Nat
  BY PanelAssumption
<1>2. \A j \in 1..n : Height(rs[j], u) \in Nat
  OBVIOUS
<1>3. \A j \in 1..n : a(j) \in Nat /\ a(j + 1) = a(j) + Height(rs[j], u) + Gap
  <2> TAKE j \in 1..n
  <2>1. j \in 1..n + 1
    BY <1>1
  <2> QED BY <2>1, AboveNext
<1> HIDE DEF a
<1>4. b \in Nat
  <2>1. a(i) \in Nat /\ Height(rs[i], u) \in Nat
    BY <1>2, <1>3
  <2> QED BY ONLY <2>1
<1> HIDE DEF n
<1>5. ASSUME Bad # {} PROVE FALSE
  <2>1. PICK j \in Bad : \A l \in Bad : j <= l
    <3>1. Bad \subseteq Nat
      BY <1>1 DEF n
    <3> HIDE DEF Bad
    <3> QED BY <1>5, <3>1, Least
  <2>2. j \in i + 1..n /\ ~(b <= a(j)) /\ i \in 1..n /\ i \in Nat /\ j \in Nat
    BY <1>1, <2>1 DEF n
  <2>3. CASE j = i + 1
    <3>1. a(i + 1) = a(i) + Height(rs[i], u) + Gap
      BY <1>3, <2>2
    <3> QED BY <1>1, <1>2, <1>3, <2>2, <2>3, <3>1
  <2>4. CASE j # i + 1
    <3>1. j - 1 \in i + 1..n /\ j - 1 \in 1..n /\ j - 1 < j /\ (j - 1) + 1 = j
      BY <1>1, <2>2, <2>4
    <3>2. b <= a(j - 1)
      BY <2>1, <2>2, <3>1
    <3>3. a(j) = a(j - 1) + Height(rs[j - 1], u) + Gap
      BY <1>3, <3>1
    <3>4. a(j - 1) \in Nat /\ Height(rs[j - 1], u) \in Nat
      BY <1>2, <1>3, <3>1
    <3> HIDE DEF b
    <3>5. b <= a(j)
      BY <1>1, <1>4, <3>2, <3>3, <3>4
    <3> QED BY <2>2, <3>5
  <2> QED BY <2>3, <2>4
<1>6. k \in i + 1..n
  BY <1>1 DEF n
<1>7. b <= a(k)
  BY <1>5, <1>6
<1> QED BY <1>7 DEF a
-----------------------------------------------------------------------------
(* The open center panel: its types, and no point on two cards.            *)

LEMMA HeightIsNumber ==
  ASSUME NEW u \in [Notes -> 0..Frames] PROVE \A n \in Notes : Height(n, u) \in Nat
<1>1. \A a, b \in Nat : a * b \in Nat
  OBVIOUS
<1> TAKE n \in Notes
<1>2. Folded[n] \in Nat /\ Extra[n] \in Nat /\ u[n] \in Nat
  BY PanelAssumption
<1> QED BY <1>1, <1>2 DEF Height

LEMMA ClampIsNumber ==
  ASSUME NEW sc \in Int, NEW h \in Int PROVE Clamp(sc, h) \in Nat
<1>1. View \in Nat
  BY PanelAssumption
<1> QED BY <1>1 DEF Clamp, Larger, Smaller

LEMMA RemoveAtTypes ==
  ASSUME NEW S, NEW s \in Seq(S), IsInjective(s), NEW i \in 1..Len(s)
  PROVE  RemoveAt(s, i) \in Seq(S) /\ IsInjective(RemoveAt(s, i))
<1> DEFINE r == RemoveAt(s, i)
           low == SubSeq(s, 1, i - 1)
           high == SubSeq(s, i + 1, Len(s))
<1>1. Len(s) \in Nat /\ i \in Nat /\ 1 <= i /\ i <= Len(s)
  OBVIOUS
<1>2. low \in Seq(S) /\ Len(low) = i - 1 /\ \A j \in 1..i - 1 : low[j] = s[j]
  BY <1>1
<1>3. /\ high \in Seq(S) /\ Len(high) = Len(s) - i
      /\ \A j \in 1..Len(s) - i : high[j] = s[j + i]
  BY <1>1
<1>4. r = low \o high
  BY DEF RemoveAt
<1> HIDE DEF r, low, high
<1>5. r \in Seq(S) /\ Len(r) = Len(s) - 1
  BY <1>1, <1>2, <1>3, <1>4
<1>6. \A j \in 1..Len(s) - 1 : r[j] = IF j < i THEN s[j] ELSE s[j + 1]
  <2> TAKE j \in 1..Len(s) - 1
  <2>1. r[j] = IF j <= Len(low) THEN low[j] ELSE high[j - Len(low)]
    BY <1>1, <1>2, <1>3, <1>4
  <2>2. CASE j < i
    BY <1>1, <1>2, <2>1, <2>2
  <2>3. CASE ~(j < i)
    <3>1. j - Len(low) = j - i + 1 /\ j - i + 1 \in 1..Len(s) - i /\ (j - i + 1) + i = j + 1
      BY <1>1, <1>2, <2>3
    <3> QED BY <1>1, <1>2, <1>3, <2>1, <2>3, <3>1
  <2> QED BY <2>2, <2>3
<1>7. DOMAIN r = 1..Len(s) - 1 /\ DOMAIN s = 1..Len(s) /\ Len(s) \in Nat
  BY <1>1, <1>5
<1>8. ASSUME NEW j \in DOMAIN r, NEW k \in DOMAIN r, r[j] = r[k] PROVE j = k
  <2>1. j \in Nat /\ k \in Nat /\ {j, j + 1, k, k + 1} \subseteq DOMAIN s
    BY <1>7
  <2>2. \A a, b \in DOMAIN s : s[a] = s[b] => a = b
    BY DEF IsInjective
  <2> QED BY <1>6, <1>7, <1>8, <2>1, <2>2
<1>9. IsInjective(r)
  BY <1>8 DEF IsInjective
<1> QED BY <1>5, <1>9 DEF r

LEMMA WithoutTypes ==
  ASSUME rows \in Seq(Notes), IsInjective(rows), NEW n
  PROVE  Without(n) \in Seq(Notes) /\ IsInjective(Without(n))
<1>1. CASE n \in Range(rows)
  <2>1. RowOf(n) \in 1..Len(rows)
    BY <1>1 DEF Range, RowOf
  <2> QED BY <1>1, <2>1, RemoveAtTypes DEF Without
<1> QED BY <1>1 DEF Without

LEMMA AppendTypes ==
  ASSUME NEW S, NEW s \in Seq(S), IsInjective(s), NEW x \in S \ Range(s)
  PROVE  Append(s, x) \in Seq(S) /\ IsInjective(Append(s, x))
<1> DEFINE r == Append(s, x)
<1>1. r \in Seq(S) /\ DOMAIN r = 1..Len(s) + 1 /\ DOMAIN s = 1..Len(s) /\ Len(s) \in Nat
  OBVIOUS
<1>2. \A j \in 1..Len(s) : r[j] = s[j] /\ s[j] # x
  BY DEF Range
<1>3. r[Len(s) + 1] = x
  OBVIOUS
<1> HIDE DEF r
<1>4. ASSUME NEW j \in DOMAIN r, NEW k \in DOMAIN r, r[j] = r[k] PROVE j = k
  BY <1>1, <1>2, <1>3, <1>4 DEF IsInjective
<1>5. IsInjective(r)
  BY <1>4 DEF IsInjective
<1> QED BY <1>1, <1>5 DEF r

(* The least button that holds a point is one of the card's.               *)
LEMMA OnCardTypes ==
  ASSUME NEW rs \in Seq(Notes), NEW sc, NEW u, NEW i \in DOMAIN rs, NEW left, NEW at
  PROVE  LET o == OnCard(rs, sc, u, i, left, at)
         IN /\ o[1] \in {"card", "button"} /\ o[2] = rs[i]
            /\ o[1] = "button" => o[3] \in DOMAIN Widths[o[2]]
<1> DEFINE n == rs[i]
           bottom == Top(rs, sc, u, i) + Height(n, u)
           hits == ButtonsAt(n, left, bottom, at)
           k == CHOOSE k \in hits : \A l \in hits : k <= l
           o == OnCard(rs, sc, u, i, left, at)
<1>1. hits \subseteq DOMAIN Widths[n]
  BY DEF ButtonsAt
<1>2. o = IF hits = {} THEN <<"card", n, 0>> ELSE <<"button", n, k>>
  BY DEF OnCard
<1>3. DOMAIN Widths[n] \subseteq Nat
  <2>1. n \in Notes
    OBVIOUS
  <2>2. Widths[n] \in Seq(Nat)
    BY <2>1, PanelAssumption
  <2> HIDE DEF n
  <2>3. IsList(Widths[n])
    BY <2>2 DEF IsList
  <2> QED BY <2>3, ListDomain
<1> HIDE DEF n, hits, k, o
<1>4. ASSUME hits # {} PROVE k \in hits
  <2>1. \E m \in hits : \A l \in hits : m <= l
    BY <1>1, <1>3, <1>4, Least
  <2> QED BY <2>1 DEF k
<1>5. CASE hits = {}
  BY <1>2, <1>5 DEF n, o
<1>6. CASE hits # {}
  BY <1>1, <1>2, <1>4, <1>6 DEF n, o
<1> QED BY <1>5, <1>6

LEMMA OnHeaderTypes ==
  ASSUME NEW rs, NEW at
  PROVE  OnHeader(rs, at)[1] \in {"nothing", "close", "clear"}
BY DEF OnHeader, Nothing

LEMMA UnderTypes ==
  ASSUME NEW rs \in Seq(Notes), NEW sc, NEW u, NEW at
  PROVE  LET o == Under(rs, sc, u, at)
         IN /\ o[1] \in {"nothing", "close", "clear", "button", "card"}
            /\ o[1] = "button" => o[3] \in DOMAIN Widths[o[2]]
<1> DEFINE here == CardsAt(rs, sc, u, at)
           i == CHOOSE j \in here : TRUE
<1>1. Under(rs, sc, u, at) = IF at[2] < Header THEN OnHeader(rs, at)
                             ELSE IF here = {} THEN Nothing
                             ELSE OnCard(rs, sc, u, i, ContentX, at)
  BY DEF Under
<1>2. here # {} => i \in DOMAIN rs
  BY DEF CardsAt
<1> HIDE DEF here, i
<1>3. CASE at[2] < Header
  BY <1>1, <1>3, OnHeaderTypes
<1>4. CASE ~(at[2] < Header) /\ here = {}
  <2>1. Under(rs, sc, u, at) = Nothing
    BY <1>1, <1>4
  <2>2. Nothing[1] = "nothing"
    BY DEF Nothing
  <2> QED BY <2>1, <2>2
<1>5. CASE ~(at[2] < Header) /\ here # {}
  <2>1. Under(rs, sc, u, at) = OnCard(rs, sc, u, i, ContentX, at)
    BY <1>1, <1>5
  <2> QED BY <1>2, <1>5, <2>1, OnCardTypes
<1> QED BY <1>3, <1>4, <1>5

LEMMA GrownTypes ==
  ASSUME unfold \in [Notes -> 0..Frames], NEW aim
  PROVE  Grown(aim) \in [Notes -> 0..Frames]
<1>1. Frames \in Nat
  BY PanelAssumption
<1> DEFINE Goal(n) == IF aim[1] \in {"card", "button"} /\ aim[2] = n /\ Extra[n] > 0
                      THEN Frames ELSE 0
           next(n) == CASE n \notin Range(rows) -> 0
                        [] n \in Range(rows) /\ unfold[n] < Goal(n) -> unfold[n] + 1
                        [] n \in Range(rows) /\ unfold[n] > Goal(n) -> unfold[n] - 1
                        [] OTHER -> unfold[n]
<1>2. ASSUME NEW n \in Notes PROVE next(n) \in 0..Frames
  <2>1. unfold[n] \in 0..Frames /\ Goal(n) \in 0..Frames
    BY <1>1
  <2> HIDE DEF Goal
  <2> QED BY <1>1, <2>1
<1>3. Grown(aim) = [n \in Notes |-> next(n)]
  BY DEF Grown
<1> HIDE DEF next
<1> QED BY <1>2, <1>3

(* No point lies on two cards, wherever the panel is scrolled to.          *)
LEMMA OneCardUnder ==
  ASSUME NEW rs \in Seq(Notes), NEW sc \in Nat, NEW u \in [Notes -> 0..Frames],
         NEW s \in Spots
  PROVE  Cardinality(CardsAt(rs, sc, u, s)) <= 1
<1> DEFINE C == CardsAt(rs, sc, u, s)
           a(j) == Above(rs, u, j)
           h(j) == Height(rs[j], u)
<1>1. Header \in Nat /\ s[2] \in Int /\ Len(rs) \in Nat
  BY PanelAssumption
<1>2. \A n \in Notes : Height(n, u) \in Nat
  BY HeightIsNumber
<1>3. \A j \in 1..Len(rs) : j \in Nat /\ a(j) \in Nat /\ h(j) \in Nat
  <2> TAKE j \in 1..Len(rs)
  <2>1. j \in Nat /\ j \in 1..Len(rs) + 1 /\ rs[j] \in Notes
    BY <1>1
  <2>2. \A i \in 1..Len(rs) + 1 : Above(rs, u, i) \in Nat
    BY <1>2, AboveNext
  <2> QED BY <1>2, <2>1, <2>2
<1>4. \A j \in C : /\ j \in 1..Len(rs)
                  /\ Header - sc + a(j) <= s[2] /\ s[2] < Header - sc + a(j) + h(j)
  BY DEF CardsAt, Top
<1>5. \A j, k \in 1..Len(rs) : j < k => a(j) + h(j) <= a(k)
  BY <1>2, LaterIsBelow
<1> HIDE DEF C, a, h
<1>6. ASSUME NEW j \in C, NEW k \in C, j < k PROVE FALSE
  <2>1. a(j) + h(j) <= a(k) /\ a(j) \in Nat /\ a(k) \in Nat /\ h(j) \in Nat
    BY <1>3, <1>4, <1>5, <1>6
  <2>2. Header - sc + a(k) <= s[2] /\ s[2] < Header - sc + a(j) + h(j)
    BY <1>4
  <2> QED BY <1>1, <2>1, <2>2
<1>7. \A j, k \in C : j = k
  <2> TAKE j \in C, k \in C
  <2>1. j \in Nat /\ k \in Nat
    BY <1>3, <1>4
  <2>2. ~(j < k) /\ ~(k < j)
    BY <1>6
  <2> QED BY <2>1, <2>2
<1>8. Cardinality(C) = IF C = {} THEN 0 ELSE 1
  BY <1>7, AtMostOne
<1> QED BY <1>8 DEF C

(* PanelTypeOK is inductive.                                               *)
LEMMA PanelTypesInit == PanelInit => PanelTypeOK
<1> SUFFICES ASSUME PanelInit PROVE PanelTypeOK
  OBVIOUS
<1>1. Frames \in Nat /\ MaxMoves \in Nat /\ IsFiniteSet(Notes)
  BY PanelAssumption
<1>2. 0 \in 0..Frames /\ 0 \in 0..MaxMoves
  BY <1>1
<1>3. rows \in Seq(Notes) /\ IsInjective(rows)
  <2>1. CASE rows = <<>>
    BY <2>1 DEF IsInjective
  <2>2. CASE \E n \in Notes : rows = <<n>>
    BY <2>2 DEF IsInjective
  <2>3. CASE rows \in SetToSeqs(Notes)
    <3>1. Cardinality(Notes) \in Nat
      BY <1>1, FS_CardinalityType
    <3> QED BY <2>3, <3>1 DEF SetToSeqs, IsInjective
  <2> QED BY <2>1, <2>2, <2>3 DEF PanelInit
<1>4. unfold \in [Notes -> 0..Frames]
  BY <1>2 DEF PanelInit
<1>5. over[1] = "nothing" /\ {stale, moved} \subseteq BOOLEAN
  BY DEF PanelInit, Nothing
<1> QED BY <1>2, <1>3, <1>4, <1>5 DEF PanelInit, PanelTypeOK

LEMMA DrawKeepsTypes ==
  ASSUME PanelTypeOK, NEW p \in BOOLEAN, Draw(p) PROVE PanelTypeOK'
<1>1. unfold' = Grown(over') /\ rows' = rows /\ cursor' = cursor /\ moves' = moves
  BY DEF Draw
<1>2. unfold' \in [Notes -> 0..Frames]
  BY <1>1, GrownTypes DEF PanelTypeOK
<1>3. /\ over'[1] \in {"nothing", "close", "clear", "button", "card"}
      /\ over'[1] = "button" => over'[3] \in DOMAIN Widths[over'[2]]
  BY UnderTypes DEF Draw, PanelTypeOK
<1>4. {stale', moved'} \subseteq BOOLEAN
  BY DEF Draw
<1>5. {scroll', content'} \subseteq Nat
  <2>1. CASE rows = <<>>
    BY <2>1 DEF Draw, PanelTypeOK
  <2>2. CASE rows # <<>>
    <3> DEFINE n == Len(rows) + 1
               u == unfold'
    <3>1. content' = Above(rows, u, n) /\ scroll' = Clamp(scroll, content')
      BY <2>2 DEF Draw
    <3>2. n \in 1..Len(rows) + 1 /\ rows \in Seq(Notes)
      BY DEF PanelTypeOK
    <3>3. u \in [Notes -> 0..Frames]
      BY <1>2
    <3> HIDE DEF n, u
    <3>4. Above(rows, u, n) \in Nat
      BY <3>2, <3>3, HeightIsNumber, AboveNext
    <3>5. content' \in Nat /\ scroll \in Nat
      BY <3>1, <3>4 DEF PanelTypeOK
    <3> QED BY <3>1, <3>5, ClampIsNumber
  <2> QED BY <2>1, <2>2
<1> QED BY <1>1, <1>2, <1>3, <1>4, <1>5 DEF PanelTypeOK

LEMMA PanelTypesStep ==
  ASSUME PanelTypeOK, [PanelNext]_panelVars
  PROVE  PanelTypeOK'
<1>1. Wheel \in Nat /\ MaxMoves \in Nat
  BY PanelAssumption
<1>2. PanelInput => moves' \in 0..MaxMoves
  BY <1>1 DEF PanelInput, PanelTypeOK
<1>3. ASSUME NEW p \in BOOLEAN, Draw(p) PROVE PanelTypeOK'
  BY <1>3, DrawKeepsTypes
<1>4. CASE Click
  <2>1. rows' = <<>> \/ rows' = Without(over[2]) \/ rows' = rows
    BY <1>4 DEF Click
  <2>2. rows' \in Seq(Notes) /\ IsInjective(rows')
    <3>1. CASE rows' = <<>>
      BY <3>1 DEF IsInjective
    <3>2. CASE rows' = Without(over[2])
      BY <3>2, WithoutTypes DEF PanelTypeOK
    <3> QED BY <2>1, <3>1, <3>2 DEF PanelTypeOK
  <2> QED BY <1>2, <1>4, <2>2 DEF Click, PanelTypeOK
<1>5. CASE StoreChanges
  <2>1. rows' \in Seq(Notes) /\ IsInjective(rows')
    <3>1. CASE \E n \in Notes \ Range(rows) : rows' = Append(rows, n)
      BY <3>1, AppendTypes DEF PanelTypeOK
    <3>2. CASE \E n \in Range(rows) : rows' = Without(n)
      BY <3>2, WithoutTypes DEF PanelTypeOK
    <3> QED BY <1>5, <3>1, <3>2 DEF StoreChanges
  <2>2. unfold' \in [Notes -> 0..Frames]
    <3>1. 0 \in 0..Frames
      BY PanelAssumption
    <3>2. CASE \E n \in Notes \ Range(rows) : unfold' = [unfold EXCEPT ![n] = 0]
      BY <3>1, <3>2 DEF PanelTypeOK
    <3> QED BY <1>5, <3>2 DEF StoreChanges, PanelTypeOK
  <2> QED BY <1>2, <1>5, <2>1, <2>2 DEF StoreChanges, PanelTypeOK
<1>6. ASSUME NEW s \in Spots \cup {Away}, MoveCursor(s) PROVE PanelTypeOK'
  BY <1>2, <1>6 DEF MoveCursor, PanelTypeOK
<1>7. ASSUME NEW down \in BOOLEAN, TurnWheel(down) PROVE PanelTypeOK'
  <2> DEFINE to == IF down THEN scroll + Wheel ELSE scroll - Wheel
  <2>1. to \in Int /\ content \in Int
    BY <1>1 DEF PanelTypeOK
  <2>2. scroll' = Clamp(to, content)
    BY <1>7 DEF TurnWheel
  <2> HIDE DEF to
  <2>3. scroll' \in Nat
    BY <2>1, <2>2, ClampIsNumber
  <2> QED BY <1>2, <1>7, <2>3 DEF TurnWheel, PanelTypeOK
<1>8. CASE UNCHANGED panelVars
  BY <1>8 DEF panelVars, PanelTypeOK
<1> QED BY <1>3, <1>4, <1>5, <1>6, <1>7, <1>8 DEF PanelNext

(* For any notifications, heights and wheel: the panel keeps its types; in *)
(* particular no card is in the list twice, the scroll and the content     *)
(* never fall below zero and no card unfolds further than it can.          *)
THEOREM PanelIsWellTyped == PanelSpec => []PanelTypeOK
  BY PanelTypesInit, PanelTypesStep, PTL DEF PanelSpec

(* For any notifications, heights, view and wheel: no point of the panel   *)
(* is on two cards, however they unfold, scroll and leave (update_hover).  *)
THEOREM CardsNeverOverlap == PanelSpec => []NoCardOverlaps
<1>1. PanelTypeOK => NoCardOverlaps
  BY OneCardUnder DEF PanelTypeOK, NoCardOverlaps
<1> QED BY <1>1, PanelIsWellTyped, PTL
-----------------------------------------------------------------------------
(* The open center panel: what a click acts on.                            *)

(* While nothing has changed since the last frame, the picture is what the *)
(* panel has, and if that frame moved no card the hover it found is there. *)
PanelInv ==
  ~stale =>
    /\ picture.rows = rows /\ picture.scroll = scroll /\ picture.unfold = unfold
    /\ ~moved => over = Under(rows, scroll, unfold, cursor)

LEMMA DrawKeepsInv ==
  ASSUME NEW p \in BOOLEAN, Draw(p)
  PROVE  PanelInv'
<1>1. CASE ~p
  BY <1>1 DEF Draw, PanelInv
<1>2. CASE p
  <2>1. /\ rows' = rows /\ cursor' = cursor
        /\ over' = Under(rows, scroll, unfold, cursor)
        /\ picture' = [rows |-> rows, scroll |-> scroll', unfold |-> unfold']
        /\ moved' = (scroll' # scroll \/ unfold' # unfold)
    BY <1>2 DEF Draw
  <2>2. (picture.rows = rows /\ picture.scroll = scroll /\ picture.unfold = unfold)'
    BY <2>1
  <2>3. ASSUME ~moved'
        PROVE  over' = (Under(rows, scroll, unfold, cursor))'
    <3>1. scroll' = scroll /\ unfold' = unfold
      BY <2>1, <2>3
    <3>2. (Under(rows, scroll, unfold, cursor))' = Under(rows, scroll, unfold, cursor)
      BY <2>1, <3>1
    <3> QED BY <2>1, <3>2
  <2> QED BY <2>2, <2>3 DEF PanelInv
<1> QED BY <1>1, <1>2

LEMMA HoverStep ==
  ASSUME PanelInv, [PanelNext]_panelVars
  PROVE  PanelInv'
<1>1. ASSUME NEW p \in BOOLEAN, Draw(p) PROVE PanelInv'
  BY <1>1, DrawKeepsInv
<1>2. CASE \/ Click \/ StoreChanges
           \/ \E s \in Spots \cup {Away} : MoveCursor(s)
           \/ \E down \in BOOLEAN : TurnWheel(down)
  <2>1. stale' = TRUE
    BY <1>2 DEF Click, StoreChanges, MoveCursor, TurnWheel
  <2> QED BY <2>1 DEF PanelInv
<1>3. CASE UNCHANGED panelVars
  <2>1. (Under(rows, scroll, unfold, cursor))' = Under(rows, scroll, unfold, cursor)
    BY <1>3 DEF panelVars
  <2> QED BY <1>3, <2>1 DEF panelVars, PanelInv
<1> QED BY <1>1, <1>2, <1>3 DEF PanelNext

(* How far the hover of update_hover and the drawing of draw_header and    *)
(* draw_center_card agree about a point of one and the same layout.        *)
Agree(o, d) ==
  \/ o = d
  \/ d[1] \in {"card", "button"} /\
     \/ o[1] = "clear"
     \/ o[1] \in {"card", "button"} /\ o[2] = d[2] /\ o[2] \in Icons

LEMMA HoverAgrees ==
  ASSUME NEW rs \in Seq(Notes), NEW sc, NEW u, NEW at,
         Under(rs, sc, u, at)[1] \in {"clear", "card", "button"}
  PROVE  Agree(Under(rs, sc, u, at), Pictured(rs, sc, u, at))
<1> DEFINE here == CardsAt(rs, sc, u, at)
           i == CHOOSE j \in here : TRUE
           o == Under(rs, sc, u, at)
           d == Pictured(rs, sc, u, at)
           left == ContentX + (IF rs[i] \in Icons THEN IconSpace ELSE 0)
<1>1. o = IF at[2] < Header THEN OnHeader(rs, at)
          ELSE IF here = {} THEN Nothing ELSE OnCard(rs, sc, u, i, ContentX, at)
  BY DEF Under
<1>2. d = IF here = {} THEN OnHeader(rs, at) ELSE OnCard(rs, sc, u, i, left, at)
  BY DEF Pictured
<1>3. here # {} => i \in DOMAIN rs
  BY DEF CardsAt
<1>4. rs[i] \notin Icons => left = ContentX
  BY PanelAssumption
<1>5. o[1] \in {"clear", "card", "button"}
  OBVIOUS
<1> HIDE DEF here, i, o, d, left
<1>6. ASSUME at[2] < Header /\ here = {} PROVE Agree(o, d)
  BY <1>1, <1>2, <1>6 DEF Agree
<1>7. ASSUME at[2] < Header /\ here # {} PROVE Agree(o, d)
  <2>1. d[1] \in {"card", "button"}
    BY <1>2, <1>3, <1>7, OnCardTypes
  <2>2. o = OnHeader(rs, at)
    BY <1>1, <1>7
  <2>3. o[1] \in {"nothing", "close", "clear"}
    BY <2>2, OnHeaderTypes
  <2>4. o[1] = "clear"
    BY <1>5, <2>3
  <2> QED BY <2>1, <2>4 DEF Agree
<1>8. ASSUME ~(at[2] < Header) /\ here = {} PROVE Agree(o, d)
  <2>1. o = Nothing /\ Nothing[1] = "nothing"
    BY <1>1, <1>8 DEF Nothing
  <2> QED BY <1>5, <2>1
<1>9. ASSUME ~(at[2] < Header) /\ here # {} PROVE Agree(o, d)
  <2>1. o = OnCard(rs, sc, u, i, ContentX, at) /\ d = OnCard(rs, sc, u, i, left, at)
    BY <1>1, <1>2, <1>9
  <2>2. CASE rs[i] \notin Icons
    BY <1>4, <2>1, <2>2 DEF Agree
  <2>3. CASE rs[i] \in Icons
    <3>1. o[1] \in {"card", "button"} /\ o[2] = rs[i]
      BY <1>3, <1>9, <2>1, OnCardTypes
    <3>2. d[1] \in {"card", "button"} /\ d[2] = rs[i]
      BY <1>3, <1>9, <2>1, OnCardTypes
    <3> QED BY <2>3, <3>1, <3>2 DEF Agree
  <2> QED BY <2>2, <2>3
<1>10. Agree(o, d)
  BY <1>6, <1>7, <1>8, <1>9
<1> QED BY <1>10 DEF o, d

(* For any notifications, sizes, icons and cursor: a click acts on the     *)
(* card that the picture has under the cursor, and on its drawn button or  *)
(* body if it has no icon, provided that cursor and list are as in the     *)
(* last frame, that frame was shown and it moved no card; only a card      *)
(* scrolled over Clear All does not get its click (render, update_hover,   *)
(* draw_center_card, on_click).                                            *)
THEOREM ClicksHitTheCard == PanelSpec => ClickHitsTheCard
<1> DEFINE Hits == Click /\ ~stale /\ ~moved =>
                     \/ over = Drawn
                     \/ Drawn[1] \in {"card", "button"} /\
                        \/ over[1] = "clear"
                        \/ over[1] \in {"card", "button"} /\ over[2] = Drawn[2]
                           /\ over[2] \in Icons
<1>1. PanelInit => PanelInv
  BY DEF PanelInit, PanelInv
<1>2. PanelInv /\ [PanelNext]_panelVars => PanelInv'
  BY HoverStep
<1>3. PanelTypeOK /\ PanelInv => Hits
  <2> SUFFICES ASSUME PanelTypeOK, PanelInv, Click, ~stale, ~moved
               PROVE  Agree(over, Drawn)
    BY DEF Agree
  <2>1. /\ over = Under(rows, scroll, unfold, cursor)
        /\ Drawn = Pictured(rows, scroll, unfold, cursor)
    BY DEF PanelInv, Drawn
  <2>2. rows \in Seq(Notes) /\ over[1] \in {"clear", "card", "button"}
    BY DEF PanelTypeOK, Click
  <2> QED BY <2>1, <2>2, HoverAgrees
<1>4. PanelTypeOK /\ PanelInv /\ [PanelNext]_panelVars => [Hits]_panelVars
  BY <1>3
<1> QED BY <1>1, <1>2, <1>4, PanelTypesInit, PanelTypesStep, PTL
        DEF PanelSpec, ClickHitsTheCard
-----------------------------------------------------------------------------
(* The parts together: every behaviour of the daemon's specification is    *)
(* one of each part's, fairness aside, so the theorems about the safety of *)
(* the parts hold of it.                                                   *)
THEOREM DaemonPartsBehave ==
  Spec => LinkSafety /\ AppSafety /\ SettingsSpec /\ PanelSpec
<1>1. Init => LinkInit /\ AppInit /\ SettingsInit /\ PanelInit
  BY DEF Init, SettingsRest, PanelRests
<1>2. [Next]_vars => /\ [LinkNext]_linkVars /\ [AppNext]_appVars
                     /\ [SettingsNext]_settingsVars /\ [PanelNext]_panelVars
  BY DEF Next, vars
<1> QED BY <1>1, <1>2, PTL DEF Spec, LinkSafety, AppSafety, SettingsSpec, PanelSpec

(* Every variable of every part of the daemon keeps its type, whatever the *)
(* server sends, the user does and the files hold.                         *)
THEOREM DaemonIsTyped == Spec => []DaemonTypeOK
<1>1. LinkTypeOK /\ AppTypeOK /\ SettingsTypeOK /\ PanelTypeOK => DaemonTypeOK
  BY DEF DaemonTypeOK
<1> QED BY <1>1, DaemonPartsBehave, LinkIsWellTyped, AppIsWellTyped,
           SettingsAreWellTyped, PanelIsWellTyped, PTL

(* Everything the runs check of the daemon's states and steps, at once and *)
(* for the daemon as a whole: what the parts promise alone they promise    *)
(* beside the others.                                                      *)
THEOREM DaemonIsSafe ==
  Spec => /\ [](RunningIsListed /\ NoGapsWhileConnected /\ StatusFollowsTask)
          /\ [](EachInOnePlace /\ TrayTellsTheStore /\ CardsAreOnScreen)
          /\ [](ConfigFollowsFile /\ HandlesAreParallel /\ ConfiguredCalendarRuns)
          /\ []NoCardOverlaps
          /\ UntouchedSaveIsHarmless /\ ClickHitsTheCard
  BY DaemonPartsBehave, RunningStaysListed, NothingIsSkipped, ShownStatusIsTrue,
     NothingIsLost, TrayIsTold, WindowShowsCards, DaemonFollowsFile,
     ClientsMatchServers, CalendarMatchesConfig, CardsNeverOverlap,
     SavingAsShownIsHarmless, ClicksHitTheCard, PTL
=============================================================================
