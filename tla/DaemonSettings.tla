--------------------------- MODULE DaemonSettings ---------------------------
(***************************************************************************)
(* The desktop daemon's configuration (bin/daemon/src): config.json and    *)
(* its watcher, the settings window with its form (settings.rs), what      *)
(* applying a configuration restarts (main.rs), and the rules that decide  *)
(* what becomes of a notification (rules.rs).                              *)
(*                                                                         *)
(* A configuration keeps what these decisions read: the client's name, the *)
(* servers (URL and label; the secret is part of the URL), whether rules   *)
(* are enabled, the rules and the calendar.  Text fields that the form     *)
(* passes through unchanged (source, pattern) are kept in a rule's `text`. *)
(***************************************************************************)
EXTENDS Integers, Sequences, FiniteSets

CONSTANTS
  Files,        \* the configurations the user writes with an editor
  Samples,      \* notifications: [label, status, text]
  NoText,       \* a rule's `text` without source and pattern
  BadPattern,   \* a `text` whose pattern is no regular expression
  NoCalendar,   \* `calendar: None`
  NoService,    \* no calendar service runs
  Port,         \* the port given on the command line, the HTTP server's
  DefaultPort,  \* DEFAULT_PORT
  Blank,        \* a calendar whose URL, path or credentials are empty
  Broken,       \* the content of a file that does not parse
  ClosedWindow, \* App.settings is None
  MaxEdits      \* bound: edits of the file and of the form, saves, reconnects

(* settings.rs, STATUS_OPTIONS                                             *)
StatusOptions == {"info", "success", "warning", "error"}

ASSUME SettingsAssumption ==
  /\ MaxEdits \in Nat
  /\ Files # {} /\ Broken \notin Files
  /\ \A f \in Files :
       /\ f = [name |-> f.name, servers |-> f.servers, on |-> f.on,
               rules |-> f.rules, calendar |-> f.calendar]
       /\ f.servers \in Seq([url : STRING, label : STRING])
       /\ f.rules \in Seq({f.rules[i] : i \in DOMAIN f.rules})
       /\ f.on \in BOOLEAN

VARIABLES
  config,     \* App.config
  disk,       \* config.json
  watching,   \* App._config_watcher is Some
  notices,    \* ConfigChanged events in the event loop's queue
  asked,      \* the URLs of its ReconnectServer events, in no given order to those
  form,       \* App.settings: the open window's SettingsState
  touched,    \* history: whether the form was edited since it was opened
  handles,    \* App.client_handles: the server and name each client was given
  service,    \* App.calendar: what the running service was given: the calendar
              \* and the port its action URLs name
  skipped,    \* history: a change of the file was ignored, or not written
  unseen,     \* history: the file was changed and no event says so
  edits       \* the edits so far

settingsVars == <<config, disk, watching, notices, asked, form, touched, handles, service,
              skipped, unseen, edits>>
-----------------------------------------------------------------------------
(* The rules.                                                              *)

(* suppress is the old way to write dismiss.                               *)
EffectiveAction(r) == IF r.suppress THEN "dismiss" ELSE r.action

MatchesRule(n, r) ==
  /\ r.server \in {"", n.label}
  /\ r.status \in {"", n.status}
  /\ r.text \in {NoText, n.text} \ {BadPattern}

(* match_rule: the first rule that matches; no rule is "normal".           *)
Verdict(n, c) ==
  LET hits == {i \in DOMAIN c.rules : MatchesRule(n, c.rules[i])}
  IN IF ~c.on \/ hits = {} THEN "normal"
     ELSE EffectiveAction(c.rules[CHOOSE i \in hits : \A j \in hits : i <= j])
-----------------------------------------------------------------------------
(* The form.                                                               *)

(* Mutant: the action is read without the old suppress flag.               *)
FromConfigUnsuppressed(c) ==
  LET At(l) == {i \in DOMAIN c.servers : c.servers[i].label = l}
      Place(l) == IF l = "" \/ At(l) = {} THEN 0
                  ELSE CHOOSE i \in At(l) : \A j \in At(l) : i <= j
  IN [c EXCEPT !.rules = [i \in DOMAIN c.rules |->
        [place |-> Place(c.rules[i].server),
         status |-> IF c.rules[i].status \in StatusOptions THEN c.rules[i].status
                    ELSE "",
         text |-> c.rules[i].text,
         action |-> c.rules[i].action]]]

(* SettingsState::from_config: a rule refers to its server by its place in *)
(* the list, 0 for any, and so becomes one for any server when no server   *)
(* has its label; likewise its status.                                     *)
FromConfig(c) ==
  LET At(l) == {i \in DOMAIN c.servers : c.servers[i].label = l}
      Place(l) == IF l = "" \/ At(l) = {} THEN 0
                  ELSE CHOOSE i \in At(l) : \A j \in At(l) : i <= j
  IN [c EXCEPT !.rules = [i \in DOMAIN c.rules |->
        [place |-> Place(c.rules[i].server),
         status |-> IF c.rules[i].status \in StatusOptions THEN c.rules[i].status
                    ELSE "",
         text |-> c.rules[i].text,
         action |-> EffectiveAction(c.rules[i])]]]

(* The servers that have a URL, in their order.                            *)
Named(ss) ==
  LET with == {i \in DOMAIN ss : ss[i].url # ""}
  IN [k \in 1..Cardinality(with) |->
        ss[CHOOSE i \in with : Cardinality({j \in with : j <= i}) = k]]

(* SettingsState::to_config: servers without a URL are left out, after the *)
(* rules have looked their labels up in the whole list.                    *)
ToConfig(f) ==
  [f EXCEPT !.servers = Named(f.servers),
            !.rules = [i \in DOMAIN f.rules |->
              [server |-> IF f.rules[i].place \in DOMAIN f.servers
                          THEN f.servers[f.rules[i].place].label ELSE "",
               status |-> f.rules[i].status, text |-> f.rules[i].text,
               action |-> f.rules[i].action, suppress |-> FALSE]]]

(* What the form can show as it is written.                                *)
Representable(c) ==
  \A i \in DOMAIN c.rules :
    /\ c.rules[i].status \in StatusOptions \cup {""}
    /\ c.rules[i].server \in {c.servers[j].label : j \in DOMAIN c.servers} \cup {""}
-----------------------------------------------------------------------------
Client(s, c) == [server |-> s, name |-> c.name]
ClientsOf(c) == [i \in DOMAIN c.servers |-> Client(c.servers[i], c)]

(* spawn_local_calendar: what a start can come to.  Nothing is started on  *)
(* blank fields, or if the service cannot load its state.                  *)
Started(cal, port) ==
  {NoService} \cup
    (IF cal \in {NoCalendar, Blank} THEN {} ELSE {[calendar |-> cal, port |-> port]})

SettingsTypeOK ==
  /\ notices \in Nat /\ edits \in 0..MaxEdits
  /\ {watching, touched, skipped, unseen} \subseteq BOOLEAN
  /\ Len(handles) = Len(config.servers)
  /\ form # ClosedWindow => \A i \in DOMAIN form.rules : form.rules[i].place \in Nat

SettingsInit ==
  /\ config \in Files /\ disk = config
  /\ notices = 0 /\ asked = <<>> /\ form = ClosedWindow /\ touched = FALSE
  /\ handles = ClientsOf(config) /\ service \in Started(config.calendar, Port)
  /\ watching \in BOOLEAN /\ skipped = FALSE /\ unseen = FALSE /\ edits = 0
-----------------------------------------------------------------------------
(* Mutant: a configuration that restarts nothing is not taken over.        *)
ApplyConfigSparing(c) ==
  /\ config' = IF c.calendar # config.calendar \/ c.servers # config.servers
                  \/ c.name # config.name THEN c ELSE config
  /\ service' \in IF c.calendar # config.calendar THEN Started(c.calendar, DefaultPort)
                  ELSE {service}
  /\ handles' = IF c.servers # config.servers \/ c.name # config.name
                THEN ClientsOf(c) ELSE handles

(* Mutant: a new name does not restart the clients.                        *)
ApplyConfigNameless(c) ==
  /\ config' = c
  /\ service' \in IF c.calendar # config.calendar THEN Started(c.calendar, DefaultPort)
                  ELSE {service}
  /\ handles' = IF c.servers # config.servers THEN ClientsOf(c) ELSE handles

(* Mutant: a calendar that was removed from the configuration runs on.     *)
ApplyConfigLeaving(c) ==
  /\ config' = c
  /\ service' \in IF c.calendar \notin {config.calendar, NoCalendar}
                  THEN Started(c.calendar, DefaultPort) ELSE {service}
  /\ handles' = IF c.servers # config.servers \/ c.name # config.name
                THEN ClientsOf(c) ELSE handles

(* apply_config: the calendar is restarted if its part changed (with the   *)
(* default port, which App::new stored in place of the command line's),    *)
(* all the clients if the servers or the name changed.                     *)
ApplyConfig(c) ==
  /\ config' = c
  /\ service' \in IF c.calendar # config.calendar THEN Started(c.calendar, DefaultPort)
                  ELSE {service}
  /\ handles' = IF c.servers # config.servers \/ c.name # config.name
                THEN ClientsOf(c) ELSE handles

Edit == edits < MaxEdits /\ edits' = edits + 1

(* start_config_watcher: the daemon runs on without a watcher if it cannot *)
(* have one (the directory does not exist yet), and a watcher reports what *)
(* modifies the data of a file of that name.                               *)
FileModified ==
  IF watching THEN notices' = notices + 1 /\ UNCHANGED unseen
  ELSE unseen' = TRUE /\ UNCHANGED notices

(* An editor truncates the file and fills it again.                        *)
TruncateFile ==
  /\ Edit /\ disk' = Broken /\ FileModified
  /\ UNCHANGED <<config, watching, asked, form, touched, handles, service, skipped>>

FillFile(c) ==
  /\ disk = Broken
  /\ disk' = c /\ FileModified
  /\ UNCHANGED <<config, watching, asked, form, touched, handles, service, skipped, edits>>

(* Another editor writes a new file and renames it into place: that is no  *)
(* Modify(Data), and the watcher's callback lets it pass.                  *)
ReplaceFile(c) ==
  /\ Edit /\ disk' = c /\ unseen' = TRUE
  /\ UNCHANGED <<config, watching, notices, asked, form, touched, handles, service,
                 skipped>>

(* ConfigChanged: ignored while the settings window is open, and when the  *)
(* file does not parse.                                                    *)
ConfigChanged ==
  /\ notices > 0 /\ notices' = notices - 1
  /\ IF form # ClosedWindow
     THEN skipped' = TRUE /\ UNCHANGED <<config, handles, service, unseen>>
     ELSE IF disk = Broken
          THEN UNCHANGED <<config, handles, service, skipped, unseen>>
          ELSE ApplyConfig(disk) /\ skipped' = FALSE /\ unseen' = FALSE
  /\ UNCHANGED <<disk, watching, asked, form, touched, edits>>

OpenSettings ==
  /\ form = ClosedWindow
  /\ form' = FromConfig(config) /\ touched' = FALSE
  /\ UNCHANGED <<config, disk, watching, notices, asked, handles, service, skipped,
                 unseen, edits>>

(* The window's fields and buttons.  Removing a server leaves the rules'   *)
(* places as they are.                                                     *)
EditServers ==
  \/ form' = [form EXCEPT !.servers = Append(@, [url |-> "", label |-> ""])]
  \/ \E i \in DOMAIN form.servers :
       \/ form' = [form EXCEPT !.servers = SubSeq(@, 1, i - 1) \o SubSeq(@, i + 1, Len(@))]
       \/ form' = [form EXCEPT !.servers[i].url = "ws://new"]
       \/ form' = [form EXCEPT !.servers[i].label = "new"]

(* The rules are shown while they are enabled.                             *)
EditRules ==
  \/ form' = [form EXCEPT !.on = ~@]
  \/ /\ form.on
     /\ form' = [form EXCEPT !.rules = Append(@,
                  [place |-> 0, status |-> "", text |-> NoText, action |-> "normal"])]
  \/ form.on /\ \E i \in DOMAIN form.rules :
       \/ form' = [form EXCEPT !.rules = SubSeq(@, 1, i - 1) \o SubSeq(@, i + 1, Len(@))]
       \/ \E p \in 0..Len(form.servers) : form' = [form EXCEPT !.rules[i].place = p]

EditCalendar ==
  form' = [form EXCEPT !.calendar = IF @ = NoCalendar THEN Blank ELSE NoCalendar]

EditForm ==
  /\ form # ClosedWindow /\ Edit /\ touched' = TRUE
  /\ \/ EditServers \/ EditRules \/ EditCalendar
     \/ form' = [form EXCEPT !.name = "new"]
  /\ UNCHANGED <<config, disk, watching, notices, asked, handles, service, skipped,
                 unseen>>

(* save_and_apply_config: the configuration is applied whether or not it   *)
(* could be written; a watcher reports the write.                          *)
SaveSettings(written) ==
  /\ form # ClosedWindow /\ Edit
  /\ ApplyConfig(ToConfig(form))
  /\ IF written
     THEN /\ disk' = ToConfig(form) /\ skipped' = FALSE /\ unseen' = FALSE
          /\ notices' = IF watching THEN notices + 1 ELSE notices
     ELSE UNCHANGED <<disk, notices, unseen>> /\ skipped' = TRUE
  /\ form' = ClosedWindow /\ touched' = FALSE
  /\ UNCHANGED <<watching, asked>>

(* Cancel, or the window's close button                                    *)
CloseSettings ==
  /\ form # ClosedWindow
  /\ form' = ClosedWindow /\ touched' = FALSE
  /\ UNCHANGED <<config, disk, watching, notices, asked, handles, service, skipped,
                 unseen, edits>>

(* The Reconnect button of a server with a URL.                            *)
AskReconnect ==
  /\ form # ClosedWindow /\ Edit
  /\ \E k \in DOMAIN form.servers :
       form.servers[k].url # "" /\ asked' = Append(asked, form.servers[k].url)
  /\ UNCHANGED <<config, disk, watching, notices, form, touched, handles, service,
                 skipped, unseen>>

(* reconnect_server: the first server with that URL that is configured by  *)
(* now gets a fresh client; an unknown URL is ignored.                     *)
ReconnectServer ==
  /\ asked # <<>> /\ asked' = Tail(asked)
  /\ LET hits == {i \in DOMAIN config.servers : config.servers[i].url = Head(asked)}
         idx == CHOOSE i \in hits : \A j \in hits : i <= j
     IN handles' = IF hits = {} THEN handles
                   ELSE [handles EXCEPT ![idx] = Client(config.servers[idx], config)]
  /\ UNCHANGED <<config, disk, watching, notices, form, touched, service, skipped,
                 unseen, edits>>

(* A restart reads the file; one that does not parse is the default.       *)
Default == [name |-> "", servers |-> <<>>, on |-> FALSE, rules |-> <<>>,
            calendar |-> NoCalendar]

RestartDaemon ==
  /\ Edit
  /\ config' = IF disk = Broken THEN Default ELSE disk
  /\ handles' = ClientsOf(config') /\ service' \in Started(config'.calendar, Port)
  /\ watching' \in BOOLEAN /\ notices' = 0 /\ asked' = <<>>
  /\ form' = ClosedWindow /\ touched' = FALSE /\ skipped' = FALSE /\ unseen' = FALSE
  /\ UNCHANGED disk

SettingsNext ==
  \/ TruncateFile \/ \E c \in Files : FillFile(c) \/ ReplaceFile(c)
  \/ ConfigChanged \/ OpenSettings \/ EditForm
  \/ \E w \in BOOLEAN : SaveSettings(w)
  \/ CloseSettings \/ AskReconnect \/ ReconnectServer \/ RestartDaemon

SettingsSpec == SettingsInit /\ [][SettingsNext]_settingsVars
-----------------------------------------------------------------------------
(* The daemon watches its file for external changes (main.rs:183): it runs *)
(* with what the file says, unless the news is on its way, the file does   *)
(* not parse, or a change was passed over because the settings window was  *)
(* open or could not be written.  Not so after a rename, or unwatched.     *)
ChangesAreSeen ==
  \/ config = disk
  \/ notices > 0 \/ disk = Broken \/ skipped

(* What the watcher is told of reaches the configuration, in whatever      *)
(* order writes, saves, the window and the events come; one event read     *)
(* late brings in what was replaced unseen before (user_event,             *)
(* save_and_apply_config).                                                 *)
ConfigFollowsFile == ChangesAreSeen \/ unseen

(* No calendar rings but the configured one: after any number of edits,    *)
(* failed writes, missed changes and restarts a service that runs was      *)
(* given the calendar of the present configuration, and one that was       *)
(* removed or left blank does not run on.  The port its action URLs name   *)
(* may be the default one instead of the daemon's (reload_calendar).       *)
ConfiguredCalendarRuns ==
  service \in Started(config.calendar, Port) \cup Started(config.calendar, DefaultPort)

(* client_handles is parallel to config.servers, which reconnect_server    *)
(* relies on: each client was given its server and the present name.       *)
HandlesAreParallel == handles = ClientsOf(config)

(* Saving a form that was not edited changes the verdict on no             *)
(* notification, as long as the form can show the rules as they are.       *)
UntouchedSaveIsHarmless ==
  [][(\E w \in BOOLEAN : SaveSettings(w)) /\ ~touched /\ Representable(config)
       => \A n \in Samples : Verdict(n, config') = Verdict(n, config)]_settingsVars
=============================================================================
