---------------------------- MODULE ServerStartup ----------------------------
(***************************************************************************)
(* The start of the headless server (bin/server/src/main.rs): command line *)
(* and environment are merged into a configuration, and the parts of the   *)
(* server are put together in an order that matters, because the shared    *)
(* state takes parts only while it has a single owner (CoreState in        *)
(* state.rs panics otherwise).                                             *)
(*                                                                         *)
(* A value is "unset", "empty", "given" (and well formed) or "bad" (and    *)
(* not).  What the file of the registry and of the key hold is part of the *)
(* setup, and so is whether the port is free.                              *)
(***************************************************************************)
EXTENDS Naturals, FiniteSets

CONSTANTS
  Setups   \* [cli, env, registry : "missing" | "whole" | "torn", port]

Names == {"secret", "devices", "port", "team", "key", "bundle", "path", "base64",
          "environment"}
CalNames == {"icsFile", "icsUrl", "caldav", "summaryAt"}
Values == {"unset", "empty", "given", "bad"}

ASSUME SetupAssumption ==
  \A s \in Setups : /\ s.cli \in [Names -> Values]
                    /\ s.env \in [Names \cup CalNames -> Values]
                    /\ s.registry \in {"missing", "whole", "torn"}
                    /\ s.free \in BOOLEAN

VARIABLES
  setup,
  step,      \* how far the start has come
  owners,    \* clones of the state
  attached,       \* the registry attached: "none", "memory" or "file"
  push,      \* whether the APNs client is attached
  info,      \* the calendar the state advertises to clients
  calendar,  \* the source of the running calendar service, and its summary
  actions    \* whether /calendar/action is mounted

startVars == <<setup, step, owners, attached, push, info, calendar, actions>>
-----------------------------------------------------------------------------
(* The configuration.                                                      *)

Present(v) == v \in {"given", "bad"}

(* fill_from_env, for the ids: an empty text on the command line keeps the *)
(* environment out and counts as unset.                                    *)
TextOf(s, name) ==
  LET v == IF s.cli[name] # "unset" THEN s.cli[name] ELSE s.env[name]
  IN IF Present(v) THEN v ELSE "unset"

(* ... for the key: empty in the environment is unset, on the command line *)
(* it is an empty path or text.                                            *)
KeyOf(s, name) ==
  IF s.cli[name] # "unset" THEN s.cli[name]
  ELSE IF Present(s.env[name]) THEN s.env[name] ELSE "unset"

(* Mutant: only the three ids decide whether push is configured.           *)
ApnsConfigByIds(s) ==
  LET ids == {TextOf(s, n) : n \in {"team", "key", "bundle"}}
      path == KeyOf(s, "path")
      base64 == KeyOf(s, "base64")
      mode == TextOf(s, "environment")
  IN CASE ids = {"unset"} -> "off"
       [] "unset" \in ids -> "error"
       [] path # "unset" /\ base64 # "unset" -> "error"
       [] path = "unset" /\ base64 = "unset" -> "error"
       [] path \in {"empty", "bad"} \/ base64 = "bad" -> "error"
       [] mode = "bad" -> "error"
       [] OTHER -> "on"

(* into_config: off only if nothing at all is set.                         *)
ApnsConfig(s) ==
  LET ids == {TextOf(s, n) : n \in {"team", "key", "bundle"}}
      path == KeyOf(s, "path")
      base64 == KeyOf(s, "base64")
      mode == TextOf(s, "environment")
  IN CASE ids \cup {path, base64, mode} = {"unset"} -> "off"
       [] "unset" \in ids -> "error"
       [] path # "unset" /\ base64 # "unset" -> "error"
       [] path = "unset" /\ base64 = "unset" -> "error"
       [] path \in {"empty", "bad"} \/ base64 = "bad" -> "error"
       [] mode = "bad" -> "error"
       [] OTHER -> "on"

Secret(s) == IF s.cli["secret"] # "unset" THEN s.cli["secret"] ELSE s.env["secret"]

DevicesFile(s) ==
  IF s.cli["devices"] # "unset" THEN s.cli["devices"]
  ELSE IF Present(s.env["devices"]) THEN s.env["devices"] ELSE "unset"

(* build_calendar_source: the first variable that is set at all, even if   *)
(* empty, decides.                                                         *)
CalendarSource(s) ==
  CASE s.env["icsFile"] # "unset" -> "icsFile"
    [] s.env["icsUrl"] # "unset" -> "icsUrl"
    [] s.env["caldav"] # "unset" -> "caldav"
    [] OTHER -> "none"
-----------------------------------------------------------------------------
StartTypeOK ==
  /\ setup \in Setups /\ owners \in Nat
  /\ step \in {"args", "registry", "apns", "fallback", "info", "calendar", "mount",
               "bind", "serving", "exited", "panicked"}
  /\ attached \in {"none", "memory", "file"}
  /\ {push, actions} \subseteq BOOLEAN

StartInit ==
  /\ setup \in Setups /\ step = "args" /\ owners = 1
  /\ attached = "none" /\ push = FALSE /\ info = "none"
  /\ calendar = [source |-> "none", summary |-> FALSE] /\ actions = FALSE

Go(from, to) == step = from /\ step' = to
Exit(from) == Go(from, "exited") /\ UNCHANGED <<owners, attached, push, info, calendar, actions>>

(* Arc::get_mut(..).expect(..)                                             *)
Attach(from, to) == IF owners = 1 THEN Go(from, to) ELSE Go(from, "panicked")

(* parse_args: a port on the command line must parse, one in the           *)
(* environment is ignored if it does not.                                  *)
ParseArgs ==
  /\ IF \/ setup.cli["port"] \in {"bad", "empty"}
        \/ ~Present(Secret(setup))
        \/ ApnsConfig(setup) = "error"
     THEN Exit("args")
     ELSE Go("args", "registry") /\ UNCHANGED <<owners, attached, push, info, calendar, actions>>
  /\ UNCHANGED setup

(* A registry file that does not parse is an error; one that is missing is *)
(* an empty registry, and an empty path names no file.                     *)
LoadRegistry ==
  /\ IF DevicesFile(setup) = "unset"
     THEN Go("registry", "apns") /\ UNCHANGED <<owners, attached, push, info, calendar, actions>>
     ELSE IF DevicesFile(setup) # "empty" /\ setup.registry = "torn"
          THEN Exit("registry")
          ELSE /\ Attach("registry", "apns") /\ attached' = "file"
               /\ UNCHANGED <<owners, push, info, calendar, actions>>
  /\ UNCHANGED setup

AttachApns ==
  /\ IF ApnsConfig(setup) = "off"
     THEN Go("apns", "fallback") /\ UNCHANGED push
     ELSE Attach("apns", "fallback") /\ push' = TRUE
  /\ UNCHANGED <<setup, owners, attached, info, calendar, actions>>

FallBackToMemory ==
  /\ IF push /\ attached = "none"
     THEN Attach("fallback", "info") /\ attached' = "memory"
     ELSE Go("fallback", "info") /\ UNCHANGED attached
  /\ UNCHANGED <<setup, owners, push, info, calendar, actions>>

(* Mutant: the first calendar is advertised only once it runs.             *)
AttachInfoLater ==
  /\ Go("info", "calendar")
  /\ owners' = owners + 1
  /\ UNCHANGED <<setup, attached, push, info, calendar, actions>>

(* The source is built before the state is cloned for the first time.      *)
AttachInfo ==
  /\ Attach("info", "calendar")
  /\ info' = CalendarSource(setup)
  /\ UNCHANGED <<setup, owners, attached, push, calendar, actions>>

(* spawn_calendar: the notifier gets a clone of the state.                 *)
SpawnCalendar ==
  /\ Go("calendar", "mount")
  /\ IF CalendarSource(setup) = "none" THEN UNCHANGED <<calendar, owners>>
     ELSE /\ calendar' = [source |-> CalendarSource(setup),
                          summary |-> setup.env["summaryAt"] = "given"]
          /\ owners' = owners + 1
  /\ UNCHANGED <<setup, attached, push, info, actions>>

MountRoutes ==
  /\ Go("mount", "bind")
  /\ actions' = (calendar.source # "none")
  /\ UNCHANGED <<setup, owners, attached, push, info, calendar>>

(* The calendar service runs already when the port turns out to be taken.  *)
Bind ==
  /\ IF setup.free THEN Go("bind", "serving") ELSE Go("bind", "exited")
  /\ UNCHANGED <<setup, owners, attached, push, info, calendar, actions>>

StartNext ==
  \/ ParseArgs \/ LoadRegistry \/ AttachApns \/ FallBackToMemory \/ AttachInfo
  \/ SpawnCalendar \/ MountRoutes \/ Bind

StartSpec == StartInit /\ [][StartNext]_startVars
-----------------------------------------------------------------------------
ApnsNames == {"team", "key", "bundle", "path", "base64", "environment"}

(* A server that runs does what its operator asked for: it has push, with  *)
(* a registry to push to, exactly when something of it was configured, and *)
(* nothing half-configured starts without it (fill_from_env, into_config,  *)
(* run).                                                                   *)
PushAsAsked ==
  step = "serving" =>
    /\ push => attached # "none"
    /\ ~push => \A n \in ApnsNames : ~Present(setup.cli[n])
                  /\ (setup.cli[n] = "unset" => ~Present(setup.env[n]))
    /\ push => \A n \in {"team", "key", "bundle"} : Present(TextOf(setup, n))

(* The parts are attached while the state has one owner: the start never   *)
(* panics, and clients of a server with a calendar are told of it.         *)
AttachedInTime ==
  /\ step # "panicked"
  /\ step = "serving" => info = calendar.source /\ actions = (info # "none")

=============================================================================
