# cross-notifier: TLA+ models, checks and proofs

cross-notifier delivers desktop notifications: programs POST them to a server
(headless, or inside the desktop daemon), the server broadcasts them to the
daemons connected by WebSocket and pushes them to phones, users click actions,
and a calendar service rings reminders through the same pipeline. This
directory holds formal models of its stateful parts, the TLC configurations
that check them on small instances, and proofs checked by TLAPS for every
instance. `PROJECT.json` maps every definition to the source lines it models.

    tlc -config PendingNotifications_safety.cfg MC_PendingNotifications.tla
    tlapm PendingNotifications_proofs.tla

## 1. Inventory

### Core server (`crates/core`)

* **Pending notifications** (`state.rs`, `router.rs`, `action.rs`). State: the
  `pending` map id -> entry (notification, `watch` channel, max-wait timer
  task), the subscriber list. Operations: `POST /notify` (with `exclusive`,
  `wait`, `maxWait`), `GET /notify/{id}/wait`, `handle_action` (a client's
  click runs an HTTP request on the server), `expire`, `finish`, `broadcast`.
  Hard: three kinds of tasks race to close an entry; the lock is not held
  while the action's HTTP request runs; ids may come from the caller; the
  timer aborts itself; a sender's connection may drop between any two awaits.
  Correct when every waiter and subscriber hears one and the same verdict, at
  most once, and every open notification ends.
* **Subscribers and the WebSocket loop** (`subscriber.rs`, `router.rs`).
  State: the list of senders, each an unbounded channel. Hard: lazy removal,
  reconnects that are told nothing of the present state, one loop that both
  runs actions and forwards messages. Correct when a connected client receives
  every broadcast in order and a closed one is eventually forgotten.
* **Device registry and push** (`device.rs`, `push/`, `dispatch_push`). State:
  token -> device in memory, one JSON file, the cached provider token.
  Operations: register, unregister, list, prune, record a push, save. Hard:
  concurrent saves through one temp file, no fsync, a 410 that is older than a
  re-registration, dispatches cut short by a rejected key. Correct when the
  file is always loadable and, once saves are done, equals the memory.
* **Provider token** (`push/apns.rs`). State: one cached JWT and the second it
  was issued. Hard: the cache reads the wall clock, Apple the time that passed.
* **Alertmanager adapter** (`alertmanager.rs`): a pure translation, called by an
  environment that posts a changing group again and again. Icons, OpenAPI: pure.

### Calendar (`crates/calendar`)

* **Scheduler** (`scheduler.rs`, `types.rs`, `store.rs`). State: the map
  occurrence -> (`snoozed_until`, `fired_at`), its file, the command channel.
  Operations: Refresh, Snooze, Dismiss, Tick, Inspect, Shutdown. Hard: a
  refresh that was parsed earlier, the collection of old entries, a tick that
  awaits each delivery, crashes before its save, reloads. Correct when a
  reminder rings once per arming, snoozes survive, dismissals hold.
* **Service loops** (`service.rs`): refresh loop, daily summary, start and
  shutdown. **Router** (`router.rs`): snooze, dismiss, upcoming. **Parsing**
  (`parse.rs`): the refresh window, triggers, recurrences. **Sources**
  (`source.rs`): file, URL, CalDAV. **Notifier**: formats and broadcasts.

### Daemon (`bin/daemon`)

* **Remote client** (`client.rs`): connect, forward, back off, report status;
  stops when its handle is dropped, but looks only between connections.
* **Notifications** (`notification.rs`, `store.rs`, `main.rs`, `rules.rs`):
  the queue of cards, the notification center and its file, the events
  Incoming, Resolved, Expired, clicks and action requests.
* **Local server and bridge** (`server.rs`): the core router on localhost.
* **Center panel** (`center.rs`): hover, unfolding, scrolling and clicks, each
  computed in another frame or event than it is used in.
* **Settings and configuration** (`settings.rs`, `rules.rs`, `main.rs`):
  `config.json` and its watcher, the form, the clients and the calendar a new
  configuration restarts. Hard: two writers of one file, changes that arrive
  while the window is open, rules that name servers by place. Correct when the
  daemon runs what the file says and each server has its client.
* Windows, rendering, sound, tray icons: drawing and system integration.

### Others

* **Headless server** (`bin/server`): command line, environment, and a start
  whose order matters because `CoreState` takes parts only while it has one
  owner.
* The iOS app and the TypeScript client are callers.

### Interactions

    sender --POST--> router --register--> pending map --timer--> expire
                       |                      ^                    |
                       +--broadcast--> subscribers (WS loops) <----+
                       +--dispatch_push--> APNS    | click
                                              handle_action -> HTTP -> finish
    calendar: sources -> refresh loop -> channel -> scheduler -> notifier
              -> broadcast; snooze/dismiss callbacks -> channel -> scheduler
    daemon: client and local bridge -> event loop -> queue -> center

The hazards of each part, at their lines, are in `PROJECT.json` under
`hazards`, with the properties that cover them.

## 2. Modules

| Module | What it is |
|---|---|
| `PendingNotifications` | the pending map, its tasks and the HTTP handlers |
| `ExclusiveResolution` | what they promise, without map, tasks or channels |
| `PendingNotifications_proofs` | its theorems |
| `MC_PendingNotifications` | symmetry for TLC |
| `CalendarScheduler` | the scheduler task, its channel, store, service and callbacks |
| `CalendarScheduler_proofs` | its theorems |
| `MC_CalendarScheduler` | instances for TLC: when the reminders fire |
| `DeviceRegistry`, `DeviceRegistry_proofs` | devices, their file, the `/devices` handlers, push dispatches |
| `ProviderToken` | the cached APNs token against a clock that is stepped |
| `CalendarFeed` | operators: what `parse.rs` makes of a document |
| `RefreshWindow` | the refresh loop: which reminders are handed over at all |
| `DailySummary` | the summary loop in a zone that changes its offset |
| `CalendarService_proofs` | the theorems of `RefreshWindow` and `DailySummary` |
| `Alertmanager` | the adapter under a group whose alerts fire and resolve |
| `ServerStartup` | configuration and start of the headless server |
| `ServerParts_proofs` | the theorems of `ProviderToken`, `Alertmanager`, `ServerStartup`, and of the sum `MC_ServerParts` |
| `MC_ServerParts` | the six machines above as one specification, with values (`CalendarFeed` is used by `RefreshWindow`) |
| `RemoteLink`, `RemoteLink_proofs` | subscriber list, WebSocket loop, client tasks, shown status |
| `DaemonApp`, `DaemonApp_proofs` | event loop, popup cards, store and file, center, tray, outside tasks |
| `DaemonSettings` | config file, watcher, form, rules, what a change restarts |
| `CenterPanel` | layout, hover, unfolding and clicks of the panel |
| `DaemonParts_proofs` | the theorems of `DaemonSettings` and `CenterPanel`, and of the sum `MC_DaemonParts` |
| `MC_DaemonParts`, `MC_DaemonApp` | the four parts above as one specification; the app alone |

### PendingNotifications

A request `r` is one `POST /notify`; its entry, channel, timer task and handler
carry its name.

| Variable | Code |
|---|---|
| `nid` | `Notification.id`, from the body or a fresh UUID |
| `watch` | the value in the entry's `watch::Sender<PendingState>` |
| `pending` | `CoreInner.pending` |
| `timer` | the task spawned by `register_pending` |
| `handler`, `poller` | `handle_notify` / `wait_and_respond`, `handle_wait` and their answers |
| `click` | the `handle_action` a WebSocket loop is running |
| `announce` | an `expire` or `handle_action` between `finish` and `broadcast` |
| `log`, `ran` | history: the broadcasts, the actions' HTTP calls that ran |

Every `await` another task can run in separates two actions; code under one
lock, or between two awaits, is one action. `register_pending` is one step:
the timer sleeps at least a second, and the lock it needs is only ever held for
straight-line code. `StartClick` is the first look-up, `HttpReturns` the
request's end, `ActionResolves` / `ActionLoses` the second look-up and
`finish`, `BroadcastResolved` the broadcast. `TimerCancelled` is the abort of
the timer's own task taking effect at the next await, when the subscribers'
lock is contended. Time is abstract: a wait or a timer may elapse whenever it
is running. `WebSocket` clients are those connected for the whole run; who
receives a broadcast is left to a later module.

### ExclusiveResolution

Per request: how far its notification got (`verdict`), what its sender was told
(`told`), what the subscribers heard (`heard`). `PendingNotifications` is
shown to implement it with `verdict` read off the channels and map, `told` off
the handlers and `heard` off the log.

### CalendarScheduler

| Variable | Code |
|---|---|
| `pending`, `disk` | `Scheduler.pending`, the file behind `JsonStore` |
| `queue` | the `mpsc` channel of `SchedulerCmd` |
| `tick` | `on_tick`: its `now` and the due ids it has not delivered yet |
| `svc`, `request` | `CalendarService` and slot; a handler that cloned the sender |
| `now` | the wall clock (which does not go back) |
| `bell`, `snoozes`, `dismissed`, `crashes`, `errors`, `reloads` | history |

A command's handler with its save is one action: other commands wait in the
channel, and a crash before the save loses the memory as well. A tick is several
(`StartTick`, `Deliver` per reminder, `EndTick` with collection and save). The
remote calendar is arbitrary: a refresh lists any occurrences in the window of
`expand_event`. An occurrence's id hashes its event, start and trigger, so it
determines `FireAt`; a moved event is another occurrence. `Grace[o]` is how long
after `FireAt[o]` a refresh still lists it: five minutes for a one-off event,
less for an instance of a recurring one, which is expanded only while it has
not started. `Forget` is the end of the task, by `Shutdown` or a crash: the
channel's content is lost and a request that holds the sender is answered 503.

### DeviceRegistry

A task is an HTTP handler or a detached dispatch. A change of the map is one
step under the write lock; the save after it is `TakeSnapshot`, `OpenTmp`,
`WriteTmp`, `RenameTmp`, with `SaveFails` and `HangUp` in every gap. All saves
share one temp file, so a task's handle (`fd`) follows the file when another
task renames it, and a text written over a longer one is `"mixed"`. A hang-up
while a write is under way leaves an `"orphan"`: the blocking pool finishes it.
A dispatch sends to one device after the other (`Send`), with every answer APNs
gives and a phone that loses or regains the app meanwhile (`gone`, `revived`),
and ends with `EndDispatch`. `Restart` reads the file; one that does not parse
leaves the process down. `disturbed`, `clash` and `unsaved` are history: which
saves another overlapped, and whether one has run alone since.

### RemoteLink

`loop[c]` is the server's connection loop, `chan[c]` its channel, `wire[c]` what
is on its way; `client[t]` is a daemon's client task, from `connecting` over
`connected` or the `grace` period to `waiting` between two connections, the only
place where it can notice that its handle was dropped. It need not: the `select!`
is not biased, so with the back-off over it may connect again, and `try_recv` at
the loop's head finds no message of a dropped sender (`WaitEnds`); only a handle
that is gone when the wait begins surely ends it (`AfterReport`). `Reconnect` is
`reconnect_server`, which clears the shown status, or `apply_config`, which leaves
it. `events` is the daemon's event queue; `connected` and `calendars` are what the
event loop shows. While a loop runs an action (`ReadAction` .. `ActionHandled`) it
neither sends nor reads.

### DaemonApp

An arrival is one notification with a payload that the rules, the queue and the
store tell apart. `deck` and `store` are the two lists as sets: both are only
appended to and removed from, each with an id that counts up, so the id is an
element's place (`First`). `inbox` holds the events sent through the proxy; HTTP handlers and button requests
change the store from outside the loop and post `StoreDirty` afterwards, in a
second step. `RenderPopup` is a whole frame: animate, mark the topmost card,
prune, store what is kept, refresh the tray, hide an empty window. `fate` is
history: how an arrival left. `KillAndStart` may cut the file short, because
it is written in place.

### DaemonSettings

`FromConfig` and `ToConfig` are the form's two conversions, `Verdict` the rules.
`ApplyConfig` decides what is restarted; `ConfigChanged` is the watcher's event,
which an open window makes the daemon ignore; `asked` the reconnect requests,
which name a URL and meet the configuration of a later moment. An editor writes
the file in place, in two steps that a watcher reports (`TruncateFile`,
`FillFile`), or renames another file into its place, which the watcher's callback
lets pass (`ReplaceFile`); and the daemon may run without a watcher (`watching`),
when it could not have one at its start. `unseen` is history: the file changed and
no event says so. The configuration holds what these read; `service.port` is what
`apply_config` hands to a restarted calendar; a start may also fail (`Started`), as
`Scheduler::new` does on a state file it cannot load.

### CenterPanel

`Draw` is one frame in the code's order: find what is under the cursor in the
old layout, unfold or fold by a step, measure, clamp, draw; a frame for which the
surface has no texture changes all of this and shows nothing. Cursor, wheel,
clicks and other threads' changes come between frames. What a point is on has two
operators, because the code lays the panel out twice: `Under` is `update_hover`
(the header first; the buttons where the content begins), `Pictured` is
`draw_header` and `draw_center_card` (cards over the header; an icon moves the
buttons by `IconSpace`). `Above` is the running sum that hover, measuring and
drawing each compute anew, a recursive function, so that what it computes can be
proved.

### RefreshWindow, DailySummary, Alertmanager, ProviderToken, ServerStartup

`RefreshWindow` adds to `CalendarFeed` the refreshes at arbitrary moments and
compares what they handed over with the starts the calendar means (`TrueStarts`).
`DailySummary` keeps the wall clock in UTC, the zone's one transition, and the
sleep that neither a suspend nor a correction of the clock shortens; an instant
in the past is waited for a second, which is no time here. In
`Alertmanager` the webhook's own side (which alerts a post carries, which labels
they share, what is posted again) is the environment; the alerts of a post are a
set, listed in the order of `Alerts`. `ProviderToken` keeps the
wall clock and the real age apart. `ServerStartup` walks through `parse_args`
and `run` step by step with the number of clones of the state.

### The sums

Parts that share no state are checked together: in `MC_ServerParts` and
`MC_DaemonParts` a behaviour chooses one `part` and is a behaviour of it, with
its fairness, while the other parts stay in an initial state. The reachable
states are those of the parts one by one; no invariant relates two of them.
What does interact is inside one module (list, loop and client in `RemoteLink`;
queue, store, tray and HTTP handlers in `DaemonApp`).

## 3. Runs

| Run | Shows |
|---|---|
| `pending_safety` | `TypeOK`, `MapHoldsLiveEntries`, `VerdictsAgree`, `AnnouncedOnce`, `ResolvedIsAnnounced` for two requests on one id, two clients, a poller |
| `pending_promise` | `KeepsPromise` (every step is one of `ExclusiveResolution`) and, under fairness, `EveryRequestEnds` for two requests, a client, a caller's id and a UUID |
| `expired_broadcast` | violation: an expiry nobody hears of |
| `action_once` | violation: two clients' clicks both run the side effect |
| `gone_means_expired` | violation: 410 for a notification that did not expire |
| `scheduler_reminder` | `TypeOK`, `DiskIsCurrent`, `OncePerArming`, `SnoozeSurvives`, `OverdueIsSettled` for one reminder with every kind of failure |
| `scheduler_dismissed` | violation: a dismissed reminder rings |
| `scheduler_shutdown` | violation: a snooze answered 204 is dropped at shutdown |
| `server_parts` | registry: `FileIsWhole`, `SavedSurvivesRestart`, `ChangesByRequestOrDeath`, `DeadArePruned`; token: `WithinAppleLimits`; calendar: `MissedOnlyInPause`, `OneAgendaPerDay`, `NoDayMissed`, `AgendaIsComplete`; alerts: `PagesAreLoud`; start: `PushAsAsked`, `AttachedInTime` |
| `daemon_parts` | link: `RunningIsListed`, `NoGapsWhileConnected`, `StatusFollowsTask`, `LinkComesBack`; app: `EachInOnePlace`, `TrayTellsTheStore`, `CardsAreOnScreen`, `TimedCardsLeave`; settings: `ConfigFollowsFile`, `HandlesAreParallel`, `ConfiguredCalendarRuns`, `UntouchedSaveIsHarmless`; panel: `NoCardOverlaps`, `ClickHitsTheCard`; all: `DaemonTypeOK` |
| `daily_summary_skipped` | violation: the summary loop ends on a day that skips its hour |
| `resolved_dismissed` | violation: a card stays although its remote server announced the end |

**Bounds.** A request is made at most once, so two requests with a shared id
show replacement, the stale click and the stale timer; a third adds no new pair
of tasks. Two clients are what the race of two actions needs, one poller races
with the sender's own wait. Pollers repeat, and the log is bounded by the
requests. In `pending_safety` requests and clients are interchangeable and no
property names one, so symmetry is sound; `pending_promise` uses none.
For the scheduler one reminder is enough to race its ticks, commands, failures
and crashes; that reminders do not disturb one another, and a crash between the
deliveries of a tick that has several, is in the theorems, which hold for any
number. One time unit stands for the code's minutes, hours and days
at once: what matters is the order of `FireAt`, the end of the grace, the end
of the retention and the snooze, and that the clock (`MaxTime`) runs past the
first moment at which an entry delivered on time is collected. The named bounds
are `MaxSnoozes` (per reminder), `MaxCrashes`, `MaxErrors` (failed saves, loads
and deliveries), `MaxReloads`, and in the channel one Tick, one Refresh, one
user command and one request about to send. `Lag` is a timing assumption: a
parsed refresh is merged within `Lag`, with `Grace + Lag < Retain` (minutes
against two days). Without it a refresh that waited two days in the channel
could re-list what was collected.

For `server_parts`: one handler and one dispatch are the two tasks whose saves
can overlap (a third adds no new overlap of two), two tokens distinguish the
one a change is about from the one a snapshot may lose, two calls let a save run
alone after a clash, and one crash may fall into any gap. The token's limits
keep the order of the code's (20, 50 and 60 minutes as 2, 4 and 6). A day of six
hours and a horizon of four let a series, a cancelled start, the end of a rule
on a date and a reminder due at its start all occur within `MaxTime`; the zones'
clocks go forward, back, and back at midnight. Setups are a complete environment
with any two variables and one flag amiss, and every way to name a calendar.

For `daemon_parts`: two tasks are an old and a new client, four connections let
each connect twice, two messages fall before and after a break, and three inputs
in all (`MaxLinkInputs`) are a reconnect, a break and a broadcast in any order.
Two arrivals, two inputs and a kill give every order of arrival, expiry,
click, removal from outside and restart for a pair of cards. Two files with two
servers and two rules, three edits, a daemon with and without a watcher; three
cards of which a window shows two, three moves. One card has an icon and two
buttons, one a single button, and the five places of the cursor (`MCSpots`) are on
the close button, on Clear All, on the icon card's buttons as they are drawn and
as they are hovered, on a card's body, and on the other card's button when it is
unfolded; scrolling brings cards under the first two.

Deadlock is not checked: the bounded systems stop when all requests are
answered, when the clock has reached its bound with the service down, or when
the inputs are used up.

**Fairness.** Weak fairness only, of tasks the runtime polls: the POST handler's
broadcast and wait, the timers, the click in progress (its HTTP client has a 30 s
timeout), pollers' waits; for the scheduler the handling of commands, each
delivery, the ticker, the completion of a shutdown and the restart of a service
that went down. Nothing is assumed of senders, users, the calendar, the refresh
loop or the clock. A delivery that fails (`DeliveryFails`) is retried by the next tick; their
number is bounded. In `RemoteLink` the moves of loops, tasks and event loop
together are weakly fair (`TaskMoves`): the runtimes do not idle while one of
them can go on, and nothing is assumed of their order; breaks are bounded, since
against a network that fails forever nothing recovers. In `DaemonApp` the popup
is rendered again and again while a card is queued, as `about_to_wait` asks for,
and time passes; of events and users nothing is assumed. `TimedCardsLeave`
therefore excepts the user who rests the cursor on the topmost card.

**What the passing runs had to except.** A property that holds only under a
condition names it, and the condition is what a reader should know:
* two saves that overlap (`clash`) may leave `devices.json` in pieces, and the
  next start refuses it; one later save alone mends it (`device.rs`, `save`);
* a provider token is used too long, or minted too soon, when the clock is
  corrected by more than the ten or thirty minutes between the limits;
* a reminder due at the start of an instance of a series has no grace at all
  (`RefreshWindow`), and a second `EXDATE` property is not read;
* the summary loop ends for good when the zone skips its hour on today's or
  tomorrow's date (also a run of its own); and where the clocks go back from one
  date into the one before (as Newfoundland's did at 00:01 until 2011), today's
  time and tomorrow's first one are both past, the sleep falls back to a second
  and the agenda is delivered again and again (`DatesGoForward`);
* an agenda leaves out all-day events of a series once their date has begun in
  UTC, what an expansion breaks off (`Crowded`), and what lies beyond the two
  days the parse looks ahead (`AgendaIsComplete`);
* an alert group that mixes `page` and `critical` shares no severity: "info";
* a client whose handle is dropped while it is at work, or which misses the drop
  when its back-off is over at the same moment, keeps running and keeps reporting
  (`raced`);
* a change of the file while the settings window is open is never applied
  (`skipped`), nor is one that no event tells of (`unseen`), until the next change
  or restart;
* a calendar may not start (its state does not load), and after a reload its
  action URLs may name the default port (`ConfiguredCalendarRuns`);
* saving an untouched form drops the server of a rule that names none the
  configuration has (`Representable`);
* a click may act on what was under the cursor a frame ago (`stale`, `moved`); on
  a card with an icon it may act on another button of the card, or its body; and a card that is scrolled over the
  header hides Clear All but does not take its clicks (`ClickHitsTheCard`);
* a POST whose id is no header value ends its handler in a panic, which
  `EveryRequestEnds` counts as an end; its entry and timer live on as any other's;
* a refresh that comes before the first tick after a long suspend removes an
  overdue reminder that it no longer lists: settled, without a ring
  (`OverdueIsSettled`).

**What the violations say.** Each contradicts a sentence of the repository,
quoted under `findings`.
* `ExpiredIsAnnounced`: the timer task runs `expire`, whose `finish` aborts
  that task; if the following `broadcast` has to wait for a lock it is cancelled.
* `ActionRunsAtMostOnce`: the side effect precedes the decision who won.
* `GoneMeansExpired`: a second request with the same id drops the first one's
  sender.
* `DismissedStaysQuiet`: the retention counts from `fired_at`, which a dismissal
  sets to the current time, and not from `fire_at`; dismissed two days early
  (from `GET /upcoming`, with a longer horizon), a reminder is collected, listed
  again and rings.
* `ShutdownDrainsCommands`: the loop stops at `Shutdown`; commands behind it in
  the channel are dropped.
* `EndsOnlyIfInvalid`: `next_summary_fire` is said to return `None` only for an
  invalid hour or minute, and to pick the earliest valid instant of a skipped
  one. A skipped local time has no instant, `earliest()` is `None`, and the loop
  returns: a summary at 02:30 ends for good when the clocks go forward.
* `ResolvedIsDismissed`: the server writes the resolved and expired messages
  with a field `id`, the daemon's types require `notificationId`; the message
  does not parse, is logged, and the card stays.

The models also show that the state described in the repository's README under
*Introspection* as "`snoozedUntil` + `firedAt` both set" does not occur: a
snooze clears `fired_at` (`PendingFire` in `CalendarScheduler`, part of `TypeOK`).

## 4. Proofs

Every invariant and action property the passing runs check is a theorem, for all
values of the constants that satisfy the named assumptions of its modules. No
theorem about safety uses fairness: of a part that has some, they speak of its
specification without it (`LinkSafety`, `AppSafety`).

`PendingNotifications_proofs` (`ConstantsAssumption`) proves `TypeOK`,
`MapHoldsLiveEntries`, `VerdictsAgree`, `AnnouncedOnce` and
`ResolvedIsAnnounced`. None of the last four is inductive alone; `IInv` adds:
* `Grounded`: what a running task points to exists (a sleeping timer's request
  has an id, a click in progress has one, a waiting poller has an entry);
* `Unborn`: a request that was not accepted owns nothing, and its channel and
  timer come into being together;
* `Announcing`: an entry somebody is about to announce is closed with the
  matching verdict, has not been announced, and has one announcer. This carries
  `AnnouncedOnce` over the gap between `finish` and the broadcast;
* `PollersWait`: a poller's entry once existed.

The argument: `Close` is guarded by `CanFinish`, so a watch value changes from
live to a verdict once and never again; everything told or logged was read off
a closed entry; each close gives exactly one task the duty to announce, and the
announcement discharges it. From `IInv` and `Unspoken` (a handler has answered
nothing before it is done, and only a resolution has a body) follows
`KeepsPromise`: step by step the server is a step of `ExclusiveResolution` or
leaves it unchanged.

`CalendarScheduler_proofs` (`ConstantsAssumption`) proves `TypeOK`,
`DiskIsCurrent`, `OncePerArming` and `SnoozeSurvives` for any reminders.
`DiskIsCurrent` needs `DueStaysDue`: what a tick has yet to deliver is still due
in the map, and only a running service ticks. `OncePerArming` needs `RingInv`,
which counts: the rings so far and those still owed by a reminder are at most one
plus its snoozes, crashes and errors. What is owed is read off the map
(`MapOwes`) while the service runs and off the file (`FileOwes`) for the next
start, with one more for a delivery that is not saved yet. An entry owes a ring
while it is armed, and another if it can ring so early that it is collected and
listed anew; a reminder without an entry owes one while a refresh may still list
it (`MayBeListed`). `RefreshesAreFresh` is where `Lag` enters: a refresh in the
channel is younger than the time it takes to collect what it lists.
`SnoozeSurvives` says of a step that a snooze ends only by a ring, a dismissal,
or in a process whose save or load failed; a restart keeps it by `DiskIsCurrent`.

`DeviceRegistry_proofs` (`RegistryAssumption`) proves the registry's four
properties and its types, for any number of tokens, handlers, dispatches, errors
and crashes. The two about the file need `SaveInv`: a save that nobody
overlapped is the only one under way (`LoneIsAlone`); its handle leads to the
temp file, which is empty until it writes and then holds its snapshot, and the
snapshot agrees with the map on the platforms (`LoneOwnsTmp`); a handle is open
exactly while something is to be written (`HandleIsOpen`). The two about the map
need `DeadInv`: what a dispatch holds for dead was removed from its phone while
it ran; the types need `DispatchInv`: only a dispatch sends, and it holds no
token once it is over.

`CalendarService_proofs` (`FeedAssumption`, `WindowAssumption`,
`SummaryAssumption`) proves the four properties of the two loops:
* `MissedOnlyInPause`. `Layout` finds each block of a text in the flattened
  document and `BlockIsRead` shows that a whole block after an end, or at the
  head, is one that `SplitBlocks` cuts out. `FewBefore` bounds the starts of a
  rule before one of its own by the length of the window over the period (an
  injection into an interval), so `ExpandedIfUncrowded`: a rule that is not too
  dense is expanded in full. `WindowInv` then says that a reminder was handed
  over if the last refresh came after it could be picked up and no pause was
  longer than the time for it. The induction that a recursive `FlattenSeq` calls
  for is done by least counterexample, from the well-foundedness of the numbers;
* `OneAgendaPerDay` and `NoDayMissed`. The lemmas on zones say that the earliest
  instants of local times come in the order of their dates unless the clocks go
  back over midnight (`EarliestInOrder`, `StillToCome`, `EveningsInOrder`).
  `OneInv` says that the loop sleeps for an evening whose agenda, and every later
  one, is still to come, and that it wakes on time; `MissInv` is its counterpart,
  that all evenings before that one were seen to. The premise
  `DatesGoForward` is not in the code: the proof does not go through without it,
  and the behaviour that violates the property is the one listed in section 3;
* `AgendaIsComplete`, from `ExpandedIfUncrowded` and the distance between a local
  date and UTC (`LaterDateIsLater`, `AllDayIsNotOver`).

`ServerParts_proofs` proves `WithinAppleLimits` (`TokenAssumption`: the age by
the clock differs from the real one by the corrections since the token was
minted, `TokenInv`), `PushAsAsked` and `AttachedInTime` (from what each step of
the start has put together, `StartInv`) and `PagesAreLoud` (`AlertInv`: the last
accepted post is one of the group as it was, and once nothing is owed, as it is).
`PartsBehave` shows that a behaviour of the sum in `MC_ServerParts` is one of each
part, so every theorem about a part holds of the sum TLC checks; `ServerTypeOK`
follows from the types of the six parts.

`RemoteLink_proofs` (`LinkAssumption`) proves the link's three properties and
its types. `StatusInv` says what the event queue may hold: after it the status
is up (`EndsUp`) while the latest task is connected, and down with no calendars
(`EndsDown`) while it connects or waits; the tasks before the latest are at rest
unless one of them was at work after its handle was dropped (`raced`). For `NoGapsWhileConnected`, `GapInv`
numbers the messages: what a connection has delivered, what is on its wire and
what is in its channel are consecutive (`Flow`), connections are taken in order,
each by one task (`Owners`), and a task's later connection starts where the
earlier one had got to or after it (`InOrder`).

`DaemonApp_proofs` proves the app's three invariants and its types.
`TrayTellsTheStore`: a store that differs from the tray has its news
in the inbox or a task that is about to send it. `EachInOnePlace` needs `AppInv`:
where an arrival is and what its fate says agree (`Accounted`), ids of cards and
entries count up and are not reused within a process (`DeckInv`, `StoreInv`),
and whoever holds an entry's id, a click, a request or a client that listed the
center, holds the id of an entry that is still that arrival's or of none
(`Refers`). The types need `AppInv` too: the tray never shows more than has
arrived because the store's entries are of different arrivals.

`DaemonParts_proofs` proves, about the settings, `HandlesAreParallel` and
`ConfiguredCalendarRuns`, which are inductive, `ConfigFollowsFile`, and `UntouchedSaveIsHarmless`: `SaveInv` says that
the window shows the daemon's configuration until it is edited, and `RoundTrip`
that a form converted back decides every sample as before if it can show the
rules; its types say besides that there are as many clients as servers. About the
panel, `ClickHitsTheCard` follows from `PanelInv` and `HoverAgrees`: while nothing
has changed since a frame that was shown and moved no card, picture and panel have
one layout, and of one layout the hover (`Under`) and the drawing (`Pictured`) say
the same but for the buttons of a card with an icon and for Clear All under a card.
`NoCardOverlaps` is a fact about a sum: `SumsExist` builds the recursive
function of `Above` (a least counterexample among the lengths for which it does not
exist), `AboveNext` reads off it where each card begins, and `LaterIsBelow`, by
least counterexample again, that a later card begins at or below the end of an
earlier one. The panel's types rest on `AboveNext` as well, because the content's
height is that sum.
`DaemonPartsBehave` shows that a behaviour of the sum in `MC_DaemonParts` is one of
each part; `DaemonTypeOK` follows from the types of the four parts, and `DaemonIsSafe`
says that all of their safety properties hold of the sum.

**State facts of the liveness properties.** The provers reach neither fairness nor
`ENABLED`, so what is proved of liveness is that nobody waits for nobody, with
guards and steps written out:
* `TimersEndThem` (for `EveryRequestEnds`): an open notification whose id nobody
  reused has a sleeping timer and an entry the timer can finish, and the timer's
  next step ends it;
* `TicksMissNothing` (for `OverdueIsSettled`): what a tick has yet to deliver is
  all that was due when it began, and nothing of that is due when it ends, unless a
  delivery, save or load has failed;
* `LinkRestsWell` (for `LinkRecovers`): `CanGoOn` lists the guards of `TaskMoves`;
  in a state where it is false the latest task is connected, has delivered all
  that was broadcast since it subscribed, and is shown as connected, unless the
  model's connections (`MaxConns`) are used up. From `GapInv`: what is not
  delivered is on the wire or in the channel, and a loop ends only on a broken
  connection (`EndsByBreak`).

Model-checked only, and why:
* liveness (`EveryRequestEnds`, `OverdueIsSettled`, `LinkComesBack`,
  `TimedCardsLeave`): the provers reach neither fairness nor `ENABLED`. That the
  fair steps named above are taken again and again, and that they get somewhere
  (no state recurs for ever), is what TLC checks.

## 5. Not modelled

* Time's length where it only orders nothing (25 s and 1 s in
  `PendingNotifications`, the back-off's seconds in `RemoteLink`).
* The text of messages, JSON, authentication, icons, OpenAPI: pure functions of
  one request that no state depends on.
* Sources' I/O and the notifier's wording (`source.rs`, `notifier.rs`): a fetch
  succeeds or fails; the document is read by the icalendar crate. Of `parse.rs`
  the block splitting, the windows, recurrence bounds, exclusions, `UNTIL` and
  all-day dates are modelled; reading components and durations is not.
* Rendering, windows, sound, tray icons, and the GTK and HTTP glue of
  `server.rs`; of it the center's routes are modelled in `DaemonApp` and the
  pipeline in `PendingNotifications`.
* `Inspect`, `GET /upcoming`, `GET /devices` only read. `Drop` of a
  `CalendarService` happens at process exit and is a `Crash`.
* Power failure after the rename that is not synced, an interval of zero, sums
  of times that are no chrono date, and a clock set back under the scheduler:
  listed as hazards with the reason.
* The center's panel while it slides in or out, and events that the operating
  system's watch queue loses.
* The iOS app and the TypeScript client are callers; what they may send is the
  environment of the models.

Sentences of the repository that the models disagree with but no run is spent on;
where a property has to except the case, its name follows:
* `device.rs:185-187` promises an fsync before the rename; `write_atomic` makes
  none. The settings window says of the calendar that it applies on the next
  restart; `apply_config` restarts it at once.
* `main.rs:999-1000`: the old handle is dropped first, "cancelling the WS task", so
  that two tasks do not race to report. The new task is spawned before the old
  handle is dropped, `connect_and_run` never looks at the oneshot,
  `try_recv().is_ok()` (`client.rs:64`) is false for a dropped sender, and the
  unbiased `select!` (`client.rs:96-102`) may take the sleep. The old task's
  "disconnected", read after the new one's "connected", stays (`ShownIsTrue` fails;
  `StatusFollowsTask`, `raced`).
* `main.rs:183` and `app.rs:57`: changes of the file are watched for and reloaded.
  The callback lets pass what is no `Modify(Data)` (`main.rs:227-233`), such as a
  rename into place, and the daemon runs on without a watcher (247-256)
  (`ChangesAreSeen` fails; `ConfigFollowsFile`, `unseen`).
* `README.md:477`: a reminder's actions go to the host that delivered it. `App::new`
  stores `DEFAULT_PORT` in place of the port it was given (`main.rs:189`), and
  `reload_calendar` hands that on (`ConfiguredCalendarRuns`, the two ports).
* `README.md:263`: action buttons act when they are clicked. `update_hover` begins a
  card's buttons where its content begins (`center.rs:433`), `draw_center_card`
  right of the icon (557, 614) (`ClickHitsTheCard`, `Icons`).

## 6. Plan

Done: the pending notifications and the scheduler, the registry, the link, the
daemon's app, settings and panel, the calendar's feed and loops, the adapter, the
token, the start; theorems for all safety properties of their runs and for both
sums. Left, in this order:

1. `RemoteLink` over the log of `PendingNotifications`: what a reconnecting
   client has seen against what is pending.
2. The state fact of `TimedCardsLeave`: which frame takes the topmost card away
   once the cursor has left it.
