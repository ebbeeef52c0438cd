----------------------------- MODULE RemoteLink -----------------------------
(***************************************************************************)
(* The WebSocket link between a notification server and one daemon: the    *)
(* server's subscriber list (state.rs, subscriber.rs) and connection loop  *)
(* (router.rs), the daemon's client tasks (client.rs) and the connection   *)
(* status the event loop keeps of them (main.rs).                          *)
(*                                                                         *)
(* Dropping a client's handle is noticed only while its task waits between *)
(* two connections, and even there the end of the wait may come first: a   *)
(* task may outlive its handle for as long as its socket does, or open one *)
(* connection more.  Messages are numbers, in the order of their           *)
(* broadcasts; 0 is the server-info that opens every connection.           *)
(* Durations are left out; what a clicked action does is                   *)
(* PendingNotifications.                                                   *)
(***************************************************************************)
EXTENDS Naturals, Sequences

CONSTANTS
  MaxConns,      \* bound on connections
  MaxTasks,      \* bound on client tasks
  MaxMessages,   \* bound on broadcasts
  MaxFailures,   \* bound on broken connections and failed attempts
  MaxActions,    \* bound on clicks sent over the link
  MaxLinkInputs,     \* bound on all of these and the reconnects together
  MinBackoff, MaxBackoff

ASSUME LinkAssumption ==
  /\ {MaxConns, MaxMessages, MaxFailures, MaxActions, MaxLinkInputs} \subseteq Nat
  /\ MaxTasks \in Nat \ {0}
  /\ {MinBackoff, MaxBackoff} \subseteq Nat \ {0}
  /\ MinBackoff <= MaxBackoff

Conns == 1..MaxConns
Clients == 1..MaxTasks

VARIABLES
  sent,       \* number of broadcasts so far
  subscribers,     \* connections with an entry in the subscriber list
  loop,       \* loop[c]: where the server's loop of connection c stands
  since,      \* since[c]: broadcasts made before c was subscribed
  chan,       \* chan[c]: the subscriber's channel
  wire,       \* wire[c]: what is on its way to the daemon
  owner,      \* owner[c]: the client task that opened c, 0 before
  got,        \* got[c]: the notifications the daemon read from c
  broken,     \* connections that no longer carry anything
  client,     \* client[t]: where the t-th client task stands
  conn,       \* conn[t]: its connection, 0 without one
  dropped,    \* tasks whose handle is gone
  backoff,
  failed,     \* tasks that already ended one attempt (was_connected)
  events,     \* the event loop's queue
  connected,  \* the status shown for the server
  calendars,  \* the calendars it advertised are shown
  raced,      \* history: a task was at work after its handle was dropped
  failures, clicks

serverVars == <<sent, subscribers, loop, since, chan, clicks>>
clientVars == <<owner, got, client, conn, backoff, failed>>
statusVars == <<connected, calendars, dropped, raced>>
linkVars == <<serverVars, clientVars, statusVars, wire, broken, events, failures>>

Event == [task : Clients, type : {"up", "down", "info"}]
Ev(t, type) == [task |-> t, type |-> type]
Live(c) == loop[c] \in {"info", "run", "action"}
Spawned == {t \in Clients : client[t] # "unborn"}
Latest == CHOOSE t \in Spawned : \A u \in Spawned : u <= t

InputLeft == sent + clicks + failures + Latest <= MaxLinkInputs

LinkTypeOK ==
  /\ sent \in Nat
  /\ subscribers \subseteq Conns
  /\ loop \in [Conns -> {"unused", "info", "run", "action", "ended"}]
  /\ since \in [Conns -> Nat]
  /\ chan \in [Conns -> Seq(Nat)] /\ wire \in [Conns -> Seq(Nat)]
  /\ got \in [Conns -> Seq(Nat)] /\ owner \in [Conns -> 0..MaxTasks]
  /\ broken \subseteq Conns
  /\ client \in [Clients -> {"unborn", "connecting", "connected", "grace",
                             "waiting", "gone"}]
  /\ conn \in [Clients -> 0..MaxConns]
  /\ \A t \in Clients : client[t] = "connected" <=> conn[t] # 0
  /\ backoff \in [Clients -> MinBackoff..MaxBackoff]
  /\ failed \subseteq Clients /\ dropped \subseteq Clients
  /\ events \in Seq(Event)
  /\ {connected, calendars, raced} \subseteq BOOLEAN
  /\ {failures, clicks} \subseteq Nat

(* The daemon has started with one configured server.                      *)
LinkInit ==
  /\ sent = 0 /\ subscribers = {}
  /\ loop = [c \in Conns |-> "unused"] /\ since = [c \in Conns |-> 0]
  /\ chan = [c \in Conns |-> <<>>] /\ wire = [c \in Conns |-> <<>>]
  /\ got = [c \in Conns |-> <<>>] /\ owner = [c \in Conns |-> 0]
  /\ broken = {}
  /\ client = [t \in Clients |-> IF t = 1 THEN "connecting" ELSE "unborn"]
  /\ conn = [t \in Clients |-> 0]
  /\ dropped = {} /\ failed = {}
  /\ backoff = [t \in Clients |-> MinBackoff]
  /\ events = <<>>
  /\ connected = FALSE /\ calendars = FALSE /\ raced = FALSE
  /\ failures = 0 /\ clicks = 0
-----------------------------------------------------------------------------
(* The server.                                                             *)

(* The loop's subscriber is added before anything is sent; nothing that    *)
(* was broadcast before is sent again.                                     *)
AddSubscriber(c) ==
  /\ subscribers' = subscribers \cup {c}
  /\ loop' = [loop EXCEPT ![c] = "info"]
  /\ since' = [since EXCEPT ![c] = sent]

(* Mutant: the list is emptied of everyone whose send did not fail.        *)
BroadcastOnce ==
  /\ sent < MaxMessages /\ InputLeft
  /\ sent' = sent + 1
  /\ subscribers' = {c \in subscribers : ~Live(c)}
  /\ chan' = [c \in Conns |-> IF c \in subscribers /\ Live(c)
                              THEN Append(chan[c], sent + 1) ELSE chan[c]]
  /\ UNCHANGED <<loop, since, clicks, clientVars, statusVars, wire, broken,
                 events, failures>>

(* Every listed subscriber gets the message or, when its loop is over,     *)
(* leaves the list.                                                        *)
Broadcast ==
  /\ sent < MaxMessages /\ InputLeft
  /\ sent' = sent + 1
  /\ subscribers' = {c \in subscribers : Live(c)}
  /\ chan' = [c \in Conns |-> IF c \in subscribers /\ Live(c)
                              THEN Append(chan[c], sent + 1) ELSE chan[c]]
  /\ UNCHANGED <<loop, since, clicks, clientVars, statusVars, wire, broken,
                 events, failures>>

(* A loop's end drops its receiver, with what it holds; the list is left   *)
(* to the next broadcast.                                                  *)
EndLoop(c) ==
  /\ loop' = [loop EXCEPT ![c] = "ended"]
  /\ chan' = [chan EXCEPT ![c] = <<>>]

SendInfo(c) ==
  /\ loop[c] = "info"
  /\ IF c \in broken
     THEN EndLoop(c) /\ UNCHANGED wire
     ELSE /\ loop' = [loop EXCEPT ![c] = "run"]
          /\ wire' = [wire EXCEPT ![c] = Append(@, 0)]
          /\ UNCHANGED chan
  /\ UNCHANGED <<sent, subscribers, since, clicks, clientVars, statusVars, broken,
                 events, failures>>

Forward(c) ==
  /\ loop[c] = "run" /\ chan[c] # <<>>
  /\ IF c \in broken
     THEN EndLoop(c) /\ UNCHANGED wire
     ELSE /\ wire' = [wire EXCEPT ![c] = Append(@, Head(chan[c]))]
          /\ chan' = [chan EXCEPT ![c] = Tail(@)]
          /\ UNCHANGED loop
  /\ UNCHANGED <<sent, subscribers, since, clicks, clientVars, statusVars, broken,
                 events, failures>>

(* A click arrives: handle_action is awaited inside the loop, which sends  *)
(* and reads nothing meanwhile.                                            *)
ReadAction(c) ==
  /\ loop[c] = "run" /\ c \notin broken /\ clicks < MaxActions /\ InputLeft
  /\ clicks' = clicks + 1
  /\ loop' = [loop EXCEPT ![c] = "action"]
  /\ UNCHANGED <<sent, subscribers, since, chan, clientVars, statusVars, wire, broken,
                 events, failures>>

(* Mutant: what was queued while the action ran is dropped.                *)
ActionHandledDraining(c) ==
  /\ loop[c] = "action"
  /\ loop' = [loop EXCEPT ![c] = "run"]
  /\ chan' = [chan EXCEPT ![c] = <<>>]
  /\ UNCHANGED <<sent, subscribers, since, clicks, clientVars, statusVars, wire,
                 broken, events, failures>>

ActionHandled(c) ==
  /\ loop[c] = "action"
  /\ loop' = [loop EXCEPT ![c] = "run"]
  /\ UNCHANGED <<sent, subscribers, since, chan, clicks, clientVars, statusVars, wire,
                 broken, events, failures>>

ReadEnd(c) ==
  /\ loop[c] = "run" /\ c \in broken
  /\ EndLoop(c)
  /\ UNCHANGED <<sent, subscribers, since, clicks, clientVars, statusVars, wire,
                 broken, events, failures>>
-----------------------------------------------------------------------------
(* The client task.                                                        *)

Post(t, type) == events' = Append(events, Ev(t, type))

ConnectSucceeds(t, c) ==
  /\ client[t] = "connecting"
  /\ loop[c] = "unused" /\ \A d \in Conns : loop[d] = "unused" => c <= d
  /\ client' = [client EXCEPT ![t] = "connected"]
  /\ conn' = [conn EXCEPT ![t] = c]
  /\ owner' = [owner EXCEPT ![c] = t]
  /\ AddSubscriber(c)
  /\ Post(t, "up")
  /\ UNCHANGED <<sent, chan, clicks, got, backoff, failed, statusVars, wire,
                 broken, failures>>

(* Reads the next message; an opening server-info becomes an event of its  *)
(* own.                                                                    *)
Read(t) ==
  /\ client[t] = "connected" /\ wire[conn[t]] # <<>>
  /\ LET c == conn[t]  m == Head(wire[c]) IN
     /\ wire' = [wire EXCEPT ![c] = Tail(@)]
     /\ IF m = 0 THEN Post(t, "info") /\ UNCHANGED got
        ELSE got' = [got EXCEPT ![c] = Append(@, m)] /\ UNCHANGED events
  /\ UNCHANGED <<serverVars, owner, client, conn, backoff, failed, statusVars, broken,
                 failures>>

(* Where a task stands when its attempt is reported: it waits, or finds at *)
(* once, before the back-off can have elapsed, that its handle is gone.    *)
(* (A task whose try_recv met the dropped handle panics here; it ends too.)*)
AfterReport(t) == IF t \in dropped THEN "gone" ELSE "waiting"

(* Mutant: the ended connection is still taken for the task's own.         *)
AttemptEndsKeeping(t, clean) ==
  /\ failed' = failed \cup {t}
  /\ IF clean THEN backoff' = [backoff EXCEPT ![t] = MinBackoff]
     ELSE UNCHANGED backoff
  /\ IF ~clean /\ t \in failed
     THEN client' = [client EXCEPT ![t] = "grace"] /\ UNCHANGED events
     ELSE client' = [client EXCEPT ![t] = AfterReport(t)] /\ Post(t, "down")
  /\ UNCHANGED conn

(* An attempt is over: a clean end resets the back-off, an error after the *)
(* first attempt waits a grace period before it is reported.               *)
AttemptEnds(t, clean) ==
  /\ conn' = [conn EXCEPT ![t] = 0]
  /\ failed' = failed \cup {t}
  /\ IF clean THEN backoff' = [backoff EXCEPT ![t] = MinBackoff]
     ELSE UNCHANGED backoff
  /\ IF ~clean /\ t \in failed
     THEN client' = [client EXCEPT ![t] = "grace"] /\ UNCHANGED events
     ELSE client' = [client EXCEPT ![t] = AfterReport(t)] /\ Post(t, "down")

ConnectFails(t) ==
  /\ client[t] = "connecting" /\ failures < MaxFailures /\ InputLeft
  /\ failures' = failures + 1
  /\ AttemptEnds(t, FALSE)
  /\ UNCHANGED <<serverVars, owner, got, statusVars, wire, broken>>

(* Mutant: a clean end of the connection ends the task.                    *)
DisconnectedFinally(t) ==
  /\ client[t] = "connected" /\ conn[t] \in broken
  /\ \E clean \in BOOLEAN :
       IF clean
       THEN /\ client' = [client EXCEPT ![t] = "gone"]
            /\ conn' = [conn EXCEPT ![t] = 0]
            /\ Post(t, "down")
            /\ UNCHANGED <<backoff, failed>>
       ELSE AttemptEnds(t, clean)
  /\ wire' = [wire EXCEPT ![conn[t]] = <<>>]
  /\ UNCHANGED <<serverVars, owner, got, statusVars, broken, failures>>

Disconnected(t) ==
  /\ client[t] = "connected" /\ conn[t] \in broken
  /\ \E clean \in BOOLEAN : AttemptEnds(t, clean)
  /\ wire' = [wire EXCEPT ![conn[t]] = <<>>]
  /\ UNCHANGED <<serverVars, owner, got, statusVars, broken, failures>>

GraceEnds(t) ==
  /\ client[t] = "grace"
  /\ client' = [client EXCEPT ![t] = AfterReport(t)]
  /\ Post(t, "down")
  /\ UNCHANGED <<serverVars, owner, got, conn, backoff, failed, statusVars, wire, broken,
                 failures>>

(* The wait is over, or the dropped handle is noticed: when both are ready *)
(* the select takes either, and the check at the loop's head asks only for *)
(* a message, which a dropped handle never sends.                          *)
WaitEnds(t) ==
  /\ client[t] = "waiting"
  /\ \/ /\ t \in dropped
        /\ client' = [client EXCEPT ![t] = "gone"]
        /\ UNCHANGED <<backoff, raced>>
     \/ /\ client' = [client EXCEPT ![t] = "connecting"]
        /\ backoff' = [backoff EXCEPT ![t] =
                         IF 2 * @ < MaxBackoff THEN 2 * @ ELSE MaxBackoff]
        /\ raced' = (raced \/ t \in dropped)
  /\ UNCHANGED <<serverVars, owner, got, conn, failed, connected, calendars, dropped,
                 wire, broken, events, failures>>
-----------------------------------------------------------------------------
(* The event loop.                                                         *)

(* Mutant: the calendars are kept when the connection is lost.             *)
HandleEventKeeping ==
  /\ events # <<>>
  /\ LET e == Head(events) IN
     /\ connected' = (IF e.type = "info" THEN connected ELSE e.type = "up")
     /\ calendars' = (calendars \/ e.type = "info")
  /\ events' = Tail(events)
  /\ UNCHANGED <<serverVars, clientVars, wire, broken, failures, dropped, raced>>

(* ConnectionStatus and ServerInfoReceived, whichever task sent them.      *)
HandleEvent ==
  /\ events # <<>>
  /\ LET e == Head(events) IN
     /\ connected' = (IF e.type = "info" THEN connected ELSE e.type = "up")
     /\ calendars' = (e.type = "info" \/ (e.type = "up" /\ calendars))
  /\ events' = Tail(events)
  /\ UNCHANGED <<serverVars, clientVars, wire, broken, failures, dropped, raced>>

(* A new task starts and the old one's handle is dropped: the user         *)
(* reconnects, which clears the status, or the configured servers changed, *)
(* which leaves it as it is (reconnect_server, apply_config).              *)
Reconnect ==
  /\ Latest < MaxTasks /\ InputLeft
  /\ client' = [client EXCEPT ![Latest + 1] = "connecting"]
  /\ dropped' = dropped \cup {Latest}
  /\ raced' = (raced \/ client[Latest] # "waiting")
  /\ \/ connected' = FALSE /\ calendars' = FALSE
     \/ UNCHANGED <<connected, calendars>>
  /\ UNCHANGED <<serverVars, owner, got, conn, backoff, failed, wire, broken, events,
                 failures>>
-----------------------------------------------------------------------------
(* The connection is lost, to both ends, sooner or later.                  *)
Break(c) ==
  /\ Live(c) /\ c \notin broken /\ failures < MaxFailures /\ InputLeft
  /\ failures' = failures + 1
  /\ broken' = broken \cup {c}
  /\ UNCHANGED <<serverVars, clientVars, statusVars, wire, events>>

ServerStep(c) == SendInfo(c) \/ Forward(c) \/ ActionHandled(c) \/ ReadEnd(c)
ClientStep(t) ==
  \/ \E c \in Conns : ConnectSucceeds(t, c)
  \/ Read(t) \/ Disconnected(t) \/ GraceEnds(t) \/ WaitEnds(t)

LinkNext ==
  \/ Broadcast
  \/ \E c \in Conns : ServerStep(c) \/ ReadAction(c) \/ Break(c)
  \/ \E t \in Clients : ClientStep(t) \/ ConnectFails(t)
  \/ HandleEvent
  \/ Reconnect

TaskMoves ==
  \/ \E c \in Conns : ServerStep(c)
  \/ \E t \in Clients : ClientStep(t)
  \/ HandleEvent

(* The runtimes do not idle while a loop or task can go on, and an attempt *)
(* that does not fail succeeds.  Nothing is assumed of how the steps of    *)
(* different tasks are ordered.                                            *)
LinkFairness == WF_linkVars(TaskMoves)
LinkSafety == LinkInit /\ [][LinkNext]_linkVars
LinkSpec == LinkSafety /\ LinkFairness
-----------------------------------------------------------------------------
(* A subscriber whose loop still runs is never cleared out of the list.    *)
RunningIsListed == \A c \in Conns : Live(c) => c \in subscribers

Slice(from, to) == [i \in 1..(to - from) |-> from + i]

(* What a wire carries behind the server-info, which only opens it.        *)
Carried(s) == IF s # <<>> /\ Head(s) = 0 THEN Tail(s) ELSE s

(* From the moment it is subscribed a connection that holds carries every  *)
(* broadcast, in order and once, whatever the loop does in between; a      *)
(* daemon loses only what was broadcast while it was away, and a task      *)
(* never delivers one broadcast twice over its connections.                *)
NoGapsWhileConnected ==
  /\ \A c \in Conns :
       Live(c) /\ (\E t \in Clients : conn[t] = c)
         => got[c] \o Carried(wire[c]) \o chan[c] = Slice(since[c], sent)
  /\ \A c \in Conns : got[c] = Slice(since[c], since[c] + Len(got[c]))
  /\ \A c, d \in Conns : c < d /\ owner[c] = owner[d] /\ owner[c] # 0
       => since[c] + Len(got[c]) <= since[d]

(* Once the event loop has caught up, the status it shows is that of the   *)
(* task it holds the handle of, and calendars are shown only of a server   *)
(* that is connected.  reconnect_server's comment promises it (main.rs:999:*)
(* the WS task is cancelled, so both aren't racing to report status), but  *)
(* a dropped handle cancels no task that is at work.                       *)
ShownIsTrue ==
  events = <<>> =>
     /\ client[Latest] = "connected" => connected
     /\ client[Latest] \in {"connecting", "waiting"} => ~connected
     /\ calendars => connected

(* The shown status is true unless a task was still at work when its       *)
(* handle was dropped, or went on to work after that: whatever the tasks   *)
(* that waited had reported before they were replaced, and in whatever     *)
(* order the event loop comes to it (user_event, reconnect_server,         *)
(* apply_config).                                                          *)
StatusFollowsTask == raced \/ ShownIsTrue

Settled ==
  /\ client[Latest] = "connected" /\ conn[Latest] \notin broken
  /\ since[conn[Latest]] + Len(got[conn[Latest]]) = sent

(* When the failures stop, the latest task comes to be connected for good  *)
(* and what is broadcast from then on reaches the daemon (client_loop,     *)
(* ws_client_loop).                                                        *)
LinkRecovers == <>[]Settled
=============================================================================
