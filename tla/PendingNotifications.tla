------------------------ MODULE PendingNotifications ------------------------
(***************************************************************************)
(* The core server's map of exclusive notifications awaiting resolution    *)
(* (crates/core/src/state.rs) and the HTTP handlers that wait on it        *)
(* (crates/core/src/router.rs).                                            *)
(*                                                                         *)
(* A request r is one POST /notify.  An exclusive request owns a map entry *)
(* (PendingEntry), a watch channel, a max-wait timer task and the waiting  *)
(* POST handler, all named r here.  A client is one WebSocket loop, which  *)
(* runs its actions one at a time; a poller is one sender that repeats     *)
(* GET /notify/{id}/wait.  Each await that another task can run in is a    *)
(* boundary between two actions.                                           *)
(*                                                                         *)
(* Time is abstract: a timeout may elapse in any state in which the code   *)
(* is still waiting.  Registration is one step: the timer's delay is at    *)
(* least one second and `pending` is only ever locked for straight-line    *)
(* code, so the timer cannot elapse between its spawn and the insertion.   *)
(***************************************************************************)
EXTENDS Naturals, Sequences

CONSTANTS
  Requests,       \* POST /notify requests, each at most once
  Clients,        \* connected WebSocket clients that click actions
  Pollers,        \* senders long-polling GET /notify/{id}/wait
  Ids,            \* notification ids
  CallerIds,      \* ids that a sender may put in the request body itself
  HeaderSafeIds,  \* ids that HeaderValue::from_str accepts
  NoId, NoRequest, Nobody

ASSUME ConstantsAssumption ==
  /\ CallerIds \subseteq Ids
  /\ HeaderSafeIds \subseteq Ids
  /\ Ids \ CallerIds \subseteq HeaderSafeIds    \* UUIDs are
  /\ NoId \notin Ids
  /\ NoRequest \notin Requests
  /\ Nobody \notin Clients
  /\ Requests \cap Clients = {}

VARIABLES
  nid,       \* nid[r]: the id of r's notification
  watch,     \* watch[r]: the value in r's watch channel
  pending,   \* pending[id]: the entry the map holds under id
  timer,     \* timer[r]: r's max-wait timer task
  handler,   \* handler[r]: r's POST handler and its answer
  poller,    \* poller[p]: p's GET handler and its latest answer
  click,     \* click[c]: the action client c's loop is running
  announce,  \* announce[t]: the entry that task t closed and must broadcast
  ran,       \* ran[r]: clients whose HTTP action of r's notification ran
  log        \* the messages broadcast to the subscribers so far

vars == <<nid, watch, pending, timer, handler, poller, click, announce, ran,
          log>>

(* The tasks that can close an entry: the timers, named by their request,  *)
(* and the clients' loops.                                                 *)
Tasks == Requests \cup Clients

(* ResolvedMessage: who acted, on which entry's action, and its success.   *)
Body == [by : Clients \cup {Nobody}, of : Requests \cup {NoRequest},
         ok : BOOLEAN]
NoBody == [by |-> Nobody, of |-> NoRequest, ok |-> FALSE]

PendingState == [state : {"unset", "live", "resolved", "expired"},
                 body : Body]
Watch(s) == [state |-> s, body |-> NoBody]

(* The responses: 4xx, 202 without body, 202 with a Location, 200, 410.    *)
Answer == [status : {"none", "rejected", "accepted", "pending", "resolved",
                     "gone"},
           body : Body]
Status(s) == [status |-> s, body |-> NoBody]

Handler ==
  [pc : {"idle", "broadcast", "waiting", "done", "dropped", "panicked"},
   answer : Answer]
Poller ==
  [pc : {"idle", "waiting", "done", "panicked"},
   id : Ids \cup {NoId}, on : Requests \cup {NoRequest}, answer : Answer]
Click ==
  [pc : {"idle", "executing", "executed", "announcing"},
   id : Ids \cup {NoId}, target : Requests \cup {NoRequest}, ok : BOOLEAN]

Message == [type : {"notification", "resolved", "expired"},
            id : Ids \cup {NoId}, of : Requests, body : Body]
-----------------------------------------------------------------------------
Live(r) == watch[r].state = "live"
Terminal(r) == watch[r].state \in {"resolved", "expired"}
InMap(r) == nid[r] # NoId /\ pending[nid[r]] = r

(* A live entry whose map slot was overwritten by a later request.         *)
Replaced(r) == Live(r) /\ ~InMap(r)

(* Its watch sender goes away with the last clone of the entry: the map's, *)
(* or the one a running handle_action holds.                               *)
SenderDropped(r) == Replaced(r) /\ \A c \in Clients : click[c].target # r

Used == {nid[r] : r \in Requests}
Shown == {log[i].id : i \in DOMAIN log} \ {NoId}

TerminalResponse(w) ==
  IF w.state = "resolved" THEN [status |-> "resolved", body |-> w.body]
                          ELSE Status("gone")

(* What a waiter on r's channel is told when it wakes before its timeout.  *)
WakeAnswer(r) == IF Terminal(r) THEN TerminalResponse(watch[r])
                                ELSE Status("gone")
Wakes(r) == Terminal(r) \/ SenderDropped(r)

TypeOK ==
  /\ nid \in [Requests -> Ids \cup {NoId}]
  /\ watch \in [Requests -> PendingState]
  /\ pending \in [Ids -> Requests \cup {NoRequest}]
  /\ timer \in [Requests -> {"unset", "sleeping", "ended"}]
  /\ handler \in [Requests -> Handler]
  /\ poller \in [Pollers -> Poller]
  /\ click \in [Clients -> Click]
  /\ announce \in [Tasks -> Requests \cup {NoRequest}]
  /\ ran \in [Requests -> SUBSET Clients]
  /\ log \in Seq(Message)

NoClick == [pc |-> "idle", id |-> NoId, target |-> NoRequest, ok |-> FALSE]

Init ==
  /\ nid = [r \in Requests |-> NoId]
  /\ watch = [r \in Requests |-> Watch("unset")]
  /\ pending = [id \in Ids |-> NoRequest]
  /\ timer = [r \in Requests |-> "unset"]
  /\ handler = [r \in Requests |-> [pc |-> "idle", answer |-> Status("none")]]
  /\ poller = [p \in Pollers |-> [pc |-> "idle", id |-> NoId,
                                  on |-> NoRequest, answer |-> Status("none")]]
  /\ click = [c \in Clients |-> NoClick]
  /\ announce = [t \in Tasks |-> NoRequest]
  /\ ran = [r \in Requests |-> {}]
  /\ log = <<>>
-----------------------------------------------------------------------------
(***************************************************************************)
(* POST /notify                                                            *)
(***************************************************************************)

(* Bad token, bad JSON, no source, neither title nor message.              *)
Reject(r) ==
  /\ handler[r].pc = "idle"
  /\ handler' = [handler EXCEPT ![r] = [pc |-> "done",
                                        answer |-> Status("rejected")]]
  /\ UNCHANGED <<nid, watch, pending, timer, poller, click, announce, ran, log>>

(* The id is the caller's, or a fresh UUID.                                *)
ChosenId(id) == id \in CallerIds \/ id \notin Used

(* Mutant: the max-wait timer is not started.                              *)
RegisterPendingUntimed(r, id) ==
  /\ watch' = [watch EXCEPT ![r] = Watch("live")]
  /\ timer' = [timer EXCEPT ![r] = "ended"]
  /\ pending' = [pending EXCEPT ![id] = r]

(* register_pending: a new channel and timer; the map entry is inserted    *)
(* whether or not the id is already in the map.                            *)
RegisterPending(r, id) ==
  /\ watch' = [watch EXCEPT ![r] = Watch("live")]
  /\ timer' = [timer EXCEPT ![r] = "sleeping"]
  /\ pending' = [pending EXCEPT ![id] = r]

AcceptExclusive(r, id) ==
  /\ handler[r].pc = "idle"
  /\ ChosenId(id)
  /\ nid' = [nid EXCEPT ![r] = id]
  /\ RegisterPending(r, id)
  /\ handler' = [handler EXCEPT ![r].pc = "broadcast"]
  /\ UNCHANGED <<poller, click, announce, ran, log>>

(* No wait, no maxWait, not exclusive: the id stays what the caller sent.  *)
AcceptPlain(r, id) ==
  /\ handler[r].pc = "idle"
  /\ id \in CallerIds \cup {NoId}
  /\ nid' = [nid EXCEPT ![r] = id]
  /\ handler' = [handler EXCEPT ![r].pc = "broadcast"]
  /\ UNCHANGED <<watch, pending, timer, poller, click, announce, ran, log>>

Exclusive(r) == timer[r] # "unset"

BroadcastNotification(r) ==
  /\ handler[r].pc = "broadcast"
  /\ log' = Append(log, [type |-> "notification", id |-> nid[r], of |-> r,
                         body |-> NoBody])
  /\ handler' = [handler EXCEPT
       ![r] = IF Exclusive(r)
              THEN [@ EXCEPT !.pc = "waiting"]
              ELSE [pc |-> "done", answer |-> Status("accepted")]]
  /\ UNCHANGED <<nid, watch, pending, timer, poller, click, announce, ran>>

(* Mutant: a dropped watch sender makes the handler loop again.            *)
AnswerPostOnlyTerminal(r) ==
  /\ handler[r].pc = "waiting"
  /\ Terminal(r)
  /\ handler' = [handler EXCEPT ![r] = [pc |-> "done",
                                        answer |-> WakeAnswer(r)]]
  /\ UNCHANGED <<nid, watch, pending, timer, poller, click, announce, ran, log>>

(* wait_and_respond: terminal, or its sender went away.                    *)
AnswerPost(r) ==
  /\ handler[r].pc = "waiting"
  /\ Wakes(r)
  /\ handler' = [handler EXCEPT ![r] = [pc |-> "done",
                                        answer |-> WakeAnswer(r)]]
  /\ UNCHANGED <<nid, watch, pending, timer, poller, click, announce, ran, log>>

(* The short wait elapses: 202 with a Location, if the id fits a header;   *)
(* otherwise the expect() fails and the connection just closes.            *)
PostWaitElapses(r) ==
  /\ handler[r].pc = "waiting"
  /\ ~Wakes(r)
  /\ handler' = [handler EXCEPT
       ![r] = IF nid[r] \in HeaderSafeIds
              THEN [pc |-> "done", answer |-> Status("pending")]
              ELSE [@ EXCEPT !.pc = "panicked"]]
  /\ UNCHANGED <<nid, watch, pending, timer, poller, click, announce, ran, log>>

(* The sender hangs up: the server drops the handler at the await it is    *)
(* in, which may be before the broadcast.  The entry stays.                *)
SenderHangsUp(r) ==
  /\ handler[r].pc \in {"broadcast", "waiting"}
  /\ handler' = [handler EXCEPT ![r].pc = "dropped"]
  /\ UNCHANGED <<nid, watch, pending, timer, poller, click, announce, ran, log>>
-----------------------------------------------------------------------------
(***************************************************************************)
(* finish: publish a verdict and delete the entry, once                    *)
(***************************************************************************)
CanFinish(id) == pending[id] # NoRequest /\ Live(pending[id])

(* Mutant: the entry is not removed from the map.                          *)
CloseWithoutRemoving(t, id, value) ==
  LET e == pending[id] IN
  /\ CanFinish(id)
  /\ watch' = [watch EXCEPT ![e] = value]
  /\ timer' = [r \in Requests |-> IF r \in {e, t} THEN "ended" ELSE timer[r]]
  /\ announce' = [announce EXCEPT ![t] = e]
  /\ UNCHANGED pending

(* Task t closes the entry under id.  timer.abort() stops a timer that is  *)
(* asleep; a timer that closes its own entry aborts the task it runs in,   *)
(* which takes effect at its next await.                                   *)
Close(t, id, value) ==
  LET e == pending[id] IN
  /\ CanFinish(id)
  /\ watch' = [watch EXCEPT ![e] = value]
  /\ pending' = [pending EXCEPT ![id] = NoRequest]
  /\ timer' = [r \in Requests |-> IF r \in {e, t} THEN "ended" ELSE timer[r]]
  /\ announce' = [announce EXCEPT ![t] = e]

(***************************************************************************)
(* The max-wait timer task                                                 *)
(***************************************************************************)
TimerExpires(r) ==
  /\ timer[r] = "sleeping"
  /\ Close(r, nid[r], Watch("expired"))
  /\ UNCHANGED <<nid, handler, poller, click, ran, log>>

(* Another task finished the entry under this id first.                    *)
TimerLoses(r) ==
  /\ timer[r] = "sleeping"
  /\ ~CanFinish(nid[r])
  /\ timer' = [timer EXCEPT ![r] = "ended"]
  /\ UNCHANGED <<nid, watch, pending, handler, poller, click, announce, ran,
                 log>>

(* Mutant: the result of finish() is not checked.                          *)
BroadcastExpiredUnasked(r) ==
  /\ timer[r] = "ended"
  /\ log' = Append(log, [type |-> "expired", id |-> nid[r], of |-> announce[r],
                         body |-> NoBody])
  /\ announce' = [announce EXCEPT ![r] = NoRequest]
  /\ UNCHANGED <<nid, watch, pending, timer, handler, poller, click, ran>>

BroadcastExpired(r) ==
  /\ announce[r] # NoRequest
  /\ log' = Append(log, [type |-> "expired", id |-> nid[r], of |-> announce[r],
                         body |-> NoBody])
  /\ announce' = [announce EXCEPT ![r] = NoRequest]
  /\ UNCHANGED <<nid, watch, pending, timer, handler, poller, click, ran>>

(* Another task is inside broadcast(), or could be: it is about to take    *)
(* the subscribers' write lock or holds it.  (A timer's own POST handler   *)
(* is past its broadcast a second or more before the timer elapses.)       *)
LockContended(t) ==
  \/ \E u \in Tasks \ {t} : announce[u] # NoRequest
  \/ \E r \in Requests \ {t} : handler[r].pc = "broadcast"

(* A timer that aborted itself has to wait for the subscribers' lock: the  *)
(* runtime cancels the task there and the broadcast is never made.         *)
TimerCancelled(r) ==
  /\ announce[r] = r
  /\ LockContended(r)
  /\ announce' = [announce EXCEPT ![r] = NoRequest]
  /\ UNCHANGED <<nid, watch, pending, timer, handler, poller, click, ran, log>>
-----------------------------------------------------------------------------
(***************************************************************************)
(* handle_action, inline in a client's WebSocket loop                      *)
(***************************************************************************)

(* Unknown or finished id, or an action index out of range.                *)
IgnoreClick(c) ==
  /\ click[c].pc = "idle"
  /\ \E id \in Shown : pending[id] = NoRequest
  /\ UNCHANGED vars

(* The entry is cloned out of the map and the lock released.  An `open`    *)
(* action makes no HTTP call.                                              *)
StartClick(c, id, open) ==
  /\ click[c].pc = "idle"
  /\ id \in Shown
  /\ pending[id] # NoRequest
  /\ click' = [click EXCEPT
       ![c] = [pc |-> IF open THEN "executed" ELSE "executing", id |-> id,
               target |-> pending[id], ok |-> open]]
  /\ UNCHANGED <<nid, watch, pending, timer, handler, poller, announce, ran,
                 log>>

(* The HTTP call ends within its 30 s timeout, well or badly.  No lock is  *)
(* held meanwhile.                                                         *)
HttpReturns(c, ok) ==
  /\ click[c].pc = "executing"
  /\ click' = [click EXCEPT
       ![c] = [pc |-> "executed", id |-> @.id, target |-> @.target, ok |-> ok]]
  /\ ran' = IF ok THEN [ran EXCEPT ![click[c].target] = @ \cup {c}] ELSE ran
  /\ UNCHANGED <<nid, watch, pending, timer, handler, poller, announce, log>>

(* Mutant: publish through the entry cloned before the HTTP call.          *)
ActionResolvesUnchecked(c) ==
  /\ click[c].pc = "executed"
  /\ watch' = [watch EXCEPT ![click[c].target] =
       [state |-> "resolved",
        body |-> [by |-> c, of |-> click[c].target, ok |-> click[c].ok]]]
  /\ pending' = [pending EXCEPT ![click[c].id] = NoRequest]
  /\ announce' = [announce EXCEPT ![c] = click[c].target]
  /\ click' = [click EXCEPT ![c].pc = "announcing"]
  /\ UNCHANGED <<nid, timer, handler, poller, ran, log>>

(* finish() looks the id up again: it closes whatever entry is there now.  *)
ActionResolves(c) ==
  /\ click[c].pc = "executed"
  /\ Close(c, click[c].id,
           [state |-> "resolved",
            body |-> [by |-> c, of |-> click[c].target, ok |-> click[c].ok]])
  /\ click' = [click EXCEPT ![c].pc = "announcing"]
  /\ UNCHANGED <<nid, handler, poller, ran, log>>

(* Mutant: the loser of the race broadcasts its resolution as well.        *)
ActionLosesAloud(c) ==
  /\ click[c].pc = "executed"
  /\ ~CanFinish(click[c].id)
  /\ log' = Append(log, [type |-> "resolved", id |-> click[c].id,
                         of |-> click[c].target, body |-> NoBody])
  /\ click' = [click EXCEPT ![c] = NoClick]
  /\ UNCHANGED <<nid, watch, pending, timer, handler, poller, announce, ran>>

ActionLoses(c) ==
  /\ click[c].pc = "executed"
  /\ ~CanFinish(click[c].id)
  /\ click' = [click EXCEPT ![c] = NoClick]
  /\ UNCHANGED <<nid, watch, pending, timer, handler, poller, announce, ran,
                 log>>

(* Mutant: the broadcast is skipped when the subscribers are locked.       *)
BroadcastResolvedIfUnlocked(c) ==
  /\ announce[c] # NoRequest
  /\ IF LockContended(c)
     THEN UNCHANGED log
     ELSE log' = Append(log, [type |-> "resolved", id |-> click[c].id,
                              of |-> announce[c],
                              body |-> watch[announce[c]].body])
  /\ announce' = [announce EXCEPT ![c] = NoRequest]
  /\ click' = [click EXCEPT ![c] = NoClick]
  /\ UNCHANGED <<nid, watch, pending, timer, handler, poller, ran>>

BroadcastResolved(c) ==
  /\ announce[c] # NoRequest
  /\ log' = Append(log, [type |-> "resolved", id |-> click[c].id,
                         of |-> announce[c], body |-> watch[announce[c]].body])
  /\ announce' = [announce EXCEPT ![c] = NoRequest]
  /\ click' = [click EXCEPT ![c] = NoClick]
  /\ UNCHANGED <<nid, watch, pending, timer, handler, poller, ran>>
-----------------------------------------------------------------------------
(***************************************************************************)
(* GET /notify/{id}/wait, repeated by a sender until a terminal answer     *)
(***************************************************************************)
CanPoll(p, id) ==
  /\ poller[p].pc = "idle"
  /\ id \in IF poller[p].id = NoId THEN Used \ {NoId} ELSE {poller[p].id}

PollUnknown(p, id) ==
  /\ CanPoll(p, id)
  /\ pending[id] = NoRequest
  /\ poller' = [poller EXCEPT ![p] = [pc |-> "done", id |-> id,
                                      on |-> NoRequest,
                                      answer |-> Status("gone")]]
  /\ UNCHANGED <<nid, watch, pending, timer, handler, click, announce, ran, log>>

PollWaits(p, id) ==
  /\ CanPoll(p, id)
  /\ pending[id] # NoRequest
  /\ poller' = [poller EXCEPT ![p] = [pc |-> "waiting", id |-> id,
                                      on |-> pending[id],
                                      answer |-> Status("none")]]
  /\ UNCHANGED <<nid, watch, pending, timer, handler, click, announce, ran, log>>

AnswerPoll(p) ==
  /\ poller[p].pc = "waiting"
  /\ Wakes(poller[p].on)
  /\ poller' = [poller EXCEPT
       ![p] = [pc |-> "done", id |-> @.id, on |-> @.on,
               answer |-> WakeAnswer(@.on)]]
  /\ UNCHANGED <<nid, watch, pending, timer, handler, click, announce, ran, log>>

PollTimesOut(p) ==
  /\ poller[p].pc = "waiting"
  /\ ~Wakes(poller[p].on)
  /\ poller' = [poller EXCEPT
       ![p] = IF poller[p].id \in HeaderSafeIds
              THEN [pc |-> "idle", id |-> @.id, on |-> NoRequest,
                    answer |-> Status("pending")]
              ELSE [pc |-> "panicked", id |-> @.id, on |-> @.on,
                    answer |-> @.answer]]
  /\ UNCHANGED <<nid, watch, pending, timer, handler, click, announce, ran, log>>
-----------------------------------------------------------------------------
PostStep(r) ==
  \/ BroadcastNotification(r)
  \/ AnswerPost(r)
  \/ PostWaitElapses(r)

TimerStep(r) == TimerExpires(r) \/ TimerLoses(r)
TimerBroadcast(r) == BroadcastExpired(r) \/ TimerCancelled(r)

ClickStep(c) ==
  \/ \E ok \in BOOLEAN : HttpReturns(c, ok)
  \/ ActionResolves(c)
  \/ ActionLoses(c)
  \/ BroadcastResolved(c)

PollStep(p) == AnswerPoll(p) \/ PollTimesOut(p)

Next ==
  \/ \E r \in Requests :
       \/ Reject(r)
       \/ \E id \in Ids : AcceptExclusive(r, id)
       \/ \E id \in Ids \cup {NoId} : AcceptPlain(r, id)
       \/ PostStep(r)
       \/ SenderHangsUp(r)
       \/ TimerStep(r)
       \/ TimerBroadcast(r)
  \/ \E c \in Clients :
       \/ IgnoreClick(c)
       \/ \E id \in Ids, open \in BOOLEAN : StartClick(c, id, open)
       \/ ClickStep(c)
  \/ \E p \in Pollers :
       \/ \E id \in Ids : PollUnknown(p, id) \/ PollWaits(p, id)
       \/ PollStep(p)

Spec == Init /\ [][Next]_vars

(* The runtime keeps polling every spawned task, timers elapse, and an     *)
(* action's HTTP call ends: it has a 30 s timeout.  Nothing is assumed of  *)
(* senders, users or pollers.                                              *)
Fairness ==
  /\ \A r \in Requests : /\ WF_vars(PostStep(r))
                         /\ WF_vars(TimerStep(r))
                         /\ WF_vars(TimerBroadcast(r))
  /\ \A c \in Clients : WF_vars(ClickStep(c))
  /\ \A p \in Pollers : WF_vars(PollStep(p))

FairSpec == Spec /\ Fairness
-----------------------------------------------------------------------------
(***************************************************************************)
(* Properties                                                              *)
(***************************************************************************)

(* Two requests share an id only if a sender reused it.                    *)
SharedId(r) == \E q \in Requests \ {r} : nid[q] = nid[r] /\ nid[r] # NoId

(* What the map holds is open, is filed under its own id, and has its      *)
(* timer still running: no entry can stay in the map for ever.  Conversely *)
(* an open entry is in the map unless a later request took its id.         *)
MapHoldsLiveEntries ==
  /\ \A id \in Ids : \A e \in Requests : pending[id] = e =>
       nid[e] = id /\ Live(e) /\ (timer[e] = "sleeping" \/ SharedId(e))
  /\ \A r \in Requests : Replaced(r) => SharedId(r)

(* The sender, every poller and every subscriber that is told a verdict on *)
(* an entry is told the same one, and a 410 never hides a resolution from  *)
(* a waiter that was there when it happened.                               *)
VerdictsAgree ==
  /\ \A r \in Requests :
       /\ handler[r].answer.status = "resolved" =>
            watch[r] = [state |-> "resolved", body |-> handler[r].answer.body]
       /\ handler[r].answer.status = "gone" =>
            watch[r].state = "expired" \/ Replaced(r)
  /\ \A p \in Pollers : poller[p].on # NoRequest =>
       /\ poller[p].answer.status = "resolved" =>
            watch[poller[p].on] = [state |-> "resolved",
                                   body |-> poller[p].answer.body]
       /\ poller[p].answer.status = "gone" =>
            watch[poller[p].on].state = "expired" \/ Replaced(poller[p].on)
  /\ \A i \in DOMAIN log : log[i].type # "notification" =>
       watch[log[i].of] = [state |-> log[i].type, body |-> log[i].body]

(* The subscribers hear of the end of a notification at most once.         *)
AnnouncedOnce ==
  \A i, j \in DOMAIN log :
    /\ log[i].type # "notification"
    /\ log[j].type # "notification"
    /\ log[i].of = log[j].of
    => i = j

(* A resolution is always broadcast, or a client's loop is about to.       *)
ResolvedIsAnnounced ==
  \A r \in Requests : watch[r].state = "resolved" =>
    \/ \E i \in DOMAIN log : log[i].type = "resolved" /\ log[i].of = r
    \/ \E c \in Clients : announce[c] = r

(* The map, tasks, channels and log implement the promise.  A subscriber's *)
(* `heard` is read off the log.                                            *)
VerdictOf(r) == IF Replaced(r) THEN Watch("replaced") ELSE watch[r]
ToldOf(r) == [state |-> handler[r].answer.status,
              body |-> handler[r].answer.body]
EndMessages(r) ==
  {i \in DOMAIN log : log[i].of = r /\ log[i].type # "notification"}
HeardOf(r) ==
  IF EndMessages(r) = {} THEN Watch("none")
  ELSE LET i == CHOOSE j \in EndMessages(r) : TRUE
       IN [state |-> log[i].type, body |-> log[i].body]

Promise == INSTANCE ExclusiveResolution WITH
  Bodies <- Body,
  verdict <- [r \in Requests |-> VerdictOf(r)],
  told <- [r \in Requests |-> ToldOf(r)],
  heard <- [r \in Requests |-> HeardOf(r)]

(* Refinement: every step of the server is a step of the promise or leaves *)
(* it alone.                                                               *)
KeepsPromise == Promise!SafeSpec

(* The promise's liveness: no notification stays open for ever, its timer  *)
(* closes it if no click did and no later request took its id; and every   *)
(* accepted request is answered, unless its sender hangs up or it sent an  *)
(* id that is no header value (register_pending, expire, handle_notify).   *)
EveryRequestEnds ==
  /\ Promise!Fairness
  /\ \A r \in Requests :
       handler[r].pc = "broadcast" ~> handler[r].pc \in {"done", "dropped",
                                                         "panicked"}

(* README, Exclusive Notifications: a 410 comes with "an `expired`         *)
(* WebSocket broadcast to all clients".                                    *)
ExpiredIsAnnounced ==
  \A r \in Requests : watch[r].state = "expired" =>
    \/ \E i \in DOMAIN log : log[i].type = "expired" /\ log[i].of = r
    \/ \E t \in Tasks : announce[t] = r

(* README, Exclusive Notifications: "only one person should take the       *)
(* action".                                                                *)
ActionRunsAtMostOnce ==
  \A r \in Requests : \A c, d \in ran[r] : c = d

(* router.rs on a dropped watch sender: "shouldn't happen while the        *)
(* notification is live".                                                  *)
GoneMeansExpired ==
  \A r \in Requests :
    handler[r].answer.status = "gone" => watch[r].state = "expired"
=============================================================================
