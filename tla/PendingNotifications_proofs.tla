--------------------- MODULE PendingNotifications_proofs ---------------------
(***************************************************************************)
(* The safety invariants of PendingNotifications hold for any numbers of   *)
(* requests, clients, pollers and ids, reused ids included, and every step *)
(* of it is one of ExclusiveResolution or leaves that alone.               *)
(***************************************************************************)
EXTENDS PendingNotifications, TLAPS

EndOf(i, r) == log[i].type # "notification" /\ log[i].of = r

(* What the running tasks refer to exists.                                 *)
Grounded ==
  /\ \A r \in Requests : timer[r] = "sleeping" => nid[r] \in Ids
  /\ \A c \in Clients : click[c].pc # "idle" => click[c].id \in Ids
  /\ \A p \in Pollers : poller[p].pc = "waiting" => poller[p].on \in Requests

(* A request that was not accepted owns nothing, and its channel and its   *)
(* timer come into being together.                                         *)
Unborn ==
  \A r \in Requests :
    /\ handler[r].pc = "idle" =>
         /\ nid[r] = NoId
         /\ watch[r].state = "unset"
         /\ handler[r].answer = Status("none")
    /\ watch[r].state = "unset" <=> timer[r] = "unset"
    /\ handler[r].pc = "waiting" => watch[r].state # "unset"
    /\ Live(r) => nid[r] # NoId
    /\ handler[r].answer.status \in {"resolved", "gone"} => handler[r].pc = "done"

(* A verdict is on its way to the subscribers while a task announces it:   *)
(* the timers announce expiries, the clients' loops resolutions.           *)
Announcing ==
  /\ \A t \in Tasks : announce[t] # NoRequest =>
       /\ t \in Requests => watch[announce[t]] = Watch("expired")
       /\ t \in Clients => watch[announce[t]].state = "resolved"
       /\ \A i \in DOMAIN log : ~EndOf(i, announce[t])
       /\ \A u \in Tasks : announce[u] = announce[t] => u = t
  /\ \A r \in Requests : timer[r] # "ended" => announce[r] = NoRequest
  /\ \A c \in Clients : click[c].pc # "announcing" => announce[c] = NoRequest

(* Who waits, waits on an entry that was opened.                           *)
PollersWait ==
  \A p \in Pollers : poller[p].on # NoRequest => watch[poller[p].on].state # "unset"

IInv ==
  /\ TypeOK
  /\ Grounded
  /\ Unborn
  /\ MapHoldsLiveEntries
  /\ Announcing
  /\ PollersWait
  /\ VerdictsAgree
  /\ AnnouncedOnce
  /\ ResolvedIsAnnounced
-----------------------------------------------------------------------------
(***************************************************************************)
(* Types                                                                   *)
(***************************************************************************)
LEMMA BodyTypes == NoBody \in Body /\ \A s : Status(s) = [status |-> s, body |-> NoBody]
BY DEF NoBody, Body, Status

LEMMA WakeAnswerType ==
  ASSUME TypeOK, NEW r \in Requests
  PROVE  WakeAnswer(r) \in Answer
BY BodyTypes DEF WakeAnswer, TerminalResponse, Terminal, TypeOK, PendingState,
   Answer

LEMMA NoClickType == NoClick \in Click
BY DEF NoClick, Click

LEMMA CloseTypes ==
  ASSUME TypeOK, NEW t \in Tasks, NEW id \in Ids, NEW v \in PendingState,
         Close(t, id, v)
  PROVE  /\ pending[id] \in Requests
         /\ watch' \in [Requests -> PendingState]
         /\ pending' \in [Ids -> Requests \cup {NoRequest}]
         /\ timer' \in [Requests -> {"unset", "sleeping", "ended"}]
         /\ announce' \in [Tasks -> Requests \cup {NoRequest}]
<1>1. pending[id] \in Requests
  BY DEF TypeOK, Close, CanFinish
<1>2. QED
  BY <1>1 DEF TypeOK, Close

LEMMA TypeInit == Init => TypeOK
<1> SUFFICES ASSUME Init PROVE TypeOK
  OBVIOUS
<1>1. log \in Seq(Message)
  BY DEF Init
<1>2. handler \in [Requests -> Handler]
  BY BodyTypes DEF Init, Handler, Answer
<1>3. poller \in [Pollers -> Poller]
  BY BodyTypes DEF Init, Poller, Answer
<1>4. click \in [Clients -> Click]
  BY DEF Init, Click, NoClick
<1>5. QED
  BY <1>1, <1>2, <1>3, <1>4, BodyTypes DEF Init, TypeOK, PendingState, Watch

LEMMA TypeStep == TypeOK /\ Grounded /\ [Next]_vars => TypeOK'
<1> SUFFICES ASSUME TypeOK, Grounded, [Next]_vars PROVE TypeOK'
  OBVIOUS
<1>1. CASE UNCHANGED vars
  BY <1>1 DEF TypeOK, vars
<1>2. ASSUME NEW r \in Requests, Reject(r) PROVE TypeOK'
  <2>1. [pc |-> "done", answer |-> Status("rejected")] \in Handler
    BY BodyTypes DEF Handler, Answer
  <2>2. QED
    BY <1>2, <2>1 DEF TypeOK, Reject
<1>3. ASSUME NEW r \in Requests, NEW id \in Ids, AcceptExclusive(r, id)
      PROVE  TypeOK'
  <2>1. Watch("live") \in PendingState
    BY BodyTypes DEF Watch, PendingState
  <2>2. handler' \in [Requests -> Handler]
    BY <1>3 DEF TypeOK, AcceptExclusive, Handler
  <2>3. QED
    BY <1>3, <2>1, <2>2 DEF TypeOK, AcceptExclusive, RegisterPending
<1>4. ASSUME NEW r \in Requests, NEW id \in Ids \cup {NoId}, AcceptPlain(r, id)
      PROVE  TypeOK'
  <2>1. handler' \in [Requests -> Handler]
    BY <1>4 DEF TypeOK, AcceptPlain, Handler
  <2>2. QED
    BY <1>4, <2>1 DEF TypeOK, AcceptPlain
<1>5. ASSUME NEW r \in Requests, BroadcastNotification(r) PROVE TypeOK'
  <2>1. [type |-> "notification", id |-> nid[r], of |-> r, body |-> NoBody]
          \in Message
    BY BodyTypes DEF Message, TypeOK
  <2>2. log' \in Seq(Message)
    BY <1>5, <2>1 DEF BroadcastNotification, TypeOK
  <2>3. [handler[r] EXCEPT !.pc = "waiting"] \in Handler
    BY DEF TypeOK, Handler
  <2>4. [pc |-> "done", answer |-> Status("accepted")] \in Handler
    BY BodyTypes DEF Handler, Answer
  <2>5. handler' \in [Requests -> Handler]
    BY <1>5, <2>3, <2>4 DEF BroadcastNotification, TypeOK
  <2>6. QED
    BY <1>5, <2>2, <2>5 DEF BroadcastNotification, TypeOK
<1>6. ASSUME NEW r \in Requests, AnswerPost(r) PROVE TypeOK'
  <2>1. [pc |-> "done", answer |-> WakeAnswer(r)] \in Handler
    BY WakeAnswerType DEF Handler
  <2>2. QED
    BY <1>6, <2>1 DEF TypeOK, AnswerPost
<1>7. ASSUME NEW r \in Requests, PostWaitElapses(r) PROVE TypeOK'
  <2>1. [pc |-> "done", answer |-> Status("pending")] \in Handler
    BY BodyTypes DEF Handler, Answer
  <2>2. [handler[r] EXCEPT !.pc = "panicked"] \in Handler
    BY DEF TypeOK, Handler
  <2>3. handler' \in [Requests -> Handler]
    BY <1>7, <2>1, <2>2 DEF PostWaitElapses, TypeOK
  <2>4. QED
    BY <1>7, <2>3 DEF TypeOK, PostWaitElapses
<1>8. ASSUME NEW r \in Requests, SenderHangsUp(r) PROVE TypeOK'
  <2>1. handler' \in [Requests -> Handler]
    BY <1>8 DEF TypeOK, SenderHangsUp, Handler
  <2>2. QED
    BY <1>8, <2>1 DEF TypeOK, SenderHangsUp
<1>9. ASSUME NEW r \in Requests, TimerExpires(r) PROVE TypeOK'
  <2>1. Watch("expired") \in PendingState
    BY BodyTypes DEF Watch, PendingState
  <2>2. nid[r] \in Ids
    BY <1>9 DEF TimerExpires, Grounded
  <2>3. QED
    BY <1>9, <2>1, <2>2, CloseTypes DEF TimerExpires, TypeOK, Tasks
<1>10. ASSUME NEW r \in Requests, TimerLoses(r) PROVE TypeOK'
  BY <1>10 DEF TypeOK, TimerLoses
<1>11. ASSUME NEW r \in Requests, BroadcastExpired(r) PROVE TypeOK'
  <2>1. r \in Tasks /\ announce[r] \in Requests
    BY <1>11 DEF TypeOK, BroadcastExpired, Tasks
  <2>2. [type |-> "expired", id |-> nid[r], of |-> announce[r], body |-> NoBody]
          \in Message
    BY <2>1, BodyTypes DEF Message, TypeOK
  <2>3. log' \in Seq(Message)
    BY <1>11, <2>2 DEF BroadcastExpired, TypeOK
  <2>4. QED
    BY <1>11, <2>3 DEF BroadcastExpired, TypeOK
<1>12. ASSUME NEW r \in Requests, TimerCancelled(r) PROVE TypeOK'
  BY <1>12 DEF TypeOK, TimerCancelled
<1>13. ASSUME NEW c \in Clients, IgnoreClick(c) PROVE TypeOK'
  BY <1>13 DEF TypeOK, IgnoreClick, vars
<1>14. ASSUME NEW c \in Clients, NEW id \in Ids, NEW open \in BOOLEAN,
              StartClick(c, id, open)
       PROVE  TypeOK'
  <2>1. [pc |-> IF open THEN "executed" ELSE "executing", id |-> id,
         target |-> pending[id], ok |-> open] \in Click
    BY DEF TypeOK, Click
  <2>2. QED
    BY <1>14, <2>1 DEF TypeOK, StartClick
<1>15. ASSUME NEW c \in Clients, NEW ok \in BOOLEAN, HttpReturns(c, ok)
       PROVE  TypeOK'
  <2>1. [pc |-> "executed", id |-> click[c].id, target |-> click[c].target,
         ok |-> ok] \in Click
    BY DEF TypeOK, Click
  <2>2. ran' \in [Requests -> SUBSET Clients]
    <3>1. CASE ok /\ click[c].target \in Requests
      BY <1>15, <3>1 DEF TypeOK, HttpReturns
    <3>2. CASE ~ok \/ click[c].target \notin Requests
      BY <1>15, <3>2 DEF TypeOK, HttpReturns
    <3>3. QED
      BY <3>1, <3>2
  <2>3. QED
    BY <1>15, <2>1, <2>2 DEF TypeOK, HttpReturns
<1>16. ASSUME NEW c \in Clients, ActionResolves(c) PROVE TypeOK'
  <2>1. [state |-> "resolved",
         body |-> [by |-> c, of |-> click[c].target, ok |-> click[c].ok]]
          \in PendingState
    BY DEF PendingState, Body, TypeOK, Click
  <2>2. click[c].id \in Ids
    BY <1>16 DEF ActionResolves, Grounded
  <2>3. click' \in [Clients -> Click]
    <3>1. /\ click' = [click EXCEPT ![c].pc = "announcing"]
          /\ click[c] \in Click /\ click \in [Clients -> Click]
      BY <1>16 DEF TypeOK, ActionResolves
    <3>2. [click[c] EXCEPT !.pc = "announcing"] \in Click
      BY <3>1 DEF Click
    <3>3. QED
      BY <3>1, <3>2
  <2>4. QED
    BY <1>16, <2>1, <2>2, <2>3, CloseTypes DEF ActionResolves, TypeOK, Tasks
<1>17. ASSUME NEW c \in Clients, ActionLoses(c) PROVE TypeOK'
  BY <1>17, NoClickType DEF TypeOK, ActionLoses
<1>18. ASSUME NEW c \in Clients, BroadcastResolved(c) PROVE TypeOK'
  <2>1. c \in Tasks /\ announce[c] \in Requests
    BY <1>18 DEF TypeOK, BroadcastResolved, Tasks
  <2>2. [type |-> "resolved", id |-> click[c].id, of |-> announce[c],
         body |-> watch[announce[c]].body] \in Message
    BY <2>1 DEF Message, TypeOK, PendingState, Click
  <2>3. log' \in Seq(Message)
    BY <1>18, <2>2 DEF BroadcastResolved, TypeOK
  <2>4. QED
    BY <1>18, <2>3, NoClickType DEF BroadcastResolved, TypeOK
<1>19. ASSUME NEW p \in Pollers, NEW id \in Ids, PollUnknown(p, id) PROVE TypeOK'
  <2>1. [pc |-> "done", id |-> id, on |-> NoRequest, answer |-> Status("gone")]
          \in Poller
    BY BodyTypes DEF Poller, Answer
  <2>2. QED
    BY <1>19, <2>1 DEF TypeOK, PollUnknown
<1>20. ASSUME NEW p \in Pollers, NEW id \in Ids, PollWaits(p, id) PROVE TypeOK'
  <2>1. [pc |-> "waiting", id |-> id, on |-> pending[id],
         answer |-> Status("none")] \in Poller
    BY BodyTypes DEF TypeOK, Poller, Answer
  <2>2. QED
    BY <1>20, <2>1 DEF TypeOK, PollWaits
<1>21. ASSUME NEW p \in Pollers, AnswerPoll(p) PROVE TypeOK'
  <2>1. WakeAnswer(poller[p].on) \in Answer
    BY <1>21, WakeAnswerType DEF AnswerPoll, Grounded
  <2>2. [pc |-> "done", id |-> poller[p].id, on |-> poller[p].on,
         answer |-> WakeAnswer(poller[p].on)] \in Poller
    BY <2>1 DEF TypeOK, Poller
  <2>3. QED
    BY <1>21, <2>2 DEF TypeOK, AnswerPoll
<1>22. ASSUME NEW p \in Pollers, PollTimesOut(p) PROVE TypeOK'
  <2>1. [pc |-> "idle", id |-> poller[p].id, on |-> NoRequest,
         answer |-> Status("pending")] \in Poller
    BY BodyTypes DEF TypeOK, Poller, Answer
  <2>2. [pc |-> "panicked", id |-> poller[p].id, on |-> poller[p].on,
         answer |-> poller[p].answer] \in Poller
    BY DEF TypeOK, Poller
  <2>3. poller' \in [Pollers -> Poller]
    BY <1>22, <2>1, <2>2 DEF TypeOK, PollTimesOut
  <2>4. QED
    BY <1>22, <2>3 DEF TypeOK, PollTimesOut
<1>23. QED
  BY <1>1, <1>2, <1>3, <1>4, <1>5, <1>6, <1>7, <1>8, <1>9, <1>10, <1>11, <1>12,
     <1>13, <1>14, <1>15, <1>16, <1>17, <1>18, <1>19, <1>20, <1>21, <1>22
  DEF Next, PostStep, TimerStep, TimerBroadcast, ClickStep, PollStep
-----------------------------------------------------------------------------
(***************************************************************************)
(* The steps, grouped by what they leave alone                             *)
(***************************************************************************)

(* Steps of handlers and pollers that only answer, and steps of a click    *)
(* that close nothing, leave the entries and the announcements alone.      *)
EntriesAlone == UNCHANGED <<nid, watch, pending, timer, announce>>

Accepts == \E r \in Requests :
  \/ \E id \in Ids : AcceptExclusive(r, id)
  \/ \E id \in Ids \cup {NoId} : AcceptPlain(r, id)
Closes == \/ \E r \in Requests : TimerExpires(r)
          \/ \E c \in Clients : ActionResolves(c)
Announces == \/ \E r \in Requests : BroadcastExpired(r) \/ TimerCancelled(r)
             \/ \E c \in Clients : BroadcastResolved(c)

LEMMA StepCases ==
  ASSUME [Next]_vars
  PROVE  \/ Accepts
         \/ Closes
         \/ Announces
         \/ \E r \in Requests : TimerLoses(r)
         \/ \E r \in Requests : BroadcastNotification(r)
         \/ EntriesAlone /\ UNCHANGED log
BY DEF Next, vars, EntriesAlone, Accepts, Closes, Announces, PostStep, TimerStep,
   TimerBroadcast, ClickStep, PollStep, Reject, AnswerPost, PostWaitElapses,
   SenderHangsUp, IgnoreClick, StartClick, HttpReturns, ActionLoses, PollUnknown,
   PollWaits, AnswerPoll, PollTimesOut
-----------------------------------------------------------------------------
LEMMA InitIInv == Init => IInv
<1> SUFFICES ASSUME Init PROVE IInv
  OBVIOUS
<1>1. TypeOK
  BY TypeInit
<1>2. Grounded /\ Unborn /\ Announcing /\ PollersWait
  BY DEF Init, Grounded, Unborn, Announcing, PollersWait, Live, Watch, Status,
         NoClick, Tasks
<1>3. MapHoldsLiveEntries
  BY ConstantsAssumption DEF Init, MapHoldsLiveEntries, Replaced, Live, Watch
<1>4. VerdictsAgree /\ AnnouncedOnce /\ ResolvedIsAnnounced
  BY DEF Init, VerdictsAgree, AnnouncedOnce, ResolvedIsAnnounced, Watch, Status
<1>5. QED
  BY <1>1, <1>2, <1>3, <1>4 DEF IInv

LEMMA GroundedStep ==
  ASSUME TypeOK, TypeOK', Grounded, Unborn, [Next]_vars
  PROVE  Grounded'
<1>1. \A r \in Requests : timer'[r] = "sleeping" => nid'[r] \in Ids
  <2>1. CASE Accepts
    <3>1. ASSUME NEW r \in Requests, NEW id \in Ids, AcceptExclusive(r, id)
          PROVE  \A q \in Requests : timer'[q] = "sleeping" => nid'[q] \in Ids
      BY <3>1 DEF AcceptExclusive, RegisterPending, TypeOK, Grounded
    <3>2. ASSUME NEW r \in Requests, NEW id \in Ids \cup {NoId}, AcceptPlain(r, id)
          PROVE  \A q \in Requests : timer'[q] = "sleeping" => nid'[q] \in Ids
      BY <3>2 DEF AcceptPlain, TypeOK, Grounded, Unborn
    <3>3. QED
      BY <2>1, <3>1, <3>2 DEF Accepts
  <2>2. CASE Closes
    <3>1. ASSUME NEW t \in Tasks, NEW id, NEW v, Close(t, id, v), UNCHANGED nid
          PROVE  \A q \in Requests : timer'[q] = "sleeping" => nid'[q] \in Ids
      BY <3>1 DEF Close, Grounded
    <3>2. QED
      BY <2>2, <3>1 DEF Closes, TimerExpires, ActionResolves, Tasks
  <2>3. CASE Announces
    BY <2>3 DEF Announces, BroadcastExpired, TimerCancelled, BroadcastResolved,
      Grounded
  <2>4. ASSUME NEW r \in Requests, TimerLoses(r)
        PROVE  \A q \in Requests : timer'[q] = "sleeping" => nid'[q] \in Ids
    BY <2>4 DEF TimerLoses, TypeOK, Grounded
  <2>5. CASE \E r \in Requests : BroadcastNotification(r)
    BY <2>5 DEF BroadcastNotification, Grounded
  <2>6. CASE EntriesAlone
    BY <2>6 DEF EntriesAlone, Grounded
  <2>7. QED
    BY <2>1, <2>2, <2>3, <2>4, <2>5, <2>6, StepCases
<1>2. \A c \in Clients : click'[c].pc # "idle" => click'[c].id \in Ids
  <2>1. CASE UNCHANGED click
    BY <2>1 DEF Grounded
  <2>2. ASSUME NEW c \in Clients, NEW id \in Ids, NEW open \in BOOLEAN,
               StartClick(c, id, open)
        PROVE  \A d \in Clients : click'[d].pc # "idle" => click'[d].id \in Ids
    BY <2>2 DEF StartClick, TypeOK, Grounded
  <2>3. ASSUME NEW c \in Clients, NEW ok \in BOOLEAN, HttpReturns(c, ok)
        PROVE  \A d \in Clients : click'[d].pc # "idle" => click'[d].id \in Ids
    BY <2>3 DEF HttpReturns, TypeOK, Grounded
  <2>4. ASSUME NEW c \in Clients, ActionResolves(c)
        PROVE  \A d \in Clients : click'[d].pc # "idle" => click'[d].id \in Ids
    BY <2>4 DEF ActionResolves, TypeOK, Grounded, Click
  <2>5. ASSUME NEW c \in Clients, ActionLoses(c) \/ BroadcastResolved(c)
        PROVE  \A d \in Clients : click'[d].pc # "idle" => click'[d].id \in Ids
    BY <2>5 DEF ActionLoses, BroadcastResolved, TypeOK, Grounded, NoClick
  <2>6. QED
    BY <2>1, <2>2, <2>3, <2>4, <2>5
    DEF Next, vars, PostStep, TimerStep, TimerBroadcast, ClickStep, PollStep,
      Reject, AcceptExclusive, AcceptPlain, BroadcastNotification, AnswerPost,
      PostWaitElapses, SenderHangsUp, TimerExpires, TimerLoses, BroadcastExpired,
      TimerCancelled, IgnoreClick, PollUnknown, PollWaits, AnswerPoll, PollTimesOut
<1>3. \A p \in Pollers : poller'[p].pc = "waiting" => poller'[p].on \in Requests
  <2>1. CASE UNCHANGED poller
    BY <2>1 DEF Grounded
  <2>2. ASSUME NEW p \in Pollers, NEW id \in Ids, PollUnknown(p, id)
        PROVE  \A q \in Pollers : poller'[q].pc = "waiting" => poller'[q].on \in Requests
    BY <2>2 DEF PollUnknown, TypeOK, Grounded
  <2>3. ASSUME NEW p \in Pollers, NEW id \in Ids, PollWaits(p, id)
        PROVE  \A q \in Pollers : poller'[q].pc = "waiting" => poller'[q].on \in Requests
    BY <2>3 DEF PollWaits, TypeOK, Grounded
  <2>4. ASSUME NEW p \in Pollers, AnswerPoll(p) \/ PollTimesOut(p)
        PROVE  \A q \in Pollers : poller'[q].pc = "waiting" => poller'[q].on \in Requests
    BY <2>4 DEF AnswerPoll, PollTimesOut, TypeOK, Grounded
  <2>5. QED
    BY <2>1, <2>2, <2>3, <2>4
    DEF Next, vars, PostStep, TimerStep, TimerBroadcast, ClickStep, PollStep,
      Reject, AcceptExclusive, AcceptPlain, BroadcastNotification, AnswerPost,
      PostWaitElapses, SenderHangsUp, TimerExpires, TimerLoses, BroadcastExpired,
      TimerCancelled, IgnoreClick, StartClick, HttpReturns, ActionResolves,
      ActionLoses, BroadcastResolved
<1>4. QED
  BY <1>1, <1>2, <1>3 DEF Grounded
-----------------------------------------------------------------------------
(***************************************************************************)
(* The map                                                                 *)
(***************************************************************************)

(* Closing the entry under id changes that entry's channel and no other.   *)
LEMMA CloseEffect ==
  ASSUME TypeOK, MapHoldsLiveEntries, NEW t \in Tasks, NEW id \in Ids,
         NEW v \in PendingState, Close(t, id, v), UNCHANGED nid
  PROVE  /\ pending[id] \in Requests /\ Live(pending[id]) /\ nid[pending[id]] = id
         /\ watch'[pending[id]] = v
         /\ \A r \in Requests \ {pending[id]} :
              watch'[r] = watch[r] /\ (InMap(r)' <=> InMap(r))
         /\ announce'[t] = pending[id]
         /\ \A u \in Tasks \ {t} : announce'[u] = announce[u]
         /\ \A j \in Ids \ {id} : pending'[j] = pending[j]
         /\ pending'[id] = NoRequest
         /\ \A r \in Requests \ {pending[id], t} : timer'[r] = timer[r]
<1> DEFINE e == pending[id]
<1>1. e \in Requests /\ Live(e) /\ nid[e] = id
  BY DEF Close, CanFinish, MapHoldsLiveEntries, TypeOK
<1>2. /\ watch'[e] = v
      /\ \A r \in Requests \ {e} : watch'[r] = watch[r]
      /\ \A j \in Ids \ {id} : pending'[j] = pending[j]
      /\ pending'[id] = NoRequest
      /\ announce'[t] = e
      /\ \A u \in Tasks \ {t} : announce'[u] = announce[u]
      /\ \A r \in Requests \ {e, t} : timer'[r] = timer[r]
  BY <1>1 DEF Close, TypeOK
<1>3. ASSUME NEW r \in Requests \ {e} PROVE InMap(r)' <=> InMap(r)
  <2>1. CASE nid[r] = id
    BY <1>2, <2>1, ConstantsAssumption DEF InMap
  <2>2. CASE nid[r] # id
    BY <1>2, <2>2 DEF InMap, TypeOK
  <2>3. QED
    BY <2>1, <2>2
<1>4. QED
  BY <1>1, <1>2, <1>3

(* The two ways to close an entry, with what each publishes.               *)
LEMMA CloseCases ==
  ASSUME TypeOK, Grounded, Closes
  PROVE  \E t \in Tasks, id \in Ids, v \in PendingState :
           /\ Close(t, id, v)
           /\ t \in Requests =>
                v = Watch("expired") /\ timer[t] = "sleeping" /\ id = nid[t]
           /\ t \in Clients => v.state = "resolved" /\ click[t].pc = "executed"
           /\ v.state \in {"resolved", "expired"}
           /\ UNCHANGED <<nid, handler, poller, log>>
           /\ \A c \in Clients : c # t => click'[c] = click[c]
           /\ t \in Clients => click'[t].pc = "announcing"
<1>1. ASSUME NEW r \in Requests, TimerExpires(r) PROVE
        /\ Close(r, nid[r], Watch("expired"))
        /\ timer[r] = "sleeping" /\ nid[r] \in Ids
        /\ UNCHANGED <<nid, handler, poller, log, click>>
        /\ Watch("expired") \in PendingState /\ Watch("expired").state = "expired"
  BY <1>1, BodyTypes DEF TimerExpires, Grounded, Watch, PendingState
<1>2. ASSUME NEW c \in Clients, ActionResolves(c) PROVE
        \E v \in PendingState :
          /\ Close(c, click[c].id, v)
          /\ v.state = "resolved" /\ click[c].pc = "executed"
          /\ click[c].id \in Ids
          /\ UNCHANGED <<nid, handler, poller, log>>
          /\ \A d \in Clients : d # c => click'[d] = click[d]
          /\ click'[c].pc = "announcing"
  <2>1. [state |-> "resolved",
         body |-> [by |-> c, of |-> click[c].target, ok |-> click[c].ok]]
          \in PendingState
    BY DEF PendingState, Body, TypeOK, Click
  <2>2. click'[c].pc = "announcing" /\ \A d \in Clients : d # c => click'[d] = click[d]
    BY <1>2 DEF ActionResolves, TypeOK, Click
  <2>3. QED
    BY <1>2, <2>1, <2>2 DEF ActionResolves, Grounded
<1>3. CASE \E r \in Requests : TimerExpires(r)
  BY <1>1, <1>3, ConstantsAssumption DEF Tasks
<1>4. CASE \E c \in Clients : ActionResolves(c)
  <2>1. PICK c \in Clients : ActionResolves(c)
    BY <1>4
  <2>2. PICK v \in PendingState :
          /\ Close(c, click[c].id, v)
          /\ v.state = "resolved" /\ click[c].pc = "executed"
          /\ click[c].id \in Ids
          /\ UNCHANGED <<nid, handler, poller, log>>
          /\ \A d \in Clients : d # c => click'[d] = click[d]
          /\ click'[c].pc = "announcing"
    BY <2>1, <1>2
  <2>3. c \in Tasks /\ c \notin Requests
    BY ConstantsAssumption DEF Tasks
  <2>4. QED
    BY <2>2, <2>3
<1>5. QED
  BY <1>3, <1>4 DEF Closes

(* Accepting an exclusive request opens one entry and may take its id from *)
(* another, which then shares its id.                                      *)
LEMMA AcceptEffect ==
  ASSUME TypeOK, Unborn, MapHoldsLiveEntries, NEW r \in Requests, NEW id \in Ids,
         AcceptExclusive(r, id)
  PROVE  /\ watch[r].state = "unset" /\ watch'[r] = Watch("live")
         /\ \A q \in Requests \ {r} : /\ watch'[q] = watch[q]
                                      /\ timer'[q] = timer[q]
                                      /\ nid'[q] = nid[q]
                                      /\ InMap(q)' => InMap(q)
                                      /\ InMap(q) /\ nid[q] # id => InMap(q)'
                                      /\ nid[q] = id => SharedId(q)'
         /\ nid'[r] = id /\ timer'[r] = "sleeping" /\ InMap(r)'
         /\ \A j \in Ids \ {id} : pending'[j] = pending[j]
         /\ pending'[id] = r
         /\ \A j \in Ids : pending[j] # r
         /\ \A q \in Requests : SharedId(q) => SharedId(q)'
         /\ UNCHANGED <<announce, log, click, poller>>
<1>1. watch[r].state = "unset" /\ nid[r] = NoId
  BY DEF AcceptExclusive, Unborn
<1>2. /\ watch'[r] = Watch("live") /\ nid'[r] = id /\ timer'[r] = "sleeping"
      /\ \A q \in Requests \ {r} :
           watch'[q] = watch[q] /\ timer'[q] = timer[q] /\ nid'[q] = nid[q]
      /\ \A j \in Ids \ {id} : pending'[j] = pending[j]
      /\ pending'[id] = r
      /\ UNCHANGED <<announce, log, click, poller>>
  BY DEF AcceptExclusive, RegisterPending, TypeOK
<1>3. \A j \in Ids : pending[j] # r
  BY <1>1, ConstantsAssumption DEF MapHoldsLiveEntries
<1>4. InMap(r)'
  BY <1>2, ConstantsAssumption DEF InMap
<1>5. ASSUME NEW q \in Requests \ {r}
      PROVE  /\ InMap(q)' => InMap(q)
             /\ InMap(q) /\ nid[q] # id => InMap(q)'
             /\ nid[q] = id => SharedId(q)'
  <2>1. InMap(q)' => InMap(q)
    BY <1>2, ConstantsAssumption DEF InMap, TypeOK
  <2>2. InMap(q) /\ nid[q] # id => InMap(q)'
    BY <1>2, ConstantsAssumption DEF InMap, TypeOK
  <2>3. nid[q] = id => SharedId(q)'
    BY <1>2, ConstantsAssumption DEF SharedId
  <2>4. QED
    BY <2>1, <2>2, <2>3
<1>6. \A q \in Requests : SharedId(q) => SharedId(q)'
  BY <1>1, <1>2 DEF SharedId
<1>7. QED
  BY <1>1, <1>2, <1>3, <1>4, <1>5, <1>6

LEMMA PlainEffect ==
  ASSUME TypeOK, Unborn, NEW r \in Requests, NEW id \in Ids \cup {NoId},
         AcceptPlain(r, id)
  PROVE  /\ watch[r].state = "unset"
         /\ \A q \in Requests \ {r} : nid'[q] = nid[q]
         /\ \A q \in Requests : SharedId(q) => SharedId(q)'
         /\ UNCHANGED <<watch, pending, timer, announce, log, click, poller>>
<1>1. nid[r] = NoId /\ watch[r].state = "unset"
  BY DEF AcceptPlain, Unborn
<1>2. /\ \A q \in Requests \ {r} : nid'[q] = nid[q]
      /\ UNCHANGED <<watch, pending, timer, announce, log, click, poller>>
  BY DEF AcceptPlain, TypeOK
<1>3. \A q \in Requests : SharedId(q) => SharedId(q)'
  BY <1>1, <1>2 DEF SharedId
<1>4. QED
  BY <1>1, <1>2, <1>3

LEMMA MapStep ==
  ASSUME TypeOK, Grounded, Unborn, MapHoldsLiveEntries, [Next]_vars
  PROVE  MapHoldsLiveEntries'
<1>1. ASSUME NEW r \in Requests, NEW id \in Ids, AcceptExclusive(r, id)
      PROVE  MapHoldsLiveEntries'
  <2>1. ASSUME NEW j \in Ids, NEW e \in Requests, pending'[j] = e
        PROVE  nid'[e] = j /\ Live(e)' /\ (timer'[e] = "sleeping" \/ SharedId(e)')
    <3>1. CASE j = id
      <4>1. e = r
        BY <1>1, <2>1, <3>1, AcceptEffect
      <4>2. Live(r)'
        BY <1>1, AcceptEffect DEF Live, Watch
      <4>3. QED
        BY <1>1, <3>1, <4>1, <4>2, AcceptEffect
    <3>2. CASE j # id
      <4>1. pending[j] = e /\ e # r
        BY <1>1, <2>1, <3>2, AcceptEffect
      <4>2. nid[e] = j /\ Live(e) /\ (timer[e] = "sleeping" \/ SharedId(e))
        BY <4>1 DEF MapHoldsLiveEntries
      <4>3. QED
        BY <1>1, <4>1, <4>2, AcceptEffect DEF Live
    <3>3. QED
      BY <3>1, <3>2
  <2>2. ASSUME NEW q \in Requests, Replaced(q)' PROVE SharedId(q)'
    <3>1. q # r
      BY <1>1, <2>2, AcceptEffect DEF Replaced
    <3>2. CASE nid[q] = id
      BY <1>1, <3>1, <3>2, AcceptEffect
    <3>3. CASE nid[q] # id
      BY <1>1, <2>2, <3>1, <3>3, AcceptEffect DEF Replaced, Live, MapHoldsLiveEntries
    <3>4. QED
      BY <3>2, <3>3
  <2>3. QED
    BY <2>1, <2>2 DEF MapHoldsLiveEntries
<1>2. ASSUME NEW r \in Requests, NEW id \in Ids \cup {NoId}, AcceptPlain(r, id)
      PROVE  MapHoldsLiveEntries'
  <2>1. \A q \in Requests : Live(q) => q # r
    BY <1>2, PlainEffect DEF Live
  <2>2. \A j \in Ids, e \in Requests : pending'[j] = e =>
          nid'[e] = j /\ Live(e)' /\ (timer'[e] = "sleeping" \/ SharedId(e)')
    BY <1>2, <2>1, PlainEffect DEF MapHoldsLiveEntries, Live
  <2>3. \A q \in Requests : Replaced(q)' => Replaced(q)
    BY <1>2, <2>1, PlainEffect DEF Replaced, Live, InMap
  <2>4. QED
    BY <1>2, <2>2, <2>3, PlainEffect DEF MapHoldsLiveEntries
<1>3. CASE Closes
  <2>1. PICK t \in Tasks, id \in Ids, v \in PendingState :
           /\ Close(t, id, v)
           /\ t \in Requests => id = nid[t]
           /\ v.state \in {"resolved", "expired"}
           /\ UNCHANGED nid
    BY <1>3, CloseCases
  <2>2. \A q \in Requests : SharedId(q)' <=> SharedId(q)
    BY <2>1 DEF SharedId
  <2>3. ASSUME NEW j \in Ids, NEW e \in Requests, pending'[j] = e
        PROVE  nid'[e] = j /\ Live(e)' /\ (timer'[e] = "sleeping" \/ SharedId(e)')
    <3>1. j # id /\ pending[j] = e
      BY <2>1, <2>3, CloseEffect, ConstantsAssumption
    <3>2. nid[e] = j /\ Live(e) /\ (timer[e] = "sleeping" \/ SharedId(e))
      BY <3>1 DEF MapHoldsLiveEntries
    <3>3. e # pending[id] /\ watch'[e] = watch[e]
      BY <2>1, <3>1, <3>2, CloseEffect
    <3>4. CASE e # t
      BY <2>1, <2>2, <3>1, <3>2, <3>3, <3>4, CloseEffect DEF Live
    <3>5. CASE e = t    \* a timer closes under its own id, and j is e's id
      BY <2>1, <3>1, <3>2, <3>5
    <3>6. QED
      BY <3>4, <3>5
  <2>4. ASSUME NEW q \in Requests, Replaced(q)' PROVE SharedId(q)'
    <3>1. q # pending[id]
      BY <2>1, <2>4, CloseEffect DEF Replaced, Live
    <3>2. Replaced(q)
      BY <2>1, <2>4, <3>1, CloseEffect DEF Replaced, Live
    <3>3. QED
      BY <2>2, <3>2 DEF MapHoldsLiveEntries
  <2>5. QED
    BY <2>3, <2>4 DEF MapHoldsLiveEntries
<1>4. ASSUME NEW r \in Requests, TimerLoses(r) PROVE MapHoldsLiveEntries'
  <2>1. UNCHANGED <<nid, watch, pending>>
    BY <1>4 DEF TimerLoses
  <2>2. \A q \in Requests \ {r} : timer'[q] = timer[q]
    BY <1>4 DEF TimerLoses, TypeOK
  <2>3. Live(r) => SharedId(r)
    <3>1. Live(r) /\ InMap(r) => CanFinish(nid[r])
      BY ConstantsAssumption DEF InMap, CanFinish
    <3>2. QED
      BY <1>4, <3>1 DEF TimerLoses, MapHoldsLiveEntries, Replaced
  <2>4. \A j \in Ids, e \in Requests : pending'[j] = e =>
          nid'[e] = j /\ Live(e)' /\ (timer'[e] = "sleeping" \/ SharedId(e)')
    BY <2>1, <2>2, <2>3 DEF MapHoldsLiveEntries, Live, SharedId
  <2>5. \A q \in Requests : Replaced(q)' => SharedId(q)'
    BY <2>1 DEF MapHoldsLiveEntries, Replaced, Live, InMap, SharedId
  <2>6. QED
    BY <2>4, <2>5 DEF MapHoldsLiveEntries
<1>5. CASE UNCHANGED <<nid, watch, pending, timer>>
  BY <1>5 DEF MapHoldsLiveEntries, Replaced, Live, InMap, SharedId
<1>6. Announces => UNCHANGED <<nid, watch, pending, timer>>
  BY DEF Announces, BroadcastExpired, TimerCancelled, BroadcastResolved
<1>7. QED
  BY <1>1, <1>2, <1>3, <1>4, <1>5, <1>6, StepCases
  DEF Accepts, BroadcastNotification, EntriesAlone
-----------------------------------------------------------------------------
(***************************************************************************)
(* Channels, announcements and the log                                     *)
(***************************************************************************)

(* A channel is opened once, its verdict never changes, and an entry that  *)
(* was replaced stays so.                                                  *)
LEMMA WatchMonotone ==
  ASSUME TypeOK, Grounded, Unborn, MapHoldsLiveEntries, [Next]_vars,
         NEW q \in Requests
  PROVE  /\ watch[q].state # "unset" => watch'[q].state # "unset"
         /\ Terminal(q) => watch'[q] = watch[q]
         /\ Replaced(q) => Replaced(q)'
<1>1. ASSUME NEW r \in Requests, NEW id \in Ids, AcceptExclusive(r, id)
      PROVE  /\ watch[q].state # "unset" => watch'[q] = watch[q]
             /\ Replaced(q) => Replaced(q)'
  <2>1. CASE q = r
    BY <1>1, <2>1, AcceptEffect DEF Replaced, Live
  <2>2. CASE q # r
    BY <1>1, <2>2, AcceptEffect DEF Replaced, Live
  <2>3. QED
    BY <2>1, <2>2
<1>2. ASSUME NEW r \in Requests, NEW id \in Ids \cup {NoId}, AcceptPlain(r, id)
      PROVE  /\ watch'[q] = watch[q]
             /\ Replaced(q) => Replaced(q)'
  BY <1>2, PlainEffect DEF Replaced, Live, InMap
<1>3. CASE Closes
  <2>1. PICK t \in Tasks, id \in Ids, v \in PendingState :
           /\ Close(t, id, v)
           /\ v.state \in {"resolved", "expired"}
           /\ UNCHANGED nid
    BY <1>3, CloseCases
  <2>2. CASE q = pending[id]
    <3>1. Live(q) /\ InMap(q) /\ watch'[q] = v
      BY <2>1, <2>2, CloseEffect, ConstantsAssumption DEF InMap
    <3>2. QED
      BY <2>1, <3>1 DEF Live, Terminal, Replaced
  <2>3. CASE q # pending[id]
    BY <2>1, <2>3, CloseEffect DEF Replaced, Live
  <2>4. QED
    BY <2>2, <2>3
<1>4. CASE UNCHANGED <<nid, watch, pending>>
  BY <1>4 DEF Replaced, Live, InMap
<1>5. Announces => UNCHANGED <<nid, watch, pending>>
  BY DEF Announces, BroadcastExpired, TimerCancelled, BroadcastResolved
<1>6. QED
  BY <1>1, <1>2, <1>3, <1>4, <1>5, StepCases
  DEF Accepts, BroadcastNotification, EntriesAlone, TimerLoses, Terminal

LEMMA LogTypes ==
  ASSUME TypeOK, NEW i \in DOMAIN log
  PROVE  log[i].type \in {"notification", "resolved", "expired"} /\ log[i].of \in Requests
<1>1. log \in Seq(Message)
  BY DEF TypeOK
<1>2. log[i] \in Message
  BY <1>1
<1>3. QED
  BY <1>2 DEF Message

LEMMA AppendFacts ==
  ASSUME NEW S, NEW l \in Seq(S), NEW m \in S
  PROVE  /\ DOMAIN l \subseteq DOMAIN Append(l, m)
         /\ \A i \in DOMAIN l : Append(l, m)[i] = l[i]
         /\ Len(l) + 1 \in DOMAIN Append(l, m) \ DOMAIN l
         /\ Append(l, m)[Len(l) + 1] = m
         /\ \A i \in DOMAIN Append(l, m) : i \in DOMAIN l \/ i = Len(l) + 1
OBVIOUS

(* A verdict is broadcast as it was announced, or a timer gives up on it.  *)
LEMMA AnnounceEffect ==
  ASSUME TypeOK, Announcing, Announces
  PROVE  \E t \in Tasks :
           /\ announce[t] \in Requests
           /\ announce' = [announce EXCEPT ![t] = NoRequest]
           /\ UNCHANGED <<nid, watch, pending, timer, handler, poller>>
           /\ \A c \in Clients : c = t \/ click'[c] = click[c]
           /\ \/ UNCHANGED log /\ t \notin Clients
              \/ \E m \in Message :
                   /\ log' = Append(log, m)
                   /\ m.of = announce[t] /\ m.type # "notification"
                   /\ watch[announce[t]] = [state |-> m.type, body |-> m.body]
<1>1. ASSUME NEW r \in Requests, BroadcastExpired(r)
      PROVE  /\ r \in Tasks /\ announce[r] \in Requests
             /\ UNCHANGED click
             /\ \E m \in Message :
                  /\ log' = Append(log, m)
                  /\ m.of = announce[r] /\ m.type # "notification"
                  /\ watch[announce[r]] = [state |-> m.type, body |-> m.body]
  <2>1. r \in Tasks /\ announce[r] \in Requests
    BY <1>1 DEF TypeOK, BroadcastExpired, Tasks
  <2> DEFINE m == [type |-> "expired", id |-> nid[r], of |-> announce[r],
                   body |-> NoBody]
  <2>2. m \in Message
    BY <2>1, BodyTypes DEF Message, TypeOK
  <2>3. watch[announce[r]] = [state |-> m.type, body |-> m.body]
    BY <1>1, <2>1 DEF Announcing, BroadcastExpired, Watch
  <2>4. QED
    BY <1>1, <2>1, <2>2, <2>3 DEF BroadcastExpired
<1>2. ASSUME NEW r \in Requests, TimerCancelled(r)
      PROVE  /\ r \in Tasks /\ announce[r] \in Requests
             /\ UNCHANGED <<click, log>>
  BY <1>2 DEF TimerCancelled, Tasks
<1>3. ASSUME NEW c \in Clients, BroadcastResolved(c)
      PROVE  /\ c \in Tasks /\ announce[c] \in Requests
             /\ \A d \in Clients : d = c \/ click'[d] = click[d]
             /\ \E m \in Message :
                  /\ log' = Append(log, m)
                  /\ m.of = announce[c] /\ m.type # "notification"
                  /\ watch[announce[c]] = [state |-> m.type, body |-> m.body]
  <2>1. c \in Tasks /\ announce[c] \in Requests
    BY <1>3 DEF TypeOK, BroadcastResolved, Tasks
  <2> DEFINE m == [type |-> "resolved", id |-> click[c].id, of |-> announce[c],
                   body |-> watch[announce[c]].body]
  <2>2. m \in Message
    BY <2>1 DEF Message, TypeOK, PendingState, Click
  <2>3. watch[announce[c]] = [state |-> m.type, body |-> m.body]
    BY <1>3, <2>1 DEF Announcing, BroadcastResolved, TypeOK, PendingState
  <2>4. \A d \in Clients : d = c \/ click'[d] = click[d]
    BY <1>3 DEF BroadcastResolved, TypeOK
  <2>5. QED
    BY <1>3, <2>1, <2>2, <2>3, <2>4 DEF BroadcastResolved
<1>4. CASE \E r \in Requests : BroadcastExpired(r)
  BY <1>1, <1>4 DEF BroadcastExpired
<1>5. CASE \E r \in Requests : TimerCancelled(r)
  BY <1>2, <1>5, ConstantsAssumption DEF TimerCancelled
<1>6. CASE \E c \in Clients : BroadcastResolved(c)
  BY <1>3, <1>6 DEF BroadcastResolved
<1>7. QED
  BY <1>4, <1>5, <1>6 DEF Announces

LEMMA UnbornStep ==
  ASSUME TypeOK, Grounded, Unborn, MapHoldsLiveEntries, Announcing, [Next]_vars
  PROVE  Unborn'
<1>1. ASSUME NEW r \in Requests, NEW id \in Ids, AcceptExclusive(r, id)
      PROVE  Unborn'
  <2>1. handler'[r].pc = "broadcast" /\ handler'[r].answer = Status("none")
    BY <1>1 DEF AcceptExclusive, Unborn, TypeOK, Handler
  <2>2. \A q \in Requests \ {r} : handler'[q] = handler[q]
    BY <1>1 DEF AcceptExclusive, TypeOK
  <2>3. id # NoId
    BY ConstantsAssumption
  <2>4. QED
    BY <1>1, <2>1, <2>2, <2>3, AcceptEffect DEF Unborn, Live, Watch, Status
<1>2. ASSUME NEW r \in Requests, NEW id \in Ids \cup {NoId}, AcceptPlain(r, id)
      PROVE  Unborn'
  <2>1. handler'[r].pc = "broadcast" /\ handler'[r].answer = Status("none")
    BY <1>2 DEF AcceptPlain, Unborn, TypeOK, Handler
  <2>2. \A q \in Requests \ {r} : handler'[q] = handler[q]
    BY <1>2 DEF AcceptPlain, TypeOK
  <2>3. QED
    BY <1>2, <2>1, <2>2, PlainEffect DEF Unborn, Live, Status
<1>3. CASE Closes
  <2>1. PICK t \in Tasks, id \in Ids, v \in PendingState :
           /\ Close(t, id, v)
           /\ v.state \in {"resolved", "expired"}
           /\ t \in Requests => timer[t] = "sleeping"
           /\ UNCHANGED <<nid, handler>>
    BY <1>3, CloseCases
  <2>2. ASSUME NEW q \in Requests
        PROVE  /\ watch'[q].state = "unset" <=> watch[q].state = "unset"
               /\ timer'[q] = "unset" <=> timer[q] = "unset"
               /\ Live(q)' => Live(q)
    <3>1. CASE q = pending[id]
      <4>1. Live(q) /\ watch'[q] = v
        BY <2>1, <3>1, CloseEffect
      <4>2. timer'[q] = "ended"
        BY <2>1, <3>1 DEF Close
      <4>3. QED
        BY <2>1, <4>1, <4>2 DEF Live, Unborn
    <3>2. CASE q # pending[id]
      <4>1. watch'[q] = watch[q]
        BY <2>1, <3>2, CloseEffect
      <4>2. q = t \/ timer'[q] = timer[q]
        BY <2>1, <3>2, CloseEffect
      <4>3. timer'[t] # "unset" \/ t \notin Requests
        BY <2>1 DEF Close
      <4>4. QED
        BY <2>1, <4>1, <4>2, <4>3 DEF Live
    <3>3. QED
      BY <3>1, <3>2
  <2>3. QED
    BY <2>1, <2>2 DEF Unborn
<1>4. CASE Announces
  BY <1>4, AnnounceEffect DEF Unborn, Live
<1>5. ASSUME NEW r \in Requests, TimerLoses(r) PROVE Unborn'
  <2>1. timer[r] # "unset" /\ timer'[r] # "unset"
    BY <1>5 DEF TimerLoses, TypeOK
  <2>2. \A q \in Requests \ {r} : timer'[q] = timer[q]
    BY <1>5 DEF TimerLoses, TypeOK
  <2>3. QED
    BY <1>5, <2>1, <2>2 DEF TimerLoses, Unborn, Live
<1>6. ASSUME UNCHANGED <<nid, watch, timer>>,
             NEW r \in Requests, \A q \in Requests \ {r} : handler'[q] = handler[q],
             handler'[r].pc # "idle",
             handler'[r].pc = "waiting" => watch[r].state # "unset",
             handler'[r].answer.status \in {"resolved", "gone"} =>
               handler'[r].pc = "done"
      PROVE  Unborn'
  BY <1>6 DEF Unborn, Live
<1>7. ASSUME NEW r \in Requests, BroadcastNotification(r) PROVE Unborn'
  <2>1. handler'[r] = IF Exclusive(r)
              THEN [handler[r] EXCEPT !.pc = "waiting"]
              ELSE [pc |-> "done", answer |-> Status("accepted")]
    BY <1>7 DEF BroadcastNotification, TypeOK
  <2>2. \A q \in Requests \ {r} : handler'[q] = handler[q]
    BY <1>7 DEF BroadcastNotification, TypeOK
  <2>3. UNCHANGED <<nid, watch, timer>>
    BY <1>7 DEF BroadcastNotification
  <2>4. CASE Exclusive(r)
    <3>1. handler'[r].pc = "waiting" /\ handler'[r].answer = handler[r].answer
      BY <2>1, <2>4 DEF TypeOK, Handler
    <3>2. QED
      BY <1>6, <1>7, <2>2, <2>3, <2>4, <3>1 DEF Exclusive, Unborn,
        BroadcastNotification
  <2>5. CASE ~Exclusive(r)
    BY <1>6, <2>1, <2>2, <2>3, <2>5
  <2>6. QED
    BY <2>4, <2>5
<1>8. ASSUME NEW r \in Requests, Reject(r) \/ AnswerPost(r) PROVE Unborn'
  <2>1. handler'[r].pc = "done" /\ \A q \in Requests \ {r} : handler'[q] = handler[q]
    BY <1>8 DEF Reject, AnswerPost, TypeOK
  <2>2. QED
    BY <1>6, <1>8, <2>1 DEF Reject, AnswerPost
<1>9. ASSUME NEW r \in Requests, PostWaitElapses(r) \/ SenderHangsUp(r) PROVE Unborn'
  <2>1. /\ handler[r].pc \in {"broadcast", "waiting"}
        /\ \A q \in Requests \ {r} : handler'[q] = handler[q]
        /\ \/ handler'[r] = [pc |-> "done", answer |-> Status("pending")]
           \/ handler'[r] = [handler[r] EXCEPT !.pc = "panicked"]
           \/ handler'[r] = [handler[r] EXCEPT !.pc = "dropped"]
    BY <1>9 DEF PostWaitElapses, SenderHangsUp, TypeOK
  <2>2. handler[r].answer.status \notin {"resolved", "gone"}
    BY <2>1 DEF Unborn
  <2>3. /\ handler'[r].pc \in {"done", "panicked", "dropped"}
        /\ handler'[r].answer.status \notin {"resolved", "gone"}
    BY <2>1, <2>2 DEF TypeOK, Handler, Status
  <2>4. QED
    BY <1>6, <1>9, <2>1, <2>3 DEF PostWaitElapses, SenderHangsUp
<1>10. CASE UNCHANGED <<nid, watch, timer, handler>>
  BY <1>10 DEF Unborn, Live
<1>11. QED
  BY <1>1, <1>2, <1>3, <1>4, <1>5, <1>7, <1>8, <1>9, <1>10
  DEF Next, vars, PostStep, TimerStep, TimerBroadcast, ClickStep, PollStep,
      Closes, Announces, IgnoreClick, StartClick, HttpReturns, ActionLoses,
      PollUnknown, PollWaits, AnswerPoll, PollTimesOut

(* A step that leaves the announcements alone can only lengthen the log    *)
(* with a notification.                                                    *)
LEMMA QuietLog ==
  ASSUME TypeOK, [Next]_vars, ~Announces
  PROVE  \/ UNCHANGED log
         \/ \E m \in Message : log' = Append(log, m) /\ m.type = "notification"
<1>1. ASSUME NEW r \in Requests, BroadcastNotification(r)
      PROVE  \E m \in Message : log' = Append(log, m) /\ m.type = "notification"
  <2> DEFINE m == [type |-> "notification", id |-> nid[r], of |-> r, body |-> NoBody]
  <2>1. m \in Message
    BY BodyTypes DEF Message, TypeOK
  <2>2. QED
    BY <1>1, <2>1 DEF BroadcastNotification
<1>2. QED
  BY <1>1, StepCases
  DEF Accepts, Closes, AcceptExclusive, AcceptPlain, TimerExpires, TimerLoses,
      ActionResolves

LEMMA PollersWaitStep ==
  ASSUME TypeOK, Grounded, Unborn, MapHoldsLiveEntries, PollersWait, [Next]_vars
  PROVE  PollersWait'
<1>1. ASSUME NEW p \in Pollers, poller'[p] = poller[p], poller'[p].on # NoRequest
      PROVE  watch'[poller'[p].on].state # "unset"
  BY <1>1, WatchMonotone DEF PollersWait, TypeOK, Poller
<1>2. CASE UNCHANGED poller
  BY <1>1, <1>2 DEF PollersWait
<1>3. ASSUME NEW p \in Pollers, NEW id \in Ids, PollUnknown(p, id) \/ PollWaits(p, id)
      PROVE  PollersWait'
  <2>1. \A q \in Pollers \ {p} : poller'[q] = poller[q]
    BY <1>3 DEF PollUnknown, PollWaits, TypeOK
  <2>2. poller'[p].on # NoRequest => watch'[poller'[p].on].state # "unset"
    BY <1>3 DEF PollUnknown, PollWaits, TypeOK, MapHoldsLiveEntries, Live
  <2>3. QED
    BY <1>1, <2>1, <2>2 DEF PollersWait
<1>4. ASSUME NEW p \in Pollers, AnswerPoll(p) \/ PollTimesOut(p) PROVE PollersWait'
  <2>1. \A q \in Pollers \ {p} : poller'[q] = poller[q]
    BY <1>4 DEF AnswerPoll, PollTimesOut, TypeOK
  <2>2. poller'[p].on \in {NoRequest, poller[p].on} /\ UNCHANGED watch
    BY <1>4 DEF AnswerPoll, PollTimesOut, TypeOK
  <2>3. QED
    BY <1>1, <2>1, <2>2 DEF PollersWait
<1>5. QED
  BY <1>2, <1>3, <1>4
  DEF Next, vars, PostStep, TimerStep, TimerBroadcast, ClickStep, PollStep,
      Reject, AcceptExclusive, AcceptPlain, BroadcastNotification, AnswerPost,
      PostWaitElapses, SenderHangsUp, TimerExpires, TimerLoses, BroadcastExpired,
      TimerCancelled, IgnoreClick, StartClick, HttpReturns, ActionResolves,
      ActionLoses, BroadcastResolved

LEMMA AnnouncingStep ==
  ASSUME TypeOK, Grounded, Unborn, MapHoldsLiveEntries, Announcing, VerdictsAgree,
         [Next]_vars
  PROVE  Announcing'
<1>1. CASE Closes
  <2>1. PICK t \in Tasks, id \in Ids, v \in PendingState :
           /\ Close(t, id, v)
           /\ t \in Requests => v = Watch("expired") /\ timer[t] = "sleeping"
           /\ t \in Clients => v.state = "resolved"
           /\ UNCHANGED <<nid, log>>
           /\ \A c \in Clients : c # t => click'[c] = click[c]
           /\ t \in Clients => click'[t].pc = "announcing"
    BY <1>1, CloseCases
  <2> DEFINE e == pending[id]
  <2>2. e \in Requests /\ Live(e) /\ watch'[e] = v /\ announce'[t] = e
    BY <2>1, CloseEffect
  <2>3. \A i \in DOMAIN log : ~EndOf(i, e)
    <3>1. ASSUME NEW i \in DOMAIN log, EndOf(i, e) PROVE FALSE
      <4>1. log[i].type \in {"resolved", "expired"}
        BY <3>1, LogTypes DEF EndOf
      <4>2. watch[e] = [state |-> log[i].type, body |-> log[i].body]
        BY <3>1 DEF EndOf, VerdictsAgree
      <4>3. QED
        BY <2>2, <4>1, <4>2 DEF Live
    <3>2. QED
      BY <3>1
  <2>4. \A u \in Tasks : announce[u] # e
    BY <2>2, ConstantsAssumption DEF Announcing, Live, Watch, Tasks
  <2>5. \A u \in Tasks \ {t} : announce'[u] = announce[u]
    BY <2>1, CloseEffect
  <2>6. ASSUME NEW u \in Tasks, announce'[u] # NoRequest
        PROVE  /\ u \in Requests => watch'[announce'[u]] = Watch("expired")
               /\ u \in Clients => watch'[announce'[u]].state = "resolved"
               /\ \A i \in DOMAIN log' : ~EndOf(i, announce[u])'
               /\ \A w \in Tasks : announce'[w] = announce'[u] => w = u
    <3>1. CASE u = t
      BY <2>1, <2>2, <2>3, <2>4, <2>5, <3>1 DEF EndOf
    <3>2. CASE u # t
      <4>1. announce'[u] = announce[u] /\ announce[u] \in Requests /\ announce[u] # e
        BY <2>4, <2>5, <2>6, <3>2 DEF TypeOK
      <4>2. watch'[announce[u]] = watch[announce[u]]
        BY <2>1, <4>1, CloseEffect
      <4>3. \A i \in DOMAIN log' : ~EndOf(i, announce[u])'
        BY <2>1, <4>1, ConstantsAssumption DEF Announcing, EndOf
      <4>4. \A w \in Tasks : announce'[w] = announce'[u] => w = u
        BY <2>2, <2>5, <4>1, ConstantsAssumption DEF Announcing
      <4>5. QED
        BY <4>1, <4>2, <4>3, <4>4, ConstantsAssumption DEF Announcing
    <3>3. QED
      BY <3>1, <3>2
  <2>7. \A r \in Requests : timer'[r] # "ended" => announce'[r] = NoRequest
    <3>1. \A r \in Requests \ {e, t} : timer'[r] = timer[r]
      BY <2>1, CloseEffect
    <3>2. \A r \in Requests : r \in {e, t} => timer'[r] = "ended"
      BY <2>1 DEF Close
    <3>3. QED
      BY <2>5, <3>1, <3>2 DEF Announcing, Tasks
  <2>8. \A c \in Clients : click'[c].pc # "announcing" => announce'[c] = NoRequest
    BY <2>1, <2>5 DEF Announcing, Tasks
  <2>9. QED
    BY <2>6, <2>7, <2>8 DEF Announcing
<1>2. CASE Announces
  <2>1. PICK t \in Tasks :
           /\ announce[t] \in Requests
           /\ announce' = [announce EXCEPT ![t] = NoRequest]
           /\ UNCHANGED <<watch, timer>>
           /\ \A c \in Clients : c = t \/ click'[c] = click[c]
           /\ \/ UNCHANGED log
              \/ \E m \in Message : log' = Append(log, m) /\ m.of = announce[t]
    BY <1>2, AnnounceEffect
  <2>2. announce'[t] = NoRequest /\ \A u \in Tasks \ {t} : announce'[u] = announce[u]
    BY <2>1 DEF TypeOK
  <2>3. ASSUME NEW u \in Tasks, announce'[u] # NoRequest
        PROVE  \A i \in DOMAIN log' : ~EndOf(i, announce[u])'
    <3>1. /\ u # t /\ announce'[u] = announce[u] /\ announce[u] # announce[t]
          /\ \A i \in DOMAIN log : ~EndOf(i, announce[u])
      BY <2>1, <2>2, <2>3, ConstantsAssumption DEF Announcing
    <3>2. CASE UNCHANGED log
      BY <3>1, <3>2 DEF EndOf
    <3>3. ASSUME NEW m \in Message, log' = Append(log, m), m.of = announce[t]
          PROVE  \A i \in DOMAIN log' : ~EndOf(i, announce[u])'
      <4>1. log \in Seq(Message)
        BY DEF TypeOK
      <4>2. QED
        BY <3>1, <3>3, <4>1, AppendFacts DEF EndOf
    <3>4. QED
      BY <2>1, <3>2, <3>3
  <2>4. QED
    BY <2>1, <2>2, <2>3 DEF Announcing, Tasks
<1>3. ASSUME UNCHANGED announce,
             \A r \in Requests : Terminal(r) => watch'[r] = watch[r],
             \A r \in Requests : timer'[r] # "ended" => timer[r] # "ended"
                                                       \/ announce[r] = NoRequest,
             \A c \in Clients : click[c].pc = "announcing" /\ announce[c] # NoRequest
                                 => click'[c].pc = "announcing",
             ~Announces
      PROVE  Announcing'
  <2>1. ASSUME NEW u \in Tasks, announce[u] # NoRequest
        PROVE  \A i \in DOMAIN log' : ~EndOf(i, announce[u])'
    <3>1. CASE UNCHANGED log
      BY <1>3, <2>1, <3>1 DEF Announcing, EndOf
    <3>2. ASSUME NEW m \in Message, log' = Append(log, m), m.type = "notification"
          PROVE  \A i \in DOMAIN log' : ~EndOf(i, announce[u])'
      <4>1. log \in Seq(Message)
        BY DEF TypeOK
      <4>2. QED
        BY <1>3, <2>1, <3>2, <4>1, AppendFacts DEF Announcing, EndOf
    <3>3. QED
      BY <1>3, <3>1, <3>2, QuietLog
  <2>2. \A u \in Tasks : announce[u] # NoRequest =>
          announce[u] \in Requests /\ Terminal(announce[u])
    BY DEF Announcing, Tasks, Terminal, TypeOK, Watch
  <2>3. QED
    BY <1>3, <2>1, <2>2 DEF Announcing
<1>4. ASSUME NEW c \in Clients, click'[c] # click[c], announce[c] # NoRequest
      PROVE  Closes \/ Announces
  <2>1. click[c].pc = "announcing"
    BY <1>4 DEF Announcing
  <2>2. \A d \in Clients, id \in Ids, open \in BOOLEAN :
          StartClick(d, id, open) => d # c
    BY <2>1 DEF StartClick
  <2>3. \A d \in Clients, ok \in BOOLEAN : HttpReturns(d, ok) => d # c
    BY <2>1 DEF HttpReturns
  <2>4. \A d \in Clients : ActionLoses(d) => d # c
    BY <2>1 DEF ActionLoses
  <2>5. ASSUME NEW d \in Clients, d # c PROVE
           /\ \A id \in Ids, open \in BOOLEAN : ~StartClick(d, id, open)
           /\ \A ok \in BOOLEAN : ~HttpReturns(d, ok)
           /\ ~ActionLoses(d)
    BY <1>4, <2>5 DEF StartClick, HttpReturns, ActionLoses, TypeOK
  <2>6. QED
    BY <1>4, <2>2, <2>3, <2>4, <2>5
    DEF Next, vars, PostStep, TimerStep, TimerBroadcast, ClickStep, PollStep,
      Closes, Announces,
      Reject, AcceptExclusive, AcceptPlain, BroadcastNotification, AnswerPost,
      PostWaitElapses, SenderHangsUp, TimerLoses, IgnoreClick, PollUnknown,
      PollWaits, AnswerPoll, PollTimesOut
<1>5. ASSUME ~Closes, ~Announces PROVE Announcing'
  <2>1. UNCHANGED announce
    BY <1>5, StepCases, AcceptEffect, PlainEffect
    DEF Accepts, TimerLoses, BroadcastNotification, EntriesAlone
  <2>2. ASSUME NEW q \in Requests, timer'[q] # "ended"
        PROVE  timer[q] # "ended" \/ announce[q] = NoRequest
    <3>1. ASSUME NEW r \in Requests, NEW id \in Ids, AcceptExclusive(r, id)
          PROVE  timer[q] # "ended" \/ announce[q] = NoRequest
      <4>1. CASE q = r
        BY <3>1, <4>1, AcceptEffect DEF Unborn
      <4>2. CASE q # r
        BY <2>2, <3>1, <4>2, AcceptEffect
      <4>3. QED
        BY <4>1, <4>2
    <3>2. ASSUME NEW r \in Requests, TimerLoses(r)
          PROVE  timer[q] # "ended" \/ announce[q] = NoRequest
      BY <2>2, <3>2 DEF TimerLoses, TypeOK
    <3>3. QED
      BY <1>5, <2>2, <3>1, <3>2, StepCases
      DEF Accepts, AcceptPlain, BroadcastNotification, EntriesAlone
  <2>3. QED
    BY <1>3, <1>4, <1>5, <2>1, <2>2, WatchMonotone
<1>6. QED
  BY <1>1, <1>2, <1>5

LEMMA VerdictsStep ==
  ASSUME TypeOK, Grounded, Unborn, MapHoldsLiveEntries, Announcing, PollersWait,
         VerdictsAgree, [Next]_vars
  PROVE  VerdictsAgree'
<1> DEFINE Says(a, r) ==
      /\ a.status = "resolved" => watch[r] = [state |-> "resolved", body |-> a.body]
      /\ a.status = "gone" => watch[r].state = "expired" \/ Replaced(r)
<1>1. ASSUME NEW a, NEW r \in Requests, Says(a, r) PROVE Says(a, r)'
  BY <1>1, WatchMonotone DEF Terminal
<1>2. ASSUME NEW r \in Requests, Wakes(r) PROVE Says(WakeAnswer(r), r)
  <2>1. CASE Terminal(r)
    BY <2>1 DEF Terminal, WakeAnswer, TerminalResponse, TypeOK, PendingState, Status
  <2>2. CASE ~Terminal(r)
    BY <1>2, <2>2 DEF Wakes, WakeAnswer, SenderDropped, Status
  <2>3. QED
    BY <2>1, <2>2
<1>3. ASSUME NEW r \in Requests
      PROVE  Says(handler[r].answer, r)'
  <2>1. Says(handler[r].answer, r)
    BY DEF VerdictsAgree
  <2>2. CASE handler'[r].answer = handler[r].answer
    BY <1>1, <2>1, <2>2
  <2>3. CASE handler'[r].answer.status \notin {"resolved", "gone"}
    BY <2>3
  <2>4. CASE AnswerPost(r)
    <3>1. handler'[r].answer = WakeAnswer(r) /\ UNCHANGED <<nid, watch, pending>>
      BY <2>4 DEF AnswerPost, TypeOK
    <3>2. Says(WakeAnswer(r), r)
      BY <1>2, <2>4 DEF AnswerPost
    <3>3. QED
      BY <1>1, <3>1, <3>2
  <2>5. \/ handler'[r].answer = handler[r].answer
        \/ handler'[r].answer.status \notin {"resolved", "gone"}
        \/ AnswerPost(r)
    <3>1. CASE UNCHANGED handler
      BY <3>1
    <3>2. ASSUME NEW q \in Requests, NEW id \in Ids, AcceptExclusive(q, id)
          PROVE  handler'[r].answer = handler[r].answer
      BY <3>2 DEF AcceptExclusive, TypeOK, Handler
    <3>3. ASSUME NEW q \in Requests, NEW id \in Ids \cup {NoId}, AcceptPlain(q, id)
          PROVE  handler'[r].answer = handler[r].answer
      BY <3>3 DEF AcceptPlain, TypeOK, Handler
    <3>4. ASSUME NEW q \in Requests, Reject(q)
          PROVE  \/ handler'[r].answer = handler[r].answer
                 \/ handler'[r].answer.status \notin {"resolved", "gone"}
      BY <3>4 DEF Reject, TypeOK, Status
    <3>5. ASSUME NEW q \in Requests, BroadcastNotification(q)
          PROVE  \/ handler'[r].answer = handler[r].answer
                 \/ handler'[r].answer.status \notin {"resolved", "gone"}
      BY <3>5 DEF BroadcastNotification, TypeOK, Handler, Status
    <3>6. ASSUME NEW q \in Requests, AnswerPost(q), q # r
          PROVE  handler'[r].answer = handler[r].answer
      BY <3>6 DEF AnswerPost, TypeOK
    <3>7. ASSUME NEW q \in Requests, PostWaitElapses(q)
          PROVE  \/ handler'[r].answer = handler[r].answer
                 \/ handler'[r].answer.status \notin {"resolved", "gone"}
      BY <3>7 DEF PostWaitElapses, TypeOK, Handler, Status
    <3>8. ASSUME NEW q \in Requests, SenderHangsUp(q)
          PROVE  handler'[r].answer = handler[r].answer
      BY <3>8 DEF SenderHangsUp, TypeOK, Handler
    <3>9. QED
      BY <3>1, <3>2, <3>3, <3>4, <3>5, <3>6, <3>7, <3>8
      DEF Next, vars, PostStep, TimerStep, TimerBroadcast, ClickStep, PollStep,
        TimerExpires, TimerLoses, BroadcastExpired, TimerCancelled, IgnoreClick,
        StartClick, HttpReturns, ActionResolves, ActionLoses, BroadcastResolved,
        PollUnknown, PollWaits, AnswerPoll, PollTimesOut
  <2>6. QED
    BY <2>2, <2>3, <2>4, <2>5
<1>4. ASSUME NEW p \in Pollers, poller'[p].on # NoRequest
      PROVE  Says(poller[p].answer, poller[p].on)'
  <2>1. poller'[p] = poller[p] => Says(poller[p].answer, poller[p].on)'
    <3>1. ASSUME poller'[p] = poller[p]
          PROVE  poller[p].on \in Requests /\ Says(poller[p].answer, poller[p].on)
      BY <1>4, <3>1 DEF VerdictsAgree, TypeOK, Poller
    <3>2. QED
      BY <1>1, <3>1
  <2>2. ASSUME NEW id \in Ids, PollUnknown(p, id) \/ PollWaits(p, id)
        PROVE  Says(poller[p].answer, poller[p].on)'
    BY <1>4, <2>2 DEF PollUnknown, PollWaits, TypeOK, Status
  <2>3. ASSUME AnswerPoll(p)
        PROVE  Says(poller[p].answer, poller[p].on)'
    <3>1. /\ poller[p].on \in Requests
          /\ poller'[p].on = poller[p].on
          /\ poller'[p].answer = WakeAnswer(poller[p].on)
      BY <2>3 DEF AnswerPoll, Grounded, TypeOK
    <3>2. Says(WakeAnswer(poller[p].on), poller[p].on)
      BY <1>2, <2>3, <3>1 DEF AnswerPoll
    <3>3. QED
      BY <1>1, <3>1, <3>2
  <2>4. ASSUME PollTimesOut(p)
        PROVE  Says(poller[p].answer, poller[p].on)'
    <3>1. /\ poller[p].on \in Requests
          /\ poller'[p].on = poller[p].on /\ poller'[p].answer = poller[p].answer
      BY <1>4, <2>4 DEF PollTimesOut, Grounded, TypeOK
    <3>2. Says(poller[p].answer, poller[p].on)
      BY <3>1, ConstantsAssumption DEF VerdictsAgree
    <3>3. QED
      BY <1>1, <3>1, <3>2
  <2>5. \/ poller'[p] = poller[p]
        \/ \E id \in Ids : PollUnknown(p, id) \/ PollWaits(p, id)
        \/ AnswerPoll(p) \/ PollTimesOut(p)
    <3>1. CASE UNCHANGED poller
      BY <3>1
    <3>2. ASSUME NEW q \in Pollers \ {p}, NEW id \in Ids,
                 PollUnknown(q, id) \/ PollWaits(q, id)
          PROVE  poller'[p] = poller[p]
      BY <3>2 DEF PollUnknown, PollWaits, TypeOK
    <3>3. ASSUME NEW q \in Pollers \ {p}, AnswerPoll(q) \/ PollTimesOut(q)
          PROVE  poller'[p] = poller[p]
      BY <3>3 DEF AnswerPoll, PollTimesOut, TypeOK
    <3>4. CASE \E q \in Pollers :
             \/ \E id \in Ids : PollUnknown(q, id) \/ PollWaits(q, id)
             \/ PollStep(q)
      BY <3>2, <3>3, <3>4 DEF PollStep
    <3>5. QED
      BY <3>1, <3>4
      DEF Next, vars, PostStep, TimerStep, TimerBroadcast, ClickStep,
        Reject, AcceptExclusive, AcceptPlain, BroadcastNotification, AnswerPost,
        PostWaitElapses, SenderHangsUp, TimerExpires, TimerLoses, BroadcastExpired,
        TimerCancelled, IgnoreClick, StartClick, HttpReturns, ActionResolves,
        ActionLoses, BroadcastResolved
  <2>6. QED
    BY <2>1, <2>2, <2>3, <2>4, <2>5
<1>5. ASSUME NEW i \in DOMAIN log', log'[i].type # "notification"
      PROVE  watch'[log'[i].of] = [state |-> log'[i].type, body |-> log'[i].body]
  <2>1. ASSUME i \in DOMAIN log, log'[i] = log[i]
        PROVE  watch'[log'[i].of] = [state |-> log'[i].type, body |-> log'[i].body]
    <3>1. watch[log[i].of] = [state |-> log[i].type, body |-> log[i].body]
      BY <1>5, <2>1 DEF VerdictsAgree
    <3>2. log[i].of \in Requests /\ Terminal(log[i].of)
      BY <1>5, <2>1, <3>1, LogTypes DEF Terminal
    <3>3. QED
      BY <2>1, <3>1, <3>2, WatchMonotone
  <2>2. ASSUME NEW m \in Message, log' = Append(log, m)
        PROVE  (i \in DOMAIN log /\ log'[i] = log[i]) \/ log'[i] = m
    <3>1. log \in Seq(Message)
      BY DEF TypeOK
    <3>2. QED
      BY <2>2, <3>1, <1>5, AppendFacts
  <2>3. CASE Announces
    <3>1. PICK t \in Tasks :
           /\ UNCHANGED watch
           /\ \/ UNCHANGED log
              \/ \E m \in Message :
                   /\ log' = Append(log, m)
                   /\ m.of = announce[t]
                   /\ watch[announce[t]] = [state |-> m.type, body |-> m.body]
      BY <2>3, AnnounceEffect
    <3>2. QED
      BY <1>5, <2>1, <2>2, <3>1
  <2>4. CASE ~Announces
    BY <1>5, <2>1, <2>2, <2>4, QuietLog
  <2>5. QED
    BY <2>3, <2>4
<1>6. QED
  BY <1>3, <1>4, <1>5 DEF VerdictsAgree

LEMMA OnceStep ==
  ASSUME TypeOK, Grounded, Unborn, MapHoldsLiveEntries, Announcing, AnnouncedOnce,
         [Next]_vars
  PROVE  AnnouncedOnce'
<1>1. CASE UNCHANGED log
  BY <1>1 DEF AnnouncedOnce
<1>2. ASSUME NEW m \in Message, log' = Append(log, m),
             m.type = "notification" \/ \A i \in DOMAIN log : ~EndOf(i, m.of)
      PROVE  AnnouncedOnce'
  <2>1. log \in Seq(Message)
    BY DEF TypeOK
  <2>2. QED
    BY <1>2, <2>1, AppendFacts DEF AnnouncedOnce, EndOf
<1>3. CASE Announces
  <2>1. PICK t \in Tasks :
           /\ announce[t] \in Requests
           /\ \/ UNCHANGED log
              \/ \E m \in Message : log' = Append(log, m) /\ m.of = announce[t]
    BY <1>3, AnnounceEffect
  <2>2. \A i \in DOMAIN log : ~EndOf(i, announce[t])
    BY <2>1, ConstantsAssumption DEF Announcing
  <2>3. QED
    BY <1>1, <1>2, <2>1, <2>2
<1>4. QED
  BY <1>1, <1>2, <1>3, QuietLog

LEMMA ResolvedStep ==
  ASSUME TypeOK, Grounded, Unborn, MapHoldsLiveEntries, Announcing,
         ResolvedIsAnnounced, [Next]_vars
  PROVE  ResolvedIsAnnounced'
<1> SUFFICES ASSUME NEW r \in Requests, watch'[r].state = "resolved"
             PROVE  \/ \E i \in DOMAIN log' : log'[i].type = "resolved" /\ log'[i].of = r
                    \/ \E c \in Clients : announce'[c] = r
  BY DEF ResolvedIsAnnounced
<1>1. ASSUME NEW i \in DOMAIN log PROVE i \in DOMAIN log' /\ log'[i] = log[i]
  <2>1. log \in Seq(Message)
    BY DEF TypeOK
  <2>2. UNCHANGED log \/ \E m \in Message : log' = Append(log, m)
    BY QuietLog, AnnounceEffect
  <2>3. QED
    BY <2>1, <2>2, AppendFacts
<1>2. CASE watch[r].state # "resolved"
  <2>1. Closes
    <3>1. ASSUME NEW q \in Requests, NEW id \in Ids, AcceptExclusive(q, id)
          PROVE  FALSE
      <4>1. watch'[q].state = "live"
        BY <3>1, AcceptEffect DEF Watch
      <4>2. QED
        BY <1>2, <3>1, <4>1, AcceptEffect
    <3>2. ASSUME NEW q \in Requests, NEW id \in Ids \cup {NoId}, AcceptPlain(q, id)
          PROVE  FALSE
      BY <1>2, <3>2 DEF AcceptPlain
    <3>3. QED
      BY <1>2, <3>1, <3>2, StepCases
      DEF Accepts, Announces, BroadcastExpired, TimerCancelled, BroadcastResolved,
        TimerLoses, BroadcastNotification, EntriesAlone
  <2>2. PICK t \in Tasks, id \in Ids, v \in PendingState :
           /\ Close(t, id, v)
           /\ t \in Requests => v = Watch("expired")
           /\ UNCHANGED nid
    BY <2>1, CloseCases
  <2>3. r = pending[id] /\ v.state = "resolved" /\ announce'[t] = r
    BY <1>2, <2>2, CloseEffect
  <2>4. t \in Clients
    BY <2>2, <2>3 DEF Tasks, Watch
  <2>5. QED
    BY <2>3, <2>4
<1>3. CASE watch[r].state = "resolved"
  <2>1. CASE \E i \in DOMAIN log : log[i].type = "resolved" /\ log[i].of = r
    BY <1>1, <2>1
  <2>2. ASSUME NEW c \in Clients, announce[c] = r
        PROVE  \/ \E i \in DOMAIN log' : log'[i].type = "resolved" /\ log'[i].of = r
               \/ \E d \in Clients : announce'[d] = r
    <3>1. c \in Tasks
      BY DEF Tasks
    <3>2. CASE Closes
      <4>1. PICK t \in Tasks, id \in Ids, v \in PendingState :
               /\ Close(t, id, v)
               /\ t \in Clients => click[t].pc = "executed"
               /\ UNCHANGED nid
        BY <3>2, CloseCases
      <4>2. t # c
        BY <2>2, <4>1, ConstantsAssumption DEF Announcing
      <4>3. QED
        BY <2>2, <3>1, <4>1, <4>2, CloseEffect
    <3>3. CASE Announces
      <4>1. PICK t \in Tasks :
               /\ announce' = [announce EXCEPT ![t] = NoRequest]
               /\ \/ UNCHANGED log /\ t \notin Clients
                  \/ \E m \in Message :
                       /\ log' = Append(log, m)
                       /\ m.of = announce[t] /\ m.type # "notification"
                       /\ watch[announce[t]] = [state |-> m.type, body |-> m.body]
        BY <3>3, AnnounceEffect
      <4>2. CASE t # c
        BY <2>2, <3>1, <4>1, <4>2 DEF TypeOK
      <4>3. CASE t = c
        <5>1. PICK m \in Message :
                 /\ log' = Append(log, m)
                 /\ m.of = r
                 /\ watch[r] = [state |-> m.type, body |-> m.body]
          BY <2>2, <4>1, <4>3
        <5>2. m.type = "resolved"
          BY <1>3, <5>1
        <5>3. log \in Seq(Message)
          BY DEF TypeOK
        <5>4. QED
          BY <5>1, <5>2, <5>3, AppendFacts
      <4>4. QED
        BY <4>2, <4>3
    <3>4. CASE UNCHANGED announce
      BY <2>2, <3>4
    <3>5. QED
      BY <3>2, <3>3, <3>4, StepCases, AcceptEffect, PlainEffect
      DEF Accepts, TimerLoses, BroadcastNotification, EntriesAlone
  <2>3. QED
    BY <1>3, <2>1, <2>2 DEF ResolvedIsAnnounced
<1>4. QED
  BY <1>2, <1>3
-----------------------------------------------------------------------------
(***************************************************************************)
(* The theorems                                                            *)
(***************************************************************************)
LEMMA StepIInv == IInv /\ [Next]_vars => IInv'
<1> SUFFICES ASSUME IInv, [Next]_vars PROVE IInv'
  OBVIOUS
<1>1. TypeOK'
  BY TypeStep DEF IInv
<1>2. Grounded' /\ Unborn' /\ MapHoldsLiveEntries'
  BY <1>1, GroundedStep, UnbornStep, MapStep DEF IInv
<1>3. Announcing' /\ PollersWait'
  BY AnnouncingStep, PollersWaitStep DEF IInv
<1>4. VerdictsAgree' /\ AnnouncedOnce' /\ ResolvedIsAnnounced'
  BY VerdictsStep, OnceStep, ResolvedStep DEF IInv
<1>5. QED
  BY <1>1, <1>2, <1>3, <1>4 DEF IInv

LEMMA Invariance == Spec => []IInv
BY InitIInv, StepIInv, PTL DEF Spec

(* Every variable of the server keeps its type in every reachable state.   *)
THEOREM TypeCorrect == Spec => []TypeOK
<1>1. IInv => TypeOK
  BY DEF IInv
<1>2. QED
  BY <1>1, Invariance, PTL

(* No entry stays in the pending map for ever: what finish() closes leaves *)
(* the map in the same step, and what is left in it is open and timed.     *)
THEOREM MapIsSound == Spec => []MapHoldsLiveEntries
<1>1. IInv => MapHoldsLiveEntries
  BY DEF IInv
<1>2. QED
  BY <1>1, Invariance, PTL

(* The sender of a POST, every poller and every subscriber that is told    *)
(* how an exclusive notification ended is told the same verdict.           *)
THEOREM VerdictsAlwaysAgree == Spec => []VerdictsAgree
<1>1. IInv => VerdictsAgree
  BY DEF IInv
<1>2. QED
  BY <1>1, Invariance, PTL

(* However many clients click at once, and whenever the timer elapses, the *)
(* end of a notification is broadcast at most once.                        *)
THEOREM EndsOnce == Spec => []AnnouncedOnce
<1>1. IInv => AnnouncedOnce
  BY DEF IInv
<1>2. QED
  BY <1>1, Invariance, PTL

(* A resolution is broadcast, or the loop of the client that resolved the  *)
(* notification is still to broadcast it: nothing cancels that loop there. *)
THEOREM ResolutionIsAnnounced == Spec => []ResolvedIsAnnounced
<1>1. IInv => ResolvedIsAnnounced
  BY DEF IInv
<1>2. QED
  BY <1>1, Invariance, PTL

-----------------------------------------------------------------------------
(***************************************************************************)
(* What EveryRequestEnds rests on                                          *)
(***************************************************************************)

(* An open notification whose id nobody reused can be ended by its timer.  *)
OpenIsTimed ==
  \A r \in Requests : Live(r) /\ ~SharedId(r) =>
    timer[r] = "sleeping" /\ CanFinish(nid[r])
TimerCloses ==
  [][\A r \in Requests : Live(r) /\ ~SharedId(r) /\ TimerStep(r) => Terminal(r)']_vars

(* Nobody waits for nobody: an open notification whose id nobody reused    *)
(* has a timer that sleeps and an entry that the timer can finish, and     *)
(* when the timer wakes up it does (register_pending, expire).  This is    *)
(* the state fact of EveryRequestEnds; that timers wake up is fairness.    *)
THEOREM TimersEndThem == Spec => []OpenIsTimed /\ TimerCloses
<1>1. IInv => OpenIsTimed
  <2> SUFFICES ASSUME IInv, NEW r \in Requests, Live(r), ~SharedId(r)
               PROVE  timer[r] = "sleeping" /\ CanFinish(nid[r])
    BY DEF OpenIsTimed
  <2>1. InMap(r)
    BY DEF IInv, MapHoldsLiveEntries, Replaced
  <2>2. nid[r] \in Ids /\ pending[nid[r]] = r
    BY <2>1 DEF InMap, IInv, TypeOK
  <2>3. timer[r] = "sleeping"
    BY <2>2 DEF IInv, MapHoldsLiveEntries
  <2>4. r # NoRequest
    BY ConstantsAssumption
  <2> QED BY <2>2, <2>3, <2>4 DEF CanFinish
<1>2. IInv => \A r \in Requests : Live(r) /\ ~SharedId(r) /\ TimerStep(r) => Terminal(r)'
  <2> SUFFICES ASSUME IInv, NEW r \in Requests, Live(r), ~SharedId(r), TimerStep(r)
               PROVE  Terminal(r)'
    OBVIOUS
  <2>1. CanFinish(nid[r])
    BY <1>1 DEF OpenIsTimed
  <2>2. Close(r, nid[r], Watch("expired"))
    BY <2>1 DEF TimerStep, TimerExpires, TimerLoses
  <2>3. pending[nid[r]] = r
    BY DEF IInv, MapHoldsLiveEntries, Replaced, InMap
  <2>4. watch' = [watch EXCEPT ![r] = Watch("expired")]
    BY <2>2, <2>3 DEF Close
  <2>5. watch'[r] = Watch("expired") /\ Watch("expired").state = "expired"
    BY <2>4 DEF IInv, TypeOK, Watch
  <2> QED BY <2>5 DEF Terminal
<1>3. IInv =>
        [\A r \in Requests : Live(r) /\ ~SharedId(r) /\ TimerStep(r) => Terminal(r)']_vars
  BY <1>2
<1> QED BY <1>1, <1>3, Invariance, PTL DEF TimerCloses
-----------------------------------------------------------------------------
(***************************************************************************)
(* The refinement of ExclusiveResolution                                   *)
(***************************************************************************)

(* A POST handler has said nothing before it is done, and only a           *)
(* resolution has a body.                                                  *)
Unspoken ==
  /\ \A r \in Requests : handler[r].pc \in {"idle", "broadcast", "waiting"} =>
       handler[r].answer = Status("none")
  /\ \A r \in Requests : watch[r].state # "resolved" => watch[r].body = NoBody

LEMMA UnspokenStep ==
  ASSUME TypeOK, Grounded, Unborn, MapHoldsLiveEntries, Unspoken, [Next]_vars
  PROVE  Unspoken'
<1>1. ASSUME NEW q \in Requests, handler'[q].pc \in {"idle", "broadcast", "waiting"}
      PROVE  handler'[q].answer = Status("none")
  <2>1. CASE handler'[q] = handler[q]
    BY <1>1, <2>1 DEF Unspoken
  <2>2. CASE /\ handler[q].pc \in {"idle", "broadcast", "waiting"}
             /\ handler'[q].answer = handler[q].answer
    BY <2>2 DEF Unspoken
  <2>3. ASSUME NEW r \in Requests,
               \/ Reject(r) \/ BroadcastNotification(r) \/ AnswerPost(r)
               \/ PostWaitElapses(r) \/ SenderHangsUp(r)
               \/ \E id \in Ids : AcceptExclusive(r, id)
               \/ \E id \in Ids \cup {NoId} : AcceptPlain(r, id)
        PROVE  handler'[q].answer = Status("none")
    <3>1. CASE q # r
      BY <2>1, <2>3, <3>1 DEF Reject, BroadcastNotification, AnswerPost,
        PostWaitElapses, SenderHangsUp, AcceptExclusive, AcceptPlain, TypeOK
    <3>2. CASE q = r
      <4>1. CASE BroadcastNotification(r)
        BY <1>1, <2>2, <3>2, <4>1 DEF BroadcastNotification, TypeOK, Handler
      <4>2. CASE Reject(r) \/ AnswerPost(r) \/ PostWaitElapses(r) \/ SenderHangsUp(r)
        BY <1>1, <3>2, <4>2 DEF Reject, AnswerPost, PostWaitElapses, SenderHangsUp,
          TypeOK, Handler
      <4>3. CASE \/ \E id \in Ids : AcceptExclusive(r, id)
                 \/ \E id \in Ids \cup {NoId} : AcceptPlain(r, id)
        BY <2>2, <3>2, <4>3 DEF AcceptExclusive, AcceptPlain, TypeOK, Handler
      <4>4. QED
        BY <2>3, <4>1, <4>2, <4>3
    <3>3. QED
      BY <3>1, <3>2
  <2>4. QED
    BY <2>1, <2>3
    DEF Next, vars, PostStep, TimerStep, TimerBroadcast, ClickStep, PollStep,
        TimerExpires, TimerLoses, BroadcastExpired, TimerCancelled, IgnoreClick,
        StartClick, HttpReturns, ActionResolves, ActionLoses, BroadcastResolved,
        PollUnknown, PollWaits, AnswerPoll, PollTimesOut
<1>2. ASSUME NEW q \in Requests, watch'[q].state # "resolved"
      PROVE  watch'[q].body = NoBody
  <2>1. CASE watch'[q] = watch[q]
    BY <1>2, <2>1 DEF Unspoken
  <2>2. CASE Accepts
    <3>1. ASSUME NEW r \in Requests, NEW id \in Ids, AcceptExclusive(r, id)
          PROVE  watch'[q] = watch[q] \/ watch'[q] = Watch("live")
      BY <3>1, AcceptEffect
    <3>2. QED
      BY <2>1, <2>2, <3>1, PlainEffect DEF Accepts, Watch
  <2>3. CASE Closes
    <3>1. PICK t \in Tasks, id \in Ids, v \in PendingState :
             /\ Close(t, id, v)
             /\ t \in Requests => v = Watch("expired")
             /\ t \in Clients => v.state = "resolved"
             /\ UNCHANGED nid
      BY <2>3, CloseCases
    <3>2. watch'[q] = watch[q] \/ watch'[q] = v
      BY <3>1, CloseEffect
    <3>3. QED
      BY <1>2, <2>1, <3>1, <3>2 DEF Tasks, Watch
  <2>4. QED
    BY <2>1, <2>2, <2>3, StepCases
    DEF Announces, BroadcastExpired, TimerCancelled, BroadcastResolved, TimerLoses,
      BroadcastNotification, EntriesAlone
<1>3. QED
  BY <1>1, <1>2 DEF Unspoken

LEMMA SameVerdict ==
  ASSUME NEW q \in Requests, watch'[q] = watch[q], InMap(q)' <=> InMap(q)
  PROVE  VerdictOf(q)' = VerdictOf(q)
BY DEF VerdictOf, Replaced, Live

LEMMA SameTold ==
  ASSUME NEW q \in Requests, handler'[q].answer = handler[q].answer
  PROVE  ToldOf(q)' = ToldOf(q)
BY DEF ToldOf

(* What is not the end of q's notification changes nothing that was heard  *)
(* of it.                                                                  *)
LEMMA SameHeard ==
  ASSUME TypeOK, NEW q \in Requests,
         \/ UNCHANGED log
         \/ \E m \in Message : /\ log' = Append(log, m)
                               /\ m.type = "notification" \/ m.of # q
  PROVE  HeardOf(q)' = HeardOf(q)
<1>1. CASE UNCHANGED log
  BY <1>1 DEF HeardOf, EndMessages
<1>2. ASSUME NEW m \in Message, log' = Append(log, m), m.type = "notification" \/ m.of # q
      PROVE  HeardOf(q)' = HeardOf(q)
  <2>1. log \in Seq(Message)
    BY DEF TypeOK
  <2>2. /\ DOMAIN log \subseteq DOMAIN log'
        /\ \A i \in DOMAIN log : log'[i] = log[i]
        /\ \A i \in DOMAIN log' : i \in DOMAIN log \/ log'[i] = m
    BY <1>2, <2>1, AppendFacts
  <2>3. EndMessages(q)' = EndMessages(q)
    BY <1>2, <2>2 DEF EndMessages
  <2>4. \A i \in EndMessages(q) : log'[i] = log[i]
    BY <2>2 DEF EndMessages
  <2>5. CASE EndMessages(q) = {}
    BY <2>3, <2>5 DEF HeardOf
  <2>6. CASE EndMessages(q) # {}
    <3> DEFINE i == CHOOSE j \in EndMessages(q) : TRUE
    <3>1. i \in EndMessages(q)
      BY <2>6
    <3>2. HeardOf(q) = [state |-> log[i].type, body |-> log[i].body]
      BY <2>6 DEF HeardOf
    <3>3. HeardOf(q)' = [state |-> log'[i].type, body |-> log'[i].body]
      BY <2>3, <2>6 DEF HeardOf
    <3>4. QED
      BY <2>4, <3>1, <3>2, <3>3
  <2>7. QED
    BY <2>5, <2>6
<1>3. QED
  BY <1>1, <1>2

LEMMA FirstHeard ==
  ASSUME TypeOK, NEW q \in Requests, NEW m \in Message, log' = Append(log, m),
         m.type # "notification", m.of = q, \A i \in DOMAIN log : ~EndOf(i, q)
  PROVE  /\ HeardOf(q) = Watch("none")
         /\ HeardOf(q)' = [state |-> m.type, body |-> m.body]
<1>1. log \in Seq(Message)
  BY DEF TypeOK
<1>2. EndMessages(q) = {}
  BY DEF EndMessages, EndOf
<1>3. EndMessages(q)' = {Len(log) + 1} /\ log'[Len(log) + 1] = m
  <2>1. \A i \in DOMAIN log : log'[i] = log[i]
    BY <1>1, AppendFacts
  <2>2. /\ Len(log) + 1 \in DOMAIN log' /\ log'[Len(log) + 1] = m
        /\ \A i \in DOMAIN log' : i \in DOMAIN log \/ i = Len(log) + 1
    BY <1>1, AppendFacts
  <2>3. QED
    BY <2>1, <2>2 DEF EndMessages, EndOf
<1>4. (CHOOSE j \in EndMessages(q)' : TRUE) = Len(log) + 1
  BY <1>3
<1>5. QED
  BY <1>2, <1>3, <1>4 DEF HeardOf

SameVerdicts == \A q \in Requests : VerdictOf(q)' = VerdictOf(q)
SameAnswers == \A q \in Requests : ToldOf(q)' = ToldOf(q)
SameNews == \A q \in Requests : HeardOf(q)' = HeardOf(q)

LEMMA Stutter ==
  ASSUME SameVerdicts, SameAnswers, SameNews PROVE UNCHANGED Promise!vars
BY DEF SameVerdicts, SameAnswers, SameNews, Promise!vars

(* One sender is answered.                                                 *)
LEMMA AnswerRefines ==
  ASSUME NEW r \in Requests, SameVerdicts, SameNews,
         \A q \in Requests \ {r} : ToldOf(q)' = ToldOf(q),
         ToldOf(r) = Promise!In("none"),
         \/ VerdictOf(r) = Promise!In("unset")
            /\ ToldOf(r)' \in {Promise!In("accepted"), Promise!In("rejected")}
         \/ VerdictOf(r) \in {Promise!In("live"), Promise!In("replaced")}
            /\ ToldOf(r)' = Promise!In("pending")
         \/ VerdictOf(r) \in {Promise!In("expired"), Promise!In("replaced")}
            /\ ToldOf(r)' = Promise!In("gone")
         \/ VerdictOf(r).state = "resolved" /\ ToldOf(r)' = VerdictOf(r)
  PROVE  Promise!Next
<1> DEFINE told == [q \in Requests |-> ToldOf(q)]
<1>1. told' = [told EXCEPT ![r] = ToldOf(r)']
  OBVIOUS
<1>2. Promise!Decline(r) \/ Promise!Tell(r)
  BY <1>1 DEF SameVerdicts, SameNews, Promise!Decline, Promise!Tell
<1>3. QED
  BY <1>2 DEF Promise!Next

LEMMA OpenRefines ==
  ASSUME TypeOK, Unborn, MapHoldsLiveEntries, Unspoken, NEW r \in Requests,
         NEW id \in Ids, AcceptExclusive(r, id)
  PROVE  Promise!Next
<1> DEFINE old == {q \in Requests \ {r} : VerdictOf(q) = Promise!In("live")
                                          /\ VerdictOf(q)' # VerdictOf(q)}
<1>1. VerdictOf(r) = Promise!In("unset") /\ VerdictOf(r)' = Promise!In("live")
  BY AcceptEffect DEF VerdictOf, Replaced, Live, Watch, Unspoken, TypeOK,
    PendingState, Promise!In
<1>2. ASSUME NEW q \in Requests \ {r}
      PROVE  VerdictOf(q)' = IF q \in old THEN Promise!In("replaced") ELSE VerdictOf(q)
  <2>1. watch'[q] = watch[q] /\ (InMap(q)' => InMap(q))
    BY AcceptEffect
  <2>2. CASE InMap(q)' <=> InMap(q)
    BY <2>1, <2>2, SameVerdict
  <2>3. CASE Live(q) /\ InMap(q) /\ ~InMap(q)'
    <3>1. VerdictOf(q)' = Promise!In("replaced")
      BY <2>1, <2>3 DEF VerdictOf, Replaced, Live, Watch, Promise!In
    <3>2. VerdictOf(q) = Promise!In("live")
      BY <2>3 DEF VerdictOf, Replaced, Live, Unspoken, TypeOK, PendingState, Promise!In
    <3>3. QED
      BY <3>1, <3>2 DEF Promise!In
  <2>4. CASE ~Live(q)
    BY <2>1, <2>4 DEF VerdictOf, Replaced, Live
  <2>5. QED
    BY <2>1, <2>2, <2>3, <2>4
<1>3. SameAnswers /\ SameNews
  BY SameTold, SameHeard DEF SameAnswers, SameNews, AcceptExclusive, TypeOK, Handler
<1>4. ToldOf(r) = Promise!In("none")
  BY DEF AcceptExclusive, Unspoken, ToldOf, Status, Promise!In
<1>5. Promise!Open(r)
  <2> DEFINE verdict == [q \in Requests |-> VerdictOf(q)]
  <2>1. old \in SUBSET {q \in Requests \ {r} : verdict[q] = Promise!In("live")}
    OBVIOUS
  <2>2. \A q \in Requests :
           VerdictOf(q)' = IF q = r THEN Promise!In("live")
                           ELSE IF q \in old THEN Promise!In("replaced")
                           ELSE verdict[q]
    BY <1>1, <1>2
  <2> HIDE DEF old
  <2>3. verdict' = [q \in Requests |-> IF q = r THEN Promise!In("live")
                                       ELSE IF q \in old THEN Promise!In("replaced")
                                       ELSE verdict[q]]
    BY <2>2
  <2>4. QED
    BY <1>1, <1>3, <1>4, <2>1, <2>3 DEF SameAnswers, SameNews, Promise!Open
<1>6. QED
  BY <1>5 DEF Promise!Next

LEMMA CloseRefines ==
  ASSUME TypeOK, Grounded, Unborn, MapHoldsLiveEntries, Unspoken, Closes
  PROVE  Promise!Next
<1>1. PICK t \in Tasks, id \in Ids, v \in PendingState :
         /\ Close(t, id, v)
         /\ t \in Requests => v = Watch("expired")
         /\ t \in Clients => v.state = "resolved"
         /\ UNCHANGED <<nid, handler, log>>
  BY CloseCases
<1>2. PICK e \in Requests :
         /\ e = pending[id] /\ Live(e) /\ nid[e] = id /\ watch'[e] = v
         /\ \A r \in Requests \ {e} : watch'[r] = watch[r] /\ (InMap(r)' <=> InMap(r))
  BY <1>1, CloseEffect
<1>3. \A q \in Requests \ {e} : VerdictOf(q)' = VerdictOf(q)
  BY <1>2, SameVerdict
<1>4. VerdictOf(e) = Promise!In("live")
  <2>1. InMap(e)
    BY <1>2, ConstantsAssumption DEF InMap
  <2>2. QED
    BY <1>2, <2>1 DEF VerdictOf, Replaced, Live, Unspoken, TypeOK, PendingState,
      Promise!In
<1>5. VerdictOf(e)' = v /\ (\/ v = Promise!In("expired")
                            \/ \E b \in Body : v = [state |-> "resolved", body |-> b])
  <2>1. v = Watch("expired") \/ v.state = "resolved"
    BY <1>1 DEF Tasks
  <2>2. VerdictOf(e)' = v
    BY <1>2, <2>1 DEF VerdictOf, Replaced, Live, Watch
  <2>3. v = [state |-> v.state, body |-> v.body] /\ v.body \in Body
    BY DEF PendingState
  <2>4. QED
    BY <2>1, <2>2, <2>3 DEF Watch, Promise!In
<1>6. SameAnswers /\ SameNews
  BY <1>1, SameTold, SameHeard DEF SameAnswers, SameNews
<1> DEFINE verdict == [q \in Requests |-> VerdictOf(q)]
<1>7. verdict' = [verdict EXCEPT ![e] = v]
  BY <1>3, <1>5
<1>8. Promise!Settle(e)
  <2>1. UNCHANGED <<[q \in Requests |-> ToldOf(q)], [q \in Requests |-> HeardOf(q)]>>
    BY <1>6 DEF SameAnswers, SameNews
  <2>2. verdict[e] = Promise!In("live")
    BY <1>2, <1>4
  <2>3. CASE v = Promise!In("expired")
    BY <1>2, <1>7, <2>1, <2>2, <2>3 DEF Promise!Settle
  <2>4. ASSUME NEW b \in Body, v = [state |-> "resolved", body |-> b]
        PROVE  Promise!Settle(e)
    BY <1>2, <1>7, <2>1, <2>2, <2>4 DEF Promise!Settle
  <2>5. QED
    BY <1>5, <2>3, <2>4
<1>9. QED
  BY <1>2, <1>8 DEF Promise!Next

LEMMA AnnounceRefines ==
  ASSUME TypeOK, Announcing, Announces
  PROVE  [Promise!Next]_Promise!vars
<1>1. PICK t \in Tasks :
         /\ announce[t] \in Requests
         /\ UNCHANGED <<nid, watch, pending, handler>>
         /\ \/ UNCHANGED log
            \/ \E m \in Message :
                 /\ log' = Append(log, m)
                 /\ m.of = announce[t] /\ m.type # "notification"
                 /\ watch[announce[t]] = [state |-> m.type, body |-> m.body]
  BY AnnounceEffect
<1>2. SameVerdicts /\ SameAnswers
  BY <1>1, SameVerdict, SameTold DEF SameVerdicts, SameAnswers, InMap
<1>3. CASE UNCHANGED log
  BY <1>2, <1>3, SameHeard, Stutter DEF SameNews
<1>4. ASSUME NEW m \in Message, log' = Append(log, m),
             m.of = announce[t], m.type # "notification",
             watch[announce[t]] = [state |-> m.type, body |-> m.body]
      PROVE  Promise!Next
  <2> DEFINE heard == [q \in Requests |-> HeardOf(q)]
  <2>1. PICK e \in Requests : e = announce[t] /\ \A i \in DOMAIN log : ~EndOf(i, e)
    BY <1>1, ConstantsAssumption DEF Announcing
  <2>2. HeardOf(e) = Promise!In("none") /\ HeardOf(e)' = watch[e]
    BY <1>4, <2>1, FirstHeard DEF Watch, Promise!In
  <2>3. ASSUME NEW q \in Requests \ {e} PROVE HeardOf(q)' = HeardOf(q)
    <3>1. m.of # q
      BY <1>4, <2>1
    <3>2. QED
      BY <1>4, <3>1, SameHeard
  <2>4. VerdictOf(e) = watch[e] /\ watch[e].state \in {"resolved", "expired"}
    BY <1>4, <2>1, ConstantsAssumption DEF Announcing, VerdictOf, Replaced, Live,
      Watch, Tasks
  <2>5. heard' = [heard EXCEPT ![e] = VerdictOf(e)]
    BY <2>2, <2>3, <2>4
  <2>6. Promise!Announce(e)
    BY <1>2, <2>1, <2>2, <2>4, <2>5 DEF SameVerdicts, SameAnswers, Promise!Announce
  <2>7. QED
    BY <2>1, <2>6 DEF Promise!Next
<1>5. QED
  BY <1>1, <1>3, <1>4

(* What the handlers of POST say.                                          *)
LEMMA HandlerRefines ==
  ASSUME TypeOK, Unborn, MapHoldsLiveEntries, Unspoken, NEW r \in Requests,
         Reject(r) \/ BroadcastNotification(r) \/ AnswerPost(r) \/ PostWaitElapses(r)
  PROVE  [Promise!Next]_Promise!vars
<1>1. /\ UNCHANGED <<nid, watch, pending>>
      /\ \A q \in Requests \ {r} : handler'[q] = handler[q]
      /\ handler[r].pc \in {"idle", "broadcast", "waiting"}
  BY DEF Reject, BroadcastNotification, AnswerPost, PostWaitElapses, TypeOK
<1>2. SameVerdicts
  BY <1>1, SameVerdict DEF SameVerdicts, InMap
<1>3. SameNews
  <2>1. CASE UNCHANGED log
    BY <2>1, SameHeard DEF SameNews
  <2>2. CASE BroadcastNotification(r)
    <3>1. [type |-> "notification", id |-> nid[r], of |-> r, body |-> NoBody] \in Message
      BY BodyTypes DEF Message, TypeOK
    <3>2. \E m \in Message : log' = Append(log, m) /\ m.type = "notification"
      BY <2>2, <3>1 DEF BroadcastNotification
    <3>3. QED
      BY <3>2, SameHeard DEF SameNews
  <2>3. QED
    BY <2>1, <2>2 DEF Reject, AnswerPost, PostWaitElapses
<1>4. \A q \in Requests \ {r} : ToldOf(q)' = ToldOf(q)
  BY <1>1, SameTold
<1>5. ToldOf(r) = Promise!In("none")
  BY <1>1 DEF Unspoken, ToldOf, Status, Promise!In
<1>6. CASE handler'[r].answer = handler[r].answer
  <2>1. SameAnswers
    BY <1>1, <1>4, <1>6, SameTold DEF SameAnswers
  <2>2. QED
    BY <1>2, <1>3, <2>1, Stutter
<1>7. CASE Reject(r) \/ (BroadcastNotification(r) /\ ~Exclusive(r))
  <2>1. watch[r].state = "unset"
    BY <1>7 DEF Reject, BroadcastNotification, Exclusive, Unborn
  <2>2. VerdictOf(r) = Promise!In("unset")
    BY <2>1 DEF VerdictOf, Replaced, Live, Unspoken, TypeOK, PendingState, Promise!In
  <2>3. handler'[r].answer \in {Status("accepted"), Status("rejected")}
    BY <1>7 DEF Reject, BroadcastNotification, TypeOK
  <2>4. ToldOf(r)' \in {Promise!In("accepted"), Promise!In("rejected")}
    BY <2>3 DEF ToldOf, Status, Promise!In
  <2>5. QED
    BY <1>2, <1>3, <1>4, <1>5, <2>2, <2>4, AnswerRefines
<1>8. CASE PostWaitElapses(r) /\ handler'[r].answer # handler[r].answer
  <2>1. watch[r].state = "live"
    BY <1>8 DEF PostWaitElapses, Wakes, Terminal, Unborn, TypeOK, PendingState
  <2>2. VerdictOf(r) \in {Promise!In("live"), Promise!In("replaced")}
    BY <2>1 DEF VerdictOf, Watch, Unspoken, TypeOK, PendingState, Promise!In
  <2>3. ToldOf(r)' = Promise!In("pending")
    BY <1>8 DEF PostWaitElapses, ToldOf, Status, TypeOK, Promise!In
  <2>4. QED
    BY <1>2, <1>3, <1>4, <1>5, <2>2, <2>3, AnswerRefines
<1>9. CASE AnswerPost(r)
  <2>1. handler'[r].answer = WakeAnswer(r)
    BY <1>9 DEF AnswerPost, TypeOK
  <2>2. CASE watch[r].state = "resolved"
    <3>1. VerdictOf(r) = watch[r]
      BY <2>2 DEF VerdictOf, Replaced, Live
    <3>2. ToldOf(r)' = watch[r]
      BY <2>1, <2>2 DEF ToldOf, WakeAnswer, Terminal, TerminalResponse, TypeOK,
        PendingState
    <3>3. QED
      BY <1>2, <1>3, <1>4, <1>5, <2>2, <3>1, <3>2, AnswerRefines
  <2>3. CASE watch[r].state # "resolved"
    <3>1. VerdictOf(r) \in {Promise!In("expired"), Promise!In("replaced")}
      BY <1>9, <2>3 DEF AnswerPost, Wakes, SenderDropped, Terminal, VerdictOf, Watch,
        Replaced, Live, Unspoken, TypeOK, PendingState, Promise!In
    <3>2. ToldOf(r)' = Promise!In("gone")
      BY <2>1, <2>3 DEF ToldOf, WakeAnswer, TerminalResponse, Status, Promise!In
    <3>3. QED
      BY <1>2, <1>3, <1>4, <1>5, <3>1, <3>2, AnswerRefines
  <2>4. QED
    BY <2>2, <2>3
<1>10. QED
  <2>1. BroadcastNotification(r) /\ Exclusive(r) => handler'[r].answer = handler[r].answer
    BY DEF BroadcastNotification, TypeOK, Handler
  <2>2. QED
    BY <1>6, <1>7, <1>8, <1>9, <2>1

LEMMA RefinesStep ==
  ASSUME IInv, Unspoken, [Next]_vars PROVE [Promise!Next]_Promise!vars
<1>1. CASE Accepts
  <2>1. ASSUME NEW r \in Requests, NEW id \in Ids \cup {NoId}, AcceptPlain(r, id)
        PROVE  UNCHANGED Promise!vars
    <3>1. /\ watch' = watch /\ pending' = pending /\ log' = log
          /\ watch[r].state = "unset"
          /\ \A q \in Requests \ {r} : nid'[q] = nid[q]
      BY <2>1, PlainEffect DEF IInv
    <3>2. SameVerdicts
      <4>1. VerdictOf(r)' = VerdictOf(r)
        BY <3>1 DEF VerdictOf, Replaced, Live
      <4>2. \A q \in Requests \ {r} : VerdictOf(q)' = VerdictOf(q)
        BY <3>1, SameVerdict DEF InMap
      <4>3. QED
        BY <4>1, <4>2 DEF SameVerdicts
    <3>3. SameAnswers
      BY <2>1, SameTold DEF AcceptPlain, SameAnswers, IInv, TypeOK, Handler
    <3>4. SameNews
      BY <3>1, SameHeard DEF SameNews, IInv
    <3>5. QED
      BY <3>2, <3>3, <3>4, Stutter
  <2>2. QED
    BY <1>1, <2>1, OpenRefines DEF Accepts, IInv
<1>2. CASE Closes
  BY <1>2, CloseRefines DEF IInv
<1>3. CASE Announces
  BY <1>3, AnnounceRefines DEF IInv
<1>4. ASSUME NEW r \in Requests,
             Reject(r) \/ BroadcastNotification(r) \/ AnswerPost(r) \/ PostWaitElapses(r)
      PROVE  [Promise!Next]_Promise!vars
  BY <1>4, HandlerRefines DEF IInv
<1>5. CASE /\ UNCHANGED <<nid, watch, pending, log>>
           /\ \A q \in Requests : handler'[q].answer = handler[q].answer
  <2>1. SameVerdicts /\ SameAnswers
    BY <1>5, SameVerdict, SameTold DEF SameVerdicts, SameAnswers, InMap
  <2>2. SameNews
    BY <1>5, SameHeard DEF SameNews, IInv
  <2>3. QED
    BY <2>1, <2>2, Stutter
<1>6. ASSUME NEW r \in Requests, SenderHangsUp(r) \/ TimerLoses(r)
      PROVE  /\ UNCHANGED <<nid, watch, pending, log>>
             /\ \A q \in Requests : handler'[q].answer = handler[q].answer
  <2>1. CASE SenderHangsUp(r)
    <3>1. /\ UNCHANGED <<nid, watch, pending, log>>
          /\ handler' = [handler EXCEPT ![r].pc = "dropped"]
      BY <2>1 DEF SenderHangsUp
    <3>2. handler \in [Requests -> Handler]
      BY DEF IInv, TypeOK
    <3>3. handler'[r].answer = handler[r].answer
      BY <3>1, <3>2 DEF Handler
    <3>4. \A q \in Requests \ {r} : handler'[q] = handler[q]
      BY <3>1, <3>2
    <3>5. QED
      BY <3>1, <3>3, <3>4
  <2>2. CASE TimerLoses(r)
    BY <2>2 DEF TimerLoses
  <2>3. QED
    BY <1>6, <2>1, <2>2
<1>7. QED
  <2>1. CASE UNCHANGED <<nid, watch, pending, handler, log>>
    BY <1>5, <2>1
  <2>2. QED
    BY <1>1, <1>2, <1>3, <1>4, <1>5, <1>6, <2>1
    DEF Next, vars, Accepts, Closes, Announces, PostStep, TimerStep, TimerBroadcast,
        ClickStep, PollStep, IgnoreClick, StartClick, HttpReturns, ActionLoses,
        PollUnknown, PollWaits, AnswerPoll, PollTimesOut

LEMMA RefinesInit == Init => Promise!Init /\ Unspoken
<1> SUFFICES ASSUME Init PROVE Promise!Init /\ Unspoken
  OBVIOUS
<1>1. \A q \in Requests : /\ VerdictOf(q) = Promise!In("unset")
                          /\ ToldOf(q) = Promise!In("none")
  BY DEF Init, VerdictOf, Replaced, Live, Watch, ToldOf, Status, Promise!In
<1>2. \A q \in Requests : HeardOf(q) = Promise!In("none")
  BY DEF Init, HeardOf, EndMessages, Watch, Promise!In
<1>3. Unspoken
  BY DEF Init, Unspoken, Watch, Status
<1>4. QED
  BY <1>1, <1>2, <1>3 DEF Promise!Init

(* The server, with its ids, map, channels, timers and clicks, does what   *)
(* ExclusiveResolution promises: every step of a handler, a timer, a       *)
(* client's loop or a poller is one step of the promise or none, whatever  *)
(* ids the senders reuse (register_pending, finish, wait_and_respond).     *)
THEOREM ImplementsPromise == Spec => KeepsPromise
<1>1. IInv /\ Unspoken /\ [Next]_vars => Unspoken'
  BY UnspokenStep DEF IInv
<1>2. IInv /\ Unspoken /\ [Next]_vars => [Promise!Next]_Promise!vars
  BY RefinesStep
<1>3. QED
  BY <1>1, <1>2, RefinesInit, Invariance, PTL
     DEF Spec, KeepsPromise, Promise!SafeSpec
=============================================================================
