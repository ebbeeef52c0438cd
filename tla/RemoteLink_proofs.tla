------------------------- MODULE RemoteLink_proofs -------------------------
(***************************************************************************)
(* RunningIsListed, StatusFollowsTask, NoGapsWhileConnected and the types, *)
(* for any number of connections, tasks, messages and failures.            *)
(*                                                                         *)
(* StatusFollowsTask rests on what the queue of the event loop may hold:   *)
(* its last status event says where the latest task stands, and no         *)
(* server-info comes after a "down" without an "up" between them.          *)
(*                                                                         *)
(* NoGapsWhileConnected rests on GapInv: what a connection delivered, what *)
(* is on its wire and what is in its channel count on from one another up  *)
(* to the last broadcast; and of the connections of a task the one it      *)
(* holds is the last.                                                      *)
(***************************************************************************)
EXTENDS RemoteLink, TLAPS

-----------------------------------------------------------------------------
(* The subscriber list.                                                    *)

ListInv ==
  /\ subscribers \subseteq Conns
  /\ loop \in [Conns -> {"unused", "info", "run", "action", "ended"}]
  /\ RunningIsListed

LEMMA ListStep ==
  ASSUME ListInv, [LinkNext]_linkVars PROVE ListInv'
<1>1. CASE Broadcast
  BY <1>1 DEF Broadcast, ListInv, RunningIsListed, Live
<1>2. ASSUME NEW c \in Conns, ServerStep(c) PROVE ListInv'
  <2>1. subscribers' = subscribers
    BY <1>2 DEF ServerStep, SendInfo, Forward, ActionHandled, ReadEnd
  <2>2. /\ Live(c)
        /\ \/ loop' = loop
           \/ loop' = [loop EXCEPT ![c] = "run"]
           \/ loop' = [loop EXCEPT ![c] = "ended"]
    BY <1>2 DEF ServerStep, SendInfo, Forward, ActionHandled, ReadEnd, EndLoop, Live
  <2> QED BY <2>1, <2>2 DEF ListInv, RunningIsListed, Live
<1>3. ASSUME NEW c \in Conns, ReadAction(c) PROVE ListInv'
  BY <1>3 DEF ReadAction, ListInv, RunningIsListed, Live
<1>4. ASSUME NEW t \in Clients, NEW c \in Conns, ConnectSucceeds(t, c) PROVE ListInv'
  BY <1>4 DEF ConnectSucceeds, AddSubscriber, ListInv, RunningIsListed, Live
<1>5. CASE \/ \E c \in Conns : Break(c)
           \/ \E t \in Clients : \/ Read(t) \/ Disconnected(t) \/ GraceEnds(t)
                                 \/ WaitEnds(t) \/ ConnectFails(t)
           \/ HandleEvent \/ Reconnect \/ UNCHANGED linkVars
  <2>1. UNCHANGED <<subscribers, loop>>
    BY <1>5 DEF Break, Read, Disconnected, GraceEnds, WaitEnds, ConnectFails,
                HandleEvent, Reconnect, serverVars, linkVars
  <2> QED BY <2>1 DEF ListInv, RunningIsListed, Live
<1> QED BY <1>1, <1>2, <1>3, <1>4, <1>5 DEF LinkNext, ClientStep

(* A subscriber whose loop still runs is never cleared out of the list,    *)
(* whatever connects, breaks and is broadcast (add_subscriber, broadcast). *)
THEOREM RunningStaysListed == LinkSafety => []RunningIsListed
<1>1. LinkInit => ListInv
  BY DEF LinkInit, ListInv, RunningIsListed, Live
<1>2. ListInv => RunningIsListed
  BY DEF ListInv
<1> QED BY <1>1, <1>2, ListStep, PTL DEF LinkSafety
-----------------------------------------------------------------------------
(* The queue of the event loop.                                            *)

(* After the queue: the status is connected ...                            *)
EndsUp(q, up) ==
  \/ \E i \in 1..Len(q) : /\ q[i].type = "up"
                          /\ \A j \in (i + 1)..Len(q) : q[j].type = "info"
  \/ up /\ \A j \in 1..Len(q) : q[j].type = "info"

(* ... or it is not, and no calendars are shown.                           *)
EndsDown(q, up, cals) ==
  \/ Len(q) > 0 /\ q[Len(q)].type = "down"
  \/ Len(q) = 0 /\ ~up /\ ~cals

LEMMA UpAfterUp ==
  ASSUME NEW q \in Seq(Event), NEW up \in BOOLEAN, NEW t \in Clients
  PROVE  EndsUp(Append(q, Ev(t, "up")), up)
<1> DEFINE r == Append(q, Ev(t, "up"))
<1>1. Len(r) = Len(q) + 1 /\ r[Len(q) + 1] = Ev(t, "up") /\ Len(q) \in Nat
  OBVIOUS
<1> HIDE DEF r
<1>2. r[Len(r)].type = "up" /\ Len(r) \in 1..Len(r)
  BY <1>1 DEF Ev
<1>3. \A j \in (Len(r) + 1)..Len(r) : r[j].type = "info"
  BY <1>1
<1> QED BY <1>2, <1>3 DEF EndsUp, r

LEMMA InfoAfterUp ==
  ASSUME NEW q \in Seq(Event), NEW up \in BOOLEAN, NEW t \in Clients, EndsUp(q, up)
  PROVE  EndsUp(Append(q, Ev(t, "info")), up)
<1> DEFINE r == Append(q, Ev(t, "info"))
<1>1. /\ Len(r) = Len(q) + 1 /\ r[Len(q) + 1] = Ev(t, "info") /\ Len(q) \in Nat
      /\ \A i \in 1..Len(q) : r[i] = q[i]
  OBVIOUS
<1> HIDE DEF r
<1>2. r[Len(q) + 1].type = "info"
  BY <1>1 DEF Ev
<1>3. ASSUME NEW i \in 1..Len(q), q[i].type = "up",
             \A j \in (i + 1)..Len(q) : q[j].type = "info"
      PROVE  EndsUp(r, up)
  <2>1. r[i].type = "up" /\ i \in 1..Len(r)
    BY <1>1, <1>3
  <2>2. \A j \in (i + 1)..Len(r) : r[j].type = "info"
    BY <1>1, <1>2, <1>3
  <2> QED BY <2>1, <2>2 DEF EndsUp
<1>4. CASE up /\ \A j \in 1..Len(q) : q[j].type = "info"
  <2>1. \A j \in 1..Len(r) : r[j].type = "info"
    BY <1>1, <1>2, <1>4
  <2> QED BY <1>4, <2>1 DEF EndsUp, r
<1> QED BY <1>3, <1>4 DEF EndsUp, r

LEMMA DownAfterAny ==
  ASSUME NEW q \in Seq(Event), NEW up, NEW cals, NEW t \in Clients
  PROVE  EndsDown(Append(q, Ev(t, "down")), up, cals)
BY DEF EndsDown, Ev

StatusAfter(e, up) == IF e.type = "info" THEN up ELSE e.type = "up"
CalendarsAfter(e, cals) == e.type = "info" \/ (e.type = "up" /\ cals)

(* What remains of a queue when its head is handled.                       *)
LEMMA TailIs ==
  ASSUME NEW q \in Seq(Event), q # <<>>
  PROVE  /\ Tail(q) \in Seq(Event) /\ Len(q) \in Nat /\ Len(q) > 0
         /\ Len(Tail(q)) = Len(q) - 1 /\ Head(q) = q[1]
         /\ \A i \in 1..(Len(q) - 1) : Tail(q)[i] = q[i + 1]
OBVIOUS

LEMMA HandleKeepsUp ==
  ASSUME NEW q \in Seq(Event), q # <<>>, NEW up \in BOOLEAN, EndsUp(q, up)
  PROVE  EndsUp(Tail(q), StatusAfter(Head(q), up))
<1> DEFINE r == Tail(q)
           now == StatusAfter(Head(q), up)
<1>1. /\ Len(q) \in Nat /\ Len(q) > 0 /\ Len(r) = Len(q) - 1 /\ Head(q) = q[1]
      /\ \A i \in 1..(Len(q) - 1) : r[i] = q[i + 1]
  BY TailIs
<1> HIDE DEF r
<1>2. ASSUME NEW i \in 1..Len(q), q[i].type = "up",
             \A j \in (i + 1)..Len(q) : q[j].type = "info"
      PROVE  EndsUp(r, now)
  <2>1. CASE i = 1
    <3>1. now
      BY <1>1, <1>2, <2>1 DEF StatusAfter
    <3>2. ASSUME NEW j \in 1..Len(r) PROVE r[j].type = "info"
      <4>1. j \in 1..(Len(q) - 1) /\ j + 1 \in (i + 1)..Len(q)
        BY <1>1, <2>1
      <4> QED BY <1>1, <1>2, <4>1
    <3> QED BY <3>1, <3>2 DEF EndsUp
  <2>2. CASE i # 1
    <3>1. i - 1 \in 1..Len(r) /\ r[i - 1].type = "up"
      BY <1>1, <1>2, <2>2
    <3>2. ASSUME NEW j \in ((i - 1) + 1)..Len(r) PROVE r[j].type = "info"
      <4>1. j \in 1..(Len(q) - 1) /\ j + 1 \in (i + 1)..Len(q)
        BY <1>1, <1>2, <2>2
      <4> QED BY <1>1, <1>2, <4>1
    <3> QED BY <3>1, <3>2 DEF EndsUp
  <2> QED BY <2>1, <2>2
<1>3. ASSUME up, \A j \in 1..Len(q) : q[j].type = "info"
      PROVE  EndsUp(r, now)
  <2>1. now
    BY <1>1, <1>3 DEF StatusAfter
  <2>2. ASSUME NEW j \in 1..Len(r) PROVE r[j].type = "info"
    <3>1. j \in 1..(Len(q) - 1) /\ j + 1 \in 1..Len(q)
      BY <1>1
    <3> QED BY <1>1, <1>3, <3>1
  <2> QED BY <2>1, <2>2 DEF EndsUp
<1>4. EndsUp(r, now)
  BY <1>2, <1>3 DEF EndsUp
<1> QED BY <1>4 DEF r

LEMMA HandleKeepsDown ==
  ASSUME NEW q \in Seq(Event), q # <<>>, NEW up, NEW cals, EndsDown(q, up, cals)
  PROVE  EndsDown(Tail(q), StatusAfter(Head(q), up), CalendarsAfter(Head(q), cals))
<1>1. Len(q) > 0 /\ q[Len(q)].type = "down"
  BY TailIs DEF EndsDown
<1>2. CASE Len(q) = 1
  <2>1. Head(q).type = "down" /\ Len(Tail(q)) = 0
    BY <1>1, <1>2, TailIs
  <2> QED BY <2>1 DEF EndsDown, StatusAfter, CalendarsAfter
<1>3. CASE Len(q) # 1
  <2> DEFINE r == Tail(q)
  <2>1. /\ Len(q) \in Nat /\ Len(q) > 0 /\ Len(r) = Len(q) - 1
        /\ \A i \in 1..(Len(q) - 1) : r[i] = q[i + 1]
    BY TailIs
  <2> HIDE DEF r
  <2>2. Len(r) > 0 /\ r[Len(r)] = q[Len(q)]
    BY <1>3, <2>1
  <2> QED BY <1>1, <2>2 DEF EndsDown, r
<1> QED BY <1>2, <1>3
-----------------------------------------------------------------------------
(* What the queue says of the n-th task, the latest.                       *)

QueueTells(n) ==
  /\ client[n] = "connected" => EndsUp(events, connected)
  /\ client[n] \in {"connecting", "waiting"} => EndsDown(events, connected, calendars)
  /\ client[n] = "grace" => \/ EndsUp(events, connected)
                            \/ EndsDown(events, connected, calendars)

StatusTypes ==
  /\ client \in [Clients -> {"unborn", "connecting", "connected", "grace",
                             "waiting", "gone"}]
  /\ events \in Seq(Event)
  /\ {connected, calendars, raced} \subseteq BOOLEAN

(* The tasks before the n-th are dropped, and at rest unless that raced.   *)
LatestIs(n) ==
  /\ \A t \in Clients : client[t] = "unborn" <=> t > n
  /\ dropped = 1..(n - 1)
  /\ client[n] # "gone"
  /\ ~raced => /\ \A t \in 1..(n - 1) : client[t] \in {"waiting", "gone"}
               /\ QueueTells(n)

StatusInv == StatusTypes /\ \E n \in Clients : LatestIs(n)

LEMMA LatestValue ==
  ASSUME StatusTypes, NEW n \in Clients, LatestIs(n) PROVE Latest = n
<1>1. Spawned = 1..n
  BY LinkAssumption DEF Spawned, LatestIs, Clients
<1>2. \A t \in 1..n : (\A u \in 1..n : u <= t) <=> t = n
  BY LinkAssumption DEF Clients
<1>3. (CHOOSE t \in 1..n : \A u \in 1..n : u <= t) = n
  BY <1>2, LinkAssumption DEF Clients
<1> QED BY <1>1, <1>3 DEF Latest
LEMMA RestsUnchanged ==
  ASSUME StatusInv,
         UNCHANGED <<client, events, connected, calendars, dropped, raced>>
  PROVE  StatusInv'
BY DEF StatusInv, StatusTypes, LatestIs, QueueTells

(* A task other than the latest does nothing that is told, unless a handle *)
(* was dropped while its task was at work.                                 *)
LEMMA AtWorkIsLatest ==
  ASSUME NEW n \in Clients, LatestIs(n), ~raced, NEW t \in Clients,
         client[t] \notin {"unborn", "waiting", "gone"}
  PROVE  t = n
BY LinkAssumption DEF LatestIs, Clients

(* The step of task t, where it is the latest.                             *)
LEMMA TaskStepKeepsLatest ==
  ASSUME StatusTypes, NEW n \in Clients, LatestIs(n), NEW t \in Clients,
         client[t] \notin {"unborn", "waiting", "gone"},
         NEW stand \in {"connecting", "connected", "grace", "waiting", "gone"},
         client' = [client EXCEPT ![t] = stand],
         UNCHANGED <<dropped, raced>>,
         t = n => stand # "gone" /\ QueueTells(n)'
  PROVE  LatestIs(n)'
<1>1. \A u \in Clients : client'[u] = IF u = t THEN stand ELSE client[u]
  BY DEF StatusTypes
<1>2. (\A u \in Clients : client'[u] = "unborn" <=> u > n) /\ client'[n] # "gone"
  BY <1>1 DEF LatestIs
<1>3. ASSUME ~raced' 
      PROVE  /\ \A u \in 1..(n - 1) : client'[u] \in {"waiting", "gone"}
             /\ QueueTells(n)'
  <2>1. t = n
    BY <1>3, AtWorkIsLatest
  <2>2. \A u \in 1..(n - 1) : u \in Clients /\ u # n
    BY LinkAssumption DEF Clients
  <2> QED BY <1>1, <1>3, <2>1, <2>2 DEF LatestIs
<1> QED BY <1>2, <1>3 DEF LatestIs

LEMMA ConnectKeepsStatus ==
  ASSUME StatusInv, NEW t \in Clients, NEW c \in Conns, ConnectSucceeds(t, c)
  PROVE  StatusInv'
<1>1. /\ client[t] = "connecting"
      /\ client' = [client EXCEPT ![t] = "connected"]
      /\ events' = Append(events, Ev(t, "up"))
      /\ UNCHANGED <<dropped, raced, connected, calendars>>
  BY DEF ConnectSucceeds, Post, statusVars
<1>2. StatusTypes'
  BY <1>1 DEF StatusInv, StatusTypes, Event, Ev
<1>3. PICK n \in Clients : LatestIs(n)
  BY DEF StatusInv
<1>4. EndsUp(events', connected')
  BY <1>1, UpAfterUp DEF StatusInv, StatusTypes
<1>5. t = n => QueueTells(n)'
  BY <1>1, <1>4 DEF QueueTells, StatusInv, StatusTypes
<1>6. LatestIs(n)'
  BY <1>1, <1>3, <1>5, TaskStepKeepsLatest DEF StatusInv
<1> QED BY <1>2, <1>6 DEF StatusInv

LEMMA ReadKeepsStatus ==
  ASSUME StatusInv, NEW t \in Clients, Read(t) PROVE StatusInv'
<1>1. /\ client[t] = "connected"
      /\ events' \in {events, Append(events, Ev(t, "info"))}
      /\ UNCHANGED <<client, dropped, raced, connected, calendars>>
  BY DEF Read, Post, statusVars
<1>2. CASE events' = events
  BY <1>1, <1>2, RestsUnchanged
<1>3. CASE events' = Append(events, Ev(t, "info"))
  <2>1. StatusTypes'
    BY <1>1, <1>3 DEF StatusInv, StatusTypes, Event, Ev
  <2>2. PICK n \in Clients : LatestIs(n)
    BY DEF StatusInv
  <2>3. ASSUME ~raced PROVE QueueTells(n)'
    <3>1. client[n] = "connected" /\ EndsUp(events, connected)
      BY <1>1, <2>2, <2>3, AtWorkIsLatest DEF LatestIs, QueueTells
    <3>2. EndsUp(events', connected')
      BY <1>1, <1>3, <3>1, InfoAfterUp DEF StatusInv, StatusTypes
    <3> QED BY <1>1, <3>1, <3>2 DEF QueueTells
  <2>4. LatestIs(n)'
    BY <1>1, <2>2, <2>3 DEF LatestIs
  <2> QED BY <2>1, <2>4 DEF StatusInv
<1> QED BY <1>1, <1>2, <1>3

(* A task that reports that it is not connected and waits, or is gone.     *)
LEMMA DownKeepsStatus ==
  ASSUME StatusInv, NEW t \in Clients,
         client[t] \in {"connecting", "connected", "grace"},
         client' = [client EXCEPT ![t] = AfterReport(t)], Post(t, "down"),
         UNCHANGED <<dropped, raced, connected, calendars>>
  PROVE  StatusInv'
<1>1. AfterReport(t) \in {"waiting", "gone"}
  BY DEF AfterReport
<1>2. StatusTypes'
  BY <1>1 DEF Post, StatusInv, StatusTypes, Event, Ev
<1>3. PICK n \in Clients : LatestIs(n)
  BY DEF StatusInv
<1>4. EndsDown(events', connected', calendars')
  BY DownAfterAny DEF Post, StatusInv, StatusTypes
<1>5. ASSUME t = n PROVE AfterReport(t) = "waiting" /\ QueueTells(n)'
  <2>1. n \notin dropped
    BY <1>3, LinkAssumption DEF LatestIs, Clients
  <2>2. client'[n] = "waiting"
    BY <1>5, <2>1 DEF AfterReport, StatusInv, StatusTypes
  <2> QED BY <1>4, <1>5, <2>1, <2>2 DEF AfterReport, QueueTells
<1>6. LatestIs(n)'
  BY <1>1, <1>3, <1>5, TaskStepKeepsLatest DEF StatusInv
<1> QED BY <1>2, <1>6 DEF StatusInv

(* A task that keeps for a while to itself that it is not connected.       *)
LEMMA GraceKeepsStatus ==
  ASSUME StatusInv, NEW t \in Clients, client[t] \in {"connecting", "connected"},
         client' = [client EXCEPT ![t] = "grace"],
         UNCHANGED <<events, dropped, raced, connected, calendars>>
  PROVE  StatusInv'
<1>1. StatusTypes'
  BY DEF StatusInv, StatusTypes
<1>2. PICK n \in Clients : LatestIs(n)
  BY DEF StatusInv
<1>3. ASSUME t = n, ~raced PROVE QueueTells(n)'
  BY <1>2, <1>3 DEF LatestIs, QueueTells, StatusInv, StatusTypes
<1>4. LatestIs(n)'
  <2>1. CASE raced
    BY <1>2, <2>1 DEF LatestIs, StatusInv, StatusTypes
  <2>2. CASE ~raced
    BY <1>2, <1>3, <2>2, TaskStepKeepsLatest DEF StatusInv
  <2> QED BY <2>1, <2>2
<1> QED BY <1>1, <1>4 DEF StatusInv

LEMMA AttemptEndsKeepsStatus ==
  ASSUME StatusInv, NEW t \in Clients, client[t] \in {"connecting", "connected"},
         NEW clean \in BOOLEAN, AttemptEnds(t, clean),
         UNCHANGED <<dropped, raced, connected, calendars>>
  PROVE  StatusInv'
<1>1. CASE ~clean /\ t \in failed
  BY <1>1, GraceKeepsStatus DEF AttemptEnds
<1>2. CASE ~(~clean /\ t \in failed)
  BY <1>2, DownKeepsStatus DEF AttemptEnds
<1> QED BY <1>1, <1>2

(* The wait of a task ends: only the latest may go on without a race.      *)
LEMMA WaitEndsKeepsStatus ==
  ASSUME StatusInv, NEW t \in Clients, WaitEnds(t) PROVE StatusInv'
<1>1. /\ client[t] = "waiting"
      /\ UNCHANGED <<events, dropped, connected, calendars>>
  BY DEF WaitEnds
<1>2. PICK n \in Clients : LatestIs(n)
  BY DEF StatusInv
<1>3. t <= n /\ dropped = 1..(n - 1) /\ t \in Nat /\ n \in Nat /\ t >= 1
  BY <1>1, <1>2, LinkAssumption DEF LatestIs, Clients
<1>4. PICK stand \in {"connecting", "gone"} :
        /\ client' = [client EXCEPT ![t] = stand]
        /\ stand = "gone" => t < n
        /\ raced' \in BOOLEAN /\ (~raced' => ~raced /\ (t < n => stand = "gone"))
  <2>1. raced \in BOOLEAN
    BY DEF StatusInv, StatusTypes
  <2>2. CASE t \in dropped /\ client' = [client EXCEPT ![t] = "gone"] /\ raced' = raced
    <3>1. t < n
      BY <1>3, <2>2
    <3> QED BY <2>1, <2>2, <3>1
  <2>3. CASE /\ client' = [client EXCEPT ![t] = "connecting"]
             /\ raced' = (raced \/ t \in dropped)
    <3>1. t \in dropped <=> t < n
      BY <1>3
    <3> QED BY <2>1, <2>3, <3>1
  <2> QED BY <2>2, <2>3 DEF WaitEnds
<1>5. StatusTypes'
  BY <1>1, <1>4 DEF StatusInv, StatusTypes
<1>6. \A u \in Clients : client'[u] = IF u = t THEN stand ELSE client[u]
  BY <1>4 DEF StatusInv, StatusTypes
<1>7. (\A u \in Clients : client'[u] = "unborn" <=> u > n) /\ client'[n] # "gone"
  BY <1>2, <1>3, <1>4, <1>6 DEF LatestIs
<1>8. ASSUME ~raced'
      PROVE  /\ \A u \in 1..(n - 1) : client'[u] \in {"waiting", "gone"}
             /\ QueueTells(n)'
  <2>1. ~raced /\ (t < n => stand = "gone")
    BY <1>4, <1>8
  <2>2. \A u \in 1..(n - 1) : u \in Clients /\ u # n
    BY <1>3, LinkAssumption DEF Clients
  <2>3. \A u \in 1..(n - 1) : client'[u] \in {"waiting", "gone"}
    BY <1>2, <1>3, <1>6, <2>1, <2>2 DEF LatestIs
  <2>4. client'[n] = IF t = n THEN "connecting" ELSE client[n]
    BY <1>3, <1>4, <1>6
  <2>5. QueueTells(n)
    BY <1>2, <2>1 DEF LatestIs
  <2>6. QueueTells(n)'
    BY <1>1, <2>4, <2>5 DEF QueueTells
  <2> QED BY <2>3, <2>6
<1>9. LatestIs(n)'
  BY <1>1, <1>2, <1>7, <1>8 DEF LatestIs
<1> QED BY <1>5, <1>9 DEF StatusInv

LEMMA HandleEventKeepsStatus ==
  ASSUME StatusInv, HandleEvent PROVE StatusInv'
<1>1. /\ events # <<>> /\ events' = Tail(events)
      /\ connected' = StatusAfter(Head(events), connected)
      /\ calendars' = CalendarsAfter(Head(events), calendars)
      /\ UNCHANGED <<client, dropped, raced>>
  BY DEF HandleEvent, clientVars, StatusAfter, CalendarsAfter
<1>2. StatusTypes'
  BY <1>1, TailIs DEF StatusInv, StatusTypes, StatusAfter, CalendarsAfter
<1>3. PICK n \in Clients : LatestIs(n)
  BY DEF StatusInv
<1>4. EndsUp(events, connected) => EndsUp(events', connected')
  BY <1>1, HandleKeepsUp DEF StatusInv, StatusTypes
<1>5. EndsDown(events, connected, calendars)
        => EndsDown(events', connected', calendars')
  BY <1>1, HandleKeepsDown DEF StatusInv, StatusTypes
<1>6. QueueTells(n) => QueueTells(n)'
  BY <1>1, <1>4, <1>5 DEF QueueTells
<1>7. LatestIs(n)'
  BY <1>1, <1>3, <1>6 DEF LatestIs
<1> QED BY <1>2, <1>7 DEF StatusInv

(* The new task starts without a connection, and that is what is shown, or *)
(* will be when the event loop comes to the last report of the old one.    *)
LEMMA ReconnectKeepsStatus ==
  ASSUME StatusInv, Reconnect PROVE StatusInv'
<1>1. PICK n \in Clients : LatestIs(n)
  BY DEF StatusInv
<1>2. Latest = n
  BY <1>1, LatestValue DEF StatusInv
<1>3. /\ n < MaxTasks
      /\ client' = [client EXCEPT ![n + 1] = "connecting"]
      /\ dropped' = dropped \cup {n}
      /\ raced' = (raced \/ client[n] # "waiting")
      /\ events' = events
      /\ \/ connected' = FALSE /\ calendars' = FALSE
         \/ connected' = connected /\ calendars' = calendars
  BY <1>2 DEF Reconnect
<1>4. n + 1 \in Clients /\ n \in Nat /\ n >= 1
  BY <1>3, LinkAssumption DEF Clients
<1>5. StatusTypes'
  BY <1>3 DEF StatusInv, StatusTypes
<1>6. \A u \in Clients : client'[u] = IF u = n + 1 THEN "connecting" ELSE client[u]
  BY <1>3, <1>4 DEF StatusInv, StatusTypes
<1>7. \A u \in Clients : client'[u] = "unborn" <=> u > n + 1
  BY <1>1, <1>4, <1>6, LinkAssumption DEF LatestIs, Clients
<1>8. dropped' = 1..((n + 1) - 1)
  BY <1>1, <1>3, <1>4 DEF LatestIs
<1>9. client'[n + 1] = "connecting"
  BY <1>4, <1>6
<1>10. ASSUME ~raced'
       PROVE  /\ \A u \in 1..((n + 1) - 1) : client'[u] \in {"waiting", "gone"}
              /\ QueueTells(n + 1)'
  <2>1. ~raced /\ client[n] = "waiting"
    BY <1>3, <1>10
  <2>2. \A u \in 1..((n + 1) - 1) : client'[u] \in {"waiting", "gone"}
    BY <1>1, <1>4, <1>6, <2>1, LinkAssumption DEF LatestIs, Clients
  <2>3. EndsDown(events, connected, calendars)
    BY <1>1, <2>1 DEF LatestIs, QueueTells
  <2>4. EndsDown(events', connected', calendars')
    BY <1>3, <2>3 DEF EndsDown
  <2>5. QueueTells(n + 1)'
    BY <1>9, <2>4 DEF QueueTells
  <2> QED BY <2>2, <2>5
<1>11. LatestIs(n + 1)'
  BY <1>7, <1>8, <1>9, <1>10 DEF LatestIs
<1> QED BY <1>4, <1>5, <1>11 DEF StatusInv

LEMMA StatusStep ==
  ASSUME StatusInv, [LinkNext]_linkVars PROVE StatusInv'
<1>1. CASE \/ Broadcast
           \/ \E c \in Conns : ServerStep(c) \/ ReadAction(c) \/ Break(c)
           \/ UNCHANGED linkVars
  <2>1. UNCHANGED <<client, events, connected, calendars, dropped, raced>>
    BY <1>1 DEF Broadcast, ServerStep, SendInfo, Forward, ActionHandled, ReadEnd,
                ReadAction, Break, linkVars, clientVars, statusVars
  <2> QED BY <2>1, RestsUnchanged
<1>2. ASSUME NEW t \in Clients, NEW c \in Conns, ConnectSucceeds(t, c)
      PROVE  StatusInv'
  BY <1>2, ConnectKeepsStatus
<1>3. ASSUME NEW t \in Clients, Read(t) PROVE StatusInv'
  BY <1>3, ReadKeepsStatus
<1>4. ASSUME NEW t \in Clients, Disconnected(t) PROVE StatusInv'
  <2>1. PICK clean \in BOOLEAN : AttemptEnds(t, clean)
    BY <1>4 DEF Disconnected
  <2>2. client[t] = "connected" /\ UNCHANGED <<dropped, raced, connected, calendars>>
    BY <1>4 DEF Disconnected, statusVars
  <2> QED BY <2>1, <2>2, AttemptEndsKeepsStatus
<1>5. ASSUME NEW t \in Clients, ConnectFails(t) PROVE StatusInv'
  <2>1. /\ AttemptEnds(t, FALSE) /\ client[t] = "connecting"
        /\ UNCHANGED <<dropped, raced, connected, calendars>>
    BY <1>5 DEF ConnectFails, statusVars
  <2> QED BY <2>1, AttemptEndsKeepsStatus
<1>6. ASSUME NEW t \in Clients, GraceEnds(t) PROVE StatusInv'
  <2>1. /\ client[t] = "grace" /\ client' = [client EXCEPT ![t] = AfterReport(t)]
        /\ Post(t, "down") /\ UNCHANGED <<dropped, raced, connected, calendars>>
    BY <1>6 DEF GraceEnds, statusVars
  <2> QED BY <2>1, DownKeepsStatus
<1>7. ASSUME NEW t \in Clients, WaitEnds(t) PROVE StatusInv'
  BY <1>7, WaitEndsKeepsStatus
<1>8. CASE HandleEvent
  BY <1>8, HandleEventKeepsStatus
<1>9. CASE Reconnect
  BY <1>9, ReconnectKeepsStatus
<1> QED BY <1>1, <1>2, <1>3, <1>4, <1>5, <1>6, <1>7, <1>8, <1>9
        DEF LinkNext, ClientStep

LEMMA StatusInitially == LinkInit => StatusInv
<1> SUFFICES ASSUME LinkInit PROVE StatusInv
  OBVIOUS
<1>1. 1 \in Clients
  BY LinkAssumption DEF Clients
<1>2. StatusTypes
  <2>1. events = <<>> /\ connected = FALSE /\ calendars = FALSE /\ raced = FALSE
    BY DEF LinkInit
  <2>2. client \in [Clients -> {"unborn", "connecting", "connected", "grace",
                                "waiting", "gone"}]
    BY DEF LinkInit
  <2>3. events \in Seq(Event)
    BY <2>1
  <2>4. {connected, calendars, raced} \subseteq BOOLEAN
    BY <2>1, Zenon
  <2> QED BY <2>2, <2>3, <2>4 DEF StatusTypes
<1>3. EndsDown(events, connected, calendars)
  BY DEF LinkInit, EndsDown
<1>4. /\ \A t \in Clients : client[t] = IF t = 1 THEN "connecting" ELSE "unborn"
      /\ dropped = {}
  BY DEF LinkInit
<1>5. LatestIs(1)
  BY <1>1, <1>3, <1>4, LinkAssumption DEF LatestIs, QueueTells, Clients
<1> QED BY <1>1, <1>2, <1>5 DEF StatusInv

(* Once the event loop has caught up, the status it shows is that of the   *)
(* task it holds the handle of, and calendars are shown only of a server   *)
(* that is connected, unless a task was still at work when its handle was  *)
(* dropped or went on to work after that (user_event, reconnect_server).   *)
THEOREM ShownStatusIsTrue == LinkSafety => []StatusFollowsTask
<1>1. StatusInv => StatusFollowsTask
  <2> SUFFICES ASSUME StatusInv, ~raced, events = <<>>
      PROVE  /\ client[Latest] = "connected" => connected
             /\ client[Latest] \in {"connecting", "waiting"} => ~connected
             /\ calendars => connected
    BY DEF StatusFollowsTask, ShownIsTrue
  <2>1. PICK n \in Clients : LatestIs(n)
    BY DEF StatusInv
  <2>2. Latest = n
    BY <2>1, LatestValue DEF StatusInv
  <2>3. EndsUp(events, connected) => connected
    BY DEF EndsUp
  <2>4. EndsDown(events, connected, calendars) => ~connected /\ ~calendars
    BY DEF EndsDown
  <2>5. client[n] \in {"connecting", "connected", "grace", "waiting"}
    BY <2>1, LinkAssumption DEF StatusInv, StatusTypes, LatestIs, Clients
  <2>6. QueueTells(n)
    BY <2>1 DEF LatestIs
  <2> QED BY <2>2, <2>3, <2>4, <2>5, <2>6 DEF QueueTells
<1> QED BY <1>1, StatusInitially, StatusStep, PTL DEF LinkSafety
-----------------------------------------------------------------------------
(* The types of the link.                                                  *)

LinkTypes ==
  /\ sent \in Nat
  /\ loop \in [Conns -> {"unused", "info", "run", "action", "ended"}]
  /\ since \in [Conns -> Nat]
  /\ chan \in [Conns -> Seq(Nat)] /\ wire \in [Conns -> Seq(Nat)]
  /\ got \in [Conns -> Seq(Nat)] /\ owner \in [Conns -> 0..MaxTasks]
  /\ broken \subseteq Conns
  /\ conn \in [Clients -> 0..MaxConns]
  /\ \A t \in Clients : client[t] = "connected" <=> conn[t] # 0
  /\ backoff \in [Clients -> MinBackoff..MaxBackoff]
  /\ failed \subseteq Clients
  /\ failures \in Nat /\ clicks \in Nat

LEMMA ServerTypes ==
  ASSUME LinkTypes, StatusTypes, NEW c \in Conns, ServerStep(c) \/ ReadAction(c) \/ Break(c)
  PROVE  LinkTypes'
<1> USE DEF clientVars, statusVars, serverVars
<1>0. /\ <<>> \in Seq(Nat) /\ wire[c] \in Seq(Nat) /\ chan[c] \in Seq(Nat)
      /\ Append(wire[c], 0) \in Seq(Nat)
  BY DEF LinkTypes
<1>a. /\ loop \in [Conns -> {"unused", "info", "run", "action", "ended"}]
      /\ chan \in [Conns -> Seq(Nat)] /\ wire \in [Conns -> Seq(Nat)]
  BY DEF LinkTypes
<1>1. CASE SendInfo(c)
  <2>1. /\ loop' \in [Conns -> {"unused", "info", "run", "action", "ended"}]
        /\ chan' \in [Conns -> Seq(Nat)] /\ wire' \in [Conns -> Seq(Nat)]
    <3>1. \/ loop' = [loop EXCEPT ![c] = "ended"] /\ chan' = [chan EXCEPT ![c] = <<>>]
             /\ wire' = wire
          \/ loop' = [loop EXCEPT ![c] = "run"] /\ chan' = chan
             /\ wire' = [wire EXCEPT ![c] = Append(@, 0)]
      BY <1>1 DEF SendInfo, EndLoop
    <3> QED BY <1>0, <1>a, <3>1
  <2>2. UNCHANGED <<sent, since, got, owner, broken, conn, client, backoff, failed,
                    failures, clicks>>
    BY <1>1 DEF SendInfo
  <2> QED BY <2>1, <2>2 DEF LinkTypes
<1>2. CASE Forward(c)
  <2>1. chan[c] \in Seq(Nat) /\ chan[c] # <<>>
    BY <1>2 DEF Forward, LinkTypes
  <2>2. Head(chan[c]) \in Nat /\ Tail(chan[c]) \in Seq(Nat)
    BY <2>1
  <2>3. Append(wire[c], Head(chan[c])) \in Seq(Nat)
    BY <1>0, <2>2
  <2>4. /\ loop' \in [Conns -> {"unused", "info", "run", "action", "ended"}]
        /\ chan' \in [Conns -> Seq(Nat)] /\ wire' \in [Conns -> Seq(Nat)]
    <3>1. \/ loop' = [loop EXCEPT ![c] = "ended"] /\ chan' = [chan EXCEPT ![c] = <<>>]
             /\ wire' = wire
          \/ loop' = loop /\ chan' = [chan EXCEPT ![c] = Tail(chan[c])]
             /\ wire' = [wire EXCEPT ![c] = Append(wire[c], Head(chan[c]))]
      BY <1>2 DEF Forward, EndLoop
    <3> QED BY <1>0, <1>a, <2>2, <2>3, <3>1
  <2>5. UNCHANGED <<sent, since, got, owner, broken, conn, client, backoff, failed,
                    failures, clicks>>
    BY <1>2 DEF Forward
  <2> QED BY <2>4, <2>5 DEF LinkTypes
<1>3. CASE ReadAction(c)
  BY <1>3 DEF ReadAction, LinkTypes
<1>4. CASE ActionHandled(c)
  BY <1>4 DEF ActionHandled, LinkTypes
<1>5. CASE ReadEnd(c)
  BY <1>0, <1>5 DEF ReadEnd, EndLoop, LinkTypes
<1>6. CASE Break(c)
  BY <1>6 DEF Break, LinkTypes
<1> QED BY <1>1, <1>2, <1>3, <1>4, <1>5, <1>6 DEF ServerStep

LEMMA EndsTypes ==
  ASSUME LinkTypes, StatusTypes, NEW t \in Clients, NEW clean \in BOOLEAN,
         AttemptEnds(t, clean)
  PROVE  /\ conn' \in [Clients -> 0..MaxConns]
         /\ \A u \in Clients : client'[u] = "connected" <=> conn'[u] # 0
         /\ backoff' \in [Clients -> MinBackoff..MaxBackoff]
         /\ failed' \subseteq Clients
<1>1. MinBackoff \in MinBackoff..MaxBackoff /\ 0 \in 0..MaxConns
  BY LinkAssumption
<1>2. PICK stand \in {"grace", "waiting", "gone"} : client' = [client EXCEPT ![t] = stand]
  BY DEF AttemptEnds, AfterReport
<1>3. \A u \in Clients : client'[u] = "connected" <=> conn'[u] # 0
  BY <1>2 DEF AttemptEnds, LinkTypes, StatusTypes
<1> QED BY <1>1, <1>3 DEF AttemptEnds, LinkTypes

LEMMA ClientTypes ==
  ASSUME LinkTypes, StatusTypes, NEW t \in Clients, ClientStep(t) \/ ConnectFails(t)
  PROVE  LinkTypes'
<1> USE DEF clientVars, statusVars, serverVars
<1>1. ASSUME NEW c \in Conns, ConnectSucceeds(t, c) PROVE LinkTypes'
  <2>1. c # 0 /\ c \in 0..MaxConns /\ t \in 0..MaxTasks
    BY LinkAssumption DEF Conns, Clients
  <2>2. \A u \in Clients : client'[u] = "connected" <=> conn'[u] # 0
    BY <1>1, <2>1 DEF ConnectSucceeds, LinkTypes, StatusTypes
  <2> QED BY <1>1, <2>1, <2>2 DEF ConnectSucceeds, AddSubscriber, LinkTypes
<1>2. CASE Read(t)
  <2> DEFINE c == conn[t]
  <2>1. c \in Conns
    BY <1>2, LinkAssumption DEF Read, LinkTypes, Conns
  <2>2. wire[c] \in Seq(Nat) /\ wire[c] # <<>> /\ got[c] \in Seq(Nat)
    BY <1>2, <2>1 DEF Read, LinkTypes
  <2>3. Head(wire[c]) \in Nat /\ Tail(wire[c]) \in Seq(Nat)
    BY <2>2
  <2>4. Append(got[c], Head(wire[c])) \in Seq(Nat)
    BY <2>2, <2>3
  <2>5. /\ wire' = [wire EXCEPT ![c] = Tail(@)]
        /\ got' = got \/ got' = [got EXCEPT ![c] = Append(@, Head(wire[c]))]
    BY <1>2 DEF Read
  <2>0. wire \in [Conns -> Seq(Nat)] /\ got \in [Conns -> Seq(Nat)]
    BY DEF LinkTypes
  <2> HIDE DEF c
  <2>6. wire' \in [Conns -> Seq(Nat)] /\ got' \in [Conns -> Seq(Nat)]
    BY <2>0, <2>1, <2>3, <2>4, <2>5
  <2>7. UNCHANGED <<sent, loop, since, chan, owner, client, conn, backoff, failed, broken,
                    failures, clicks>>
    BY <1>2 DEF Read
  <2> QED BY <2>6, <2>7 DEF LinkTypes
<1>3. CASE Disconnected(t)
  <2>1. PICK clean \in BOOLEAN : AttemptEnds(t, clean)
    BY <1>3 DEF Disconnected
  <2>2. /\ conn' \in [Clients -> 0..MaxConns]
        /\ \A u \in Clients : client'[u] = "connected" <=> conn'[u] # 0
        /\ backoff' \in [Clients -> MinBackoff..MaxBackoff]
        /\ failed' \subseteq Clients
    BY <2>1, EndsTypes
  <2>3. /\ UNCHANGED <<sent, loop, since, chan, got, owner, broken, failures, clicks>>
        /\ wire' = [wire EXCEPT ![conn[t]] = <<>>]
    BY <1>3 DEF Disconnected
  <2>4. wire' \in [Conns -> Seq(Nat)]
    <3>1. wire \in [Conns -> Seq(Nat)] /\ <<>> \in Seq(Nat)
      BY DEF LinkTypes
    <3> QED BY <2>3, <3>1
  <2> QED BY <2>2, <2>3, <2>4 DEF LinkTypes
<1>4. CASE ConnectFails(t)
  <2>1. AttemptEnds(t, FALSE) /\ FALSE \in BOOLEAN
    BY <1>4 DEF ConnectFails
  <2>2. /\ conn' \in [Clients -> 0..MaxConns]
        /\ \A u \in Clients : client'[u] = "connected" <=> conn'[u] # 0
        /\ backoff' \in [Clients -> MinBackoff..MaxBackoff]
        /\ failed' \subseteq Clients
    BY <2>1, EndsTypes
  <2>3. /\ UNCHANGED <<sent, loop, since, chan, wire, got, owner, broken, clicks>>
        /\ failures' = failures + 1
    BY <1>4 DEF ConnectFails
  <2> QED BY <2>2, <2>3 DEF LinkTypes
<1>5. CASE GraceEnds(t)
  <2>1. \A u \in Clients : client'[u] = "connected" <=> conn'[u] # 0
    BY <1>5 DEF GraceEnds, AfterReport, LinkTypes, StatusTypes
  <2> QED BY <1>5, <2>1 DEF GraceEnds, LinkTypes
<1>6. CASE WaitEnds(t)
  <2>1. \A u \in Clients : client'[u] = "connected" <=> conn'[u] # 0
    BY <1>6 DEF WaitEnds, LinkTypes, StatusTypes
  <2>2. backoff' \in [Clients -> MinBackoff..MaxBackoff]
    <3>1. \A b \in MinBackoff..MaxBackoff :
            (IF 2 * b < MaxBackoff THEN 2 * b ELSE MaxBackoff) \in MinBackoff..MaxBackoff
      BY LinkAssumption
    <3>2. backoff[t] \in MinBackoff..MaxBackoff
      BY DEF LinkTypes
    <3> QED BY <1>6, <3>1, <3>2 DEF WaitEnds, LinkTypes
  <2> QED BY <1>6, <2>1, <2>2 DEF WaitEnds, LinkTypes
<1> QED BY <1>1, <1>2, <1>3, <1>4, <1>5, <1>6 DEF ClientStep

LEMMA BroadcastTypes ==
  ASSUME LinkTypes, Broadcast PROVE LinkTypes'
<1>1. \A c \in Conns : Append(chan[c], sent + 1) \in Seq(Nat) /\ chan[c] \in Seq(Nat)
  BY DEF LinkTypes
<1>2. chan' \in [Conns -> Seq(Nat)]
  BY <1>1 DEF Broadcast
<1> QED BY <1>2 DEF Broadcast, LinkTypes, clientVars, statusVars

LEMMA ReconnectTypes ==
  ASSUME LinkTypes, StatusInv, Reconnect PROVE LinkTypes'
<1>1. PICK n \in Clients : LatestIs(n)
  BY DEF StatusInv
<1>2. Latest = n /\ n < MaxTasks /\ n + 1 \in Clients /\ n + 1 > n
  BY <1>1, LatestValue, LinkAssumption DEF StatusInv, Reconnect, Clients
<1>3. client[n + 1] = "unborn"
  BY <1>1, <1>2 DEF LatestIs
<1>4. \A u \in Clients : client'[u] = "connected" <=> conn'[u] # 0
  BY <1>2, <1>3 DEF Reconnect, LinkTypes, StatusInv, StatusTypes
<1> QED BY <1>4 DEF Reconnect, LinkTypes, serverVars

LEMMA TypesStep ==
  ASSUME StatusInv, LinkTypes, [LinkNext]_linkVars PROVE LinkTypes'
<1>1. CASE UNCHANGED linkVars
  BY <1>1 DEF linkVars, serverVars, clientVars, LinkTypes
<1>2. CASE HandleEvent
  BY <1>2 DEF HandleEvent, serverVars, clientVars, LinkTypes
<1> QED BY <1>1, <1>2, BroadcastTypes, ServerTypes, ClientTypes, ReconnectTypes
        DEF LinkNext, StatusInv

LEMMA TypesInitially == LinkInit => LinkTypes
<1> SUFFICES ASSUME LinkInit PROVE LinkTypes
  OBVIOUS
<1>1. MinBackoff \in MinBackoff..MaxBackoff /\ 0 \in 0..MaxConns /\ 0 \in 0..MaxTasks
  BY LinkAssumption
<1>2. <<>> \in Seq(Nat)
  OBVIOUS
<1> QED BY <1>1, <1>2 DEF LinkInit, LinkTypes

(* Whatever connects, breaks and reconnects, a task is connected exactly   *)
(* while it holds a connection, and everything is of its type.             *)
THEOREM LinkIsWellTyped == LinkSafety => []LinkTypeOK
<1>1. ListInv /\ StatusInv /\ LinkTypes => LinkTypeOK
  <2> SUFFICES ASSUME ListInv, StatusInv, LinkTypes PROVE LinkTypeOK
    OBVIOUS
  <2>1. dropped \subseteq Clients
    BY LinkAssumption DEF StatusInv, LatestIs, Clients
  <2>2. {failures, clicks} \subseteq Nat
    BY DEF LinkTypes
  <2> QED BY <2>1, <2>2 DEF ListInv, StatusInv, StatusTypes, LinkTypes, LinkTypeOK
<1>2. LinkInit => ListInv
  BY DEF LinkInit, ListInv, RunningIsListed, Live
<1> QED BY <1>1, <1>2, ListStep, StatusInitially, StatusStep, TypesInitially, TypesStep,
           PTL DEF LinkSafety
-----------------------------------------------------------------------------
(* What a connection carries.                                              *)

(* s counts on from n.                                                     *)
Counts(s, n) == \A i \in 1..Len(s) : s[i] = n + i

Carries(c) == \E t \in Clients : conn[t] = c
Delivered(c) == since[c] + Len(got[c])
Underway(c) == Delivered(c) + Len(Carried(wire[c]))

(* Connections are taken in their order, each by one task, and a task      *)
(* holds the last one that it took.                                        *)
Owners ==
  /\ \A c, d \in Conns : c < d /\ loop[c] = "unused" => loop[d] = "unused"
  /\ \A c \in Conns : loop[c] = "unused" =>
       owner[c] = 0 /\ got[c] = <<>> /\ wire[c] = <<>> /\ chan[c] = <<>>
  /\ \A c \in Conns, t \in Clients : conn[t] = c =>
       owner[c] = t /\ \A d \in Conns : d > c => owner[d] # t

(* What was delivered, what is on the wire and what is in the channel are  *)
(* consecutive, as far as the connection holds.                            *)
Flow(c) ==
  /\ Counts(got[c], since[c]) /\ Delivered(c) <= sent
  /\ loop[c] = "info" => wire[c] = <<>> /\ got[c] = <<>>
  /\ Carries(c) =>
       /\ Counts(Carried(wire[c]), Delivered(c)) /\ Underway(c) <= sent
       /\ Live(c) => Counts(chan[c], Underway(c)) /\ Underway(c) + Len(chan[c]) = sent

InOrder ==
  \A c, d \in Conns : c < d /\ owner[c] = owner[d] /\ owner[c] # 0
    => Delivered(c) <= since[d]

GapInv == Owners /\ (\A c \in Conns : Flow(c)) /\ InOrder

LEMMA CountsOn ==
  ASSUME NEW s \in Seq(Nat), NEW n \in Nat, Counts(s, n)
  PROVE  /\ Counts(Append(s, n + Len(s) + 1), n)
         /\ Len(Append(s, n + Len(s) + 1)) = Len(s) + 1
<1> DEFINE r == Append(s, n + Len(s) + 1)
<1>1. /\ Len(r) = Len(s) + 1 /\ Len(s) \in Nat /\ r[Len(s) + 1] = n + Len(s) + 1
      /\ \A i \in 1..Len(s) : r[i] = s[i]
  OBVIOUS
<1> HIDE DEF r
<1>2. ASSUME NEW i \in 1..Len(r) PROVE r[i] = n + i
  <2>1. CASE i = Len(s) + 1
    BY <1>1, <2>1
  <2>2. CASE i \in 1..Len(s)
    BY <1>1, <2>2 DEF Counts
  <2> QED BY <1>1, <2>1, <2>2
<1> QED BY <1>1, <1>2 DEF Counts, r

LEMMA NatTail ==
  ASSUME NEW s \in Seq(Nat), s # <<>>
  PROVE  /\ Tail(s) \in Seq(Nat) /\ Len(s) \in Nat /\ Len(s) > 0
         /\ Len(Tail(s)) = Len(s) - 1 /\ Head(s) = s[1] /\ Head(s) \in Nat
         /\ \A i \in 1..(Len(s) - 1) : Tail(s)[i] = s[i + 1]
OBVIOUS

LEMMA CountsTail ==
  ASSUME NEW s \in Seq(Nat), s # <<>>, NEW n \in Nat, Counts(s, n)
  PROVE  /\ Head(s) = n + 1 /\ Counts(Tail(s), n + 1)
         /\ Len(Tail(s)) = Len(s) - 1 /\ Tail(s) \in Seq(Nat)
<1> DEFINE r == Tail(s)
<1>1. /\ r \in Seq(Nat) /\ Len(s) \in Nat /\ Len(s) > 0 /\ Len(r) = Len(s) - 1
      /\ Head(s) = s[1] /\ \A i \in 1..(Len(s) - 1) : r[i] = s[i + 1]
  BY NatTail
<1> HIDE DEF r
<1>2. \A i \in 1..Len(r) : r[i] = (n + 1) + i
  BY <1>1 DEF Counts
<1>3. s[1] = n + 1
  BY <1>1 DEF Counts
<1> QED BY <1>1, <1>2, <1>3 DEF Counts, r

LEMMA CarriedType ==
  ASSUME NEW s \in Seq(Nat)
  PROVE  Carried(s) \in Seq(Nat) /\ Len(Carried(s)) \in Nat /\ Len(s) \in Nat
<1>1. CASE s # <<>> /\ Head(s) = 0
  BY <1>1, NatTail DEF Carried
<1>2. CASE ~(s # <<>> /\ Head(s) = 0)
  BY <1>2 DEF Carried
<1> QED BY <1>1, <1>2

(* Messages that count carry no server-info.                               *)
LEMMA CarriedCounts ==
  ASSUME NEW s \in Seq(Nat), NEW n \in Nat, Counts(s, n) PROVE Carried(s) = s
BY CountsTail DEF Carried

LEMMA CarriedAppend ==
  ASSUME NEW s \in Seq(Nat), NEW m \in Nat \ {0}
  PROVE  Carried(Append(s, m)) = Append(Carried(s), m)
<1> DEFINE r == Append(s, m)
<1>1. /\ r \in Seq(Nat) /\ r # <<>> /\ Len(s) \in Nat
  OBVIOUS
<1>2. CASE s = <<>>
  <2>1. r = <<m>> /\ Head(r) = m
    BY <1>2
  <2> QED BY <1>2, <2>1 DEF Carried
<1>3. CASE s # <<>>
  <2>1. Head(r) = Head(s) /\ Tail(r) = Append(Tail(s), m)
    BY <1>3
  <2> QED BY <1>1, <1>3, <2>1 DEF Carried
<1> QED BY <1>2, <1>3

LEMMA FlowNumbers ==
  ASSUME LinkTypes, NEW c \in Conns
  PROVE  /\ got[c] \in Seq(Nat) /\ wire[c] \in Seq(Nat) /\ chan[c] \in Seq(Nat)
         /\ Len(got[c]) \in Nat /\ Len(chan[c]) \in Nat
         /\ Carried(wire[c]) \in Seq(Nat) /\ Len(Carried(wire[c])) \in Nat
         /\ since[c] \in Nat /\ Delivered(c) \in Nat /\ Underway(c) \in Nat
         /\ sent \in Nat
<1>1. /\ got[c] \in Seq(Nat) /\ wire[c] \in Seq(Nat) /\ chan[c] \in Seq(Nat)
      /\ since[c] \in Nat /\ sent \in Nat
  BY DEF LinkTypes
<1>2. /\ Len(got[c]) \in Nat /\ Len(chan[c]) \in Nat
      /\ Carried(wire[c]) \in Seq(Nat) /\ Len(Carried(wire[c])) \in Nat
  BY <1>1, CarriedType
<1> QED BY <1>1, <1>2 DEF Delivered, Underway

LEMMA OtherFlows ==
  ASSUME NEW d \in Conns, Flow(d), sent' = sent,
         loop'[d] = loop[d], since'[d] = since[d], chan'[d] = chan[d],
         wire'[d] = wire[d], got'[d] = got[d], Carries(d)' => Carries(d)
  PROVE  Flow(d)'
<1>1. /\ Delivered(d)' = Delivered(d) /\ Underway(d)' = Underway(d)
      /\ Live(d)' = Live(d)
  BY DEF Delivered, Underway, Live
<1> QED BY <1>1 DEF Flow

(* Nothing is delivered or taken: who holds what stays in order.           *)
LEMMA OwnersRest ==
  ASSUME LinkTypes, Owners, InOrder, UNCHANGED <<since, got, owner>>,
         \A d \in Conns : loop'[d] = "unused" <=> loop[d] = "unused",
         \A d \in Conns : loop[d] = "unused" => wire'[d] = wire[d] /\ chan'[d] = chan[d],
         \A t \in Clients : conn'[t] \in {conn[t], 0}
  PROVE  Owners' /\ InOrder'
<1>1. 0 \notin Conns
  BY DEF Conns
<1>2. Owners'
  BY <1>1 DEF Owners
<1> QED BY <1>2 DEF InOrder, Delivered

LEMMA BroadcastFlows ==
  ASSUME ListInv, LinkTypes, GapInv, Broadcast PROVE GapInv'
<1>1. /\ UNCHANGED <<loop, since, got, owner, conn, wire>> /\ sent' = sent + 1
      /\ chan' = [c \in Conns |-> IF c \in subscribers /\ Live(c)
                                  THEN Append(chan[c], sent + 1) ELSE chan[c]]
  BY DEF Broadcast, clientVars
<1>2. \A c \in Conns : loop[c] = "unused" => chan'[c] = chan[c]
  BY <1>1 DEF Live
<1>3. Owners' /\ InOrder'
  BY <1>1, <1>2, OwnersRest DEF GapInv
<1>4. ASSUME NEW c \in Conns PROVE Flow(c)'
  <2>1. /\ Flow(c) /\ Delivered(c)' = Delivered(c) /\ Underway(c)' = Underway(c)
        /\ Live(c)' = Live(c) /\ Carries(c)' = Carries(c)
    BY <1>1 DEF GapInv, Delivered, Underway, Live, Carries
  <2>2. /\ chan[c] \in Seq(Nat) /\ Len(chan[c]) \in Nat /\ sent \in Nat
        /\ Delivered(c) \in Nat /\ Underway(c) \in Nat
    BY FlowNumbers
  <2>3. ASSUME Live(c), Carries(c)
        PROVE  Counts(chan'[c], Underway(c)) /\ Underway(c) + Len(chan'[c]) = sent'
    <3>1. chan'[c] = Append(chan[c], sent + 1)
      BY <1>1, <2>3 DEF ListInv, RunningIsListed
    <3>2. Counts(chan[c], Underway(c)) /\ Underway(c) + Len(chan[c]) = sent
      BY <2>1, <2>3 DEF Flow
    <3>3. chan'[c] = Append(chan[c], Underway(c) + Len(chan[c]) + 1)
      BY <3>1, <3>2
    <3>4. /\ Counts(chan'[c], Underway(c)) /\ Len(chan'[c]) = Len(chan[c]) + 1
      BY <2>2, <3>2, <3>3, CountsOn
    <3>5. Underway(c) + (Len(chan[c]) + 1) = sent + 1
      BY <2>2, <3>2
    <3> QED BY <1>1, <3>4, <3>5
  <2> QED BY <1>1, <2>1, <2>2, <2>3 DEF Flow
<1> QED BY <1>3, <1>4 DEF GapInv

LEMMA ServerFlows ==
  ASSUME LinkTypes, GapInv, NEW c \in Conns,
         ServerStep(c) \/ ReadAction(c) \/ Break(c)
  PROVE  GapInv'
<1>1. /\ UNCHANGED <<sent, since, got, owner, conn>>
      /\ \A d \in Conns \ {c} : UNCHANGED <<loop[d], chan[d], wire[d]>>
  <2>1. UNCHANGED <<sent, since, got, owner, conn>>
    BY DEF ServerStep, SendInfo, Forward, ActionHandled, ReadEnd, ReadAction, Break,
           clientVars, serverVars
  <2>2. ASSUME NEW d \in Conns \ {c} PROVE UNCHANGED <<loop[d], chan[d], wire[d]>>
    BY <2>2 DEF ServerStep, SendInfo, Forward, ActionHandled, ReadEnd, ReadAction, Break,
                EndLoop, clientVars, serverVars, LinkTypes
  <2> QED BY <2>1, <2>2
<1>2. (loop'[c] = "unused" <=> loop[c] = "unused")
      /\ (loop[c] = "unused" => wire'[c] = wire[c] /\ chan'[c] = chan[c])
  BY DEF ServerStep, SendInfo, Forward, ActionHandled, ReadEnd, ReadAction, Break,
         EndLoop, serverVars, LinkTypes
<1>3. Owners' /\ InOrder'
  <2>1. \A d \in Conns : loop'[d] = "unused" <=> loop[d] = "unused"
    BY <1>1, <1>2
  <2>2. \A d \in Conns : loop[d] = "unused" => wire'[d] = wire[d] /\ chan'[d] = chan[d]
    BY <1>1, <1>2
  <2> QED BY <1>1, <2>1, <2>2, OwnersRest DEF GapInv
<1>4. ASSUME NEW d \in Conns \ {c} PROVE Flow(d)'
  BY <1>1, <1>4, OtherFlows DEF GapInv, Carries
<1>5. Flow(c) /\ Delivered(c)' = Delivered(c) /\ Carries(c)' = Carries(c)
  BY <1>1 DEF GapInv, Delivered, Carries
<1>6. /\ chan[c] \in Seq(Nat) /\ wire[c] \in Seq(Nat) /\ Carried(wire[c]) \in Seq(Nat)
      /\ Len(chan[c]) \in Nat /\ Len(Carried(wire[c])) \in Nat
      /\ Delivered(c) \in Nat /\ Underway(c) \in Nat /\ sent \in Nat
  BY FlowNumbers
<1>7. Flow(c)'
  (* The loop ends, or is about to: nothing more comes through.            *)
  <2>1. CASE loop'[c] = "ended" /\ wire'[c] = wire[c]
    <3>1. Underway(c)' = Underway(c) /\ ~Live(c)'
      BY <1>5, <2>1 DEF Underway, Live
    <3> QED BY <1>1, <1>5, <2>1, <3>1 DEF Flow
  <2>2. CASE SendInfo(c) /\ c \notin broken
    <3>1. /\ loop[c] = "info" /\ loop'[c] = "run" /\ chan'[c] = chan[c]
          /\ wire'[c] = Append(wire[c], 0)
      BY <2>2 DEF SendInfo, LinkTypes
    <3>2. wire[c] = <<>>
      BY <1>5, <3>1 DEF Flow
    <3>3. Carried(wire[c]) = <<>> /\ Carried(wire'[c]) = <<>>
      BY <3>1, <3>2 DEF Carried
    <3>4. Underway(c)' = Underway(c) /\ Live(c)
      BY <1>5, <3>1, <3>3 DEF Underway, Live
    <3> QED BY <1>1, <1>5, <3>1, <3>3, <3>4 DEF Flow
  <2>3. CASE Forward(c) /\ c \notin broken
    <3> DEFINE m == Head(chan[c])
    <3>1. /\ loop[c] = "run" /\ loop'[c] = "run" /\ chan[c] # <<>>
          /\ chan'[c] = Tail(chan[c]) /\ wire'[c] = Append(wire[c], m)
      BY <2>3 DEF Forward, LinkTypes
    <3>2. ASSUME Carries(c)
          PROVE  /\ Counts(Carried(wire'[c]), Delivered(c))
                 /\ Counts(chan'[c], Underway(c) + 1)
                 /\ Underway(c)' = Underway(c) + 1
                 /\ Underway(c) + 1 + Len(chan'[c]) = sent
      <4>1. /\ Counts(Carried(wire[c]), Delivered(c)) /\ Counts(chan[c], Underway(c))
            /\ Underway(c) + Len(chan[c]) = sent
        BY <1>5, <3>1, <3>2 DEF Flow, Live
      <4>2. /\ m = Underway(c) + 1 /\ Counts(Tail(chan[c]), Underway(c) + 1)
            /\ Len(Tail(chan[c])) = Len(chan[c]) - 1
        BY <1>6, <3>1, <4>1, CountsTail
      <4>3. Carried(wire'[c]) = Append(Carried(wire[c]), m)
        <5>1. m \in Nat \ {0}
          BY <1>6, <4>2
        <5> HIDE DEF m
        <5> QED BY <1>6, <3>1, <5>1, CarriedAppend
      <4>4. m = Delivered(c) + Len(Carried(wire[c])) + 1
        BY <4>2 DEF Underway
      <4>5. /\ Counts(Carried(wire'[c]), Delivered(c))
            /\ Len(Carried(wire'[c])) = Len(Carried(wire[c])) + 1
        BY <1>6, <4>1, <4>3, <4>4, CountsOn
      <4>6. Underway(c)' = Underway(c) + 1
        BY <1>5, <1>6, <4>5 DEF Underway
      <4> QED BY <1>6, <3>1, <4>1, <4>2, <4>5, <4>6
    <3>3. Carries(c) => Underway(c)' <= sent
      <4>1. chan'[c] \in Seq(Nat)
        BY <1>6, <3>1, NatTail
      <4>2. Len(chan'[c]) \in Nat
        BY <4>1
      <4> QED BY <1>6, <3>2, <4>2
    <3> QED BY <1>1, <1>5, <3>1, <3>2, <3>3, SMTT(30) DEF Flow
  <2>4. CASE /\ wire'[c] = wire[c] /\ chan'[c] = chan[c] /\ Live(c)' = Live(c)
             /\ loop'[c] = "info" => loop[c] = "info"
    <3>1. Underway(c)' = Underway(c)
      BY <1>5, <2>4 DEF Underway
    <3> QED BY <1>1, <1>5, <2>4, <3>1 DEF Flow
  <2>5. loop \in [Conns -> {"unused", "info", "run", "action", "ended"}]
    BY DEF LinkTypes
  <2>6. CASE SendInfo(c) \/ Forward(c)
    <3>1. c \in broken => loop'[c] = "ended" /\ wire'[c] = wire[c]
      BY <2>5, <2>6 DEF SendInfo, Forward, EndLoop
    <3> QED BY <2>1, <2>2, <2>3, <2>6, <3>1
  <2>7. CASE ActionHandled(c) \/ ReadAction(c) \/ Break(c)
    <3>1. /\ wire'[c] = wire[c] /\ chan'[c] = chan[c]
          /\ \/ loop'[c] = loop[c]
             \/ loop[c] \in {"run", "action"} /\ loop'[c] \in {"run", "action"}
      BY <2>5, <2>7 DEF ActionHandled, ReadAction, Break, serverVars
    <3> QED BY <2>4, <3>1 DEF Live
  <2>8. CASE ReadEnd(c)
    <3>1. loop'[c] = "ended" /\ wire'[c] = wire[c]
      BY <2>5, <2>8 DEF ReadEnd, EndLoop
    <3> QED BY <2>1, <3>1
  <2> QED BY <2>6, <2>7, <2>8 DEF ServerStep
<1>8. \A d \in Conns : Flow(d)'
  BY <1>4, <1>7
<1> QED BY <1>3, <1>8 DEF GapInv

(* A new connection starts at what has been broadcast so far, which is not *)
(* before what the task has had of earlier ones.                           *)
LEMMA ConnectFlows ==
  ASSUME LinkTypes, GapInv, NEW t \in Clients, NEW c \in Conns, ConnectSucceeds(t, c)
  PROVE  GapInv'
<1>1. /\ loop[c] = "unused" /\ \A d \in Conns : loop[d] = "unused" => c <= d
      /\ loop' = [loop EXCEPT ![c] = "info"] /\ since' = [since EXCEPT ![c] = sent]
      /\ owner' = [owner EXCEPT ![c] = t] /\ conn' = [conn EXCEPT ![t] = c]
      /\ UNCHANGED <<sent, chan, wire, got>>
  BY DEF ConnectSucceeds, AddSubscriber
<1>2. /\ owner[c] = 0 /\ got[c] = <<>> /\ wire[c] = <<>> /\ chan[c] = <<>>
      /\ t # 0 /\ \A d \in Conns : d > c => loop[d] = "unused" /\ owner[d] = 0
  BY <1>1 DEF GapInv, Owners, Clients
<1>3. /\ loop'[c] = "info" /\ since'[c] = sent /\ owner'[c] = t /\ conn'[t] = c
      /\ \A d \in Conns \ {c} : UNCHANGED <<loop[d], since[d], owner[d]>>
      /\ \A u \in Clients \ {t} : conn'[u] = conn[u]
      /\ sent \in Nat
  BY <1>1 DEF LinkTypes
<1>4. Owners'
  <2>1. \A a, b \in Conns : a < b /\ loop'[a] = "unused" => loop'[b] = "unused"
    BY <1>1, <1>2, <1>3 DEF GapInv, Owners, Conns
  <2>2. \A d \in Conns : loop'[d] = "unused" =>
          owner'[d] = 0 /\ got'[d] = <<>> /\ wire'[d] = <<>> /\ chan'[d] = <<>>
    BY <1>1, <1>3 DEF GapInv, Owners
  <2>3. ASSUME NEW d \in Conns, NEW u \in Clients, conn'[u] = d
        PROVE  owner'[d] = u /\ \A e \in Conns : e > d => owner'[e] # u
    <3>1. CASE u = t
      <4>1. d = c
        BY <1>3, <2>3, <3>1
      <4> QED BY <1>2, <1>3, <3>1, <4>1 DEF Conns
    <3>2. CASE u # t
      <4>1. conn[u] = d
        BY <1>3, <2>3, <3>2
      <4>2. owner[d] = u /\ \A e \in Conns : e > d => owner[e] # u
        BY <4>1 DEF GapInv, Owners
      <4>3. d # c
        BY <1>2, <4>2 DEF Clients
      <4> QED BY <1>3, <3>2, <4>2, <4>3
    <3> QED BY <3>1, <3>2
  <2> QED BY <2>1, <2>2, <2>3 DEF Owners
<1>5. ASSUME NEW d \in Conns PROVE Flow(d)'
  <2>1. CASE d = c
    <3>1. /\ got'[c] = <<>> /\ wire'[c] = <<>> /\ chan'[c] = <<>> /\ Carried(<<>>) = <<>>
          /\ Len(<<>>) = 0 /\ \A n : Counts(<<>>, n)
      BY <1>1, <1>2 DEF Carried, Counts
    <3>2. Delivered(c)' = sent /\ Underway(c)' = sent
      BY <1>3, <3>1 DEF Delivered, Underway
    <3> QED BY <1>1, <1>3, <2>1, <3>1, <3>2 DEF Flow
  <2>2. CASE d # c
    <3>1. Carries(d)' => Carries(d)
      BY <1>3, <2>2 DEF Carries
    <3> QED BY <1>1, <1>3, <2>2, <3>1, OtherFlows DEF GapInv
  <2> QED BY <2>1, <2>2
<1>6. InOrder'
  <2> SUFFICES ASSUME NEW a \in Conns, NEW b \in Conns, a < b,
                      owner'[a] = owner'[b], owner'[a] # 0
               PROVE  Delivered(a)' <= since'[b]
    BY DEF InOrder
  <2>1. a # c
    BY <1>2, <1>3 DEF Conns
  <2>2. Delivered(a)' = Delivered(a) /\ Delivered(a) <= sent
    BY <1>1, <1>3, <2>1 DEF Delivered, GapInv, Flow
  <2>3. CASE b = c
    BY <1>3, <2>2, <2>3
  <2>4. CASE b # c
    BY <1>3, <2>1, <2>2, <2>4 DEF GapInv, InOrder
  <2> QED BY <2>3, <2>4
<1> QED BY <1>4, <1>5, <1>6 DEF GapInv

LEMMA ReadFlows ==
  ASSUME LinkTypes, GapInv, NEW t \in Clients, Read(t) PROVE GapInv'
<1> DEFINE c == conn[t]
           m == Head(wire[c])
<1>1. /\ c \in Conns /\ wire[c] # <<>>
      /\ wire' = [wire EXCEPT ![c] = Tail(@)]
      /\ got' = IF m = 0 THEN got ELSE [got EXCEPT ![c] = Append(@, m)]
      /\ UNCHANGED <<sent, loop, since, chan, owner, conn>>
  <2>1. c \in Conns
    BY LinkAssumption DEF Read, LinkTypes, Conns
  <2> QED BY <2>1 DEF Read, serverVars
<1>2. /\ Carries(c) /\ Flow(c) /\ owner[c] = t
      /\ \A d \in Conns : d > c => owner[d] # t
  BY <1>1 DEF Carries, GapInv, Owners
<1>3. /\ chan[c] \in Seq(Nat) /\ wire[c] \in Seq(Nat) /\ got[c] \in Seq(Nat)
      /\ Len(got[c]) \in Nat /\ Len(Carried(wire[c])) \in Nat /\ since[c] \in Nat
      /\ Delivered(c) \in Nat /\ Underway(c) \in Nat /\ sent \in Nat
      /\ Carried(wire[c]) \in Seq(Nat)
  BY <1>1, FlowNumbers
<1>4. /\ Counts(Carried(wire[c]), Delivered(c)) /\ Counts(got[c], since[c])
      /\ Underway(c) <= sent /\ loop[c] # "info" /\ loop[c] # "unused"
  BY <1>1, <1>2 DEF Flow, GapInv, Owners
<1>5. /\ wire'[c] = Tail(wire[c]) /\ wire'[c] \in Seq(Nat)
      /\ \A d \in Conns \ {c} : UNCHANGED <<wire[d], got[d]>>
  BY <1>1, <1>3, NatTail DEF LinkTypes
<1>6. /\ Counts(got'[c], since[c]) /\ Counts(Carried(wire'[c]), Delivered(c)')
      /\ Underway(c)' = Underway(c) /\ Delivered(c)' <= sent
      /\ Delivered(c)' \in Nat
  <2>1. CASE m = 0
    <3>1. Carried(wire[c]) = Tail(wire[c]) /\ got' = got
      BY <1>1, <2>1 DEF Carried
    <3>2. Carried(wire'[c]) = Carried(wire[c])
      BY <1>3, <1>4, <1>5, <3>1, CarriedCounts
    <3>3. Delivered(c)' = Delivered(c) /\ Underway(c)' = Underway(c)
      BY <1>1, <3>1, <3>2 DEF Delivered, Underway
    <3> QED BY <1>2, <1>3, <1>4, <3>1, <3>2, <3>3 DEF Flow
  <2>2. CASE m # 0
    <3>1. Carried(wire[c]) = wire[c]
      BY <2>2 DEF Carried
    <3>2. /\ m = Delivered(c) + 1 /\ Counts(wire'[c], Delivered(c) + 1)
          /\ Len(wire'[c]) = Len(wire[c]) - 1
      BY <1>1, <1>3, <1>4, <1>5, <3>1, CountsTail, SMTT(30)
    <3>3. Carried(wire'[c]) = wire'[c] /\ Carried(wire[c]) = wire[c]
      <4>1. Delivered(c) + 1 \in Nat
        BY <1>3
      <4> QED BY <1>5, <3>1, <3>2, <4>1, CarriedCounts
    <3>4. got'[c] = Append(got[c], since[c] + Len(got[c]) + 1)
      BY <1>1, <2>2, <3>2 DEF Delivered, LinkTypes
    <3>5. Counts(got'[c], since[c]) /\ Len(got'[c]) = Len(got[c]) + 1
      BY <1>3, <1>4, <3>4, CountsOn
    <3>6. Delivered(c)' = Delivered(c) + 1
      <4>1. Delivered(c)' = since[c] + Len(got'[c])
        BY <1>1 DEF Delivered
      <4>2. since[c] + (Len(got[c]) + 1) = since[c] + Len(got[c]) + 1
        BY <1>3
      <4> QED BY <3>5, <4>1, <4>2 DEF Delivered
    <3>7. Underway(c)' = Underway(c)
      <4>1. Underway(c)' = Delivered(c)' + Len(wire'[c])
        BY <1>1, <3>3 DEF Underway
      <4>2. Underway(c) = Delivered(c) + Len(wire[c]) /\ Len(wire[c]) \in Nat
        BY <1>3, <3>1 DEF Underway
      <4>3. Delivered(c) + 1 + (Len(wire[c]) - 1) = Delivered(c) + Len(wire[c])
        BY <1>3, <4>2
      <4> QED BY <3>2, <3>6, <4>1, <4>2, <4>3
    <3>8. /\ Len(wire[c]) > 0 /\ Len(wire[c]) \in Nat
          /\ Underway(c) = Delivered(c) + Len(wire[c])
      BY <1>1, <1>3, <3>1, NatTail DEF Underway
    <3> QED BY <1>3, <1>4, <3>1, <3>2, <3>3, <3>5, <3>6, <3>7, <3>8, SMTT(30)
  <2> QED BY <2>1, <2>2
<1>7. ASSUME NEW d \in Conns PROVE Flow(d)'
  <2>1. CASE d = c
    <3>1. Live(c)' = Live(c) /\ Carries(c)' = Carries(c)
      BY <1>1 DEF Live, Carries
    <3> QED BY <1>1, <1>2, <1>4, <1>6, <2>1, <3>1 DEF Flow
  <2>2. CASE d # c
    <3>1. Carries(d)' = Carries(d)
      BY <1>1 DEF Carries
    <3> QED BY <1>1, <1>5, <2>2, <3>1, OtherFlows DEF GapInv
  <2> QED BY <2>1, <2>2
<1>8. Owners'
  <2>1. \A d \in Conns : loop[d] = "unused" => d # c
    BY <1>4
  <2> QED BY <1>1, <1>5, <2>1 DEF GapInv, Owners
<1>9. InOrder'
  <2> SUFFICES ASSUME NEW a \in Conns, NEW b \in Conns, a < b,
                      owner[a] = owner[b], owner[a] # 0
               PROVE  Delivered(a)' <= since[b]
    BY <1>1 DEF InOrder
  <2>1. a # c
    BY <1>1, <1>2 DEF Conns
  <2>2. Delivered(a)' = Delivered(a)
    BY <1>1, <1>5, <2>1 DEF Delivered
  <2> QED BY <2>2 DEF GapInv, InOrder
<1> QED BY <1>7, <1>8, <1>9 DEF GapInv

(* Without a connection a task leaves what was on its wire.                *)
LEMMA EndFlows ==
  ASSUME LinkTypes, GapInv, NEW t \in Clients, Disconnected(t) \/ ConnectFails(t)
  PROVE  GapInv'
<1>1. /\ conn' = [conn EXCEPT ![t] = 0]
      /\ UNCHANGED <<sent, loop, since, chan, got, owner>>
  BY DEF Disconnected, ConnectFails, AttemptEnds, serverVars
<1>2. /\ wire' = [wire EXCEPT ![conn[t]] = <<>>] \/ wire' = wire
  BY DEF Disconnected, ConnectFails
<1>3. \A u \in Clients : conn'[u] = IF u = t THEN 0 ELSE conn[u]
  BY <1>1 DEF LinkTypes
<1>4. \A d \in Conns : wire'[d] = wire[d] \/ (conn[t] = d /\ wire'[d] = <<>>)
  BY <1>2 DEF LinkTypes
<1>5. \A d \in Conns : loop[d] = "unused" => wire'[d] = wire[d]
  BY <1>4 DEF GapInv, Owners
<1>6. Owners' /\ InOrder'
  BY <1>1, <1>3, <1>5, OwnersRest DEF GapInv
<1>7. ASSUME NEW d \in Conns PROVE Flow(d)'
  <2>1. Carries(d)' => Carries(d) /\ wire'[d] = wire[d]
    <3>1. SUFFICES ASSUME Carries(d)' PROVE Carries(d) /\ wire'[d] = wire[d]
      OBVIOUS
    <3>2. PICK u \in Clients : conn'[u] = d
      BY <3>1 DEF Carries
    <3>3. d # 0
      BY DEF Conns
    <3>4. u # t /\ conn[u] = d
      BY <1>3, <3>2, <3>3
    <3>5. conn[t] # d
      BY <3>4 DEF GapInv, Owners
    <3> QED BY <1>4, <3>4, <3>5 DEF Carries
  <2>2. CASE Carries(d)'
    BY <1>1, <2>1, <2>2, OtherFlows DEF GapInv
  <2>3. CASE ~Carries(d)'
    <3>1. Delivered(d)' = Delivered(d) /\ (wire[d] = <<>> => wire'[d] = <<>>)
      BY <1>1, <1>4 DEF Delivered
    <3> QED BY <1>1, <2>3, <3>1 DEF GapInv, Flow
  <2> QED BY <2>2, <2>3
<1> QED BY <1>6, <1>7 DEF GapInv

LEMMA GapStep ==
  ASSUME ListInv, LinkTypes, GapInv, [LinkNext]_linkVars PROVE GapInv'
<1>1. CASE \/ \E t \in Clients : GraceEnds(t) \/ WaitEnds(t)
           \/ HandleEvent \/ Reconnect \/ UNCHANGED linkVars
  <2>1. UNCHANGED <<sent, loop, since, chan, wire, got, owner, conn>>
    BY <1>1 DEF GraceEnds, WaitEnds, HandleEvent, Reconnect, linkVars, serverVars,
                clientVars
  <2>2. Owners' /\ InOrder'
    BY <2>1, OwnersRest DEF GapInv
  <2>3. \A d \in Conns : Flow(d)'
    BY <2>1, OtherFlows DEF GapInv, Carries
  <2> QED BY <2>2, <2>3 DEF GapInv
<1> QED BY <1>1, BroadcastFlows, ServerFlows, ConnectFlows, ReadFlows, EndFlows
        DEF LinkNext, ClientStep

LEMMA GapInitially == LinkInit => GapInv
<1> SUFFICES ASSUME LinkInit PROVE GapInv
  OBVIOUS
<1>1. /\ sent = 0
      /\ \A c \in Conns : /\ loop[c] = "unused" /\ since[c] = 0 /\ owner[c] = 0
                          /\ chan[c] = <<>> /\ wire[c] = <<>> /\ got[c] = <<>>
      /\ \A t \in Clients : conn[t] = 0
  BY DEF LinkInit
<1>2. \A c \in Conns : c # 0 /\ ~Carries(c)
  BY <1>1 DEF Conns, Carries
<1>3. Owners /\ InOrder
  BY <1>1, <1>2 DEF Owners, InOrder
<1>4. \A c \in Conns : Flow(c)
  BY <1>1, <1>2 DEF Flow, Counts, Delivered
<1> QED BY <1>3, <1>4 DEF GapInv

(* Consecutive parts are one slice.                                        *)
LEMMA CountsIsSlice ==
  ASSUME NEW s \in Seq(Nat), NEW n \in Nat, Counts(s, n)
  PROVE  s = Slice(n, n + Len(s))
<1>1. Len(s) \in Nat /\ DOMAIN s = 1..Len(s) /\ (n + Len(s)) - n = Len(s)
      /\ s = [i \in 1..Len(s) |-> s[i]]
  OBVIOUS
<1> QED BY <1>1 DEF Counts, Slice

LEMMA CountsConcat ==
  ASSUME NEW s \in Seq(Nat), NEW r \in Seq(Nat), NEW n \in Nat,
         Counts(s, n), Counts(r, n + Len(s))
  PROVE  Counts(s \o r, n) /\ s \o r \in Seq(Nat) /\ Len(s \o r) = Len(s) + Len(r)
<1>1. /\ s \o r \in Seq(Nat) /\ Len(s \o r) = Len(s) + Len(r)
      /\ Len(s) \in Nat /\ Len(r) \in Nat
  OBVIOUS
<1>2. \A i \in 1..(Len(s) + Len(r)) :
        (s \o r)[i] = IF i <= Len(s) THEN s[i] ELSE r[i - Len(s)]
  OBVIOUS
<1>3. \A i \in 1..(Len(s) + Len(r)) : (s \o r)[i] = n + i
  BY <1>1, <1>2 DEF Counts
<1> QED BY <1>1, <1>3 DEF Counts

(* No daemon misses or repeats a broadcast while it is connected, and none *)
(* over its reconnects, for any interleaving of broadcasts with the loop   *)
(* of the connection, the actions it awaits and the daemon's reads         *)
(* (ws_client_loop, read_loop).                                            *)
THEOREM NothingIsSkipped == LinkSafety => []NoGapsWhileConnected
<1>1. LinkTypes /\ GapInv => NoGapsWhileConnected
  <2> SUFFICES ASSUME LinkTypes, GapInv PROVE NoGapsWhileConnected
    OBVIOUS
  <2>1. ASSUME NEW c \in Conns, Live(c), Carries(c)
        PROVE  got[c] \o Carried(wire[c]) \o chan[c] = Slice(since[c], sent)
    <3> DEFINE w == Carried(wire[c])
    <3>1. /\ Counts(got[c], since[c]) /\ Counts(w, since[c] + Len(got[c]))
          /\ Counts(chan[c], since[c] + Len(got[c]) + Len(w))
          /\ since[c] + Len(got[c]) + Len(w) + Len(chan[c]) = sent
      BY <2>1 DEF GapInv, Flow, Delivered, Underway
    <3>2. /\ got[c] \in Seq(Nat) /\ w \in Seq(Nat) /\ chan[c] \in Seq(Nat)
          /\ Len(got[c]) \in Nat /\ Len(w) \in Nat /\ Len(chan[c]) \in Nat
          /\ since[c] \in Nat
      BY FlowNumbers
    <3> HIDE DEF w
    <3>3. /\ Counts(got[c] \o w, since[c]) /\ got[c] \o w \in Seq(Nat)
          /\ Len(got[c] \o w) = Len(got[c]) + Len(w)
      BY <3>1, <3>2, CountsConcat
    <3>4. Counts(chan[c], since[c] + Len(got[c] \o w))
      <4>1. since[c] + Len(got[c] \o w) = since[c] + Len(got[c]) + Len(w)
        BY <3>2, <3>3
      <4> QED BY <3>1, <4>1
    <3>5. /\ Counts(got[c] \o w \o chan[c], since[c])
          /\ got[c] \o w \o chan[c] \in Seq(Nat)
          /\ Len(got[c] \o w \o chan[c]) = Len(got[c]) + Len(w) + Len(chan[c])
      BY <3>2, <3>3, <3>4, CountsConcat
    <3>6. since[c] + Len(got[c] \o w \o chan[c]) = sent
      <4> DEFINE n == Len(got[c] \o w \o chan[c])
                 g == Len(got[c])
                 h == Len(w)
                 k == Len(chan[c])
      <4>1. /\ n = g + h + k /\ since[c] + g + h + k = sent
            /\ g \in Nat /\ h \in Nat /\ k \in Nat /\ since[c] \in Nat
        BY <3>1, <3>2, <3>5
      <4> HIDE DEF n, g, h, k
      <4>2. since[c] + n = sent
        BY <4>1
      <4> QED BY <4>2 DEF n
    <3>7. got[c] \o w \o chan[c] = Slice(since[c], since[c] + Len(got[c] \o w \o chan[c]))
      BY <3>2, <3>5, CountsIsSlice
    <3> QED BY <3>6, <3>7 DEF w
  <2>2. ASSUME NEW c \in Conns
        PROVE  got[c] = Slice(since[c], since[c] + Len(got[c]))
    BY FlowNumbers, CountsIsSlice DEF GapInv, Flow
  <2>3. \A c, d \in Conns : c < d /\ owner[c] = owner[d] /\ owner[c] # 0
          => since[c] + Len(got[c]) <= since[d]
    BY DEF GapInv, InOrder, Delivered
  <2> QED BY <2>1, <2>2, <2>3 DEF NoGapsWhileConnected, Carries
<1>2. LinkInit => ListInv
  BY DEF LinkInit, ListInv, RunningIsListed, Live
<1> QED BY <1>1, <1>2, ListStep, StatusInitially, StatusStep, TypesInitially, TypesStep,
           GapInitially, GapStep, PTL DEF LinkSafety
-----------------------------------------------------------------------------
(* What LinkRecovers rests on.                                             *)

(* A loop ends only when its connection is lost.                           *)
EndsByBreak == \A c \in Conns : loop[c] = "ended" => c \in broken

LEMMA EndStep ==
  ASSUME LinkTypes, EndsByBreak, [LinkNext]_linkVars PROVE EndsByBreak'
<1>1. CASE \E c \in Conns : ServerStep(c)
  <2> PICK c \in Conns : ServerStep(c)
    BY <1>1
  <2>1. broken' = broken /\ \A d \in Conns \ {c} : loop'[d] = loop[d]
    BY DEF ServerStep, SendInfo, Forward, ActionHandled, ReadEnd, EndLoop, LinkTypes
  <2>2. loop'[c] = "ended" => c \in broken \/ loop[c] = "ended"
    BY DEF ServerStep, SendInfo, Forward, ActionHandled, ReadEnd, EndLoop, LinkTypes
  <2> QED BY <2>1, <2>2 DEF EndsByBreak
<1>2. CASE \E c \in Conns : ReadAction(c) \/ Break(c)
  BY <1>2 DEF ReadAction, Break, serverVars, EndsByBreak, LinkTypes
<1>3. CASE \E t \in Clients, c \in Conns : ConnectSucceeds(t, c)
  BY <1>3 DEF ConnectSucceeds, AddSubscriber, EndsByBreak, LinkTypes
<1>4. CASE \/ \E t \in Clients : Read(t) \/ Disconnected(t) \/ GraceEnds(t) \/ WaitEnds(t)
           \/ \E t \in Clients : ConnectFails(t)
           \/ Broadcast \/ HandleEvent \/ Reconnect \/ UNCHANGED linkVars
  <2>1. UNCHANGED <<loop, broken>>
    BY <1>4 DEF Read, Disconnected, GraceEnds, WaitEnds, ConnectFails, Broadcast,
                HandleEvent, Reconnect, linkVars, serverVars
  <2> QED BY <2>1 DEF EndsByBreak
<1> QED BY <1>1, <1>2, <1>3, <1>4 DEF LinkNext, ClientStep

(* The guards of the steps in TaskMoves: a loop, a client task or the      *)
(* event loop has something to do.                                         *)
CanGoOn ==
  \/ \E c \in Conns : \/ loop[c] \in {"info", "action"}
                      \/ loop[c] = "run" /\ (chan[c] # <<>> \/ c \in broken)
  \/ \E t \in Clients :
       \/ client[t] \in {"grace", "waiting"}
       \/ client[t] = "connecting" /\ \E c \in Conns : loop[c] = "unused"
       \/ client[t] = "connected" /\ (conn[t] \in broken \/ wire[conn[t]] # <<>>)
  \/ events # <<>>

UsedUp == \A c \in Conns : loop[c] # "unused"

(* At rest: nothing is owed to the daemon and the shown status is true.    *)
RestsWell ==
  \/ Settled /\ (raced \/ connected)
  \/ client[Latest] = "connecting" /\ UsedUp

LEMMA RestIsSettled ==
  ASSUME LinkTypes, StatusInv, GapInv, EndsByBreak, ~CanGoOn
  PROVE  Settled \/ (client[Latest] = "connecting" /\ UsedUp)
<1>1. PICK n \in Clients : LatestIs(n)
  BY DEF StatusInv
<1>2. Latest = n
  BY <1>1, LatestValue DEF StatusInv
<1>3. client[n] \in {"connecting", "connected", "grace", "waiting"}
  BY <1>1, LinkAssumption DEF StatusInv, StatusTypes, LatestIs, Clients
<1>4. CASE client[n] = "connecting"
  BY <1>2, <1>4 DEF CanGoOn, UsedUp
<1>5. CASE client[n] = "connected"
  <2> DEFINE c == conn[n]
  <2>1. c \in Conns
    BY <1>5, LinkAssumption DEF LinkTypes, Conns
  <2>2. c \notin broken /\ wire[c] = <<>>
    BY <1>5 DEF CanGoOn
  <2>3. Carries(c) /\ owner[c] = n
    BY <2>1 DEF Carries, GapInv, Owners
  <2>4. loop[c] # "unused"
    <3>1. n # 0
      BY LinkAssumption DEF Clients
    <3> QED BY <2>1, <2>3, <3>1 DEF GapInv, Owners
  <2>5. loop[c] # "ended"
    BY <2>1, <2>2 DEF EndsByBreak
  <2>6. loop[c] = "run" /\ chan[c] = <<>>
    BY <2>1, <2>4, <2>5 DEF LinkTypes, CanGoOn
  <2>7. Underway(c) + Len(chan[c]) = sent
    BY <2>1, <2>3, <2>6 DEF GapInv, Flow, Live
  <2>8. Carried(wire[c]) = <<>>
    BY <2>2 DEF Carried
  <2>9. since[c] \in Nat /\ Len(got[c]) \in Nat
    BY <2>1, FlowNumbers
  <2>10. since[c] + Len(got[c]) = sent
    <3>1. Len(<<>>) = 0
      OBVIOUS
    <3>2. Delivered(c) + 0 + 0 = sent
      BY <2>6, <2>7, <2>8, <3>1 DEF Underway
    <3> QED BY <2>9, <3>2 DEF Delivered
  <2> QED BY <1>2, <1>5, <2>2, <2>10 DEF Settled
<1>6. client[n] \notin {"grace", "waiting"}
  BY DEF CanGoOn
<1> QED BY <1>3, <1>4, <1>5, <1>6

(* Nobody waits for nobody: whenever neither a loop nor a task nor the     *)
(* event loop can go on, the latest task is connected, every broadcast     *)
(* since it subscribed has reached the daemon and the status says so       *)
(* (unless a dropped task was at work), or the model has run out of        *)
(* connections.  This is the state fact of LinkRecovers (client_loop,      *)
(* ws_client_loop).                                                        *)
THEOREM LinkRestsWell == LinkSafety => [](~CanGoOn => RestsWell)
<1>1. LinkTypes /\ StatusInv /\ GapInv /\ EndsByBreak /\ StatusFollowsTask
        => (~CanGoOn => RestsWell)
  <2> SUFFICES ASSUME LinkTypes, StatusInv, GapInv, EndsByBreak, StatusFollowsTask,
                      ~CanGoOn
               PROVE  RestsWell
    OBVIOUS
  <2>1. Settled \/ (client[Latest] = "connecting" /\ UsedUp)
    BY RestIsSettled
  <2>2. events = <<>>
    BY DEF CanGoOn
  <2>3. Settled => raced \/ connected
    BY <2>2 DEF Settled, StatusFollowsTask, ShownIsTrue
  <2> QED BY <2>1, <2>3 DEF RestsWell
<1>2. LinkInit => ListInv /\ EndsByBreak
  BY DEF LinkInit, ListInv, EndsByBreak, RunningIsListed, Live
<1> QED BY <1>1, <1>2, ListStep, StatusInitially, StatusStep, TypesInitially, TypesStep,
           GapInitially, GapStep, EndStep, ShownStatusIsTrue, PTL DEF LinkSafety
=============================================================================
