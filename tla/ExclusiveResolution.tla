------------------------- MODULE ExclusiveResolution -------------------------
(***************************************************************************)
(* What the server promises about an exclusive notification, without ids,  *)
(* map, channels, timers or tasks: each request is opened at most once, is *)
(* closed at most once, with one verdict that everybody hears; a sender is *)
(* answered once, with the verdict or with "still pending"; subscribers    *)
(* hear a verdict at most once, and only after it was reached.             *)
(*                                                                         *)
(* "replaced" is the end of a notification whose id a later request took   *)
(* over.  Its sender may still hear that it is pending: while a click is   *)
(* at work on it nobody closes its channel.                                *)
(***************************************************************************)
CONSTANTS Requests, Bodies, NoBody

VARIABLES verdict,   \* verdict[r]: how far r's notification has got
          told,      \* told[r]: what r's sender was answered
          heard      \* heard[r]: the verdict broadcast to the subscribers

vars == <<verdict, told, heard>>

In(s) == [state |-> s, body |-> NoBody]

Init ==
  /\ verdict = [r \in Requests |-> In("unset")]
  /\ told = [r \in Requests |-> In("none")]
  /\ heard = [r \in Requests |-> In("none")]

(* A request without `exclusive`, or refused, is answered at once.         *)
Decline(r) ==
  /\ verdict[r] = In("unset")
  /\ told[r] = In("none")
  /\ told' \in {[told EXCEPT ![r] = In(s)] : s \in {"accepted", "rejected"}}
  /\ UNCHANGED <<verdict, heard>>

(* Opening a notification may take the id of one that is still open.       *)
Open(r) ==
  /\ verdict[r] = In("unset")
  /\ told[r] = In("none")
  /\ \E old \in SUBSET {q \in Requests \ {r} : verdict[q] = In("live")} :
       verdict' = [q \in Requests |-> IF q = r THEN In("live")
                                      ELSE IF q \in old THEN In("replaced")
                                      ELSE verdict[q]]
  /\ UNCHANGED <<told, heard>>

Settle(r) ==
  /\ verdict[r] = In("live")
  /\ \/ \E b \in Bodies :
          verdict' = [verdict EXCEPT ![r] = [state |-> "resolved", body |-> b]]
     \/ verdict' = [verdict EXCEPT ![r] = In("expired")]
  /\ UNCHANGED <<told, heard>>

Tell(r) ==
  /\ told[r] = In("none")
  /\ \/ /\ verdict[r] \in {In("live"), In("replaced")}
        /\ told' = [told EXCEPT ![r] = In("pending")]
     \/ /\ verdict[r] \in {In("expired"), In("replaced")}
        /\ told' = [told EXCEPT ![r] = In("gone")]
     \/ /\ verdict[r].state = "resolved"
        /\ told' = [told EXCEPT ![r] = verdict[r]]
  /\ UNCHANGED <<verdict, heard>>

Announce(r) ==
  /\ heard[r] = In("none")
  /\ verdict[r].state \in {"resolved", "expired"}
  /\ heard' = [heard EXCEPT ![r] = verdict[r]]
  /\ UNCHANGED <<verdict, told>>

Next == \E r \in Requests :
  Decline(r) \/ Open(r) \/ Settle(r) \/ Tell(r) \/ Announce(r)

(* No notification stays open for ever.                                    *)
Fairness == \A r \in Requests : WF_vars(Settle(r))

SafeSpec == Init /\ [][Next]_vars
Spec == SafeSpec /\ Fairness
=============================================================================
