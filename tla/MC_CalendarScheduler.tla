----------------------- MODULE MC_CalendarScheduler -----------------------
(* Small instances of CalendarScheduler for TLC.                           *)
EXTENDS CalendarScheduler, TLC

CONSTANT o1

(* A one-off event, which a refresh lists for some time after it fired.    *)
OneFireAt == o1 :> 2
OneGrace == o1 :> 1
=============================================================================
