---------------------------- MODULE MC_DaemonApp ----------------------------
(* One exclusive notification with a server id, for TLC.                   *)
EXTENDS DaemonApp

MCPayloads == {[rule |-> "normal", timed |-> FALSE, keep |-> TRUE, sid |-> "x",
                button |-> "http", long |-> FALSE]}
=============================================================================
