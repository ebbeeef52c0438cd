---------------------- MODULE MC_PendingNotifications ----------------------
(* Small instances of PendingNotifications for TLC.                        *)
EXTENDS PendingNotifications, TLC

(* Requests and clients are interchangeable.                               *)
Symmetry == Permutations(Requests) \cup Permutations(Clients)
=============================================================================
