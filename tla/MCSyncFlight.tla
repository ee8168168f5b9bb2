---------------------------- MODULE MCSyncFlight ----------------------------
(* A small instance of SyncFlight for TLC: only the first workspace is edited. *)
EXTENDS SyncFlight

CONSTANTS w1, w2, c1

Edits == [w \in Workspace |-> IF w = w1 THEN 1 ELSE 0]
=============================================================================
