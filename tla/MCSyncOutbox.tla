---------------------------- MODULE MCSyncOutbox ----------------------------
(* Small instances of SyncOutbox for TLC. *)
EXTENDS SyncOutbox, TLC

CONSTANTS e1, e2

OneEager == [e \in {e1} |-> "eager"]
OneSnapshot == [e \in {e1} |-> "snapshot"]
Mixed == (e1 :> "eager") @@ (e2 :> "deferred")
=============================================================================
