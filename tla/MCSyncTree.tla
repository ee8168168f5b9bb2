----------------------------- MODULE MCSyncTree -----------------------------
(* Small instances of SyncTree for TLC. *)
EXTENDS SyncTree

\* Two folders side by side with a request in one of them; F in G likewise.
Rows(f, g, r) ==
  [n \in Node |-> CASE n = "C" -> [state |-> "live", parent |-> Top, name |-> "a"]
                    [] n = "F" -> [state |-> "live", parent |-> f, name |-> "a"]
                    [] n = "G" -> [state |-> "live", parent |-> g, name |-> "a"]
                    [] n = "R" -> [state |-> "live", parent |-> r, name |-> "a"]
                    [] OTHER -> [state |-> "absent", parent |-> "C", name |-> "a"]]
Listed == <<"C", "F", "G", "R", "Q">>
Trees == {Rows("C", "C", "F"), Rows("G", "C", "F")}
=============================================================================
