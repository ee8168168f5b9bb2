--------------------------- MODULE MCSyncBinding ---------------------------
(* Small instances of SyncBinding for TLC. *)
EXTENDS SyncBinding, TLC

CONSTANTS a1, a2

\* Bound: one account's flight at a time is aloft.
OneAloft == Cardinality({a \in Account : flight[a].pc # "idle"}) =< 1

Symmetry == Permutations(Account)
=============================================================================
