-------------------------- MODULE MCWorkspaceStore --------------------------
(* Small instances of WorkspaceStore for TLC. *)
EXTENDS WorkspaceStore

Homes == [n \in {"E", "G", "U", "V", "X"} |-> IF n = "X" THEN "E" ELSE "A"]
Ranks == [n \in Entity |-> CASE n = "A" -> 1 [] n = "B" -> 2 [] n = "C" -> 3 [] n = "E" -> 4
                             [] n = "G" -> 5 [] n = "U" -> 6 [] n = "V" -> 7 [] n = "X" -> 8
                             [] OTHER -> 9]

\* The shared workspace with an environment, its variable and two variables of its
\* own, alone; or with one variable and another workspace of this device.
Alone ==
  [row |-> [n \in Entity |-> IF n \in {"A", "E", "U", "X"} THEN [state |-> "live", name |-> "a"]
                             ELSE IF n = "V" THEN [state |-> "live", name |-> "b"]
                             ELSE [state |-> "absent", name |-> "a"]],
   default |-> {"A"}, active |-> "A", selected |-> [w \in Workspace |-> IF w = "A" THEN "E" ELSE None]]
OnlyAlone == {Alone}
Stores == {Alone, [Alone EXCEPT !.row["B"] = [state |-> "live", name |-> "b"],
                                !.row["V"] = [state |-> "absent", name |-> "a"]]}
=============================================================================
