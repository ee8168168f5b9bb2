---------------------------- MODULE FlowHistory ----------------------------
(***************************************************************************)
(* What the history of a flow run promises its readers, whoever runs it and *)
(* whatever happens to the process that does: a run goes forward only, one   *)
(* step at a time, and once it has ended it never changes again.             *)
(***************************************************************************)
EXTENDS Integers

CONSTANT Steps        \* number of steps of the definition

Step == 1..Steps

VARIABLES
  status,   \* "none" before the run, "purged" once its workspace is deleted
  steps     \* the status of every step, as a reader sees it

vars == <<status, steps>>

Succeeded == "succeeded"
Stopped == {"failed", "timedOut", "cancelled", "interrupted"}

Init ==
  /\ status = "none"
  /\ steps = [i \in Step |-> "pending"]

\* A run is accepted, or recorded as one that could not be prepared.
Accept ==
  /\ status = "none"
  /\ \/ status' = "running" /\ UNCHANGED steps
     \/ status' = "validationFailed" /\ steps' = [i \in Step |-> "skipped"]

\* A step begins; those it jumps over are skipped.
Begin(i) ==
  /\ status = "running" /\ UNCHANGED status
  /\ steps[i] = "pending"
  /\ \A j \in Step : steps[j] # "running"
  /\ steps' = [j \in Step |-> IF j = i THEN "running"
                              ELSE IF j < i /\ steps[j] = "pending" THEN "skipped"
                              ELSE steps[j]]

\* The running step succeeds and the run goes on.
Complete(i) ==
  /\ status = "running" /\ UNCHANGED status
  /\ steps[i] = "running"
  /\ steps' = [steps EXCEPT ![i] = Succeeded]

\* How a step may look in a run that ends as s.  A run that fails because its
\* history could not be written leaves the step it was at as it was.
EndsAs(s, before, after) ==
  CASE before = "pending" -> after = "skipped" \/ (s = "failed" /\ after = "running")
    [] before = "running" -> after = s \/ (s = "failed" /\ after \in {"running", Succeeded})
    [] OTHER -> after = before

\* The run ends: every step that did not begin is skipped.
End(s) ==
  /\ status = "running" /\ status' = s
  /\ steps' \in [Step -> Stopped \cup {"running", "skipped", Succeeded}]
  /\ \A i \in Step : EndsAs(s, steps[i], steps'[i])

\* The workspace is deleted and its history with it, for good.
Purge ==
  /\ status # "purged" /\ status' = "purged"
  /\ steps' = [i \in Step |-> "pending"]

Next ==
  \/ Accept
  \/ \E i \in Step : Begin(i) \/ Complete(i)
  \/ \E s \in Stopped \cup {Succeeded} : End(s)
  \/ Purge

Spec == Init /\ [][Next]_vars
=============================================================================
