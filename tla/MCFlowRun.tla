----------------------------- MODULE MCFlowRun -----------------------------
(* Small instances of FlowRun for TLC. *)
EXTENDS FlowRun

\* Every kind of step, and a branch over a step, in flows of three steps.
Three == {<<"action", "until", "action">>, <<"branch", "action", "wait">>, <<"poll", "wait", "action">>}
=============================================================================
