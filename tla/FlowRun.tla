------------------------------ MODULE FlowRun ------------------------------
(***************************************************************************)
(* One run of a flow: the row of flow_runs, the task that executes the       *)
(* steps, the external capability a step calls, and the readers that cancel, *)
(* find a run stale or delete its workspace, possibly in another process.    *)
(*                                                                         *)
(* The task's select! over the step's work, its heartbeat and its timeout is *)
(* modelled with its awaits: the work goes on while the other two may raise  *)
(* the signal, and for the grace window after that.                          *)
(***************************************************************************)
EXTENDS Integers, FiniteSets

CONSTANTS
  Steps,        \* number of steps
  Flows,        \* the definitions a run may be started from: the node of each step
  MaxTries,     \* bound on the attempts of a step (maxAttempts, or its timeout)
  MaxFaults,    \* bound on failed writes, crashes and stalls
  MaxEvents     \* bound on cancellations and deletions by other actors

Step == 1..Steps
Kinds == {"action", "poll", "until", "wait", "branch"}

ASSUME StepsAssumption == Steps \in Nat \ {0} /\ Flows \subseteq [Step -> Kinds]
ASSUME BoundsAssumption == MaxTries \in Nat \ {0} /\ MaxFaults \in Nat /\ MaxEvents \in Nat

VARIABLES
  row,      \* the row: what it says of the run, cancel_requested, heartbeat not stale
  live,     \* the workspace, and the flow's definition, are not deleted
  kind,     \* the definition of the run, its own copy
  run,      \* the task's copy of the run's record
  pc,       \* where the task is
  at,       \* index of the step being run
  work,     \* where the step's work is
  result,   \* what the work ended with: a code and the next step
  signal,   \* the interrupt that has cancelled the token
  call,     \* per step: the latest call of the external capability
  done,     \* steps whose external effect has taken place
  late,     \* effects begun although the row was over or gone
  spent     \* budget used: faults, events

vars == <<row, live, kind, run, pc, at, work, result, signal, call, done, late, spent>>

External(i) == kind[i] \in {"action", "poll", "until"}

StepStatus == {"pending", "running", "succeeded", "failed", "timedOut", "cancelled", "skipped"}
RunStatus == {"running", "succeeded", "failed", "timedOut", "cancelled",
              "interrupted", "validationFailed"}
\* Error codes: FLOW_CANCELLED, FLOW_TIMEOUT, FLOW_OUTCOME_UNCERTAIN, a failure that
\* may be retried and one that may not, a failed write, FLOW_RUN_LEASE_LOST.
Code == {"ok", "cancelled", "timeout", "uncertain", "transient", "failed", "fault", "lost"}
\* The last attempt of a step: none yet, one with neither output nor error, or its outcome.
Attempted == {"none", "open"} \cup Code

Record == [status : RunStatus, steps : [Step -> StepStatus], tries : [Step -> 0..MaxTries],
           last : [Step -> Attempted], code : [Step -> Code]]
Fresh == [status |-> "running", steps |-> [i \in Step |-> "pending"],
          tries |-> [i \in Step |-> 0], last |-> [i \in Step |-> "none"],
          code |-> [i \in Step |-> "ok"]]

NoRow == [run |-> Fresh, exists |-> FALSE, asked |-> FALSE, fresh |-> FALSE]
Result == [code : Code, next : 1..(Steps + 1)]
Nothing == [code |-> "ok", next |-> 1]

Fault == spent.faults < MaxFaults /\ spent' = [spent EXCEPT !.faults = @ + 1]
Event == spent.events < MaxEvents /\ spent' = [spent EXCEPT !.events = @ + 1]

\* The fence of every write: WHERE status = 'running'.
Held == row.exists /\ row.run.status = "running"

\* A write that does not look at how many rows it has changed.
PersistedUncounted(r) ==
  /\ row' = IF Held THEN [row EXCEPT !.run = r, !.fresh = TRUE] ELSE row
  /\ UNCHANGED spent

\* persist_run: the write succeeds, ...
Persisted(r) == Held /\ row' = [row EXCEPT !.run = r, !.fresh = TRUE] /\ UNCHANGED spent
\* ... or it does not, for the reason c.
Unwritten(c) ==
  /\ UNCHANGED row
  /\ \/ c = "lost" /\ ~Held /\ UNCHANGED spent
     \/ c = "fault" /\ Fault

Init ==
  /\ row = NoRow
  /\ live = [workspace |-> TRUE, flow |-> TRUE]
  /\ kind \in Flows
  /\ run = Fresh
  /\ pc = "idle" /\ at = 1 /\ work = "begin" /\ result = Nothing /\ signal = "none"
  /\ call = [i \in Step |-> "none"]
  /\ done = {}
  /\ late = 0
  /\ spent = [faults |-> 0, events |-> 0]

-----------------------------------------------------------------------------
(* Starting a run: run_at_revision. *)

\* The definition is read; the run owns its copy from here on.
Load ==
  /\ pc = "idle" /\ live.workspace /\ live.flow
  /\ pc' = "preparing"
  /\ UNCHANGED <<row, live, kind, run, at, work, result, signal, call, done, late, spent>>

\* Inputs and every referenced resource are checked, across awaits.
Prepare ==
  /\ pc = "preparing"
  /\ pc' = "inserting"
  /\ \/ UNCHANGED run
     \/ run' = [run EXCEPT !.status = "validationFailed", !.steps = [i \in Step |-> "skipped"]]
  /\ UNCHANGED <<row, live, kind, at, work, result, signal, call, done, late, spent>>

\* An insertion that trusts what Load has seen.
InsertUnchecked ==
  /\ pc = "inserting" /\ pc' = "inserted"
  /\ row' = [run |-> run, exists |-> TRUE, asked |-> FALSE, fresh |-> TRUE]
  /\ UNCHANGED <<live, kind, run, at, work, result, signal, call, done, late, spent>>

\* insert_run asks for a live flow of a live workspace once more.
Insert ==
  /\ pc = "inserting"
  /\ \/ /\ live.workspace /\ live.flow
        /\ row' = [run |-> run, exists |-> TRUE, asked |-> FALSE, fresh |-> TRUE]
        /\ pc' = "inserted"
     \/ /\ ~(live.workspace /\ live.flow)
        /\ pc' = "over" /\ UNCHANGED row
  /\ UNCHANGED <<live, kind, run, at, work, result, signal, call, done, late, spent>>

\* The row is read back for the caller before the task is spawned: if that fails, no
\* task ever runs the row.
Spawn ==
  /\ pc = "inserted"
  /\ \/ live.workspace /\ UNCHANGED spent
        /\ pc' = IF run.status = "running" THEN "loop" ELSE "over"
     \/ pc' = "over" /\ IF live.workspace THEN Fault ELSE UNCHANGED spent
  /\ UNCHANGED <<row, live, kind, run, at, work, result, signal, call, done, late>>

-----------------------------------------------------------------------------
(* The loop of execute_run, outside a step's work. *)

Outside == UNCHANGED <<live, kind, work, result, signal, call, done, late>>

\* The heartbeat at the head of the loop; no row counts as a cancellation.
Head ==
  /\ pc = "loop" /\ Outside /\ UNCHANGED at
  /\ \/ /\ Held /\ ~row.asked
        /\ row' = [row EXCEPT !.fresh = TRUE]
        /\ pc' = "start" /\ UNCHANGED <<run, spent>>
     \/ /\ ~Held \/ row.asked
        /\ row' = [row EXCEPT !.fresh = @ \/ Held]
        /\ pc' = "last" /\ run' = [run EXCEPT !.status = "cancelled"] /\ UNCHANGED spent
     \/ /\ Unwritten("fault")
        /\ pc' = "last" /\ run' = [run EXCEPT !.status = "failed"]

\* The step is marked as running; a failed write ends the run with the mark.
Start ==
  LET r == [run EXCEPT !.steps[at] = "running"]
  IN  /\ pc = "start" /\ UNCHANGED <<live, kind, at, call, done, late>>
      /\ \/ /\ Persisted(r) /\ run' = r
            /\ pc' = "step" /\ work' = "begin" /\ result' = Nothing /\ signal' = "none"
         \/ \E c \in {"lost", "fault"} :
              /\ Unwritten(c) /\ run' = [r EXCEPT !.status = "failed"]
              /\ pc' = "last" /\ UNCHANGED <<work, result, signal>>

\* The final write; if it fails the row stays as it is.
Final ==
  LET r == [run EXCEPT !.steps = [i \in Step |-> IF @[i] = "pending" THEN "skipped" ELSE @[i]]]
  IN  /\ pc = "last" /\ Outside /\ UNCHANGED at
      /\ run' = r /\ pc' = "over"
      /\ Persisted(r) \/ \E c \in {"lost", "fault"} : Unwritten(c)

-----------------------------------------------------------------------------
(* The work of a step, polled inside select! and during the grace window.     *)

Cancelled == signal # "none"
Working(w) == pc = "step" /\ work = w
Go(w) == work' = w /\ UNCHANGED result
Ready(c) == work' = "ready" /\ result' = [code |-> c, next |-> at + 1]
Inside == UNCHANGED <<live, kind, pc, at, signal>>

\* attempt, up to the executor: the attempt is recorded before anything is called.
\* A poll and a wait-until look at the token before each attempt.
Attempt ==
  LET r == [run EXCEPT !.tries[at] = @ + 1, !.last[at] = "open"]
  IN  /\ Working("begin") /\ Inside /\ UNCHANGED <<call, done, late>>
      /\ External(at) \/ kind[at] = "wait"
      /\ run.tries[at] < MaxTries
      /\ kind[at] \in {"poll", "until"} => ~Cancelled
      /\ run' = r
      /\ \/ Persisted(r) /\ Go(IF External(at) THEN "call" ELSE "pause")
         \/ \E c \in {"lost", "fault"} : Unwritten(c) /\ Ready(c)

\* No attempt is made: a probe loop notices the token, or the arguments, which a step
\* does not change, refer to what the context does not have.
Unattempted ==
  /\ Working("begin") /\ Inside
  /\ \/ kind[at] \in {"poll", "until"} /\ Cancelled /\ Ready("cancelled")
     \/ /\ External(at) /\ run.tries[at] = 0
        /\ kind[at] \in {"poll", "until"} => ~Cancelled
        /\ Ready("failed")
  /\ UNCHANGED <<row, run, call, done, late, spent>>

\* A condition is decided without an await and jumps forward.
Branch ==
  /\ Working("begin") /\ Inside /\ kind[at] = "branch"
  /\ work' = "ready"
  /\ \/ \E n \in (at + 1)..(Steps + 1) : result' = [code |-> "ok", next |-> n]
        /\ run' = [run EXCEPT !.tries[at] = 1, !.last[at] = "ok"]
     \/ result' = [code |-> "failed", next |-> at + 1] /\ UNCHANGED run
  /\ UNCHANGED <<row, call, done, late, spent>>

\* The executor, up to its last look at the token.
Refuse ==
  /\ Working("call") /\ Inside
  /\ \/ Cancelled /\ run' = [run EXCEPT !.last[at] = "cancelled"]
     \/ \E c \in {"failed", "transient"} : run' = [run EXCEPT !.last[at] = c]
  /\ Go("answered")
  /\ UNCHANGED <<row, call, done, late, spent>>

\* attempt's own look at the token, which leaves the attempt open.
Withdraw ==
  /\ Working("call") /\ Inside /\ Cancelled /\ Ready("cancelled")
  /\ UNCHANGED <<row, run, call, done, late, spent>>

\* The request, the query or the task is under way.
Call ==
  /\ Working("call") /\ Inside /\ ~Cancelled
  /\ call' = [call EXCEPT ![at] = "out"]
  /\ late' = IF Held THEN late ELSE late + 1
  /\ Go("out")
  /\ UNCHANGED <<row, run, done, spent>>

\* The effect takes place, whether or not anyone still waits for it or knows.
TakeEffect(i) ==
  /\ call[i] # "none" /\ i \notin done
  /\ done' = done \cup {i}
  /\ UNCHANGED <<row, live, kind, run, pc, at, work, result, signal, call, late, spent>>

\* The executor answers: success, failure, or a cancelled task that may have acted.
Answer ==
  /\ Working("out") /\ Inside
  /\ \E c \in {"ok", "transient", "failed", "uncertain"} :
       /\ c = "ok" => at \in done
       /\ call' = [call EXCEPT ![at] = c]
       /\ run' = [run EXCEPT !.last[at] = c]
  /\ Go("answered")
  /\ UNCHANGED <<row, done, late, spent>>

\* An answer over the size limits is not recorded.
TooLarge ==
  /\ Working("out") /\ Inside /\ at \in done
  /\ call' = [call EXCEPT ![at] = "ok"] /\ Ready("failed")
  /\ UNCHANGED <<row, run, done, late, spent>>

\* attempt, after the executor: the answer is recorded, and only then used.
RecordAnswer ==
  LET c == run.last[at]
  IN  /\ Working("answered") /\ Inside /\ UNCHANGED <<run, call, done, late>>
      /\ \/ /\ Persisted(run)
            /\ IF c = "ok" /\ kind[at] # "action" THEN Go("judge")
               ELSE IF c = "transient" /\ kind[at] = "until" THEN Go("retry")
               ELSE Ready(c)
         \/ \E f \in {"lost", "fault"} : Unwritten(f) /\ Ready(f)

\* The predicates see the answer of a fresh probe.
Judge ==
  /\ Working("judge") /\ Inside
  /\ Ready("ok") \/ Ready("failed") \/ Go("retry")
  /\ UNCHANGED <<row, run, call, done, late, spent>>

\* Another check: wait-until does not retry once cancelled and writes when it comes.
Retry ==
  /\ Working("retry") /\ Inside /\ UNCHANGED <<run, call, done, late>>
  /\ \/ /\ kind[at] = "until" /\ run.last[at] = "transient" /\ Cancelled /\ Ready("cancelled")
        /\ UNCHANGED <<row, spent>>
     \/ /\ run.last[at] = "transient" => ~Cancelled
        /\ \/ run.tries[at] = MaxTries /\ Ready("failed") /\ UNCHANGED <<row, spent>>
           \/ /\ run.tries[at] < MaxTries
              /\ \/ kind[at] = "poll" /\ Go("pause") /\ UNCHANGED <<row, spent>>
                 \/ kind[at] = "until" /\ Persisted(run) /\ Go("pause")
                 \/ kind[at] = "until" /\ \E c \in {"lost", "fault"} : Unwritten(c) /\ Ready(c)

\* A sleep ends by itself or with the token.
Wake ==
  /\ Working("pause") /\ Inside
  /\ \/ Cancelled /\ Ready("cancelled") /\ UNCHANGED run
     \/ External(at) /\ Go("begin") /\ UNCHANGED run
     \/ kind[at] = "wait" /\ Ready("ok") /\ run' = [run EXCEPT !.last[at] = "ok"]
  /\ UNCHANGED <<row, call, done, late, spent>>

-----------------------------------------------------------------------------
(* What interrupts a step, and how it is settled. *)

\* The select! polls the work first: a step that is ready is not interrupted.
Interruptible == pc = "step" /\ work # "ready" /\ ~Cancelled

Signal(s) == signal' = s
Polling == UNCHANGED <<live, kind, run, pc, at, work, result, call, done, late>>

Timeout == Interruptible /\ Signal("timeout") /\ Polling /\ UNCHANGED <<row, spent>>

Heartbeat ==
  /\ Interruptible /\ Polling
  /\ \/ Held /\ ~row.asked /\ row' = [row EXCEPT !.fresh = TRUE] /\ UNCHANGED <<signal, spent>>
     \/ ~Held /\ Signal("cancelled") /\ UNCHANGED <<row, spent>>
     \/ Held /\ row.asked /\ row' = [row EXCEPT !.fresh = TRUE] /\ Signal("cancelled")
        /\ UNCHANGED spent
     \/ Unwritten("fault") /\ Signal("fault")

\* clean_interrupt
Clean == signal

\* The interrupt wins over whatever the work returned.
CompletedLost == IF Cancelled THEN Clean ELSE result.code

\* adopt_completed: what has finished stands; a clean stop takes the signal's name.
Completed == IF Cancelled /\ result.code = "cancelled" THEN Clean ELSE result.code

\* The interrupt is taken for the outcome of an attempt that never reported back.
AbandonedClean ==
  IF run.last[at] \in {"none", "open", "ok", "cancelled"} THEN Clean ELSE run.last[at]

\* adopt_abandoned: what the attempt says, if the work did not end in the grace window.
Abandoned ==
  LET c == run.last[at]
  IN  IF c = "ok" /\ kind[at] = "action" THEN "ok"
      ELSE IF c \in {"none", "ok", "cancelled"} \/ ~External(at) THEN Clean
      ELSE IF c = "open" THEN "uncertain"
      ELSE c

StatusOf(c) == IF c = "cancelled" THEN "cancelled" ELSE IF c = "timeout" THEN "timedOut" ELSE "failed"

\* A success is written before the run goes on; the steps it jumps over are skipped.
Succeed(next) ==
  LET s == [run EXCEPT !.steps[at] = "succeeded"]
  IN  /\ Persisted(s)
      /\ run' = [s EXCEPT !.steps = [i \in Step |-> IF at < i /\ i < next THEN "skipped" ELSE @[i]],
                          !.status = IF next > Steps THEN "succeeded" ELSE @]
      /\ at' = IF next > Steps THEN at ELSE next
      /\ pc' = IF next > Steps THEN "last" ELSE "loop"

\* A success that could not be written ends the run.
SucceedUnwritten ==
  /\ \E e \in {"lost", "fault"} : Unwritten(e)
  /\ run' = [run EXCEPT !.steps[at] = "succeeded", !.status = "failed"]
  /\ pc' = "last" /\ UNCHANGED at

\* A failure is written with the final write.
Fail(c) ==
  /\ run' = [run EXCEPT !.steps[at] = StatusOf(c), !.status = StatusOf(c), !.code[at] = c,
                        !.last[at] = IF @ = "open" THEN c ELSE @]
  /\ pc' = "last" /\ UNCHANGED <<row, at, spent>>

\* The step has ended with c.
Settle(c, next) == IF c = "ok" THEN Succeed(next) \/ SucceedUnwritten ELSE Fail(c)

\* A step that succeeds leads to the next one or to the later one that its definition names,
\* a branch to what it has chosen.
Ahead == (at + 1)..(Steps + 1)
Onward == IF kind[at] = "branch" THEN {result.next} ELSE Ahead

\* An output that would make the history too large fails the step.
Fitted(c) == IF c = "ok" THEN {"ok", "failed"} ELSE {c}

\* The work is ready, in time or in the grace window.
Observe ==
  /\ Working("ready")
  /\ \E c \in Fitted(Completed), n \in Onward : Settle(c, n)
  /\ UNCHANGED <<live, kind, work, result, signal, call, done, late>>

\* The grace window ends and the work is dropped with its call.
GraceExpires ==
  /\ pc = "step" /\ work # "ready" /\ Cancelled
  /\ \E c \in Fitted(Abandoned), n \in Ahead : Settle(c, n)
  /\ call' = [call EXCEPT ![at] = IF @ = "out" THEN "dropped" ELSE @]
  /\ UNCHANGED <<live, kind, work, result, signal, done, late>>

-----------------------------------------------------------------------------
(* Everybody else: the process, readers, other processes. *)

\* The process that runs the task ends.
Die ==
  /\ pc \notin {"idle", "over", "dead"} /\ Fault
  /\ pc' = "dead"
  /\ call' = [i \in Step |-> IF call[i] = "out" THEN "dropped" ELSE call[i]]
  /\ UNCHANGED <<row, live, kind, run, at, work, result, signal, done, late>>

\* Thirty seconds without a heartbeat: the task is gone, or suspended or starved.
Stale ==
  /\ row.exists /\ row.fresh
  /\ IF pc \in {"over", "dead"} THEN UNCHANGED spent ELSE Fault
  /\ row' = [row EXCEPT !.fresh = FALSE]
  /\ UNCHANGED <<live, kind, run, pc, at, work, result, signal, call, done, late>>

\* Recovery of every stale row, over or not.
RecoverAny ==
  /\ row.exists /\ ~row.fresh
  /\ row' = [row EXCEPT !.run.status = "interrupted"]
  /\ UNCHANGED <<live, kind, run, pc, at, work, result, signal, call, done, late, spent>>

\* Recovery of those rows only whose cancellation was asked for.
RecoverCancelled ==
  /\ Held /\ ~row.fresh /\ row.asked
  /\ row' = [row EXCEPT !.run.status = "interrupted"]
  /\ UNCHANGED <<live, kind, run, pc, at, work, result, signal, call, done, late, spent>>

\* recover_stale, by any reader of the history in any process.
RecoverStale ==
  /\ Held /\ ~row.fresh
  /\ row' = [row EXCEPT !.run.status = "interrupted"]
  /\ UNCHANGED <<live, kind, run, pc, at, work, result, signal, call, done, late, spent>>

Cancel ==
  /\ Held /\ ~row.asked /\ Event
  /\ row' = [row EXCEPT !.asked = TRUE]
  /\ UNCHANGED <<live, kind, run, pc, at, work, result, signal, call, done, late>>

DeleteFlow ==
  /\ live.flow /\ Event
  /\ live' = [live EXCEPT !.flow = FALSE]
  /\ UNCHANGED <<row, kind, run, pc, at, work, result, signal, call, done, late>>

\* delete_workspace_on tombstones the definitions and purges the history.
DeleteWorkspace ==
  /\ live.workspace /\ Event
  /\ live' = [workspace |-> FALSE, flow |-> FALSE]
  /\ row' = NoRow
  /\ UNCHANGED <<kind, run, pc, at, work, result, signal, call, done, late>>

Task ==
  \/ Load \/ Prepare \/ Insert \/ Spawn \/ Head \/ Start \/ Final \/ Observe
  \/ Attempt \/ Unattempted \/ Branch \/ Refuse \/ Withdraw \/ Call
  \/ TooLarge \/ RecordAnswer \/ Judge \/ Retry \/ Wake

Next ==
  \/ Task \/ Answer \/ Timeout \/ Heartbeat \/ GraceExpires
  \/ \E i \in Step : TakeEffect(i)
  \/ Die \/ Stale \/ RecoverStale \/ Cancel \/ DeleteFlow \/ DeleteWorkspace

Spec == Init /\ [][Next]_vars

\* The task runs, its timers fire, a heartbeat that has stopped gets old, and the
\* history is looked at now and then.
Fairness ==
  /\ WF_vars(Task) /\ WF_vars(Timeout) /\ WF_vars(GraceExpires)
  /\ WF_vars(Stale /\ pc \in {"over", "dead"})
  /\ WF_vars(RecoverStale)

FairSpec == Spec /\ Fairness

-----------------------------------------------------------------------------
(* Properties. *)

TypeOK ==
  /\ row \in [run : Record, exists : BOOLEAN, asked : BOOLEAN, fresh : BOOLEAN]
  /\ live \in [workspace : BOOLEAN, flow : BOOLEAN]
  /\ kind \in Flows
  /\ run \in Record
  /\ pc \in {"idle", "preparing", "inserting", "inserted", "loop", "start", "step", "last", "over", "dead"}
  /\ at \in Step
  /\ work \in {"begin", "call", "out", "answered", "judge", "retry", "pause", "ready"}
  /\ result \in Result
  /\ signal \in {"none", "timeout", "cancelled", "fault"}
  /\ call \in [Step -> {"none", "out", "dropped", "ok", "transient", "failed", "uncertain"}]
  /\ done \subseteq Step
  /\ late \in Nat
  /\ spent \in [faults : 0..MaxFaults, events : 0..MaxEvents]

\* The history never hides an effect: a call that is out, or was dropped without an
\* answer, is an open or uncertain attempt of the row, and a step shown as cancelled
\* or timed out, hence safe to repeat, is one whose capability had nothing under way
\* (adopt_abandoned, runner.rs; "Cancellation, recovery" of docs/architecture/flow-v1.md).
NothingHidden ==
  row.exists => \A i \in Step :
    /\ call[i] \in {"out", "dropped"} =>
         row.run.tries[i] = run.tries[i] /\ row.run.last[i] \in {"open", "uncertain"}
    /\ External(i) /\ row.run.steps[i] \in {"cancelled", "timedOut"} =>
         call[i] \notin {"out", "dropped", "uncertain"}

\* A result that arrives stands: an action shown as succeeded has acted, and one whose
\* success was received is never shown as cancelled, timed out or uncertain, however
\* the answer, the timeout and a cancellation interleave (biased select!, runner.rs).
ResultStands ==
  row.exists => \A i \in Step : kind[i] = "action" =>
    /\ row.run.steps[i] = "succeeded" => i \in done
    /\ call[i] = "ok" => /\ row.run.steps[i] \notin {"cancelled", "timedOut"}
                         /\ row.run.code[i] # "uncertain"

\* Once the row is over or gone, be it by a reader that found it stale while its task
\* was suspended, at most the one call whose attempt was already recorded is made.
OneLateEffect == late <= 1

\* The purge of a deleted workspace is final: no write of a run still in flight brings
\* its history back (insert_run's EXISTS, persist_run's UPDATE).
PurgeIsFinal == ~live.workspace => ~row.exists

\* What a reader sees (decode_run): the steps of an interrupted run are interrupted or skipped.
Shown(i) ==
  LET s == row.run.steps[i]
  IN  IF row.run.status # "interrupted" THEN s
      ELSE IF s = "running" THEN "interrupted"
      ELSE IF s = "pending" THEN "skipped"
      ELSE s

ShownStatus ==
  IF ~live.workspace THEN "purged" ELSE IF row.exists THEN row.run.status ELSE "none"
ShownSteps == [i \in Step |-> IF row.exists THEN Shown(i) ELSE "pending"]

History == INSTANCE FlowHistory WITH status <- ShownStatus, steps <- ShownSteps

\* The run as the table and its readers show it is a history in the sense of
\* FlowHistory: forward only, one step at a time, and final once it has ended.
IsHistory == History!Spec

\* Every run ends, or is found interrupted, or is purged: no answer that never comes,
\* no crash and no failed write leaves a row running for ever.
RunEnds == Held ~> ~Held
=============================================================================
