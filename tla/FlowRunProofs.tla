--------------------------- MODULE FlowRunProofs ---------------------------
(***************************************************************************)
(* FlowRun for any flows, bounds and number of steps: what the history shows  *)
(* of effects and results, that a deleted workspace stays purged, that a run   *)
(* recovered under its task makes one call more at most, and that the run as   *)
(* readers see it is a history in the sense of FlowHistory.                   *)
(*                                                                         *)
(* The invariant says where the task may be for what its copy of the run says *)
(* (Position), which call a step may have for where its work is (Calls,        *)
(* Answers, Action), and how far the row may lag behind the copy (Attempts,    *)
(* Behind, Mirror).  Nothing is written once the row is not running, so what   *)
(* relates the row to the copy's steps matters only while it is (Held).        *)
(***************************************************************************)
EXTENDS FlowRun, TLAPS

\* A run whose inputs or resources could not be prepared.
Unprepared == [Fresh EXCEPT !.status = "validationFailed", !.steps = [i \in Step |-> "skipped"]]

Over == {"last", "over", "dead"}
Unsafe == {"out", "dropped", "uncertain"}
Stopping == {"cancelled", "timedOut"}

\* What the task's copy says of the run wherever the task is.
Position ==
  /\ pc \in {"idle", "preparing", "inserting", "inserted"} =>
       at = 1 /\ run \in {Fresh, Unprepared}
  /\ pc \in {"idle", "preparing"} => run = Fresh
  /\ pc \in {"idle", "preparing", "inserting"} => ~row.exists
  /\ pc \in {"loop", "start", "step"} =>
       /\ run.status = "running"
       /\ \A i \in Step : /\ i > at => run.steps[i] = "pending"
                          /\ i < at => run.steps[i] # "pending"
  /\ pc \in {"loop", "start"} => run.steps[at] = "pending"
  /\ pc = "step" => run.steps[at] = "running"
  /\ pc = "last" => run.status \in {"succeeded", "failed", "timedOut", "cancelled"}

\* Which call a step may have, and what its last attempt then says.
Calls ==
  \A i \in Step :
    /\ run.steps[i] = "pending" => call[i] = "none"
    /\ call[i] = "out" => pc = "step" /\ work = "out" /\ at = i
    /\ call[i] = "dropped" => pc \in Over /\ run.last[i] \in {"open", "uncertain"}
    /\ call[i] = "ok" => i \in done
    /\ External(i) /\ run.last[i] = "ok" => call[i] = "ok"
    /\ External(i) /\ run.steps[i] \in Stopping => call[i] \notin Unsafe
    /\ run.steps[i] \in Stopping \/ run.code[i] # "ok" => pc \in Over

\* A call and its answer at each point of a step's work.
Answers ==
  pc = "step" =>
    /\ work \in {"call", "out"} => run.last[at] = "open" /\ External(at)
    /\ work = "out" => call[at] = "out"
    /\ work = "answered" => run.last[at] \notin {"none", "open"} /\ External(at)
    /\ work \in {"begin", "call", "judge", "retry", "pause"} => call[at] \notin Unsafe
    /\ work = "answered" /\ call[at] \in Unsafe => run.last[at] = "uncertain"
    /\ work = "ready" /\ result.code \in {"cancelled", "timeout"} => call[at] \notin Unsafe
    /\ work = "ready" => result.next > at

\* An action is called once; what it answers is what the step ends with.
Action ==
  /\ pc = "step" /\ kind[at] = "action" =>
       /\ work \notin {"judge", "retry", "pause"}
       /\ work \in {"begin", "call"} => call[at] = "none"
       /\ work = "answered" /\ call[at] = "ok" => run.last[at] = "ok"
       /\ work = "ready" /\ call[at] = "ok" => result.code \notin {"cancelled", "timeout", "uncertain"}
       /\ work = "ready" /\ result.code = "ok" => at \in done
  /\ \A i \in Step : kind[i] = "action" =>
       /\ run.steps[i] = "succeeded" => i \in done
       /\ call[i] = "ok" => run.steps[i] \notin Stopping /\ run.code[i] # "uncertain"

\* The attempt of a call is in the row before the call is made, and stays there.
Attempts ==
  row.exists =>
    /\ pc = "step" /\ work \in {"call", "out"} =>
         row.run.tries[at] = run.tries[at] /\ row.run.last[at] = "open"
    /\ \A i \in Step : call[i] = "dropped" =>
         row.run.tries[i] = run.tries[i] /\ row.run.last[i] \in {"open", "uncertain"}

\* The row is never ahead of the copy.
Behind ==
  row.exists => \A i \in Step :
    /\ row.run.steps[i] \in Stopping \cup {"succeeded"} => run.steps[i] = row.run.steps[i]
    /\ row.run.code[i] # "ok" => run.code[i] = row.run.code[i]

\* How a step of the row may differ from the copy's when the run is to end as s.
Ends(s, before, after) ==
  CASE before = "pending" -> after \in {"pending", "skipped"} \/ (s = "failed" /\ after = "running")
    [] before = "running" -> after = s \/ (s = "failed" /\ after \in {"running", "succeeded"})
    [] OTHER -> after = before

\* While the row is running: how far it lags behind the copy.
Mirror ==
  Held =>
    /\ pc = "inserted" => row.run.steps = run.steps
    /\ pc \in {"loop", "start"} => \A i \in Step :
         /\ row.run.steps[i] # "running"
         /\ run.steps[i] = IF i < at /\ row.run.steps[i] = "pending" THEN "skipped"
                           ELSE row.run.steps[i]
    /\ pc = "step" => \A i \in Step :
         /\ run.steps[i] = row.run.steps[i]
         /\ row.run.steps[i] = "running" => i = at
    /\ pc = "last" => \A i \in Step : Ends(run.status, row.run.steps[i], run.steps[i])

\* The one call made without the row is still out, or its answer is not yet settled.
Late ==
  /\ late \in {0, 1}
  /\ late = 1 => /\ ~Held
                 /\ pc \in {"step"} \cup Over
                 /\ pc = "step" => work \in {"out", "answered", "ready"}

Inv ==
  /\ TypeOK /\ PurgeIsFinal /\ Position /\ Calls /\ Answers /\ Action
  /\ Attempts /\ Behind /\ Mirror /\ Late
-----------------------------------------------------------------------------
(* Types. *)

\* The sets that follow from one assumption on the constants.
LEMMA StepFacts == Steps \in Nat /\ 1 \in Step /\ Step \subseteq Int
BY StepsAssumption DEF Step

LEMMA InitTypes == Init => TypeOK
BY StepsAssumption, BoundsAssumption, StepFacts DEF Init, TypeOK, NoRow, Fresh, Record, Nothing, Result,
   StepStatus, RunStatus, Code, Attempted, Step

\* A write, done or not, keeps the types.
LEMMA WriteTypes ==
  ASSUME TypeOK, NEW r \in Record, Persisted(r) \/ (\E c \in {"lost", "fault"} : Unwritten(c))
  PROVE  /\ row' \in [run : Record, exists : BOOLEAN, asked : BOOLEAN, fresh : BOOLEAN]
         /\ spent' \in [faults : 0..MaxFaults, events : 0..MaxEvents]
<1>1. CASE Persisted(r)
  BY <1>1 DEF TypeOK, Persisted
<1>2. CASE \E c \in {"lost", "fault"} : Unwritten(c)
  BY <1>2, BoundsAssumption DEF TypeOK, Unwritten, Fault
<1>3. QED
  BY <1>1, <1>2

LEMMA CopyTypes ==
  ASSUME TypeOK, NEW i \in Step, NEW s \in StepStatus, NEW t \in RunStatus, NEW c \in Code,
         NEW a \in Attempted, NEW n \in 0..MaxTries
  PROVE  /\ [run EXCEPT !.status = t] \in Record
         /\ [run EXCEPT !.steps[i] = s] \in Record
         /\ [run EXCEPT !.steps[i] = s, !.status = t] \in Record
         /\ [run EXCEPT !.last[i] = a] \in Record
         /\ [run EXCEPT !.tries[i] = n, !.last[i] = a] \in Record
         /\ [run EXCEPT !.steps[i] = s, !.status = t, !.code[i] = c, !.last[i] = a] \in Record
BY DEF TypeOK, Record

LEMMA CodeFacts ==
  ASSUME TypeOK, NEW c \in Code
  PROVE  /\ StatusOf(c) \in StepStatus \cap RunStatus
         /\ Fitted(c) \subseteq Code
BY DEF StatusOf, StepStatus, RunStatus, Code, Fitted

\* What a step of the task ends with is a code.
LEMMA OutcomeCodes ==
  ASSUME TypeOK
  PROVE  /\ Completed \in Code
         /\ Cancelled => Abandoned \in Code
<1>1. result.code \in Code /\ run.last[at] \in Attempted
  BY DEF TypeOK, Result, Record
<1>2. Cancelled => signal \in Code
  BY DEF TypeOK, Cancelled, Code
<1>3. Completed \in Code
  BY <1>1, <1>2 DEF Completed, Clean
<1>4. ASSUME Cancelled PROVE Abandoned \in Code
  <2>1. Clean \in Code
    BY <1>2, <1>4 DEF Clean
  <2>2. QED
    BY <1>1, <2>1 DEF Abandoned, Attempted, Code
<1>5. QED
  BY <1>3, <1>4

\* What Settle does to the types.
LEMMA SettleTypes ==
  ASSUME TypeOK, NEW c \in Code, NEW next \in 1..(Steps + 1), Settle(c, next)
  PROVE  /\ row' \in [run : Record, exists : BOOLEAN, asked : BOOLEAN, fresh : BOOLEAN]
         /\ run' \in Record
         /\ at' \in Step
         /\ pc' \in {"loop", "last"}
         /\ spent' \in [faults : 0..MaxFaults, events : 0..MaxEvents]
<1> DEFINE s == [run EXCEPT !.steps[at] = "succeeded"]
           k == [i \in Step |-> IF at < i /\ i < next THEN "skipped" ELSE s.steps[i]]
<1>0. at \in Step /\ s \in Record /\ run.last[at] \in Attempted
  <2>1. at \in Step /\ "succeeded" \in StepStatus
    BY DEF TypeOK, StepStatus
  <2>2. s \in Record
    BY <2>1 DEF TypeOK, Record
  <2>3. QED
    BY <2>1, <2>2 DEF TypeOK, Record
<1>1. CASE Succeed(next)
  <2>1. k \in [Step -> StepStatus]
    BY <1>0 DEF Record, StepStatus
  <2>2. run' \in Record
    BY <1>0, <1>1, <2>1 DEF Succeed, Record, RunStatus
  <2>3. at' \in Step
    BY <1>0, <1>1, StepsAssumption DEF Succeed, Step
  <2>4. QED
    BY <1>0, <1>1, <2>2, <2>3, WriteTypes DEF Succeed
<1>2. CASE SucceedUnwritten
  <2>1. run' \in Record
    BY <1>0, <1>2 DEF SucceedUnwritten, Record, RunStatus
  <2>2. QED
    BY <1>0, <1>2, <2>1, WriteTypes DEF SucceedUnwritten
<1>3. CASE Fail(c)
  <2>1. StatusOf(c) \in StepStatus /\ StatusOf(c) \in RunStatus /\ c \in Attempted
    BY CodeFacts DEF Attempted
  <2>2. run' \in Record
    BY <1>0, <1>3, <2>1 DEF Fail, Record, TypeOK
  <2>3. QED
    BY <1>0, <1>3, <2>2 DEF Fail, TypeOK
<1>4. QED
  BY <1>1, <1>2, <1>3 DEF Settle

\* What may be written into the row, and the other variables' ranges.
LEMMA RowTypes ==
  ASSUME TypeOK
  PROVE  /\ row.run \in Record /\ row.fresh \in BOOLEAN /\ row.exists \in BOOLEAN /\ row.asked \in BOOLEAN
         /\ [row EXCEPT !.fresh = TRUE] \in [run : Record, exists : BOOLEAN, asked : BOOLEAN, fresh : BOOLEAN]
         /\ \A b \in BOOLEAN :
              [row EXCEPT !.fresh = b] \in [run : Record, exists : BOOLEAN, asked : BOOLEAN, fresh : BOOLEAN]
         /\ [row EXCEPT !.asked = TRUE] \in [run : Record, exists : BOOLEAN, asked : BOOLEAN, fresh : BOOLEAN]
         /\ [row EXCEPT !.run.status = "interrupted"]
              \in [run : Record, exists : BOOLEAN, asked : BOOLEAN, fresh : BOOLEAN]
         /\ \A r \in Record : [run |-> r, exists |-> TRUE, asked |-> FALSE, fresh |-> TRUE]
              \in [run : Record, exists : BOOLEAN, asked : BOOLEAN, fresh : BOOLEAN]
         /\ NoRow \in [run : Record, exists : BOOLEAN, asked : BOOLEAN, fresh : BOOLEAN]
         /\ Fresh \in Record /\ Unprepared \in Record
<1>1. Fresh \in Record /\ Unprepared \in Record
  <2>1. Fresh \in Record
    BY BoundsAssumption DEF Fresh, Record, RunStatus, StepStatus, Attempted, Code
  <2>2. [i \in Step |-> "skipped"] \in [Step -> StepStatus] /\ "validationFailed" \in RunStatus
    BY DEF StepStatus, RunStatus
  <2>3. QED
    BY <2>1, <2>2 DEF Unprepared, Record
<1>2. row.run \in Record
  BY DEF TypeOK
<1>3. [row EXCEPT !.run.status = "interrupted"]
        \in [run : Record, exists : BOOLEAN, asked : BOOLEAN, fresh : BOOLEAN]
  <2>1. [row.run EXCEPT !.status = "interrupted"] \in Record
    BY <1>2 DEF Record, RunStatus
  <2>2. QED
    BY <2>1 DEF TypeOK
<1>4. NoRow \in [run : Record, exists : BOOLEAN, asked : BOOLEAN, fresh : BOOLEAN]
  BY <1>1 DEF NoRow
<1>5. QED
  BY <1>1, <1>2, <1>3, <1>4 DEF TypeOK

\* Before the steps, and between them.
LEMMA LoopTypes ==
  ASSUME TypeOK, Load \/ Prepare \/ Insert \/ Spawn \/ Head \/ Start \/ Final
  PROVE  TypeOK'
<1>1. CASE Load
  BY <1>1 DEF Load, TypeOK
<1>2. CASE Prepare
  <2>1. [run EXCEPT !.status = "validationFailed", !.steps = [i \in Step |-> "skipped"]] \in Record
    BY DEF TypeOK, Record, RunStatus, StepStatus
  <2>2. QED
    BY <1>2, <2>1 DEF Prepare, TypeOK
<1>3. CASE Insert
  <2>1. run \in Record
    BY DEF TypeOK
  <2>2. QED
    BY <1>3, <2>1, RowTypes DEF Insert, TypeOK
<1>4. CASE Spawn
  BY <1>4, BoundsAssumption DEF Spawn, TypeOK, Fault
<1>5. CASE Head
  <2>1. \A t \in RunStatus : [run EXCEPT !.status = t] \in Record
    BY DEF TypeOK, Record
  <2>2. run' \in Record
    BY <1>5, <2>1 DEF Head, TypeOK, RunStatus
  <2>3. row' \in [run : Record, exists : BOOLEAN, asked : BOOLEAN, fresh : BOOLEAN]
    BY <1>5, RowTypes DEF Head, Held, Unwritten, TypeOK
  <2>4. spent' \in [faults : 0..MaxFaults, events : 0..MaxEvents]
    BY <1>5, BoundsAssumption DEF Head, Unwritten, Fault, TypeOK
  <2>5. QED
    BY <1>5, <2>2, <2>3, <2>4 DEF Head, Outside, TypeOK
<1>6. CASE Start
  <2>1. at \in Step
    BY DEF TypeOK
  <2>2. [run EXCEPT !.steps[at] = "running"] \in Record
    BY <2>1 DEF TypeOK, Record, StepStatus
  <2>3. run' \in Record
    BY <1>6, <2>2 DEF Start, Record, RunStatus
  <2>4. /\ row' \in [run : Record, exists : BOOLEAN, asked : BOOLEAN, fresh : BOOLEAN]
        /\ spent' \in [faults : 0..MaxFaults, events : 0..MaxEvents]
    BY <1>6, <2>2, WriteTypes DEF Start
  <2>5. QED
    BY <1>6, <2>3, <2>4, StepsAssumption DEF Start, TypeOK, Nothing, Result, Code
<1>7. CASE Final
  <2>1. run' \in Record
    BY <1>7 DEF Final, TypeOK, Record, StepStatus
  <2>2. /\ row' \in [run : Record, exists : BOOLEAN, asked : BOOLEAN, fresh : BOOLEAN]
        /\ spent' \in [faults : 0..MaxFaults, events : 0..MaxEvents]
    BY <1>7, <2>1, WriteTypes DEF Final
  <2>3. QED
    BY <1>7, <2>1, <2>2 DEF Final, Outside, TypeOK
<1>8. QED
  BY <1>1, <1>2, <1>3, <1>4, <1>5, <1>6, <1>7

\* A result of the work, and how far it may go.
LEMMA ReadyTypes ==
  ASSUME TypeOK, NEW c \in Code, Ready(c)
  PROVE  result' \in Result /\ work' = "ready"
BY StepsAssumption DEF Ready, TypeOK, Result, Step

LEMMA WorkTypes ==
  ASSUME TypeOK, Answers,
         \/ Attempt \/ Unattempted \/ Branch \/ Refuse \/ Withdraw \/ Call
         \/ Answer \/ TooLarge \/ RecordAnswer \/ Judge \/ Retry \/ Wake
  PROVE  TypeOK'
<1>0. /\ at \in Step /\ run \in Record /\ result \in Result /\ run.last[at] \in Attempted
      /\ run.tries[at] \in 0..MaxTries
      /\ {"ok", "cancelled", "uncertain", "transient", "failed", "fault", "lost"} \subseteq Code
      /\ Code \subseteq Attempted /\ "open" \in Attempted
  BY DEF TypeOK, Record, Code, Attempted
<1>1. CASE Attempt
  <2>1. run.tries[at] + 1 \in 0..MaxTries
    BY <1>0, <1>1, BoundsAssumption DEF Attempt
  <2>2. run' \in Record
    BY <1>0, <1>1, <2>1 DEF Attempt, Record
  <2>3. /\ row' \in [run : Record, exists : BOOLEAN, asked : BOOLEAN, fresh : BOOLEAN]
        /\ spent' \in [faults : 0..MaxFaults, events : 0..MaxEvents]
    <3>1. [run EXCEPT !.tries[at] = @ + 1, !.last[at] = "open"] \in Record
      BY <1>1, <2>2 DEF Attempt
    <3>2. QED
      BY <1>1, <3>1, WriteTypes DEF Attempt
  <2>4. result' \in Result /\ work' \in {"call", "pause", "ready"}
    BY <1>0, <1>1, ReadyTypes DEF Attempt, Go
  <2>5. QED
    BY <1>1, <2>2, <2>3, <2>4 DEF Attempt, Inside, TypeOK
<1>2. CASE Unattempted
  <2>1. result' \in Result /\ work' = "ready"
    BY <1>0, <1>2, ReadyTypes DEF Unattempted
  <2>2. QED
    BY <1>2, <2>1 DEF Unattempted, Inside, TypeOK
<1>3. CASE Branch
  <2>1. [run EXCEPT !.tries[at] = 1, !.last[at] = "ok"] \in Record
    <3>1. 1 \in 0..MaxTries /\ "ok" \in Attempted
      BY <1>0, BoundsAssumption
    <3>2. QED
      BY <1>0, <3>1 DEF Record
  <2>2. result' \in Result
    BY <1>0, <1>3, StepsAssumption DEF Branch, Result, Step
  <2>3. QED
    BY <1>0, <1>3, <2>1, <2>2 DEF Branch, Inside, TypeOK
<1>4. CASE Refuse
  <2>1. run' \in Record
    BY <1>0, <1>4 DEF Refuse, Record
  <2>2. QED
    BY <1>4, <2>1 DEF Refuse, Go, Inside, TypeOK
<1>5. CASE Withdraw
  <2>1. result' \in Result /\ work' = "ready"
    BY <1>0, <1>5, ReadyTypes DEF Withdraw
  <2>2. QED
    BY <1>5, <2>1 DEF Withdraw, Inside, TypeOK
<1>6. CASE Call
  BY <1>0, <1>6 DEF Call, Go, Inside, TypeOK
<1>7. CASE Answer
  <2>1. run' \in Record
    BY <1>0, <1>7 DEF Answer, Record
  <2>2. QED
    BY <1>0, <1>7, <2>1 DEF Answer, Go, Inside, TypeOK
<1>8. CASE TooLarge
  <2>1. result' \in Result /\ work' = "ready"
    BY <1>0, <1>8, ReadyTypes DEF TooLarge
  <2>2. QED
    BY <1>0, <1>8, <2>1 DEF TooLarge, Inside, TypeOK
<1>9. CASE RecordAnswer
  <2>1. run.last[at] \in Code
    BY <1>0, <1>9 DEF RecordAnswer, Working, Answers, Attempted
  <2>2. result' \in Result /\ work' \in {"judge", "retry", "ready"}
    BY <1>0, <1>9, <2>1, ReadyTypes DEF RecordAnswer, Go
  <2>3. /\ row' \in [run : Record, exists : BOOLEAN, asked : BOOLEAN, fresh : BOOLEAN]
        /\ spent' \in [faults : 0..MaxFaults, events : 0..MaxEvents]
    BY <1>0, <1>9, WriteTypes DEF RecordAnswer
  <2>4. QED
    BY <1>9, <2>2, <2>3 DEF RecordAnswer, Inside, TypeOK
<1>10. CASE Judge
  <2>1. result' \in Result /\ work' \in {"retry", "ready"}
    BY <1>0, <1>10, ReadyTypes DEF Judge, Go
  <2>2. QED
    BY <1>10, <2>1 DEF Judge, Inside, TypeOK
<1>11. CASE Retry
  <2>1. result' \in Result /\ work' \in {"pause", "ready"}
    BY <1>0, <1>11, ReadyTypes DEF Retry, Go
  <2>2. /\ row' \in [run : Record, exists : BOOLEAN, asked : BOOLEAN, fresh : BOOLEAN]
        /\ spent' \in [faults : 0..MaxFaults, events : 0..MaxEvents]
    <3>1. CASE UNCHANGED <<row, spent>>
      BY <3>1 DEF TypeOK
    <3>2. CASE Persisted(run) \/ \E c \in {"lost", "fault"} : Unwritten(c)
      BY <1>0, <3>2, WriteTypes
    <3>3. QED
      BY <1>11, <3>1, <3>2 DEF Retry
  <2>3. QED
    BY <1>11, <2>1, <2>2 DEF Retry, Inside, TypeOK
<1>12. CASE Wake
  <2>1. run' \in Record
    BY <1>0, <1>12 DEF Wake, Record
  <2>2. result' \in Result /\ work' \in {"begin", "ready"}
    BY <1>0, <1>12, ReadyTypes DEF Wake, Go
  <2>3. QED
    BY <1>12, <2>1, <2>2 DEF Wake, Inside, TypeOK
<1>13. QED
  BY <1>1, <1>2, <1>3, <1>4, <1>5, <1>6, <1>7, <1>8, <1>9, <1>10, <1>11, <1>12

LEMMA AheadFacts == TypeOK => \A n \in Ahead : n \in 1..(Steps + 1) /\ n > at
BY StepsAssumption DEF TypeOK, Step, Ahead

\* What interrupts and settles a step, and what others do.
LEMMA AroundTypes ==
  ASSUME TypeOK,
         \/ Observe \/ Timeout \/ Heartbeat \/ GraceExpires \/ (\E i \in Step : TakeEffect(i))
         \/ Die \/ Stale \/ RecoverStale \/ Cancel \/ DeleteFlow \/ DeleteWorkspace
  PROVE  TypeOK'
<1>1. CASE Observe
  <2>1. PICK c \in Fitted(Completed), n \in Onward : Settle(c, n)
    BY <1>1 DEF Observe
  <2>2. c \in Code
    BY OutcomeCodes, CodeFacts, <2>1
  <2>3. n \in 1..(Steps + 1)
    BY AheadFacts DEF Onward, TypeOK, Result
  <2>4. QED
    BY <1>1, <2>1, <2>2, <2>3, SettleTypes DEF Observe, TypeOK
<1>2. CASE Timeout
  BY <1>2 DEF Timeout, Signal, Polling, TypeOK
<1>3. CASE Heartbeat
  <2>1. row' \in [run : Record, exists : BOOLEAN, asked : BOOLEAN, fresh : BOOLEAN]
    BY <1>3, RowTypes DEF Heartbeat, Unwritten, TypeOK
  <2>2. /\ signal' \in {"none", "timeout", "cancelled", "fault"}
        /\ spent' \in [faults : 0..MaxFaults, events : 0..MaxEvents]
    BY <1>3, BoundsAssumption DEF Heartbeat, Signal, Unwritten, Fault, TypeOK
  <2>3. QED
    BY <1>3, <2>1, <2>2 DEF Heartbeat, Polling, TypeOK
<1>4. CASE GraceExpires
  <2>1. PICK c \in Fitted(Abandoned), n \in Ahead : Settle(c, n)
    BY <1>4 DEF GraceExpires
  <2>2. c \in Code
    BY <1>4, OutcomeCodes, CodeFacts, <2>1 DEF GraceExpires
  <2>3. n \in 1..(Steps + 1)
    BY AheadFacts
  <2>4. /\ row' \in [run : Record, exists : BOOLEAN, asked : BOOLEAN, fresh : BOOLEAN]
        /\ run' \in Record
        /\ at' \in Step
        /\ pc' \in {"loop", "last"}
        /\ spent' \in [faults : 0..MaxFaults, events : 0..MaxEvents]
    BY <2>1, <2>2, <2>3, SettleTypes
  <2>5. QED
    BY <1>4, <2>4 DEF GraceExpires, TypeOK
<1>5. CASE \E i \in Step : TakeEffect(i)
  BY <1>5 DEF TakeEffect, TypeOK
<1>6. CASE Die
  BY <1>6, BoundsAssumption DEF Die, Fault, TypeOK
<1>7. CASE Stale
  <2>1. row' \in [run : Record, exists : BOOLEAN, asked : BOOLEAN, fresh : BOOLEAN]
    BY <1>7, RowTypes DEF Stale
  <2>2. spent' \in [faults : 0..MaxFaults, events : 0..MaxEvents]
    BY <1>7, BoundsAssumption DEF Stale, Fault, TypeOK
  <2>3. QED
    BY <1>7, <2>1, <2>2 DEF Stale, TypeOK
<1>8. CASE RecoverStale
  BY <1>8, RowTypes DEF RecoverStale, TypeOK
<1>9. CASE Cancel
  <2>1. spent' \in [faults : 0..MaxFaults, events : 0..MaxEvents]
    BY <1>9, BoundsAssumption DEF Cancel, Event, TypeOK
  <2>2. QED
    BY <1>9, <2>1, RowTypes DEF Cancel, TypeOK
<1>10. CASE DeleteFlow
  <2>1. spent' \in [faults : 0..MaxFaults, events : 0..MaxEvents]
    BY <1>10, BoundsAssumption DEF DeleteFlow, Event, TypeOK
  <2>2. live' \in [workspace : BOOLEAN, flow : BOOLEAN]
    BY <1>10 DEF DeleteFlow, TypeOK
  <2>3. QED
    BY <1>10, <2>1, <2>2 DEF DeleteFlow, TypeOK
<1>11. CASE DeleteWorkspace
  BY <1>11, BoundsAssumption, RowTypes DEF DeleteWorkspace, Event, TypeOK
<1>12. QED
  BY <1>1, <1>2, <1>3, <1>4, <1>5, <1>6, <1>7, <1>8, <1>9, <1>10, <1>11

LEMMA TypesStep == ASSUME TypeOK, Answers, [Next]_vars PROVE TypeOK'
<1>1. CASE UNCHANGED vars
  BY <1>1 DEF vars, TypeOK
<1>2. CASE Next
  BY <1>2, LoopTypes, WorkTypes, AroundTypes DEF Next, Task
<1>3. QED
  BY <1>1, <1>2

-----------------------------------------------------------------------------
(* Where the task is. *)

\* The steps of the work leave the place of the task and the steps' marks alone.
Work ==
  \/ Attempt \/ Unattempted \/ Branch \/ Refuse \/ Withdraw \/ Call
  \/ Answer \/ TooLarge \/ RecordAnswer \/ Judge \/ Retry \/ Wake

LEMMA WorkFrame ==
  ASSUME TypeOK, Work
  PROVE  /\ pc = "step" /\ UNCHANGED <<pc, at, live, kind, signal, done>>
         /\ run'.steps = run.steps /\ run'.status = run.status /\ run'.code = run.code
         /\ \A i \in Step : i # at => /\ run'.last[i] = run.last[i]
                                      /\ run'.tries[i] = run.tries[i]
                                      /\ call'[i] = call[i]
<1>0. at \in Step /\ run \in Record /\ call \in [Step -> {"none", "out", "dropped", "ok", "transient", "failed", "uncertain"}]
  BY DEF TypeOK
<1>1. pc = "step" /\ UNCHANGED <<pc, at, live, kind, signal, done>>
  BY DEF Work, Attempt, Unattempted, Branch, Refuse, Withdraw, Call, Answer, TooLarge,
     RecordAnswer, Judge, Retry, Wake, Working, Inside
<1>2. \/ run' = run
      \/ \E n \in Int, a \in Attempted : run' = [run EXCEPT !.tries[at] = n, !.last[at] = a]
      \/ \E a \in Attempted : run' = [run EXCEPT !.last[at] = a]
  <2>1. run.tries[at] \in Int /\ {"open", "ok", "transient", "failed", "uncertain", "cancelled"} \subseteq Attempted
    BY <1>0 DEF Record, Attempted, Code
  <2>2. CASE Attempt
    <3>1. run' = [run EXCEPT !.tries[at] = run.tries[at] + 1, !.last[at] = "open"]
      BY <2>2 DEF Attempt
    <3>2. run.tries[at] + 1 \in Int
      BY <2>1
    <3>3. QED
      BY <2>1, <3>1, <3>2
  <2>3. CASE Branch
    <3>1. run' = run \/ run' = [run EXCEPT !.tries[at] = 1, !.last[at] = "ok"]
      BY <2>3 DEF Branch
    <3>2. 1 \in Int /\ "ok" \in Attempted
      BY <2>1
    <3>3. QED
      BY <3>1, <3>2
  <2>4. CASE Refuse \/ Answer \/ Wake
    BY <2>1, <2>4 DEF Refuse, Answer, Wake
  <2>5. CASE Unattempted \/ Withdraw \/ Call \/ TooLarge \/ RecordAnswer \/ Judge \/ Retry
    BY <2>5 DEF Unattempted, Withdraw, Call, TooLarge, RecordAnswer, Judge, Retry
  <2>6. QED
    BY <2>2, <2>3, <2>4, <2>5 DEF Work
<1>3. /\ run'.steps = run.steps /\ run'.status = run.status /\ run'.code = run.code
      /\ \A i \in Step : i # at => run'.last[i] = run.last[i] /\ run'.tries[i] = run.tries[i]
  BY <1>0, <1>2 DEF Record
<1>4. \A i \in Step : i # at => call'[i] = call[i]
  BY <1>0 DEF Work, Attempt, Unattempted, Branch, Refuse, Withdraw, Call, Answer, TooLarge,
     RecordAnswer, Judge, Retry, Wake
<1>5. QED
  BY <1>1, <1>3, <1>4

\* What the end of a step does to the copy.
LEMMA SucceedCopy ==
  ASSUME TypeOK, NEW next \in 1..(Steps + 1), Succeed(next)
  PROVE  /\ \A i \in Step : run'.steps[i] = IF i = at THEN "succeeded"
                                            ELSE IF at < i /\ i < next THEN "skipped"
                                            ELSE run.steps[i]
         /\ run'.last = run.last /\ run'.code = run.code /\ run'.tries = run.tries
         /\ \/ pc' = "loop" /\ at' = next /\ next \in Step /\ run'.status = run.status
            \/ pc' = "last" /\ at' = at /\ next = Steps + 1 /\ run'.status = "succeeded"
<1> DEFINE s == [run EXCEPT !.steps[at] = "succeeded"]
           k == [i \in Step |-> IF at < i /\ i < next THEN "skipped" ELSE s.steps[i]]
<1>0. at \in Step /\ run \in Record
  BY DEF TypeOK
<1>1. run' = [s EXCEPT !.steps = k, !.status = IF next > Steps THEN "succeeded" ELSE run.status]
  BY <1>0 DEF Succeed, Record
<1>2. /\ s.steps = [run.steps EXCEPT ![at] = "succeeded"] /\ s \in Record
      /\ s.last = run.last /\ s.code = run.code /\ s.tries = run.tries
  BY <1>0 DEF Record, StepStatus
<1>3. /\ run'.steps = k /\ run'.last = run.last /\ run'.code = run.code /\ run'.tries = run.tries
      /\ run'.status = IF next > Steps THEN "succeeded" ELSE run.status
  BY <1>1, <1>2 DEF Record
<1>4. \A i \in Step : run'.steps[i] = IF i = at THEN "succeeded"
                                      ELSE IF at < i /\ i < next THEN "skipped"
                                      ELSE run.steps[i]
  <2>1. \A i \in Step : s.steps[i] = IF i = at THEN "succeeded" ELSE run.steps[i]
    BY <1>0, <1>2 DEF Record
  <2>2. \A i \in Step : run'.steps[i] = IF at < i /\ i < next THEN "skipped" ELSE s.steps[i]
    BY <1>3
  <2>3. ~(at < at)
    BY <1>0 DEF Step
  <2>4. QED
    BY <2>1, <2>2, <2>3
<1>5. QED
  BY <1>3, <1>4, StepsAssumption DEF Succeed, Step

LEMMA UnwrittenCopy ==
  ASSUME TypeOK, SucceedUnwritten
  PROVE  /\ \A i \in Step : run'.steps[i] = IF i = at THEN "succeeded" ELSE run.steps[i]
         /\ run'.last = run.last /\ run'.code = run.code /\ run'.tries = run.tries
         /\ run'.status = "failed" /\ pc' = "last" /\ at' = at
BY DEF SucceedUnwritten, TypeOK, Record

LEMMA FailCopy ==
  ASSUME TypeOK, NEW c \in Code, Fail(c)
  PROVE  /\ \A i \in Step : i # at =>
              /\ run'.steps[i] = run.steps[i] /\ run'.code[i] = run.code[i]
              /\ run'.last[i] = run.last[i]
         /\ run'.steps[at] = StatusOf(c) /\ run'.code[at] = c
         /\ run'.last[at] = IF run.last[at] = "open" THEN c ELSE run.last[at]
         /\ run'.tries = run.tries
         /\ run'.status = StatusOf(c) /\ pc' = "last" /\ at' = at
         /\ row' = row
<1>0. at \in Step /\ run \in Record
  BY DEF TypeOK
<1>1. run' = [run EXCEPT !.steps[at] = StatusOf(c), !.status = StatusOf(c), !.code[at] = c,
                         !.last[at] = IF run.last[at] = "open" THEN c ELSE run.last[at]]
  BY DEF Fail
<1>2. QED
  BY <1>0, <1>1 DEF Fail, Record

\* Every end of a step, with what it ends as.
LEMMA Ending ==
  ASSUME TypeOK, Answers, Observe \/ GraceExpires
  PROVE  \E c \in Code, next \in 1..(Steps + 1) :
           /\ Settle(c, next) /\ next > at
           /\ pc = "step" /\ UNCHANGED <<live, kind, work, result, signal, done, late>>
           /\ \/ work = "ready" /\ c \in Fitted(Completed) /\ UNCHANGED call
              \/ /\ work # "ready" /\ Cancelled /\ c \in Fitted(Abandoned)
                 /\ call' = [call EXCEPT ![at] = IF @ = "out" THEN "dropped" ELSE @]
<1>0. result.next \in 1..(Steps + 1)
  BY DEF TypeOK, Result
<1>1. CASE Observe
  <2>1. PICK c \in Fitted(Completed), n \in Onward : Settle(c, n)
    BY <1>1 DEF Observe
  <2>2. c \in Code
    BY OutcomeCodes, CodeFacts, <2>1
  <2>3. n \in 1..(Steps + 1) /\ n > at
    BY <1>0, <1>1, AheadFacts DEF Observe, Working, Answers, Onward
  <2>4. QED
    BY <1>0, <1>1, <2>1, <2>2, <2>3 DEF Observe, Working
<1>2. CASE GraceExpires
  <2>1. PICK c \in Fitted(Abandoned), n \in Ahead : Settle(c, n)
    BY <1>2 DEF GraceExpires
  <2>2. c \in Code
    BY <1>2, OutcomeCodes, CodeFacts, <2>1 DEF GraceExpires
  <2>3. n \in 1..(Steps + 1) /\ n > at
    BY AheadFacts
  <2>4. QED
    BY <1>2, <2>1, <2>2, <2>3 DEF GraceExpires
<1>3. QED
  BY <1>1, <1>2

\* Everybody else leaves the copy and its place alone.
Others ==
  \/ Timeout \/ Heartbeat \/ (\E i \in Step : TakeEffect(i))
  \/ Stale \/ RecoverStale \/ Cancel \/ DeleteFlow \/ DeleteWorkspace

LEMMA OthersFrame ==
  ASSUME Others
  PROVE  UNCHANGED <<kind, run, pc, at, work, result, call, late>>
BY DEF Others, Timeout, Heartbeat, Polling, TakeEffect, Stale, RecoverStale, Cancel, DeleteFlow, DeleteWorkspace

LEMMA NextCases ==
  ASSUME Next
  PROVE  Load \/ Prepare \/ Insert \/ Spawn \/ Head \/ Start \/ Final \/ Work
         \/ Observe \/ GraceExpires \/ Die \/ Others
BY DEF Next, Task, Work, Others

\* The heads and the final write, as changes of the copy.
LEMMA FinalCopy ==
  ASSUME TypeOK, Final
  PROVE  /\ \A i \in Step : run'.steps[i] = IF run.steps[i] = "pending" THEN "skipped" ELSE run.steps[i]
         /\ run'.last = run.last /\ run'.code = run.code /\ run'.tries = run.tries
         /\ run'.status = run.status
BY DEF Final, TypeOK, Record

LEMMA StartCopy ==
  ASSUME TypeOK, Start
  PROVE  /\ \A i \in Step : run'.steps[i] = IF i = at THEN "running" ELSE run.steps[i]
         /\ run'.last = run.last /\ run'.code = run.code /\ run'.tries = run.tries
         /\ \/ pc' = "step" /\ run'.status = run.status
               /\ work' = "begin" /\ result' = Nothing /\ signal' = "none"
            \/ pc' = "last" /\ run'.status = "failed" /\ UNCHANGED <<work, result, signal>>
<1> DEFINE r == [run EXCEPT !.steps[at] = "running"]
<1>0. at \in Step /\ run \in Record
  BY DEF TypeOK
<1>1. \/ run' = r /\ pc' = "step" /\ work' = "begin" /\ result' = Nothing /\ signal' = "none"
      \/ run' = [r EXCEPT !.status = "failed"] /\ pc' = "last" /\ UNCHANGED <<work, result, signal>>
  BY DEF Start
<1>2. /\ \A i \in Step : r.steps[i] = IF i = at THEN "running" ELSE run.steps[i]
      /\ r.last = run.last /\ r.code = run.code /\ r.tries = run.tries /\ r.status = run.status
      /\ r \in Record
  BY <1>0 DEF Record, StepStatus
<1>3. QED
  BY <1>1, <1>2 DEF Record

LEMMA HeadCopy ==
  ASSUME TypeOK, Head
  PROVE  /\ run'.steps = run.steps /\ run'.last = run.last /\ run'.code = run.code
         /\ run'.tries = run.tries
         /\ \/ pc' = "start" /\ run'.status = run.status
            \/ pc' = "last" /\ run'.status \in {"cancelled", "failed"}
BY DEF Head, TypeOK, Record

LEMMA PositionStep == ASSUME TypeOK, Position, Answers, [Next]_vars PROVE Position'
<1>0. at \in Step /\ run \in Record
  BY DEF TypeOK
<1>1. CASE UNCHANGED vars
  BY <1>1 DEF vars, Position
<1>2. CASE Load
  BY <1>2 DEF Load, Position
<1>3. CASE Prepare
  BY <1>3 DEF Prepare, Position, Fresh, Unprepared
<1>4. CASE Insert
  BY <1>4 DEF Insert, Position
<1>5. CASE Spawn
  <2>1. run.status = "running" => run = Fresh
    BY <1>5 DEF Spawn, Position, Unprepared, Fresh
  <2>2. run = Fresh => \A i \in Step : run.steps[i] = "pending"
    BY DEF Fresh
  <2>3. QED
    BY <1>0, <1>5, <2>1, <2>2 DEF Spawn, Position, Step
<1>6. CASE Head
  BY <1>0, <1>6, HeadCopy DEF Head, Outside, Position
<1>7. CASE Start
  BY <1>0, <1>7, StartCopy, StepFacts DEF Start, Position
<1>8. CASE Final
  BY <1>8 DEF Final, Position
<1>9. CASE Work
  BY <1>9, WorkFrame DEF Position
<1>10. CASE Observe \/ GraceExpires
  <2>1. PICK c \in Code, next \in 1..(Steps + 1) : Settle(c, next) /\ next > at /\ pc = "step"
    BY <1>10, Ending
  <2>2. CASE Succeed(next)
    BY <1>0, <2>1, <2>2, SucceedCopy, StepFacts DEF Position
  <2>3. CASE SucceedUnwritten
    BY <2>3, UnwrittenCopy DEF Position
  <2>4. CASE Fail(c)
    BY <2>4, FailCopy DEF Position, StatusOf
  <2>5. QED
    BY <2>1, <2>2, <2>3, <2>4 DEF Settle
<1>11. CASE Die
  BY <1>11 DEF Die, Position
<1>12. CASE Others
  <2>1. row'.exists => row.exists
    BY <1>12 DEF Others, Timeout, Polling, Heartbeat, Unwritten, TakeEffect, Stale, RecoverStale, Cancel,
       DeleteFlow, DeleteWorkspace, NoRow, TypeOK, Held
  <2>2. QED
    BY <1>12, <2>1, OthersFrame DEF Position
<1>13. QED
  BY <1>1, <1>2, <1>3, <1>4, <1>5, <1>6, <1>7, <1>8, <1>9, <1>10, <1>11, <1>12, NextCases

-----------------------------------------------------------------------------
(* Calls and their answers. *)

\* What each step of the work does to the step's last attempt and its call.
LEMMA WorkCopy ==
  ASSUME TypeOK
  PROVE  /\ Attempt => run'.last[at] = "open" /\ run'.tries[at] = run.tries[at] + 1 /\ call' = call
         /\ Branch => run'.last[at] \in {"ok", run.last[at]} /\ call' = call
         /\ Refuse => run'.last[at] \in {"cancelled", "failed", "transient"} /\ call' = call
         /\ Call => call'[at] = "out" /\ run' = run
         /\ Answer => /\ run'.last[at] = call'[at]
                      /\ call'[at] \in {"ok", "transient", "failed", "uncertain"}
                      /\ call'[at] = "ok" => at \in done
         /\ TooLarge => call'[at] = "ok" /\ at \in done /\ run' = run
         /\ Wake => call' = call /\ \/ run' = run
                                    \/ kind[at] = "wait" /\ run'.last[at] = "ok" /\ work' = "ready"
         /\ Unattempted \/ Withdraw \/ RecordAnswer \/ Judge \/ Retry => run' = run /\ call' = call
         /\ Refuse \/ Answer => run'.tries = run.tries
<1>0. at \in Step /\ run \in Record /\ call \in [Step -> {"none", "out", "dropped", "ok", "transient", "failed", "uncertain"}]
  BY DEF TypeOK
<1>1. Attempt => run'.last[at] = "open" /\ run'.tries[at] = run.tries[at] + 1 /\ call' = call
  BY <1>0 DEF Attempt, Record
<1>2. Branch => run'.last[at] \in {"ok", run.last[at]} /\ call' = call
  BY <1>0 DEF Branch, Record
<1>3. Refuse => /\ run'.last[at] \in {"cancelled", "failed", "transient"} /\ call' = call
                /\ run'.tries = run.tries
  BY <1>0 DEF Refuse, Record
<1>4. Answer => /\ run'.last[at] = call'[at] /\ run'.tries = run.tries
                /\ call'[at] \in {"ok", "transient", "failed", "uncertain"}
                /\ call'[at] = "ok" => at \in done
  BY <1>0 DEF Answer, Record
<1>5. Wake => call' = call /\ \/ run' = run
                              \/ kind[at] = "wait" /\ run'.last[at] = "ok" /\ work' = "ready"
  BY <1>0 DEF Wake, Record, Ready
<1>6. QED
  BY <1>0, <1>1, <1>2, <1>3, <1>4, <1>5
     DEF Call, TooLarge, Unattempted, Withdraw, RecordAnswer, Judge, Retry

\* The facts of Calls that a step of the work can disturb.
LEMMA WorkCalls ==
  ASSUME TypeOK, Position, Calls, Answers, Work
  PROVE  Calls'
<1>0. /\ at \in Step /\ run.steps[at] = "running" /\ pc = "step" /\ at' = at /\ pc' = pc
      /\ kind' = kind /\ done' = done
      /\ run'.steps = run.steps /\ run'.code = run.code
  BY WorkFrame DEF TypeOK, Position
<1>1. /\ call'[at] = "out" => work' = "out"
      /\ call'[at] # "dropped"
      /\ call'[at] = "ok" => at \in done
      /\ External(at) /\ run'.last[at] = "ok" => call'[at] = "ok"
  <2>1. call[at] # "dropped" /\ (call[at] = "out" => work = "out")
        /\ (call[at] = "ok" => at \in done) /\ (External(at) /\ run.last[at] = "ok" => call[at] = "ok")
    BY <1>0 DEF Calls, Over
  <2>2. CASE Attempt
    BY <2>1, <2>2, WorkCopy DEF Attempt, Working
  <2>3. CASE Branch
    BY <2>1, <2>3, WorkCopy DEF Branch, Working, External
  <2>4. CASE Refuse
    BY <2>1, <2>4, WorkCopy DEF Refuse, Working
  <2>5. CASE Call
    BY <1>0, <2>1, <2>5, WorkCopy DEF Call, Working, Go, Answers
  <2>6. CASE Answer
    BY <2>6, WorkCopy
  <2>7. CASE TooLarge
    BY <2>7, WorkCopy
  <2>8. CASE Wake
    BY <2>1, <2>8, WorkCopy DEF Wake, Working, External
  <2>9. CASE Unattempted \/ Withdraw \/ RecordAnswer \/ Judge \/ Retry
    BY <2>1, <2>9, WorkCopy DEF Unattempted, Withdraw, RecordAnswer, Judge, Retry, Working
  <2>10. QED
    BY <2>2, <2>3, <2>4, <2>5, <2>6, <2>7, <2>8, <2>9 DEF Work
<1>2. ASSUME NEW i \in Step, i # at
      PROVE  /\ run'.last[i] = run.last[i] /\ call'[i] = call[i] /\ call[i] \notin {"out", "dropped"}
  BY <1>0, <1>2, WorkFrame DEF Calls, Over
<1>3. run.code[at] = "ok"
  BY <1>0 DEF Calls, Over
<1>4. \A i \in Step : External(i)' = External(i)
  BY <1>0 DEF External
<1>5. ASSUME NEW i \in Step
      PROVE  /\ run'.steps[i] = "pending" => call'[i] = "none"
             /\ call'[i] = "out" => pc' = "step" /\ work' = "out" /\ at' = i
             /\ call'[i] = "dropped" => pc' \in Over /\ run'.last[i] \in {"open", "uncertain"}
             /\ call'[i] = "ok" => i \in done'
             /\ External(i)' /\ run'.last[i] = "ok" => call'[i] = "ok"
             /\ External(i)' /\ run'.steps[i] \in Stopping => call'[i] \notin Unsafe
             /\ run'.steps[i] \in Stopping \/ run'.code[i] # "ok" => pc' \in Over
  <2>1. CASE i = at
    BY <1>0, <1>1, <1>3, <1>4, <2>1 DEF Stopping
  <2>2. CASE i # at
    BY <1>0, <1>2, <1>4, <2>2 DEF Calls
  <2>3. QED
    BY <2>1, <2>2
<1>6. QED
  BY <1>5 DEF Calls

\* The end of a step: what it ends with agrees with its call.
LEMMA EndingCalls ==
  ASSUME TypeOK, Position, Calls, Answers, Observe \/ GraceExpires
  PROVE  Calls'
<1>1. PICK c \in Code, next \in 1..(Steps + 1) :
        /\ Settle(c, next) /\ next > at
        /\ pc = "step" /\ UNCHANGED <<live, kind, work, result, signal, done, late>>
        /\ \/ work = "ready" /\ c \in Fitted(Completed) /\ UNCHANGED call
           \/ /\ work # "ready" /\ Cancelled /\ c \in Fitted(Abandoned)
              /\ call' = [call EXCEPT ![at] = IF @ = "out" THEN "dropped" ELSE @]
  BY Ending
<1>2. /\ at \in Step /\ run \in Record /\ run.steps[at] = "running"
      /\ call \in [Step -> {"none", "out", "dropped", "ok", "transient", "failed", "uncertain"}]
      /\ work \in {"begin", "call", "out", "answered", "judge", "retry", "pause", "ready"}
      /\ Cancelled => signal \in {"timeout", "cancelled", "fault"}
  BY <1>1 DEF TypeOK, Position, Cancelled
<1>3. /\ \A i \in Step : i # at => call'[i] = call[i] /\ call[i] \notin {"out", "dropped"}
      /\ \/ call'[at] = call[at] /\ call[at] # "out"
         \/ call[at] = "out" /\ call'[at] = "dropped" /\ work = "out"
      /\ call[at] # "dropped"
  <2>1. \A i \in Step : call[i] # "dropped" /\ (call[i] = "out" => work = "out" /\ at = i)
    BY <1>1 DEF Calls, Over
  <2>2. CASE work = "ready" /\ call' = call
    BY <1>2, <2>1, <2>2
  <2>3. CASE call' = [call EXCEPT ![at] = IF call[at] = "out" THEN "dropped" ELSE call[at]]
    BY <1>2, <2>1, <2>3
  <2>4. QED
    BY <1>1, <2>2, <2>3
<1>4. \A i \in Step : External(i)' = External(i)
  BY <1>1 DEF External
<1>5. call[at] = "out" => c = "uncertain" /\ run.last[at] = "open"
  BY <1>1, <1>2, <1>3 DEF Answers, Abandoned, Fitted
<1>6. External(at) /\ c \in {"cancelled", "timeout"} => call[at] \notin Unsafe
  <2>1. CASE work = "ready"
    <3>1. c = Completed \/ c \in {"ok", "failed"}
      BY <1>1, <2>1 DEF Fitted
    <3>2. c \in {"cancelled", "timeout"} => result.code \in {"cancelled", "timeout"}
      BY <3>1 DEF Completed
    <3>3. QED
      BY <1>1, <2>1, <3>2 DEF Answers
  <2>2. CASE work # "ready"
    <3>1. c = Abandoned \/ c \in {"ok", "failed"}
      BY <1>1, <2>2 DEF Fitted
    <3>2. CASE work = "answered"
      BY <1>1, <3>1, <3>2 DEF Answers, Abandoned
    <3>3. CASE work = "out"
      BY <1>1, <3>1, <3>3 DEF Answers, Abandoned
    <3>4. QED
      BY <1>1, <1>2, <2>2, <3>2, <3>3 DEF Answers
  <2>3. QED
    BY <2>1, <2>2
<1>7. ASSUME NEW i \in Step
      PROVE  /\ run'.steps[i] = "pending" => call'[i] = "none"
             /\ call'[i] = "out" => pc' = "step" /\ work' = "out" /\ at' = i
             /\ call'[i] = "dropped" => pc' \in Over /\ run'.last[i] \in {"open", "uncertain"}
             /\ call'[i] = "ok" => i \in done'
             /\ External(i)' /\ run'.last[i] = "ok" => call'[i] = "ok"
             /\ External(i)' /\ run'.steps[i] \in Stopping => call'[i] \notin Unsafe
             /\ run'.steps[i] \in Stopping \/ run'.code[i] # "ok" => pc' \in Over
  <2>1. CASE c = "ok"
    <3>1. /\ run'.last = run.last /\ run'.code = run.code /\ run'.steps[at] = "succeeded"
          /\ i # at => run'.steps[i] \in {run.steps[i], "skipped"}
      BY <1>1, <1>2, <2>1, SucceedCopy, UnwrittenCopy DEF Settle
    <3>2. run.code[i] = "ok" /\ run.steps[i] \notin Stopping
      BY <1>1 DEF Calls, Over
    <3>3. call'[i] = call[i] /\ call[i] \notin {"out", "dropped"}
      BY <1>3, <1>5, <2>1
    <3>4. QED
      BY <1>1, <1>2, <1>4, <2>1, <3>1, <3>2, <3>3 DEF Calls, Stopping
  <2>2. CASE c # "ok" /\ Fail(c)
    <3>1. CASE i = at
      BY <1>1, <1>2, <1>3, <1>4, <1>5, <1>6, <2>2, <3>1, FailCopy
         DEF Calls, StatusOf, Over, Stopping, Unsafe
    <3>2. CASE i # at
      BY <1>1, <1>2, <1>3, <1>4, <2>2, <3>2, FailCopy DEF Calls, Over
    <3>3. QED
      BY <3>1, <3>2
  <2>3. QED
    BY <1>1, <2>1, <2>2 DEF Settle
<1>8. QED
  BY <1>7 DEF Calls

LEMMA CallsStep == ASSUME TypeOK, Position, Calls, Answers, [Next]_vars PROVE Calls'
<1>0. at \in Step /\ run \in Record
  BY DEF TypeOK
<1>1. CASE UNCHANGED vars
  BY <1>1 DEF vars, Calls, External
<1>2. CASE Load \/ Insert \/ Spawn
  BY <1>2 DEF Load, Insert, Spawn, Calls, External, Over
<1>3. CASE Prepare
  <2>1. \/ run' = run
        \/ /\ \A i \in Step : run'.steps[i] = "skipped"
           /\ run'.last = run.last /\ run'.code = run.code
    <3> DEFINE k == [i \in Step |-> "skipped"]
    <3>1. run' = run \/ run' = [run EXCEPT !.status = "validationFailed", !.steps = k]
      BY <1>3 DEF Prepare
    <3>2. \A i \in Step : k[i] = "skipped"
      OBVIOUS
    <3> HIDE DEF k
    <3>3. QED
      BY <1>0, <3>1, <3>2 DEF Record
  <2>2. QED
    BY <1>3, <2>1 DEF Prepare, Calls, External, Over, Stopping
<1>4. CASE Head
  BY <1>4, HeadCopy DEF Head, Outside, Calls, External, Over
<1>5. CASE Start
  <2>1. \A i \in Step : call[i] \notin {"out", "dropped"}
    BY <1>5 DEF Start, Calls, Over
  <2>2. QED
    BY <1>5, <2>1, StartCopy DEF Start, Calls, External, Over, Stopping
<1>6. CASE Final
  BY <1>6, FinalCopy DEF Final, Outside, Calls, External, Over, Stopping
<1>7. CASE Work
  BY <1>7, WorkCalls
<1>8. CASE Observe \/ GraceExpires
  BY <1>8, EndingCalls
<1>9. CASE Die
  <2>1. \A i \in Step : call'[i] = IF call[i] = "out" THEN "dropped" ELSE call[i]
    BY <1>9 DEF Die
  <2>2. \A i \in Step : call[i] = "out" => /\ run.last[i] = "open" /\ run.steps[i] \notin Stopping
                                           /\ run.steps[i] # "pending"
    BY <1>9 DEF Calls, Answers, Over, Unsafe
  <2>3. QED
    BY <1>9, <2>1, <2>2 DEF Die, Calls, External, Over, Unsafe
<1>10. CASE Others
  <2>1. done \subseteq done'
    BY <1>10 DEF Others, Timeout, Polling, Heartbeat, TakeEffect, Stale, RecoverStale, Cancel,
       DeleteFlow, DeleteWorkspace
  <2>2. QED
    BY <1>10, <2>1, OthersFrame DEF Calls, External
<1>11. QED
  BY <1>1, <1>2, <1>3, <1>4, <1>5, <1>6, <1>7, <1>8, <1>9, <1>10, NextCases

LEMMA AnswersStep == ASSUME TypeOK, Position, Calls, Answers, [Next]_vars PROVE Answers'
<1>0. /\ at \in Step /\ run \in Record /\ result \in Result
      /\ call \in [Step -> {"none", "out", "dropped", "ok", "transient", "failed", "uncertain"}]
  BY DEF TypeOK
<1>1. CASE UNCHANGED vars
  BY <1>1 DEF vars, Answers, External
<1>2. CASE Load \/ Prepare \/ Insert \/ Spawn \/ Head \/ Final \/ Die
  BY <1>2 DEF Load, Prepare, Insert, Spawn, Head, Final, Die, Answers
<1>3. CASE Start
  <2>1. pc' = "step" => work' = "begin"
    BY <1>3, StartCopy
  <2>2. call[at] = "none" /\ at' = at /\ call' = call
    BY <1>0, <1>3 DEF Start, Position, Calls
  <2>3. QED
    BY <2>1, <2>2 DEF Answers, Unsafe
<1>4. CASE Work
  <2>0. pc' = pc /\ at' = at /\ \A i \in Step : External(i)' = External(i)
    BY <1>4, WorkFrame DEF External
  <2>00. at + 1 > at
    BY <1>0, StepFacts
  <2>1. CASE Attempt
    BY <1>0, <2>0, <2>00, <2>1, WorkCopy DEF Attempt, Working, Go, Ready, Answers
  <2>2. CASE Unattempted
    BY <1>0, <2>0, <2>00, <2>2, WorkCopy DEF Unattempted, Working, Ready, Answers
  <2>3. CASE Branch
    BY <1>0, <2>0, <2>00, <2>3, WorkCopy, StepFacts DEF Branch, Working, Answers, Step
  <2>4. CASE Refuse
    BY <1>0, <2>0, <2>00, <2>4, WorkCopy DEF Refuse, Working, Go, Answers
  <2>5. CASE Withdraw
    BY <1>0, <2>0, <2>00, <2>5, WorkCopy DEF Withdraw, Working, Ready, Answers
  <2>6. CASE Call
    BY <1>0, <2>0, <2>00, <2>6, WorkCopy DEF Call, Working, Go, Answers
  <2>7. CASE Answer
    BY <1>0, <2>0, <2>00, <2>7, WorkCopy DEF Answer, Working, Go, Answers, Unsafe
  <2>8. CASE TooLarge
    BY <1>0, <2>0, <2>00, <2>8, WorkCopy DEF TooLarge, Working, Ready, Answers, Unsafe
  <2>9. CASE RecordAnswer
    BY <1>0, <2>0, <2>00, <2>9, WorkCopy DEF RecordAnswer, Working, Go, Ready, Answers
  <2>10. CASE Judge
    BY <1>0, <2>0, <2>00, <2>10, WorkCopy DEF Judge, Working, Go, Ready, Answers
  <2>11. CASE Retry
    BY <1>0, <2>0, <2>00, <2>11, WorkCopy DEF Retry, Working, Go, Ready, Answers
  <2>12. CASE Wake
    BY <1>0, <2>0, <2>00, <2>12, WorkCopy DEF Wake, Working, Go, Ready, Answers, External
  <2>13. QED
    BY <1>4, <2>1, <2>2, <2>3, <2>4, <2>5, <2>6, <2>7, <2>8, <2>9, <2>10, <2>11, <2>12 DEF Work
<1>5. CASE Observe \/ GraceExpires
  <2>1. pc' # "step"
    BY <1>5, Ending, SucceedCopy, UnwrittenCopy, FailCopy DEF Settle
  <2>2. QED
    BY <2>1 DEF Answers
<1>6. CASE Others
  BY <1>6, OthersFrame DEF Answers, External
<1>7. QED
  BY <1>1, <1>2, <1>3, <1>4, <1>5, <1>6, NextCases

LEMMA ActionStep ==
  ASSUME TypeOK, Position, Calls, Answers, Action, [Next]_vars
  PROVE  Action'
<1>0. /\ at \in Step /\ run \in Record /\ result \in Result
      /\ call \in [Step -> {"none", "out", "dropped", "ok", "transient", "failed", "uncertain"}]
  BY DEF TypeOK
<1>1. CASE UNCHANGED vars
  BY <1>1 DEF vars, Action
<1>2. CASE Load \/ Insert \/ Spawn
  BY <1>2 DEF Load, Insert, Spawn, Action
<1>3. CASE Prepare
  <2>1. run' = run \/ (run'.code = run.code /\ \A i \in Step : run'.steps[i] = "skipped")
    <3> DEFINE k == [i \in Step |-> "skipped"]
    <3>1. run' = run \/ run' = [run EXCEPT !.status = "validationFailed", !.steps = k]
      BY <1>3 DEF Prepare
    <3>2. \A i \in Step : k[i] = "skipped"
      OBVIOUS
    <3> HIDE DEF k
    <3>3. QED
      BY <1>0, <3>1, <3>2 DEF Record
  <2>2. QED
    BY <1>3, <2>1 DEF Prepare, Action, Stopping
<1>4. CASE Head
  BY <1>4, HeadCopy DEF Head, Outside, Action
<1>5. CASE Start
  <2>1. call[at] = "none" /\ at' = at /\ call' = call /\ kind' = kind /\ done' = done
    BY <1>0, <1>5 DEF Start, Position, Calls
  <2>2. QED
    BY <2>1, <1>5, StartCopy DEF Action, Stopping
<1>6. CASE Final
  BY <1>6, FinalCopy DEF Final, Outside, Action, Stopping
<1>7. CASE Work
  <2>0. /\ pc = "step" /\ pc' = pc /\ at' = at /\ kind' = kind /\ done' = done
        /\ run'.steps = run.steps /\ run'.code = run.code
        /\ \A i \in Step : i # at => call'[i] = call[i]
    BY <1>7, WorkFrame
  <2>1. \A i \in Step : kind[i] = "action" =>
          /\ run'.steps[i] = "succeeded" => i \in done'
          /\ call'[i] = "ok" => run'.steps[i] \notin Stopping /\ run'.code[i] # "uncertain"
    <3>1. run.steps[at] = "running" /\ run.code[at] = "ok"
      BY <1>0, <2>0 DEF Position, Calls, Over
    <3>2. QED
      BY <2>0, <3>1 DEF Action, Stopping
  <2>2. ASSUME kind[at] = "action"
        PROVE  /\ work' \notin {"judge", "retry", "pause"}
               /\ work' \in {"begin", "call"} => call'[at] = "none"
               /\ work' = "answered" /\ call'[at] = "ok" => run'.last[at] = "ok"
               /\ work' = "ready" /\ call'[at] = "ok" =>
                    result'.code \notin {"cancelled", "timeout", "uncertain"}
               /\ work' = "ready" /\ result'.code = "ok" => at \in done
    <3>0. External(at)
      BY <2>2 DEF External
    <3>1. CASE Attempt \/ Unattempted
      BY <1>0, <2>2, <3>0, <3>1, WorkCopy DEF Attempt, Unattempted, Working, Go, Ready, Action
    <3>2. CASE Branch \/ Judge \/ Retry \/ Wake
      BY <2>0, <2>2, <3>2 DEF Branch, Judge, Retry, Wake, Working, Action
    <3>3. CASE Refuse
      BY <2>0, <2>2, <3>3, WorkCopy DEF Refuse, Working, Go, Action
    <3>4. CASE Withdraw
      BY <2>0, <2>2, <3>4, WorkCopy DEF Withdraw, Working, Ready, Action
    <3>5. CASE Call
      BY <3>5, WorkCopy DEF Call, Go
    <3>6. CASE Answer
      BY <3>6, WorkCopy DEF Answer, Go
    <3>7. CASE TooLarge
      BY <3>7, WorkCopy DEF TooLarge, Ready
    <3>8. CASE RecordAnswer
      <4>1. run.last[at] = "ok" => call[at] = "ok" /\ at \in done
        BY <1>0, <3>0 DEF Calls
      <4>2. call[at] = "ok" => run.last[at] = "ok"
        BY <2>0, <2>2, <3>8 DEF RecordAnswer, Working, Action
      <4>3. QED
        BY <2>0, <2>2, <3>8, <4>1, <4>2, WorkCopy DEF RecordAnswer, Working, Go, Ready
    <3>9. QED
      BY <1>7, <3>1, <3>2, <3>3, <3>4, <3>5, <3>6, <3>7, <3>8 DEF Work
  <2>3. QED
    BY <2>0, <2>1, <2>2 DEF Action
<1>8. CASE Observe \/ GraceExpires
  <2>1. PICK c \in Code, next \in 1..(Steps + 1) :
          /\ Settle(c, next) /\ next > at
          /\ pc = "step" /\ UNCHANGED <<live, kind, work, result, signal, done, late>>
          /\ \/ work = "ready" /\ c \in Fitted(Completed) /\ UNCHANGED call
             \/ /\ work # "ready" /\ Cancelled /\ c \in Fitted(Abandoned)
                /\ call' = [call EXCEPT ![at] = IF @ = "out" THEN "dropped" ELSE @]
    BY <1>8, Ending
  <2>2. /\ work \in {"begin", "call", "out", "answered", "judge", "retry", "pause", "ready"}
        /\ Cancelled => signal \in {"timeout", "cancelled", "fault"}
    BY DEF TypeOK, Cancelled
  <2>3. pc' # "step" /\ \A i \in Step : i # at => /\ run'.steps[i] \in {run.steps[i], "skipped"}
                                                  /\ run'.code[i] = run.code[i]
    BY <1>0, <2>1, SucceedCopy, UnwrittenCopy, FailCopy DEF Settle
  <2>4. \A i \in Step : call'[i] = "ok" => call[i] = "ok"
    BY <1>0, <2>1
  <2>5. run.steps[at] = "running" /\ run.code[at] = "ok"
    BY <1>0, <2>1 DEF Position, Calls, Over
  <2>6. ASSUME kind[at] = "action"
        PROVE  /\ c = "ok" => at \in done
               /\ call[at] = "ok" => c \notin {"cancelled", "timeout", "uncertain"}
    <3>0. External(at)
      BY <2>6 DEF External
    <3>1. CASE work = "ready"
      <4>1. c = Completed \/ c = "failed"
        BY <2>1, <3>1 DEF Fitted
      <4>2. Completed = result.code \/ (result.code = "cancelled" /\ Completed = signal /\ Completed # "ok")
        BY <2>2 DEF Completed, Clean
      <4>3. QED
        BY <2>1, <2>6, <3>1, <4>1, <4>2 DEF Action
    <3>2. CASE work # "ready"
      <4>1. (c = Abandoned \/ c = "failed") /\ signal # "ok"
        BY <2>1, <2>2, <3>2 DEF Fitted
      <4>2. Abandoned = "ok" => run.last[at] = "ok"
        BY <2>1, <2>2, <3>2, <4>1 DEF Abandoned, Clean
      <4>3. run.last[at] = "ok" => call[at] = "ok" /\ at \in done
        BY <1>0, <3>0 DEF Calls
      <4>4. call[at] = "ok" => run.last[at] = "ok"
        BY <2>1, <2>2, <2>6, <3>2 DEF Action, Answers
      <4>5. run.last[at] = "ok" => Abandoned = "ok"
        BY <2>6 DEF Abandoned
      <4>6. QED
        BY <4>1, <4>2, <4>3, <4>4, <4>5
    <3>3. QED
      BY <3>1, <3>2
  <2>7. /\ run'.steps[at] = IF c = "ok" THEN "succeeded" ELSE StatusOf(c)
        /\ run'.code[at] = IF c = "ok" THEN "ok" ELSE c
    BY <1>0, <2>1, <2>5, SucceedCopy, UnwrittenCopy, FailCopy DEF Settle
  <2>8. QED
    BY <1>0, <2>1, <2>3, <2>4, <2>6, <2>7 DEF Action, StatusOf, Stopping
<1>9. CASE Die
  <2>1. \A i \in Step : call'[i] = "ok" => call[i] = "ok"
    BY <1>9 DEF Die
  <2>2. QED
    BY <1>9, <2>1 DEF Die, Action
<1>10. CASE Others
  <2>1. done \subseteq done'
    BY <1>10 DEF Others, Timeout, Polling, Heartbeat, TakeEffect, Stale, RecoverStale, Cancel,
       DeleteFlow, DeleteWorkspace
  <2>2. QED
    BY <1>10, <2>1, OthersFrame DEF Action
<1>11. QED
  BY <1>1, <1>2, <1>3, <1>4, <1>5, <1>6, <1>7, <1>8, <1>9, <1>10, NextCases

-----------------------------------------------------------------------------
(* The row and the copy. *)

\* Rows that say the same of the run.
Same(r, s) == r.steps = s.steps /\ r.tries = s.tries /\ r.last = s.last /\ r.code = s.code

LEMMA Written ==
  ASSUME TypeOK, NEW r \in Record
  PROVE  /\ Persisted(r) => Held /\ row'.run = r /\ row'.exists = row.exists
         /\ \A c \in {"lost", "fault"} : Unwritten(c) => row' = row /\ (c = "lost" => ~Held)
BY DEF Persisted, Unwritten, TypeOK

LEMMA WorkRow ==
  ASSUME TypeOK, Answers, Work
  PROVE  /\ \/ row' = row
            \/ Held /\ row'.run = run' /\ row'.exists = row.exists
         /\ Attempt /\ work' = "call" => row'.run = run'
         /\ ~Held => row' = row
         /\ ~Held /\ (Attempt \/ RecordAnswer) => work' = "ready"
         /\ ~Held /\ Retry => work' \in {"ready", "pause"}
<1>0. run \in Record
  BY DEF TypeOK
<1>1. CASE Attempt
  <2>1. run' \in Record /\ run' = [run EXCEPT !.tries[at] = @ + 1, !.last[at] = "open"]
    BY <1>1, WorkTypes DEF Attempt, TypeOK
  <2>2. QED
    BY <1>1, <2>1, Written DEF Attempt, Go, Ready, External
<1>2. CASE RecordAnswer
  BY <1>0, <1>2, Written DEF RecordAnswer, Ready, Attempt, Working
<1>3. CASE Retry
  BY <1>0, <1>3, Written DEF Retry, Ready, Go, Attempt, RecordAnswer, Working
<1>4. CASE Unattempted
  BY <1>4 DEF Unattempted, Ready, Attempt, RecordAnswer, Retry, Working
<1>5. CASE Branch \/ Refuse \/ Withdraw \/ Call \/ Answer \/ TooLarge \/ Judge \/ Wake
  BY <1>5 DEF Branch, Refuse, Withdraw, Call, Answer, TooLarge, Judge, Wake,
     Attempt, RecordAnswer, Retry, Working, External
<1>6. QED
  BY <1>1, <1>2, <1>3, <1>4, <1>5 DEF Work

LEMMA OthersRow ==
  ASSUME TypeOK, Others
  PROVE  /\ \/ ~row'.exists
            \/ row'.exists = row.exists /\ Same(row'.run, row.run)
               /\ row'.run.status \in {row.run.status, "interrupted"}
         /\ row'.exists => row.exists
         /\ ~Held => ~(Held')
<1>0. row.run \in Record
  BY DEF TypeOK
<1>1. CASE DeleteWorkspace
  BY <1>1 DEF DeleteWorkspace, NoRow, Held
<1>2. CASE RecoverStale
  BY <1>0, <1>2 DEF RecoverStale, Held, Same, TypeOK, Record
<1>3. CASE Timeout \/ Heartbeat \/ (\E i \in Step : TakeEffect(i)) \/ Stale \/ Cancel \/ DeleteFlow
  BY <1>3 DEF Timeout, Heartbeat, Polling, Unwritten, TakeEffect, Stale, Cancel, DeleteFlow, Held, Same, TypeOK
<1>4. QED
  BY <1>1, <1>2, <1>3 DEF Others

LEMMA AttemptsStep ==
  ASSUME TypeOK, Position, Calls, Answers, Attempts, [Next]_vars
  PROVE  Attempts'
<1>0. /\ at \in Step /\ run \in Record
      /\ call \in [Step -> {"none", "out", "dropped", "ok", "transient", "failed", "uncertain"}]
  BY DEF TypeOK
<1>1. CASE UNCHANGED vars
  BY <1>1 DEF vars, Attempts
<1>2. CASE Load \/ Prepare \/ Insert \/ Spawn \/ Head \/ Start
  <2>1. call' = call /\ \A i \in Step : call[i] # "dropped"
    BY <1>2 DEF Load, Prepare, Insert, Spawn, Head, Outside, Start, Calls, Over
  <2>2. pc' = "step" => work' = "begin"
    BY <1>2, StartCopy DEF Load, Prepare, Insert, Spawn, Head
  <2>3. QED
    BY <2>1, <2>2 DEF Attempts
<1>3. CASE Final
  <2>1. run' \in Record
    BY <1>3, LoopTypes DEF TypeOK
  <2>2. (row' = row \/ row'.run = run') /\ row'.exists = row.exists
    BY <1>3, <2>1, Written DEF Final
  <2>3. QED
    BY <1>3, <2>2, FinalCopy, ZenonT(60) DEF Final, Outside, Attempts, Calls
<1>4. CASE Work
  <2>0. /\ pc = "step" /\ at' = at /\ pc' = pc
        /\ \A i \in Step : i # at => call'[i] = call[i]
    BY <1>4, WorkFrame
  <2>1. \A i \in Step : call'[i] # "dropped"
    <3>1. call'[at] # "dropped"
      BY <1>0, <1>4, <2>0, WorkCalls DEF Calls, Over
    <3>2. QED
      BY <2>0, <3>1 DEF Calls, Over
  <2>2. ASSUME row'.exists, work' \in {"call", "out"}
        PROVE  row'.run.tries[at] = run'.tries[at] /\ row'.run.last[at] = "open"
    <3>1. CASE Attempt
      BY <2>2, <3>1, <1>4, WorkRow, WorkCopy DEF Attempt, Go, Ready
    <3>2. CASE Call
      BY <2>0, <2>2, <3>2 DEF Call, Working, Attempts
    <3>3. CASE Unattempted \/ Branch \/ Refuse \/ Withdraw \/ Answer \/ TooLarge
               \/ RecordAnswer \/ Judge \/ Retry \/ Wake
      BY <2>2, <3>3 DEF Unattempted, Branch, Refuse, Withdraw, Answer, TooLarge,
         RecordAnswer, Judge, Retry, Wake, Go, Ready
    <3>4. QED
      BY <1>4, <3>1, <3>2, <3>3 DEF Work
  <2>3. QED
    BY <2>0, <2>1, <2>2 DEF Attempts
<1>5. CASE Observe \/ GraceExpires
  <2>1. PICK c \in Code, next \in 1..(Steps + 1) :
          /\ Settle(c, next) /\ next > at
          /\ pc = "step" /\ UNCHANGED <<live, kind, work, result, signal, done, late>>
          /\ \/ work = "ready" /\ c \in Fitted(Completed) /\ UNCHANGED call
             \/ /\ work # "ready" /\ Cancelled /\ c \in Fitted(Abandoned)
                /\ call' = [call EXCEPT ![at] = IF @ = "out" THEN "dropped" ELSE @]
    BY <1>5, Ending
  <2>2. pc' # "step"
    BY <2>1, SucceedCopy, UnwrittenCopy, FailCopy DEF Settle
  <2>3. \A i \in Step : call[i] # "dropped" /\ (call[i] = "out" => work = "out" /\ at = i)
    BY <2>1 DEF Calls, Over
  <2>4. CASE \A i \in Step : call'[i] # "dropped"
    BY <2>2, <2>4 DEF Attempts
  <2>5. CASE \E i \in Step : call'[i] = "dropped"
    <3>1. work = "out" /\ (\A i \in Step : call'[i] = "dropped" => i = at) /\ c \in Fitted(Abandoned)
      BY <1>0, <2>1, <2>3, <2>5
    <3>2. c # "ok"
      BY <2>1, <3>1 DEF Fitted, Abandoned, Answers
    <3>3. row' = row /\ run'.tries = run.tries
      BY <2>1, <3>2, FailCopy DEF Settle
    <3>4. QED
      BY <2>1, <2>2, <3>1, <3>3 DEF Attempts
  <2>6. QED
    BY <2>4, <2>5
<1>6. CASE Die
  <2>1. \A i \in Step : call'[i] = "dropped" =>
          \/ call[i] = "dropped"
          \/ pc = "step" /\ work = "out" /\ at = i
    BY <1>6 DEF Die, Calls
  <2>2. QED
    BY <1>6, <2>1 DEF Die, Attempts
<1>7. CASE Others
  BY <1>7, OthersRow, OthersFrame DEF Attempts, Same
<1>8. QED
  BY <1>1, <1>2, <1>3, <1>4, <1>5, <1>6, <1>7, NextCases

\* What the end of a step writes.
LEMMA SucceedRow ==
  ASSUME TypeOK, NEW next \in 1..(Steps + 1), Succeed(next)
  PROVE  /\ Held /\ row'.exists = row.exists
         /\ \A i \in Step : row'.run.steps[i] = IF i = at THEN "succeeded" ELSE run.steps[i]
         /\ row'.run.code = run.code /\ row'.run.status = run.status
<1> DEFINE s == [run EXCEPT !.steps[at] = "succeeded"]
<1>0. at \in Step /\ run \in Record
  BY DEF TypeOK
<1>1. /\ s \in Record /\ s.code = run.code /\ s.status = run.status
      /\ \A i \in Step : s.steps[i] = IF i = at THEN "succeeded" ELSE run.steps[i]
  BY <1>0 DEF Record, StepStatus
<1>2. Persisted(s)
  BY DEF Succeed
<1>3. QED
  BY <1>1, <1>2, Written

LEMMA SameRow ==
  ASSUME TypeOK, SucceedUnwritten \/ (\E c \in Code : Fail(c))
  PROVE  row' = row
BY DEF SucceedUnwritten, Unwritten, Fail

\* Between the steps: what the task writes there.
LEMMA LoopRow ==
  ASSUME TypeOK, Load \/ Prepare \/ Spawn \/ Head \/ Start \/ Final
  PROVE  /\ Start \/ Final => row' = row \/ (Held /\ row'.run = run' /\ row'.exists = row.exists)
         /\ Head => row'.run = row.run /\ row'.exists = row.exists
         /\ Load \/ Prepare \/ Spawn => row' = row
         /\ Start /\ pc' = "step" => Held /\ row'.run = run'
         /\ ~Held => ~(Held')
<1>0. run' \in Record /\ at \in Step /\ run \in Record
  BY LoopTypes DEF TypeOK
<1>1. CASE Start
  <2>1. [run EXCEPT !.steps[at] = "running"] \in Record
    BY <1>0 DEF Record, StepStatus
  <2>2. QED
    BY <1>1, <2>1, Written DEF Start, Held, Load, Prepare, Spawn, Head, Final
<1>2. CASE Final
  BY <1>0, <1>2, Written DEF Final, Held, Load, Prepare, Spawn, Head, Start
<1>3. CASE Head
  BY <1>3 DEF Head, TypeOK, Unwritten, Held, Load, Prepare, Spawn, Start, Final
<1>4. CASE Load \/ Prepare \/ Spawn
  BY <1>4 DEF Head, Held, Load, Prepare, Spawn, Start, Final
<1>5. QED
  BY <1>1, <1>2, <1>3, <1>4

LEMMA BehindStep ==
  ASSUME TypeOK, Position, Calls, Answers, Behind, [Next]_vars
  PROVE  Behind'
<1>0. at \in Step /\ run \in Record
  BY DEF TypeOK
<1>1. CASE UNCHANGED vars
  BY <1>1 DEF vars, Behind
<1>2. CASE Load \/ Prepare
  BY <1>2 DEF Load, Prepare, Position, Behind
<1>3. CASE Insert
  BY <1>3 DEF Insert, Position, Behind
<1>4. CASE Spawn \/ Die
  BY <1>4 DEF Spawn, Die, Behind
<1>5. CASE Head
  BY <1>5, LoopRow, HeadCopy DEF Behind
<1>6. CASE Start
  <2>1. run.steps[at] = "pending"
    BY <1>6 DEF Start, Position
  <2>2. QED
    BY <1>0, <1>6, <2>1, LoopRow, StartCopy DEF Behind, Stopping
<1>7. CASE Final
  BY <1>7, LoopRow, FinalCopy, ZenonT(60) DEF Behind, Stopping
<1>8. CASE Work
  BY <1>8, WorkRow, WorkFrame DEF Behind
<1>9. CASE Observe \/ GraceExpires
  <2>1. PICK c \in Code, next \in 1..(Steps + 1) : Settle(c, next) /\ next > at /\ pc = "step"
    BY <1>9, Ending
  <2>2. run.steps[at] = "running" /\ run.code[at] = "ok"
    BY <1>0, <2>1 DEF Position, Calls, Over
  <2>3. CASE Succeed(next)
    <3>1. \A i \in Step : at < i => run.steps[i] = "pending"
      BY <1>0, <2>1, StepFacts DEF Position
    <3>2. ASSUME row'.exists, NEW i \in Step
          PROVE  /\ row'.run.steps[i] \in Stopping \cup {"succeeded"} => run'.steps[i] = row'.run.steps[i]
                 /\ row'.run.code[i] # "ok" => run'.code[i] = row'.run.code[i]
      <4>1. /\ row'.run.steps[i] = IF i = at THEN "succeeded" ELSE run.steps[i]
            /\ row'.run.code = run.code /\ run'.code = run.code
            /\ run'.steps[i] = IF i = at THEN "succeeded"
                               ELSE IF at < i /\ i < next THEN "skipped"
                               ELSE run.steps[i]
        BY <2>3, SucceedCopy, SucceedRow
      <4>2. QED
        BY <3>1, <4>1 DEF Stopping
    <3>3. QED
      BY <3>2 DEF Behind
  <2>4. CASE SucceedUnwritten
    BY <2>2, <2>4, UnwrittenCopy, SameRow DEF Behind, Stopping
  <2>5. CASE Fail(c)
    BY <2>2, <2>5, FailCopy DEF Behind, Stopping
  <2>6. QED
    BY <2>1, <2>3, <2>4, <2>5 DEF Settle
<1>10. CASE Others
  BY <1>10, OthersRow, OthersFrame DEF Behind, Same
<1>11. QED
  BY <1>1, <1>2, <1>3, <1>4, <1>5, <1>6, <1>7, <1>8, <1>9, <1>10, NextCases

LEMMA MirrorStep ==
  ASSUME TypeOK, Position, Calls, Answers, Mirror, [Next]_vars
  PROVE  Mirror'
<1>0. at \in Step /\ run \in Record
  BY DEF TypeOK
<1>1. CASE UNCHANGED vars
  BY <1>1 DEF vars, Mirror, Held, Ends
<1>2. CASE Load \/ Prepare \/ Die
  BY <1>2 DEF Load, Prepare, Die, Mirror
<1>3. CASE Insert
  BY <1>3 DEF Insert, Mirror, Held
<1>4. CASE Spawn
  <2>1. run.status = "running" => run = Fresh /\ at = 1
    BY <1>4 DEF Spawn, Position, Unprepared, Fresh
  <2>2. run = Fresh => \A i \in Step : run.steps[i] = "pending"
    BY DEF Fresh
  <2>3. QED
    BY <1>4, <2>1, <2>2 DEF Spawn, Mirror, Held, Step
<1>5. CASE Head
  <2>1. row'.run = row.run /\ (Held' => Held) /\ run'.steps = run.steps /\ at' = at /\ pc = "loop"
    BY <1>5, LoopRow, HeadCopy DEF Head
  <2>2. pc' \in {"start", "last"}
    BY <1>5, HeadCopy
  <2>3. QED
    BY <2>1, <2>2 DEF Mirror, Ends
<1>6. CASE Start
  <2>1. pc = "start" /\ at' = at /\ (Held' => Held) /\ run.steps[at] = "pending"
    BY <1>6, LoopRow DEF Start, Position
  <2>2. CASE pc' = "step"
    <3>1. row'.run = run' /\ Held /\ \A i \in Step : run'.steps[i] = IF i = at THEN "running" ELSE run.steps[i]
      BY <1>6, <2>2, LoopRow, StartCopy
    <3>2. \A i \in Step : run.steps[i] # "running"
      BY <2>1, <3>1 DEF Mirror
    <3>3. QED
      BY <2>1, <2>2, <3>1, <3>2 DEF Mirror
  <2>3. CASE pc' = "last"
    <3>1. run'.status = "failed" /\ \A i \in Step : run'.steps[i] = IF i = at THEN "running" ELSE run.steps[i]
      BY <1>6, <2>3, StartCopy
    <3>2. row' = row
      BY <1>6, <2>3 DEF Start, Unwritten
    <3>3. Held => row.run.steps[at] = "pending"
      BY <1>0, <2>1 DEF Mirror
    <3>4. QED
      BY <2>1, <2>3, <3>1, <3>2, <3>3 DEF Mirror, Ends
  <2>4. QED
    BY <1>6, <2>2, <2>3, StartCopy
<1>7. CASE Final
  BY <1>7 DEF Final, Mirror
<1>8. CASE Work
  <2>1. pc = "step" /\ pc' = pc /\ at' = at /\ run'.steps = run.steps
    BY <1>8, WorkFrame
  <2>2. (row' = row \/ row'.run = run') /\ (Held' => Held)
    BY <1>8, WorkRow DEF Held
  <2>3. QED
    BY <2>1, <2>2 DEF Mirror
<1>9. CASE Observe \/ GraceExpires
  <2>1. PICK c \in Code, next \in 1..(Steps + 1) : Settle(c, next) /\ next > at /\ pc = "step"
    BY <1>9, Ending
  <2>2. run.steps[at] = "running" /\ \A i \in Step : at < i => run.steps[i] = "pending"
    BY <1>0, <2>1, StepFacts DEF Position
  <2>3. CASE Succeed(next)
    <3>1. \A i \in Step : run.steps[i] = "running" => i = at
      BY <2>1, <2>3, SucceedRow DEF Mirror
    <3>2. CASE pc' = "loop"
      <4>1. at' = next
        BY <2>3, <3>2, SucceedCopy
      <4>2. ASSUME NEW i \in Step
            PROVE  /\ row'.run.steps[i] # "running"
                   /\ run'.steps[i] = IF i < next /\ row'.run.steps[i] = "pending" THEN "skipped"
                                      ELSE row'.run.steps[i]
        <5>1. CASE i = at
          BY <2>3, <5>1, SucceedRow, SucceedCopy
        <5>2. CASE i # at /\ at < i
          BY <2>2, <2>3, <5>2, SucceedRow, SucceedCopy
        <5>3. CASE i # at /\ ~(at < i)
          <6>1. run.steps[i] # "pending"
            BY <1>0, <2>1, <5>3, StepFacts DEF Position
          <6>2. QED
            BY <2>3, <3>1, <5>3, <6>1, SucceedRow, SucceedCopy
        <5>4. QED
          BY <5>1, <5>2, <5>3
      <4>3. QED
        BY <3>2, <4>1, <4>2 DEF Mirror
    <3>3. CASE pc' = "last"
      BY <1>0, <2>2, <2>3, <3>1, <3>3, SucceedRow, SucceedCopy DEF Mirror, Ends
    <3>4. QED
      BY <2>3, <3>2, <3>3, SucceedCopy
  <2>4. CASE SucceedUnwritten
    <3>1. row' = row /\ (Held' => Held)
      BY <2>4, SameRow DEF Held
    <3>2. QED
      BY <2>1, <2>2, <2>4, <3>1, UnwrittenCopy DEF Mirror, Ends
  <2>5. CASE Fail(c)
    <3>1. row' = row /\ (Held' => Held)
      BY <2>5, SameRow DEF Held
    <3>2. QED
      BY <2>1, <2>2, <2>5, <3>1, FailCopy DEF Mirror, Ends, StatusOf
  <2>6. QED
    BY <2>1, <2>3, <2>4, <2>5 DEF Settle
<1>10. CASE Others
  <2>1. (Held' => Held) /\ (Held' => row'.run.steps = row.run.steps)
    BY <1>10, OthersRow DEF Held, Same
  <2>2. QED
    BY <1>10, <2>1, OthersFrame DEF Mirror, Ends
<1>11. QED
  BY <1>1, <1>2, <1>3, <1>4, <1>5, <1>6, <1>7, <1>8, <1>9, <1>10, NextCases

\* Nothing brings a purged history back.
LEMMA PurgeStep == ASSUME TypeOK, Answers, PurgeIsFinal, [Next]_vars PROVE PurgeIsFinal'
<1>1. CASE UNCHANGED vars
  BY <1>1 DEF vars, PurgeIsFinal
<1>2. CASE Load \/ Prepare \/ Spawn \/ Head \/ Start \/ Final
  <2>1. row'.exists = row.exists /\ live' = live
    BY <1>2, LoopRow DEF Load, Prepare, Spawn, Head, Start, Final, Outside
  <2>2. QED
    BY <2>1 DEF PurgeIsFinal
<1>3. CASE Insert
  BY <1>3 DEF Insert, PurgeIsFinal
<1>4. CASE Work
  BY <1>4, WorkRow, WorkFrame DEF PurgeIsFinal
<1>5. CASE Observe \/ GraceExpires
  <2>1. PICK c \in Code, next \in 1..(Steps + 1) : Settle(c, next) /\ UNCHANGED live
    BY <1>5, Ending
  <2>2. row'.exists = row.exists
    BY <2>1, SucceedRow, SameRow DEF Settle
  <2>3. QED
    BY <2>1, <2>2 DEF PurgeIsFinal
<1>6. CASE Die
  BY <1>6 DEF Die, PurgeIsFinal
<1>7. CASE Others
  <2>1. row'.exists => row.exists
    BY <1>7, OthersRow
  <2>2. ~live'.workspace => ~live.workspace \/ ~row'.exists
    BY <1>7 DEF Others, Timeout, Heartbeat, Polling, TakeEffect, Stale, RecoverStale, Cancel,
       DeleteFlow, DeleteWorkspace, NoRow, TypeOK
  <2>3. QED
    BY <2>1, <2>2 DEF PurgeIsFinal
<1>8. QED
  BY <1>1, <1>2, <1>3, <1>4, <1>5, <1>6, <1>7, NextCases

LEMMA LateStep == ASSUME TypeOK, Position, Answers, Late, [Next]_vars PROVE Late'
<1>0. work \in {"begin", "call", "out", "answered", "judge", "retry", "pause", "ready"}
  BY DEF TypeOK
<1>1. CASE UNCHANGED vars
  BY <1>1 DEF vars, Late, Held
<1>2. CASE Load \/ Prepare \/ Insert \/ Spawn \/ Head \/ Start
  BY <1>2 DEF Load, Prepare, Insert, Spawn, Head, Start, Outside, Late, Over
<1>3. CASE Final
  <2>1. ~Held => ~(Held')
    BY <1>3, LoopRow
  <2>2. QED
    BY <1>3, <2>1 DEF Final, Outside, Late, Over
<1>4. CASE Work
  <2>0. pc = "step" /\ pc' = "step"
    BY <1>4, WorkFrame
  <2>1. ~Held => ~(Held')
    BY <1>4, WorkRow DEF Held
  <2>2. CASE Call
    BY <2>0, <2>1, <2>2 DEF Call, Go, Working, Late, Held
  <2>3. CASE Attempt \/ RecordAnswer
    BY <1>4, <2>0, <2>1, <2>3, WorkRow DEF Attempt, RecordAnswer, Late
  <2>4. CASE Unattempted \/ Branch \/ Refuse \/ Withdraw \/ Judge \/ Retry \/ Wake
    BY <2>0, <2>1, <2>4 DEF Unattempted, Branch, Refuse, Withdraw, Judge, Retry, Wake, Working, Late
  <2>5. CASE Answer \/ TooLarge
    BY <2>0, <2>1, <2>5 DEF Answer, TooLarge, Working, Go, Ready, Late
  <2>6. QED
    BY <1>4, <2>2, <2>3, <2>4, <2>5 DEF Work
<1>5. CASE Observe \/ GraceExpires
  <2>1. PICK c \in Code, next \in 1..(Steps + 1) :
          Settle(c, next) /\ pc = "step" /\ UNCHANGED <<work, late>>
    BY <1>5, Ending
  <2>2. CASE Succeed(next)
    <3>1. Held
      BY <2>2, SucceedRow
    <3>2. QED
      BY <2>1, <3>1 DEF Late
  <2>3. CASE SucceedUnwritten
    BY <2>1, <2>3, UnwrittenCopy, SameRow DEF Late, Over, Held
  <2>4. CASE Fail(c)
    BY <2>1, <2>4, FailCopy, SameRow DEF Late, Over, Held
  <2>5. QED
    BY <2>1, <2>2, <2>3, <2>4 DEF Settle
<1>6. CASE Die
  BY <1>6 DEF Die, Late, Over, Held
<1>7. CASE Others
  BY <1>7, OthersRow, OthersFrame DEF Late
<1>8. QED
  BY <1>1, <1>2, <1>3, <1>4, <1>5, <1>6, <1>7, NextCases

-----------------------------------------------------------------------------
(* The invariant and the properties that follow. *)

LEMMA InitInv == Init => Inv
<1> SUFFICES ASSUME Init PROVE Inv
  OBVIOUS
<1>1. TypeOK
  BY InitTypes
<1>2. /\ run = Fresh /\ pc = "idle" /\ at = 1 /\ ~row.exists /\ late = 0 /\ live.workspace
      /\ \A i \in Step : call[i] = "none" /\ Fresh.steps[i] = "pending" /\ Fresh.last[i] = "none"
                         /\ Fresh.code[i] = "ok"
  BY DEF Init, NoRow, Fresh
<1>3. QED
  BY <1>1, <1>2 DEF Inv, PurgeIsFinal, Position, Calls, Answers, Action, Attempts, Behind, Mirror, Held,
     Late, Over, Stopping, Unsafe

LEMMA StepInv == Inv /\ [Next]_vars => Inv'
BY TypesStep, PositionStep, CallsStep, AnswersStep, ActionStep, AttemptsStep, BehindStep, MirrorStep,
   PurgeStep, LateStep DEF Inv

LEMMA Invariance == Spec => []Inv
BY InitInv, StepInv, PTL DEF Spec

\* What the parts of the invariant say together of the history.
LEMMA InvSafe == Inv => NothingHidden /\ ResultStands /\ OneLateEffect
<1> SUFFICES ASSUME Inv PROVE NothingHidden /\ ResultStands /\ OneLateEffect
  OBVIOUS
<1>1. NothingHidden
  <2>1. ASSUME row.exists, NEW i \in Step, call[i] = "out"
        PROVE  row.run.tries[i] = run.tries[i] /\ row.run.last[i] \in {"open", "uncertain"}
    BY <2>1 DEF Inv, Calls, Attempts
  <2>2. ASSUME row.exists, NEW i \in Step, call[i] = "dropped"
        PROVE  row.run.tries[i] = run.tries[i] /\ row.run.last[i] \in {"open", "uncertain"}
    BY <2>2 DEF Inv, Attempts
  <2>3. ASSUME row.exists, NEW i \in Step, External(i), row.run.steps[i] \in {"cancelled", "timedOut"}
        PROVE  call[i] \notin {"out", "dropped", "uncertain"}
    BY <2>3 DEF Inv, Behind, Calls, Stopping, Unsafe
  <2>4. QED
    BY <2>1, <2>2, <2>3 DEF NothingHidden
<1>2. ResultStands
  BY DEF Inv, Behind, Action, Stopping, ResultStands
<1>3. OneLateEffect
  BY DEF Inv, Late, OneLateEffect
<1>4. QED
  BY <1>1, <1>2, <1>3

\* The variables keep their types (TypeOK), whatever flow is run and whatever fails.
THEOREM RunTypes == Spec => []TypeOK
<1>1. Inv => TypeOK
  BY DEF Inv
<1>2. QED
  BY <1>1, Invariance, PTL

\* No effect is hidden: a call under way or dropped is an open or uncertain attempt of
\* the row, and a step shown as safe to repeat had nothing under way.
THEOREM EffectsAreShown == Spec => []NothingHidden
BY InvSafe, Invariance, PTL

\* What a step has answered stands, however answer, timeout and cancellation interleave.
THEOREM ResultsStand == Spec => []ResultStands
BY InvSafe, Invariance, PTL

\* A task whose row was ended under it makes one call more at most.
THEOREM OneCallAtMost == Spec => []OneLateEffect
BY InvSafe, Invariance, PTL

\* No write of a run in flight brings back the history of a deleted workspace.
THEOREM PurgesAreFinal == Spec => []PurgeIsFinal
<1>1. Inv => PurgeIsFinal
  BY DEF Inv
<1>2. QED
  BY <1>1, Invariance, PTL

-----------------------------------------------------------------------------
(* The run as its readers see it implements FlowHistory. *)

LEMMA HistoryInit == Init => History!Init
BY StepFacts DEF Init, NoRow, History!Init, History!Step, Step, ShownStatus, ShownSteps

\* A step that leaves what readers look at alone.
LEMMA Unseen ==
  ASSUME live'.workspace = live.workspace, row'.exists = row.exists,
         row.exists => row'.run.status = row.run.status /\ row'.run.steps = row.run.steps
  PROVE  UNCHANGED History!vars
BY DEF ShownStatus, ShownSteps, Shown, History!vars

\* A row that is running is shown as it is.
LEMMA SeenRunning ==
  ASSUME PurgeIsFinal, Held
  PROVE  /\ ShownStatus = "running"
         /\ \A i \in Step : ShownSteps[i] = row.run.steps[i]
         /\ DOMAIN ShownSteps = Step
BY DEF PurgeIsFinal, Held, ShownStatus, ShownSteps, Shown

\* A row that has just been written is shown as it is, too.
LEMMA SeenWritten ==
  ASSUME PurgeIsFinal', row'.exists, row'.run.status # "interrupted"
  PROVE  /\ ShownStatus' = row'.run.status
         /\ ShownSteps' = [i \in Step |-> row'.run.steps[i]]
BY DEF PurgeIsFinal, ShownStatus, ShownSteps, Shown

LEMMA InsertHistory ==
  ASSUME Inv, Inv', Insert
  PROVE  [History!Next]_(History!vars)
<1>1. CASE live.workspace /\ live.flow
  <2>1. /\ ~row.exists /\ row'.run = run /\ row'.exists /\ run \in {Fresh, Unprepared} /\ live' = live
    BY <1>1 DEF Insert, Inv, Position
  <2>2. ShownStatus = "none" /\ ShownSteps = [i \in Step |-> "pending"]
    BY <1>1, <2>1 DEF ShownStatus, ShownSteps
  <2>3. CASE run = Fresh
    <3>1. ShownStatus' = "running" /\ ShownSteps' = [i \in Step |-> "pending"]
      BY <2>1, <2>3, SeenWritten DEF Inv, Fresh
    <3>2. History!Accept
      BY <2>2, <3>1 DEF History!Accept
    <3>3. QED
      BY <3>2 DEF History!Next
  <2>4. CASE run = Unprepared
    <3>0. run.status = "validationFailed" /\ \A i \in Step : run.steps[i] = "skipped"
      BY <2>4 DEF Unprepared, Fresh
    <3>1. ShownStatus' = "validationFailed" /\ ShownSteps' = [i \in Step |-> "skipped"]
      BY <2>1, <3>0, SeenWritten DEF Inv
    <3>2. History!Accept
      BY <2>2, <3>1 DEF History!Accept, History!Step, Step
    <3>3. QED
      BY <3>2 DEF History!Next
  <2>5. QED
    BY <2>1, <2>3, <2>4
<1>2. CASE ~(live.workspace /\ live.flow)
  BY <1>2, Unseen DEF Insert
<1>3. QED
  BY <1>1, <1>2

LEMMA StartHistory ==
  ASSUME Inv, Inv', Start
  PROVE  [History!Next]_(History!vars)
<1>0. at \in Step /\ TypeOK /\ live' = live /\ pc = "start"
  BY DEF Inv, TypeOK, Start
<1>1. CASE row' = row
  BY <1>0, <1>1, Unseen
<1>2. CASE row' # row
  <2>1. Held /\ row'.run = run' /\ row'.exists /\ pc' = "step"
    BY <1>0, <1>2, LoopRow DEF Held, Start, Unwritten
  <2>2. /\ run'.status = "running"
        /\ \A i \in Step : run'.steps[i] = IF i = at THEN "running" ELSE run.steps[i]
    BY <1>0, <2>1, StartCopy DEF Inv, Position
  <2>3. /\ ShownStatus = "running" /\ ShownStatus' = "running"
        /\ \A i \in Step : ShownSteps[i] = row.run.steps[i]
        /\ ShownSteps' = [i \in Step |-> run'.steps[i]]
    BY <2>1, <2>2, SeenRunning, SeenWritten DEF Inv
  <2>4. /\ \A i \in Step : ShownSteps[i] # "running"
        /\ ShownSteps[at] = "pending"
    BY <1>0, <2>1, <2>3 DEF Inv, Mirror, Position
  <2>5. ShownSteps' = [j \in Step |-> IF j = at THEN "running"
                                      ELSE IF j < at /\ ShownSteps[j] = "pending" THEN "skipped"
                                      ELSE ShownSteps[j]]
    BY <1>0, <2>1, <2>2, <2>3 DEF Inv, Mirror
  <2>6. History!Begin(at)
    BY <2>3, <2>4, <2>5 DEF History!Begin, History!Step, Step
  <2>7. QED
    BY <1>0, <2>6 DEF History!Next, History!Step, Step
<1>3. QED
  BY <1>1, <1>2

LEMMA EndingHistory ==
  ASSUME Inv, Inv', Observe \/ GraceExpires
  PROVE  [History!Next]_(History!vars)
<1>1. PICK c \in Code, next \in 1..(Steps + 1) : Settle(c, next) /\ pc = "step" /\ live' = live
  BY Ending DEF Inv
<1>2. CASE Succeed(next)
  <2>0. at \in Step /\ TypeOK /\ run.status = "running" /\ run.steps[at] = "running"
    BY <1>1 DEF Inv, TypeOK, Position
  <2>1. /\ Held /\ row'.exists /\ row'.run.status = "running"
        /\ \A i \in Step : row'.run.steps[i] = IF i = at THEN "succeeded" ELSE run.steps[i]
    BY <1>2, <2>0, SucceedRow DEF Held
  <2>2. \A i \in Step : row.run.steps[i] = run.steps[i]
    BY <1>1, <2>1 DEF Inv, Mirror
  <2>3. /\ ShownStatus = "running" /\ ShownStatus' = "running"
        /\ ShownSteps = [i \in Step |-> run.steps[i]]
        /\ ShownSteps' = [i \in Step |-> row'.run.steps[i]]
    <3>1. ShownSteps = [i \in Step |-> row.run.steps[i]]
      BY <2>1 DEF ShownSteps, Shown, Held
    <3>2. QED
      BY <2>1, <2>2, <3>1, SeenRunning, SeenWritten DEF Inv
  <2>4. ShownSteps' = [ShownSteps EXCEPT ![at] = "succeeded"]
    BY <2>0, <2>1, <2>3
  <2>5. History!Complete(at)
    BY <2>0, <2>3, <2>4 DEF History!Complete, History!Succeeded
  <2>6. QED
    BY <2>0, <2>5 DEF History!Next, History!Step, Step
<1>3. CASE SucceedUnwritten \/ Fail(c)
  BY <1>1, <1>3, SameRow, Unseen DEF Inv
<1>4. QED
  BY <1>1, <1>2, <1>3 DEF Settle

LEMMA FinalHistory ==
  ASSUME Inv, Inv', Final
  PROVE  [History!Next]_(History!vars)
<1>0. TypeOK /\ live' = live /\ pc = "last" /\ run \in Record
  BY DEF Inv, TypeOK, Final, Outside
<1>1. CASE row' = row
  BY <1>0, <1>1, Unseen
<1>2. CASE row' # row
  <2>1. Held /\ row'.run = run' /\ row'.exists
    BY <1>0, <1>2, LoopRow DEF Held
  <2>2. /\ run'.status = run.status
        /\ \A i \in Step : run'.steps[i] = IF run.steps[i] = "pending" THEN "skipped" ELSE run.steps[i]
        /\ run.status \in {"succeeded", "failed", "timedOut", "cancelled"}
    BY <1>0, FinalCopy DEF Inv, Position
  <2>3. /\ ShownStatus = "running" /\ ShownStatus' = run.status
        /\ \A i \in Step : ShownSteps[i] = row.run.steps[i]
        /\ ShownSteps' = [i \in Step |-> run'.steps[i]]
    BY <2>1, <2>2, SeenRunning, SeenWritten DEF Inv
  <2>4. \A i \in Step : Ends(run.status, row.run.steps[i], run.steps[i])
    BY <1>0, <2>1 DEF Inv, Mirror
  <2>5. \A i \in Step : History!EndsAs(run.status, ShownSteps[i], ShownSteps'[i])
    BY <2>2, <2>3, <2>4 DEF Ends, History!EndsAs, History!Succeeded
  <2>6. ShownSteps' \in [Step -> {"failed", "timedOut", "cancelled", "interrupted",
                                  "running", "skipped", "succeeded"}]
    BY <1>0, <2>2, <2>3 DEF Record, StepStatus
  <2>7. History!End(run.status)
    BY <2>3, <2>5, <2>6 DEF History!End, History!Stopped, History!Succeeded, History!Step, Step
  <2>8. QED
    BY <2>2, <2>7 DEF History!Next, History!Stopped, History!Succeeded
<1>3. QED
  BY <1>1, <1>2

LEMMA OthersHistory ==
  ASSUME Inv, Inv', Others
  PROVE  [History!Next]_(History!vars)
<1>0. TypeOK /\ row.run \in Record
  BY DEF Inv, TypeOK
<1>1. CASE Timeout \/ Heartbeat \/ (\E i \in Step : TakeEffect(i)) \/ Stale \/ Cancel \/ DeleteFlow
  <2>1. live'.workspace = live.workspace /\ row'.exists = row.exists /\ row'.run = row.run
    BY <1>0, <1>1 DEF Timeout, Heartbeat, Polling, Unwritten, TakeEffect, Stale, Cancel, DeleteFlow, TypeOK
  <2>2. QED
    BY <2>1, Unseen
<1>2. CASE RecoverStale
  <2>1. /\ Held /\ live' = live /\ row'.exists /\ row'.run.status = "interrupted"
        /\ row'.run.steps = row.run.steps
    BY <1>0, <1>2 DEF RecoverStale, TypeOK, Held, Record
  <2>2. /\ ShownStatus = "running" /\ \A i \in Step : ShownSteps[i] = row.run.steps[i]
        /\ ShownStatus' = "interrupted"
    BY <2>1, SeenRunning DEF Inv, PurgeIsFinal, ShownStatus, Held
  <2>3. ShownSteps' = [i \in Step |-> IF row.run.steps[i] = "running" THEN "interrupted"
                                      ELSE IF row.run.steps[i] = "pending" THEN "skipped"
                                      ELSE row.run.steps[i]]
    BY <2>1 DEF ShownSteps, Shown
  <2>4. \A i \in Step : History!EndsAs("interrupted", ShownSteps[i], ShownSteps'[i])
    BY <2>2, <2>3 DEF History!EndsAs
  <2>5. ShownSteps' \in [Step -> {"failed", "timedOut", "cancelled", "interrupted",
                                  "running", "skipped", "succeeded"}]
    BY <1>0, <2>3 DEF Record, StepStatus
  <2>6. History!End("interrupted")
    BY <2>2, <2>4, <2>5 DEF History!End, History!Stopped, History!Succeeded, History!Step, Step
  <2>7. QED
    BY <2>6 DEF History!Next, History!Stopped
<1>3. CASE DeleteWorkspace
  <2>1. ShownStatus' = "purged" /\ ShownStatus # "purged" /\ ShownSteps' = [i \in Step |-> "pending"]
    BY <1>0, <1>3 DEF DeleteWorkspace, NoRow, ShownStatus, ShownSteps, Record, RunStatus
  <2>2. History!Purge
    BY <2>1 DEF History!Purge, History!Step, Step
  <2>3. QED
    BY <2>2 DEF History!Next
<1>4. QED
  BY <1>1, <1>2, <1>3 DEF Others

LEMMA HistoryStep == Inv /\ Inv' /\ [Next]_vars => [History!Next]_(History!vars)
<1> SUFFICES ASSUME Inv, Inv', [Next]_vars PROVE [History!Next]_(History!vars)
  OBVIOUS
<1>0. TypeOK /\ Answers /\ run \in Record
  BY DEF Inv, TypeOK
<1>1. CASE UNCHANGED vars
  BY <1>1, Unseen DEF vars
<1>2. CASE Load \/ Prepare \/ Spawn \/ Head
  <2>1. live' = live /\ row'.exists = row.exists /\ row'.run = row.run
    BY <1>0, <1>2, LoopRow DEF Load, Prepare, Spawn, Head, Outside
  <2>2. QED
    BY <2>1, Unseen
<1>3. CASE Work
  <2>1. run'.steps = run.steps /\ run'.status = run.status /\ live' = live /\ pc = "step"
    BY <1>0, <1>3, WorkFrame
  <2>2. CASE row' = row
    BY <2>1, <2>2, Unseen
  <2>3. CASE Held /\ row'.run = run' /\ row'.exists = row.exists
    <3>1. ShownSteps' = ShownSteps
      BY <2>1, <2>3 DEF ShownSteps, Shown, Inv, Mirror, Position, Held
    <3>2. ShownStatus' = ShownStatus
      BY <2>1, <2>3 DEF ShownStatus, Inv, Position, Held
    <3>3. QED
      BY <3>1, <3>2 DEF History!vars
  <2>4. QED
    BY <1>0, <1>3, <2>2, <2>3, WorkRow
<1>4. CASE Die
  BY <1>4, Unseen DEF Die
<1>5. QED
  BY <1>1, <1>2, <1>3, <1>4, NextCases, InsertHistory, StartHistory, FinalHistory, EndingHistory, OthersHistory

\* The run as the table and its readers show it goes forward only, one step at a time,
\* and is final once it has ended, whoever runs it and whatever happens to the process.
THEOREM RunIsHistory == Spec => IsHistory
<1>1. Inv /\ Inv' /\ [Next]_vars => [History!Next]_(History!vars)
  BY HistoryStep
<1>2. QED
  BY HistoryInit, Invariance, <1>1, PTL DEF Spec, IsHistory, History!Spec
=============================================================================
