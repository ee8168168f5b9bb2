------------------------------ MODULE SshTask ------------------------------
(***************************************************************************)
(* The runs of one SSH task: how a run starts, works through its steps,       *)
(* moves files, is cancelled and ends; the registry of runs that can be       *)
(* cancelled, the rows and logs of the history, what clears them, and a crash *)
(* of the process.  A run has a copy of the task's steps: Plan.               *)
(***************************************************************************)
EXTENDS Integers, Sequences, FiniteSets

CONSTANTS
  Runs,         \* bound on runs; a lower one has an earlier started_at
  Plan,         \* the enabled steps: kind, goOn (continueOnError), overwrite
  MaxRuns,      \* finished runs that are kept (MAX_RUNS_PER_TASK)
  Clearer,      \* callers of clear_task_runs
  MaxFaults,    \* bound on statements that fail and crashes of the process
  MaxDeletes    \* bound on deletions of the task and its return

Run == 1..Runs
Step == 1..Len(Plan)
Kind == {"command", "upload", "download"}
Transfers == {s \in Step : Plan[s].kind # "command"}
Deleter == "delete"
Never == -1     \* not cancelled

ASSUME PlanAssumption ==
  /\ Plan \in Seq([kind : Kind, goOn : BOOLEAN, overwrite : BOOLEAN])
  /\ \A s \in Transfers : ~Plan[s].goOn
ASSUME BoundsAssumption ==
  Runs \in Nat /\ MaxRuns \in Nat /\ MaxFaults \in Nat /\ MaxDeletes \in Nat /\ Deleter \notin Clearer

VARIABLES
  task,       \* the task is not deleted
  run,        \* each run: where it is, its step, whether it has set a target aside,
              \* how its steps ended, its outcome, the rows it still has to prune
  told,       \* each run: the step it was in when it was cancelled
  registry,   \* the runs that cancel_task_run finds
  row,        \* each run's row: "absent" or its status
  log,        \* each run's log file: "none", "open" or "whole"
  file,       \* the files of each transfer: whether there was one, target, temporary file, backup
  sweep,      \* each clear and the deletion: where it is and the logs it will remove
  spent       \* faults, crashes, deletions so far; whether runs have overlapped; the runs
              \* whose row could not be finished, and whose own cleanup did not go through

vars == <<task, run, told, registry, row, log, file, sweep, spent>>

Final == {"success", "failed", "cancelled"}
Finished == {r \in Run : row[r] \in Final}
Over == {"none", "dead", "over"}
Active == {r \in Run : run[r].pc \notin Over}

Idle == [pc |-> "none", step |-> 0, had |-> FALSE, did |-> <<>>, out |-> "success", prune |-> {}]

Gone(p) == [Idle EXCEPT !.pc = p]

Init ==
  /\ task = TRUE
  /\ run = [r \in Run |-> Idle]
  /\ told = [r \in Run |-> Never] /\ registry = {}
  /\ row = [r \in Run |-> "absent"] /\ log = [r \in Run |-> "none"]
  /\ file \in [Transfers -> {[had |-> c # "none", target |-> c, temp |-> "none", backup |-> "none"] :
                                     c \in {"none", "old"}}]
  /\ sweep = [c \in Clearer \cup {Deleter} |-> [pc |-> "idle", logs |-> {}]]
  /\ spent = [faults |-> 0, crashes |-> 0, deletes |-> 0, overlap |-> FALSE, lost |-> {}, missed |-> {}]

At(r, p) == run[r].pc = p
Goto(r, p) == run' = [run EXCEPT ![r].pc = p]
Rest(r) == run' = [run EXCEPT ![r] = Gone("over")]
Room == spent.faults + spent.crashes < MaxFaults
Fault == Room /\ spent' = [spent EXCEPT !.faults = @ + 1]
Loses(r) == Room /\ spent' = [spent EXCEPT !.faults = @ + 1, !.lost = @ \cup {r}]
Misses(r) == Room /\ spent' = [spent EXCEPT !.faults = @ + 1, !.missed = @ \cup {r}]

-----------------------------------------------------------------------------
(* run_task: the task is read, the log made, the row inserted, the run registered. *)
(* Runs that have read the task are alike: the lower one goes first.              *)

Prepare(r) ==
  /\ At(r, "none") /\ \A q \in 1..(r - 1) : ~At(q, "none")
  /\ task /\ Goto(r, "read")
  /\ spent' = [spent EXCEPT !.overlap = @ \/ Active # {}]
  /\ UNCHANGED <<task, told, registry, row, log, file, sweep>>

CreateLog(r) ==
  /\ At(r, "read") /\ (\A q \in 1..(r - 1) : ~At(q, "read")) /\ Goto(r, "logged")
  /\ log' = [log EXCEPT ![r] = "open"]
  /\ UNCHANGED <<task, told, registry, row, file, sweep, spent>>

Insert(r) ==
  /\ At(r, "logged")
  /\ \/ Goto(r, "inserted") /\ row' = [row EXCEPT ![r] = "running"] /\ UNCHANGED spent
     \/ Rest(r) /\ Fault /\ UNCHANGED row
  /\ UNCHANGED <<task, told, registry, log, file, sweep>>

Register(r) ==
  /\ At(r, "inserted") /\ Goto(r, "connect")
  /\ registry' = registry \cup {r}
  /\ UNCHANGED <<task, told, row, log, file, sweep, spent>>

-----------------------------------------------------------------------------
(* execute_task_background and execute_serial. *)

Quiet == UNCHANGED <<task, told, registry, row, log, sweep, spent>>
Ends(r, out) == run' = [run EXCEPT ![r] = [@ EXCEPT !.pc = "log", !.out = out]]

\* The connection is made, or fails or times out.
Connect(r) ==
  /\ At(r, "connect")
  /\ Goto(r, "next") \/ Ends(r, "failed")
  /\ Quiet /\ UNCHANGED file

\* A step begins unless the run has been cancelled or none is left.
NextStep(r) ==
  /\ At(r, "next")
  /\ LET s == run[r].step + 1
     IN  IF s > Len(Plan) THEN Ends(r, "success")
         ELSE IF told[r] # Never THEN Ends(r, "cancelled")
         ELSE run' = [run EXCEPT ![r] = [@ EXCEPT !.step = s, !.had = FALSE,
                                           !.pc = IF s \in Transfers THEN "open" ELSE "exec"]]
  /\ Quiet /\ UNCHANGED file

Ended(r, how, p, out) == run' = [run EXCEPT ![r] = [@ EXCEPT !.did = Append(run[r].did, how), !.pc = p, !.out = out]]

\* Mutant: work goes on after a step that failed.
StepEndsAnyway(r, how) ==
  IF how = "cancelled" THEN Ended(r, how, "log", how) ELSE Ended(r, how, "next", run[r].out)
\* A step ends: the next one follows if it succeeded or its failure is to be passed over.
StepEnds(r, how) ==
  IF how = "ok" \/ (how = "failed" /\ Plan[run[r].step].goOn)
  THEN Ended(r, how, "next", run[r].out) ELSE Ended(r, how, "log", how)

\* run_command_step: exit status, failure or timeout, or the cancel channel.
Command(r) ==
  /\ At(r, "exec")
  /\ \/ StepEnds(r, "ok") \/ StepEnds(r, "failed")
     \/ told[r] # Never /\ StepEnds(r, "cancelled")
  /\ Quiet /\ UNCHANGED file

F(r) == file[run[r].step]
Local(r) == Plan[run[r].step].kind = "download"
Write(r, f) == file' = [file EXCEPT ![run[r].step] = f]

\* The target is looked at, the temporary file made.
OpenFile(r) ==
  /\ At(r, "open")
  /\ \/ /\ F(r).target = "none" \/ Plan[run[r].step].overwrite
        /\ Write(r, [F(r) EXCEPT !.temp = "part"]) /\ Goto(r, "copy")
     \/ StepEnds(r, "failed") /\ UNCHANGED file
  /\ Quiet

\* Another run of the task writes the same temporary file.
Shared(r) == \E q \in Run \ {r} : At(q, "copy") /\ run[q].step = run[r].step

\* The copy ends, or fails or is cancelled, and then its temporary file is removed.
Copy(r) ==
  /\ At(r, "copy")
  /\ \/ /\ Goto(r, "backup")
        /\ Write(r, IF F(r).temp = "none" \/ Shared(r) THEN F(r) ELSE [F(r) EXCEPT !.temp = "new"])
     \/ /\ StepEnds(r, "failed") \/ (told[r] # Never /\ StepEnds(r, "cancelled"))
        /\ Write(r, [F(r) EXCEPT !.temp = "none"]) \/ UNCHANGED file
  /\ Quiet

Swaps(r, had) == run' = [run EXCEPT ![r] = [@ EXCEPT !.pc = "swap", !.had = had]]

\* replace_local_download, replace_remote_file: the target is set aside.  An upload
\* goes on if it is told that it cannot be, which an answer that is lost also says.
Backup(r) ==
  /\ At(r, "backup")
  /\ \/ /\ F(r).target # "none" /\ Plan[run[r].step].overwrite
        /\ Write(r, [F(r) EXCEPT !.target = "none", !.backup = F(r).target])
        /\ Swaps(r, TRUE) \/ (~Local(r) /\ Swaps(r, FALSE))
     \/ /\ F(r).target = "none" \/ ~Local(r)
        /\ Swaps(r, FALSE) /\ UNCHANGED file
     \/ F(r).target # "none" /\ Local(r) /\ StepEnds(r, "failed") /\ UNCHANGED file
  /\ Quiet

\* Mutant: the backup is removed whatever became of the new file.
SwapForgetful(r) ==
  /\ At(r, "swap")
  /\ \/ /\ F(r).temp # "none"
        /\ Write(r, [F(r) EXCEPT !.target = F(r).temp, !.temp = "none"])
        /\ Goto(r, "tidy")
     \/ StepEnds(r, "failed") /\ Write(r, [F(r) EXCEPT !.backup = "none"])
  /\ Quiet

\* The temporary file takes its name; a server may refuse to rename over another file,
\* or do it and the answer is lost.
Swap(r) ==
  /\ At(r, "swap")
  /\ LET swapped == F(r).temp # "none" /\ Write(r, [F(r) EXCEPT !.target = F(r).temp, !.temp = "none"])
     IN  \/ swapped /\ Goto(r, "tidy")
         \/ /\ IF run[r].had THEN Goto(r, "restore") ELSE StepEnds(r, "failed")
            /\ UNCHANGED file \/ (~Local(r) /\ swapped)
  /\ Quiet

\* The target that was set aside comes back, or its renaming fails too.
Restore(r) ==
  /\ At(r, "restore") /\ StepEnds(r, "failed")
  /\ \/ F(r).backup # "none" /\ Write(r, [F(r) EXCEPT !.target = F(r).backup, !.backup = "none"])
     \/ UNCHANGED file
  /\ Quiet

Tidy(r) ==
  /\ At(r, "tidy") /\ StepEnds(r, "ok")
  /\ (run[r].had /\ Write(r, [F(r) EXCEPT !.backup = "none"])) \/ UNCHANGED file
  /\ Quiet

-----------------------------------------------------------------------------
(* The end of a run: its log, its row, the registry, and what it prunes. *)

\* The transport is closed and the last event written.
FinishLog(r) ==
  /\ At(r, "log") /\ Goto(r, "finish")
  /\ log' = [log EXCEPT ![r] = IF @ = "none" THEN @ ELSE "whole"]
  /\ UNCHANGED <<task, told, registry, row, file, sweep, spent>>

\* Mutant: a failure ends the task that runs it.
FinishRowStops(r) ==
  /\ At(r, "finish")
  /\ \/ Goto(r, "leave") /\ row' = [row EXCEPT ![r] = IF @ = "absent" THEN @ ELSE run[r].out] /\ UNCHANGED spent
     \/ Rest(r) /\ Loses(r) /\ UNCHANGED row
  /\ UNCHANGED <<task, told, registry, log, file, sweep>>
\* finish_task_run: a failure is not noticed.
FinishRow(r) ==
  /\ At(r, "finish") /\ Goto(r, "leave")
  /\ \/ row' = [row EXCEPT ![r] = IF @ = "absent" THEN @ ELSE run[r].out] /\ UNCHANGED spent
     \/ Loses(r) /\ UNCHANGED row
  /\ UNCHANGED <<task, told, registry, log, file, sweep>>

Leave(r) ==
  /\ At(r, "leave") /\ Goto(r, "list")
  /\ registry' = registry \ {r} /\ told' = [told EXCEPT ![r] = Never]
  /\ UNCHANGED <<task, row, log, file, sweep, spent>>

Newer(q) == Cardinality({p \in Finished : p > q})

\* Mutant: one run too many is kept.
ListLess(r) ==
  /\ At(r, "list")
  /\ \/ /\ task /\ UNCHANGED spent
        /\ \E old \in 0..Runs :
             run' = [run EXCEPT ![r] = [@ EXCEPT !.pc = "prune",
                        !.prune = {q \in Finished : q <= old \/ Newer(q) > MaxRuns}]]
     \/ Rest(r) /\ (Misses(r) \/ (~task /\ spent' = [spent EXCEPT !.missed = @ \cup {r}]))
  /\ UNCHANGED <<task, told, registry, row, log, file, sweep>>
\* cleanup_task_retention lists the rows of the task, or ends if it is deleted; of the
\* finished runs the newest are kept that are not too old.
List(r) ==
  /\ At(r, "list")
  /\ \/ /\ task /\ UNCHANGED spent
        /\ \E old \in 0..Runs :
             run' = [run EXCEPT ![r] = [@ EXCEPT !.pc = "prune",
                        !.prune = {q \in Finished : q <= old \/ Newer(q) >= MaxRuns}]]
     \/ Rest(r) /\ (Misses(r) \/ (~task /\ spent' = [spent EXCEPT !.missed = @ \cup {r}]))
  /\ UNCHANGED <<task, told, registry, row, log, file, sweep>>

\* The others go one by one, the row before its log; a failure ends it.
Prune(r) ==
  /\ At(r, "prune")
  /\ \/ run[r].prune = {} /\ Rest(r) /\ UNCHANGED <<row, log, spent>>
     \/ \E q \in run[r].prune :
          /\ \A p \in run[r].prune : p <= q
          /\ row' = [row EXCEPT ![q] = "absent"] /\ log' = [log EXCEPT ![q] = "none"]
          /\ run' = [run EXCEPT ![r].prune = @ \ {q}] /\ UNCHANGED spent
     \/ run[r].prune # {} /\ Misses(r) /\ Rest(r) /\ UNCHANGED <<row, log>>
  /\ UNCHANGED <<task, told, registry, file, sweep>>

-----------------------------------------------------------------------------
(* Commands beside the run. *)

\* cancel_task_run; a run's row is there before it can be cancelled.
Cancel(r) ==
  /\ r \in registry /\ told[r] = Never
  /\ told' = [told EXCEPT ![r] = run[r].step]
  /\ UNCHANGED <<task, run, registry, row, log, file, sweep, spent>>

\* Mutant: the logs of runs that still work are listed too.
ClearListEvery(c) ==
  /\ sweep[c].pc = "idle" /\ c # Deleter
  /\ sweep' = [sweep EXCEPT ![c] = [pc |-> "rows", logs |-> {r \in Run : row[r] # "absent"}]]
  /\ UNCHANGED <<task, run, told, registry, row, log, file, spent>>
\* clear_task_runs: the logs are listed, the rows deleted, the logs removed.  A clear of
\* the whole workspace does not ask for the task.
ClearList(c) ==
  /\ sweep[c].pc = "idle" /\ c # Deleter
  /\ sweep' = [sweep EXCEPT ![c] = [pc |-> "rows", logs |-> Finished]]
  /\ UNCHANGED <<task, run, told, registry, row, log, file, spent>>

ClearRows(c) ==
  /\ sweep[c].pc = "rows"
  /\ row' = [r \in Run |-> IF r \in Finished THEN "absent" ELSE row[r]]
  /\ sweep' = [sweep EXCEPT ![c].pc = "logs"]
  /\ UNCHANGED <<task, run, told, registry, log, file, spent>>

\* delete_task_on, one transaction, refused while a row is running.
Delete ==
  /\ sweep[Deleter].pc = "idle" /\ task /\ \A r \in Run : row[r] # "running"
  /\ task' = FALSE /\ row' = [r \in Run |-> "absent"]
  /\ sweep' = [sweep EXCEPT ![Deleter] = [pc |-> "logs", logs |-> {r \in Run : row[r] # "absent"}]]
  /\ spent.deletes < MaxDeletes /\ spent' = [spent EXCEPT !.deletes = @ + 1]
  /\ UNCHANGED <<run, told, registry, log, file>>

ClearLogs(c) ==
  /\ sweep[c].pc = "logs"
  /\ log' = [r \in Run |-> IF r \in sweep[c].logs THEN "none" ELSE log[r]]
  /\ sweep' = [sweep EXCEPT ![c] = [pc |-> "idle", logs |-> {}]]
  /\ UNCHANGED <<task, run, told, registry, row, file, spent>>

\* The workspace is deleted and its rows with it, or a pull deletes the task or
\* brings it back; whether it runs is not asked.
Elsewhere ==
  /\ \/ task /\ task' = FALSE /\ row' = [r \in Run |-> "absent"]
     \/ task' = ~task /\ UNCHANGED row
  /\ spent.deletes < MaxDeletes /\ spent' = [spent EXCEPT !.deletes = @ + 1]
  /\ UNCHANGED <<run, told, registry, log, file, sweep>>

\* The process dies: rows, logs and files stay.
Crash ==
  /\ spent.faults + spent.crashes < MaxFaults /\ spent' = [spent EXCEPT !.crashes = @ + 1]
  /\ run' = [r \in Run |-> IF r \in Active THEN Gone("dead") ELSE run[r]]
  /\ told' = [r \in Run |-> Never] /\ registry' = {}
  /\ sweep' = [c \in Clearer \cup {Deleter} |-> [pc |-> "idle", logs |-> {}]]
  /\ UNCHANGED <<task, row, log, file>>

Works(r) ==
  \/ CreateLog(r) \/ Insert(r) \/ Register(r) \/ Connect(r) \/ NextStep(r) \/ Command(r)
  \/ OpenFile(r) \/ Copy(r) \/ Backup(r) \/ Swap(r) \/ Restore(r) \/ Tidy(r)
  \/ FinishLog(r) \/ FinishRow(r) \/ Leave(r) \/ List(r) \/ Prune(r)

Next ==
  \/ \E r \in Run : Prepare(r) \/ Works(r) \/ Cancel(r)
  \/ \E c \in Clearer \cup {Deleter} : ClearList(c) \/ ClearRows(c) \/ ClearLogs(c)
  \/ Delete \/ Elsewhere \/ Crash

Spec == Init /\ [][Next]_vars

-----------------------------------------------------------------------------
(* Properties. *)

Places == {"none", "read", "logged", "inserted", "connect", "next", "exec", "open", "copy", "backup",
           "swap", "restore", "tidy", "log", "finish", "leave", "list", "prune", "over", "dead"}
Progress == [pc : Places, step : 0..Len(Plan), had : BOOLEAN, did : Seq({"ok", "failed", "cancelled"}),
             out : Final, prune : SUBSET Run]
Files == [had : BOOLEAN, target : {"none", "old", "part", "new"}, temp : {"none", "part", "new"},
          backup : {"none", "old", "part", "new"}]
Spendings == [faults : 0..MaxFaults, crashes : 0..MaxFaults, deletes : 0..MaxDeletes,
              overlap : BOOLEAN, lost : SUBSET Run, missed : SUBSET Run]

\* Rows, logs, files and the places of the runs keep their types.
TypeOK ==
  /\ task \in BOOLEAN /\ run \in [Run -> Progress]
  /\ told \in [Run -> {Never} \cup 0..Len(Plan)] /\ registry \subseteq Run
  /\ row \in [Run -> Final \cup {"absent", "running"}] /\ log \in [Run -> {"none", "open", "whole"}]
  /\ file \in [Transfers -> Files]
  /\ sweep \in [Clearer \cup {Deleter} -> [pc : {"idle", "rows", "logs"}, logs : SUBSET Run]]
  /\ spent \in Spendings

\* A file of the user is never lost and never half written: wherever a transfer fails,
\* is cancelled or dies, its target holds a whole file or its backup does.
FileSafe ==
  ~spent.overlap => \A s \in Transfers :
    /\ file[s].target # "part" /\ file[s].backup # "part"
    /\ file[s].had => {file[s].target, file[s].backup} \cap {"old", "new"} # {}

\* After a cancel no step begins.
CancelHolds == \A r \in Run : told[r] # Never => run[r].step <= told[r]

\* The history tells what happened: success if every step succeeded or may fail and
\* nobody cancelled in time, cancelled only if somebody did, failed if the last step
\* or the connection failed; and a row that is finished is not written again.
RowTold ==
  \A r \in Run : row'[r] # row[r] /\ row'[r] \in Final =>
    LET d == run[r].did IN
    /\ row[r] = "running"
    /\ row'[r] = "success" => /\ Len(d) = Len(Plan) /\ told[r] \in {Never, Len(Plan)}
                              /\ \A s \in Step : d[s] = "ok" \/ (d[s] = "failed" /\ Plan[s].goOn)
    /\ row'[r] = "cancelled" => told[r] # Never
    /\ row'[r] = "failed" => d = <<>> \/ (d[Len(d)] = "failed" /\ ~Plan[Len(d)].goOn)

\* Every row that execute_task_background finishes is told so.
HistoryTrue == [][RowTold]_vars

\* A log that is written is never removed, whichever clear, deletion or pruning runs
\* beside it, and a finished row has a whole log.
LogKept ==
  \A r \in Run :
    /\ run[r].pc \notin Over \cup {"read", "finish", "leave", "list", "prune"} => log[r] = "open"
    /\ row[r] \in Final => log[r] = "whole"

\* The runs whose own cleanup failed, was cut off by a crash, or met a deleted task.
Unswept == spent.missed \cup {r \in Run : At(r, "dead")}

\* When nothing runs, no more finished runs are kept than the limit, but for those whose
\* own cleanup did not go through: whatever clears, deletions, failures and crashes there
\* were, and however the ends of the others interleaved.
Bounded == Active = {} => Cardinality(Finished \ Unswept) <= MaxRuns

\* However a run comes to its end, and whichever of its statements fails, it leaves the
\* registry; it leaves its row running only if the statement that finishes it failed.
RunLeaves ==
  \A r \in Run : At(r, "over") => r \notin registry /\ (row[r] = "running" => r \in spent.lost)
=============================================================================
