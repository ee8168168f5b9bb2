--------------------------- MODULE SshTaskProofs ---------------------------
(***************************************************************************)
(* SshTask for any task, any number of runs and any bounds.                   *)
(*                                                                         *)
(* A file is safe because a run that is alone owns the temporary file of its  *)
(* step: it is whole when the target is set aside, so the new target is       *)
(* whole when the backup is removed (Inv).  A row is true because how the     *)
(* steps of a run ended is known at each place it can be (Books).  Logs stay   *)
(* because only those of runs past their end are listed for removal, and an    *)
(* absent row never returns (Records, Collected).  The history is bounded     *)
(* because, of the runs whose cleanup goes through, the last one to list the   *)
(* finished ones listed all the others had left (Trimmed).                    *)
(***************************************************************************)
EXTENDS SshTask, SequenceTheorems, FiniteSetTheorems, WellFoundedInduction, TLAPS

Moving == {"open", "copy", "backup", "swap", "restore", "tidy"}

Whole(f) == /\ f.target # "part" /\ f.backup # "part"
            /\ f.had => {f.target, f.backup} \cap {"old", "new"} # {}

\* What a run at p may count on in the files of its step.
Ready(p, f) == /\ p = "copy" => f.temp = "part"
               /\ p \in {"backup", "swap"} => f.temp = "new"
               /\ p = "tidy" => f.target = "new"

\* Runs that have not overlapped work one at a time.
Alone == ~spent.overlap => \A q, r \in Active : q = r

Transferring ==
  ~spent.overlap => \A r \in Run : run[r].pc \in Moving =>
    run[r].step \in Transfers /\ Ready(run[r].pc, F(r))

Inv == TypeOK /\ Alone /\ Transferring /\ FileSafe

LEMMA Bounds ==
  /\ Len(Plan) \in Nat /\ Runs \in Nat /\ MaxFaults \in Nat /\ MaxDeletes \in Nat
  /\ Transfers \subseteq Step /\ Step \subseteq 0..Len(Plan)
  /\ \A s \in Step : Plan[s] \in [kind : Kind, goOn : BOOLEAN, overwrite : BOOLEAN]
<1>1. Plan \in Seq([kind : Kind, goOn : BOOLEAN, overwrite : BOOLEAN])
  BY PlanAssumption
<1>2. Len(Plan) \in Nat /\ \A s \in Step : Plan[s] \in [kind : Kind, goOn : BOOLEAN, overwrite : BOOLEAN]
  BY <1>1, LenProperties, ElementOfSeq DEF Step
<1> QED
  BY <1>2, BoundsAssumption DEF Step, Transfers

-----------------------------------------------------------------------------
(* Types. *)

\* What becomes of the record of a run.
LEMMA ProgressTypes ==
  ASSUME TypeOK, NEW r \in Run
  PROVE  /\ Idle \in Progress /\ Gone("over") \in Progress /\ Gone("dead") \in Progress
         /\ \A p \in Places : [run[r] EXCEPT !.pc = p] \in Progress
         /\ \A o \in Final : [run[r] EXCEPT !.pc = "log", !.out = o] \in Progress
         /\ \A b \in BOOLEAN : [run[r] EXCEPT !.pc = "swap", !.had = b] \in Progress
         /\ \A S \in SUBSET Run : [run[r] EXCEPT !.pc = "prune", !.prune = S] \in Progress
                                  /\ [run[r] EXCEPT !.prune = S] \in Progress
<1>1. <<>> \in Seq({"ok", "failed", "cancelled"})
  OBVIOUS
<1>2. Idle \in Progress /\ Gone("over") \in Progress /\ Gone("dead") \in Progress
  <2>1. Idle \in Progress
    BY <1>1, Bounds DEF Idle, Progress, Places, Final
  <2>2. \A x \in Progress, q \in Places : [x EXCEPT !.pc = q] \in Progress
    BY DEF Progress
  <2> QED BY <2>1, <2>2 DEF Gone, Places
<1>3. run[r] \in Progress
  BY DEF TypeOK
<1> QED
  BY <1>2, <1>3 DEF Progress, Places

LEMMA RunTypes ==
  ASSUME TypeOK, NEW r \in Run
  PROVE  /\ \A p \in Places : Goto(r, p) => run' \in [Run -> Progress]
         /\ Rest(r) => run' \in [Run -> Progress]
         /\ \A o \in Final : Ends(r, o) => run' \in [Run -> Progress]
         /\ \A b \in BOOLEAN : Swaps(r, b) => run' \in [Run -> Progress]
<1>1. ASSUME NEW x \in Progress, run' = [run EXCEPT ![r] = x] PROVE run' \in [Run -> Progress]
  BY <1>1 DEF TypeOK
<1>2. ASSUME NEW p \in Places, Goto(r, p) PROVE run' \in [Run -> Progress]
  <2>1. [run[r] EXCEPT !.pc = p] \in Progress
    BY ProgressTypes
  <2> QED BY <1>1, <1>2, <2>1 DEF Goto
<1>3. Rest(r) => run' \in [Run -> Progress]
  BY <1>1, ProgressTypes DEF Rest
<1>4. ASSUME NEW o \in Final, Ends(r, o) PROVE run' \in [Run -> Progress]
  <2>1. [run[r] EXCEPT !.pc = "log", !.out = o] \in Progress
    BY ProgressTypes
  <2> QED BY <1>1, <1>4, <2>1 DEF Ends
<1>5. ASSUME NEW b \in BOOLEAN, Swaps(r, b) PROVE run' \in [Run -> Progress]
  <2>1. [run[r] EXCEPT !.pc = "swap", !.had = b] \in Progress
    BY ProgressTypes
  <2> QED BY <1>1, <1>5, <2>1 DEF Swaps
<1> QED BY <1>2, <1>3, <1>4, <1>5

LEMMA StepEndsType ==
  ASSUME TypeOK, NEW r \in Run, NEW how \in {"ok", "failed", "cancelled"}, StepEnds(r, how)
  PROVE  run' \in [Run -> Progress]
<1>1. run[r] \in Progress /\ run[r].did \in Seq({"ok", "failed", "cancelled"})
  BY DEF TypeOK, Progress
<1>2. Append(run[r].did, how) \in Seq({"ok", "failed", "cancelled"})
  BY <1>1, AppendProperties
<1>3. ASSUME NEW p \in Places, NEW o \in Final, Ended(r, how, p, o) PROVE run' \in [Run -> Progress]
  <2>1. [run[r] EXCEPT !.did = Append(run[r].did, how), !.pc = p, !.out = o] \in Progress
    BY <1>1, <1>2 DEF Progress
  <2> QED BY <1>3, <2>1 DEF Ended, TypeOK
<1> QED BY <1>1, <1>3 DEF StepEnds, Progress, Places, Final

LEMMA FilesTypes ==
  ASSUME TypeOK, NEW r \in Run, NEW f \in Files, Write(r, f)
  PROVE  file' \in [Transfers -> Files]
BY DEF Write, TypeOK

LEMMA InitType == Init => TypeOK
<1> SUFFICES ASSUME Init PROVE TypeOK
  OBVIOUS
<1> USE DEF Init
<1>1. run \in [Run -> Progress]
  <2>1. <<>> \in Seq({"ok", "failed", "cancelled"})
    OBVIOUS
  <2>2. Idle \in Progress
    BY <2>1, Bounds DEF Idle, Progress, Places, Final
  <2> QED BY <2>2
<1>2. file \in [Transfers -> Files]
  <2>1. \A s \in Transfers : file[s] \in Files
    <3> SUFFICES ASSUME NEW s \in Transfers PROVE file[s] \in Files
      OBVIOUS
    <3>1. PICK c \in {"none", "old"} :
            file[s] = [had |-> c # "none", target |-> c, temp |-> "none", backup |-> "none"]
      OBVIOUS
    <3>2. (c # "none") \in BOOLEAN
      OBVIOUS
    <3> QED BY <3>1, <3>2 DEF Files
  <2> QED BY <2>1
<1>3. sweep \in [Clearer \cup {Deleter} -> [pc : {"idle", "rows", "logs"}, logs : SUBSET Run]]
  OBVIOUS
<1>4. spent \in Spendings
  BY Bounds DEF Spendings
<1> QED BY <1>1, <1>2, <1>3, <1>4 DEF TypeOK

\* What a run that fails, or that finds its task deleted, spends.
Spends(r) == Fault \/ Loses(r) \/ Misses(r) \/ spent' = [spent EXCEPT !.missed = @ \cup {r}]

LEMMA Spent ==
  ASSUME TypeOK, NEW r \in Run, Spends(r)
  PROVE  /\ spent' \in Spendings /\ spent'.overlap = spent.overlap
         /\ spent.lost \subseteq spent'.lost /\ (Loses(r) => r \in spent'.lost)
         /\ spent.missed \subseteq spent'.missed /\ (Fault \/ Loses(r) \/ r \in spent'.missed)
<1>1. spent \in Spendings
  BY DEF TypeOK
<1>2. Room => spent.faults + 1 \in 0..MaxFaults
  BY <1>1, Bounds DEF Room, Spendings
<1>3. spent.lost \cup {r} \in SUBSET Run /\ spent.missed \cup {r} \in SUBSET Run
  BY <1>1 DEF Spendings
<1>4. CASE Fault
  BY <1>1, <1>2, <1>4 DEF Fault, Loses, Spendings
<1>5. CASE Loses(r)
  BY <1>1, <1>2, <1>3, <1>5 DEF Loses, Spendings
<1>6. CASE Misses(r)
  BY <1>1, <1>2, <1>3, <1>6 DEF Misses, Loses, Spendings
<1>7. CASE spent' = [spent EXCEPT !.missed = @ \cup {r}]
  BY <1>1, <1>3, <1>7 DEF Loses, Spendings
<1> QED BY <1>4, <1>5, <1>6, <1>7 DEF Spends

\* The steps that move files.
LEMMA TypeTransfer ==
  ASSUME TypeOK, NEW r \in Run,
         OpenFile(r) \/ Copy(r) \/ Backup(r) \/ Swap(r) \/ Restore(r) \/ Tidy(r)
  PROVE  TypeOK'
<1> DEFINE s == run[r].step
<1>0. s \in Transfers => F(r) \in Files
  BY DEF F, TypeOK
<1>1. ASSUME NEW f, Write(r, f), s \in Transfers => f \in Files PROVE file' \in [Transfers -> Files]
  BY <1>1 DEF Write, TypeOK
<1>2. file' \in [Transfers -> Files]
  <2>1. CASE OpenFile(r)
    BY <1>0, <1>1, <2>1 DEF OpenFile, Files, TypeOK
  <2>2. CASE Copy(r)
    BY <1>0, <1>1, <2>2 DEF Copy, Files, TypeOK
  <2>3. CASE Backup(r)
    BY <1>0, <1>1, <2>3 DEF Backup, Files, TypeOK
  <2>4. CASE Swap(r)
    BY <1>0, <1>1, <2>4 DEF Swap, Files, TypeOK
  <2>5. CASE Restore(r)
    BY <1>0, <1>1, <2>5 DEF Restore, Files, TypeOK
  <2>6. CASE Tidy(r)
    BY <1>0, <1>1, <2>6 DEF Tidy, Files, TypeOK
  <2> QED BY <2>1, <2>2, <2>3, <2>4, <2>5, <2>6
<1>3. run' \in [Run -> Progress]
  <2>1. \A p \in Places : Goto(r, p) => run' \in [Run -> Progress]
    BY RunTypes
  <2>2. \A b \in BOOLEAN : Swaps(r, b) => run' \in [Run -> Progress]
    BY RunTypes
  <2>3. \A how \in {"ok", "failed", "cancelled"} : StepEnds(r, how) => run' \in [Run -> Progress]
    BY StepEndsType
  <2> QED BY <2>1, <2>2, <2>3 DEF OpenFile, Copy, Backup, Swap, Restore, Tidy, Places
<1>4. Quiet
  BY DEF OpenFile, Copy, Backup, Swap, Restore, Tidy
<1> QED BY <1>2, <1>3, <1>4 DEF Quiet, TypeOK

\* The actions of a run: first those that leave its files alone.
LEMMA TypeRun ==
  ASSUME TypeOK, NEW r \in Run, Prepare(r) \/ Works(r) \/ Cancel(r)
  PROVE  TypeOK'
<1> USE Bounds
<1>0. /\ \A p \in Places : Goto(r, p) => run' \in [Run -> Progress]
      /\ Rest(r) => run' \in [Run -> Progress]
      /\ \A o \in Final : Ends(r, o) => run' \in [Run -> Progress]
  BY RunTypes
<1>a. Spends(r) => spent' \in Spendings
  BY Spent
<1>1. CASE Prepare(r)
  <2>1. run' \in [Run -> Progress]
    BY <1>0, <1>1 DEF Prepare, Places
  <2>2. spent' \in Spendings
    <3>1. (spent.overlap \/ Active # {}) \in BOOLEAN
      OBVIOUS
    <3> QED BY <1>1, <3>1 DEF Prepare, TypeOK, Spendings
  <2> QED BY <1>1, <2>1, <2>2 DEF Prepare, TypeOK
<1>2. CASE CreateLog(r)
  BY <1>0, <1>2 DEF CreateLog, TypeOK, Places
<1>3. CASE Insert(r)
  BY <1>0, <1>a, <1>3 DEF Insert, Spends, TypeOK, Places
<1>4. CASE Register(r)
  BY <1>0, <1>4 DEF Register, TypeOK, Places
<1>5. CASE Connect(r)
  BY <1>0, <1>5 DEF Connect, Quiet, TypeOK, Places, Final
<1>6. CASE NextStep(r)
  <2>1. CASE run[r].step + 1 > Len(Plan) \/ told[r] # Never
    BY <1>0, <1>6, <2>1 DEF NextStep, Quiet, TypeOK, Final
  <2>2. CASE run[r].step + 1 <= Len(Plan) /\ told[r] = Never
    <3> DEFINE p == IF run[r].step + 1 \in Transfers THEN "open" ELSE "exec"
    <3>0. run[r] \in Progress
      BY DEF TypeOK
    <3>1. run[r].step + 1 \in 0..Len(Plan) /\ p \in Places
      BY <2>2, <3>0 DEF Progress, Places
    <3>2. run' = [run EXCEPT ![r] = [run[r] EXCEPT !.step = run[r].step + 1, !.had = FALSE, !.pc = p]]
      <4>1. ~(run[r].step + 1 > Len(Plan))
        BY <2>2, <3>0 DEF Progress
      <4> QED BY <1>6, <2>2, <4>1 DEF NextStep
    <3> HIDE DEF p
    <3>3. [run[r] EXCEPT !.step = run[r].step + 1, !.had = FALSE, !.pc = p] \in Progress
      BY <3>0, <3>1 DEF Progress
    <3> QED BY <1>6, <3>2, <3>3 DEF NextStep, Quiet, TypeOK
  <2>3. run[r].step \in Nat
    BY DEF TypeOK, Progress
  <2> QED BY <2>1, <2>2, <2>3
<1>7. CASE Command(r)
  BY <1>7, StepEndsType DEF Command, Quiet, TypeOK
<1>8. CASE OpenFile(r) \/ Copy(r) \/ Backup(r) \/ Swap(r) \/ Restore(r) \/ Tidy(r)
  BY <1>8, TypeTransfer
<1>9. CASE FinishLog(r)
  BY <1>0, <1>9 DEF FinishLog, TypeOK, Places
<1>10. CASE FinishRow(r)
  <2>1. run[r].out \in Final
    BY DEF TypeOK, Progress
  <2> QED BY <1>0, <1>a, <1>10, <2>1 DEF FinishRow, Spends, TypeOK, Places
<1>11. CASE Leave(r)
  BY <1>0, <1>11 DEF Leave, TypeOK, Places
<1>12. CASE List(r)
  <2>1. CASE Spends(r) /\ Rest(r)
    BY <1>0, <1>a, <1>12, <2>1 DEF List, TypeOK
  <2>2. ASSUME NEW old, UNCHANGED spent,
               run' = [run EXCEPT ![r] = [run[r] EXCEPT !.pc = "prune",
                         !.prune = {q \in Finished : q <= old \/ Newer(q) >= MaxRuns}]]
        PROVE  TypeOK'
    <3> DEFINE S == {q \in Finished : q <= old \/ Newer(q) >= MaxRuns}
    <3>1. S \in SUBSET Run
      BY DEF Finished
    <3>2. run' = [run EXCEPT ![r] = [run[r] EXCEPT !.pc = "prune", !.prune = S]]
      BY <2>2
    <3> HIDE DEF S
    <3>3. [run[r] EXCEPT !.pc = "prune", !.prune = S] \in Progress
      BY <3>1, ProgressTypes
    <3>4. run' \in [Run -> Progress]
      BY <3>2, <3>3 DEF TypeOK
    <3> QED BY <1>12, <2>2, <3>4 DEF List, TypeOK
  <2> QED BY <1>12, <2>1, <2>2 DEF List, Spends
<1>13. CASE Prune(r)
  <2>1. run[r].prune \subseteq Run
    BY DEF TypeOK, Progress
  <2>2. ASSUME NEW q \in run[r].prune, run' = [run EXCEPT ![r].prune = @ \ {q}]
        PROVE  run' \in [Run -> Progress]
    <3>1. run[r].prune \ {q} \in SUBSET Run
      BY <2>1
    <3> QED BY <2>2, <3>1, ProgressTypes DEF TypeOK
  <2>3. CASE run[r].prune = {} /\ Rest(r) /\ UNCHANGED <<row, log, spent>>
    BY <1>0, <1>13, <2>3 DEF Prune, TypeOK
  <2>4. CASE run[r].prune # {} /\ Misses(r) /\ Rest(r) /\ UNCHANGED <<row, log>>
    BY <1>0, <1>a, <1>13, <2>4 DEF Prune, Spends, TypeOK
  <2>5. ASSUME NEW q \in run[r].prune, run' = [run EXCEPT ![r].prune = @ \ {q}],
               row' = [row EXCEPT ![q] = "absent"], log' = [log EXCEPT ![q] = "none"], UNCHANGED spent
        PROVE  TypeOK'
    <3>1. row' \in [Run -> Final \cup {"absent", "running"}] /\ log' \in [Run -> {"none", "open", "whole"}]
      BY <2>1, <2>5 DEF TypeOK
    <3>2. run' \in [Run -> Progress]
      BY <2>2, <2>5
    <3> QED BY <1>13, <2>5, <3>1, <3>2 DEF Prune, TypeOK
  <2>6. \/ run[r].prune = {} /\ Rest(r) /\ UNCHANGED <<row, log, spent>>
        \/ run[r].prune # {} /\ Misses(r) /\ Rest(r) /\ UNCHANGED <<row, log>>
        \/ \E q \in run[r].prune :
             /\ run' = [run EXCEPT ![r].prune = @ \ {q}]
             /\ row' = [row EXCEPT ![q] = "absent"] /\ log' = [log EXCEPT ![q] = "none"] /\ UNCHANGED spent
    BY <1>13, Zenon DEF Prune
  <2> QED BY <2>3, <2>4, <2>5, <2>6
<1>14. CASE Cancel(r)
  <2>1. run[r].step \in 0..Len(Plan)
    BY DEF TypeOK, Progress
  <2> QED BY <1>14, <2>1 DEF Cancel, TypeOK
<1> QED
  BY <1>1, <1>2, <1>3, <1>4, <1>5, <1>6, <1>7, <1>8, <1>9, <1>10, <1>11, <1>12, <1>13, <1>14 DEF Works

LEMMA TypeBeside ==
  ASSUME TypeOK,
         \/ \E c \in Clearer \cup {Deleter} : ClearList(c) \/ ClearRows(c) \/ ClearLogs(c)
         \/ Delete \/ Elsewhere \/ Crash
  PROVE  TypeOK'
<1> USE Bounds
<1>1. ASSUME NEW c \in Clearer \cup {Deleter}, ClearList(c) PROVE TypeOK'
  BY <1>1 DEF ClearList, TypeOK, Finished
<1>2. ASSUME NEW c \in Clearer \cup {Deleter}, ClearRows(c) PROVE TypeOK'
  BY <1>2, SMTT(60) DEF ClearRows, TypeOK
<1>3. ASSUME NEW c \in Clearer \cup {Deleter}, ClearLogs(c) PROVE TypeOK'
  BY <1>3 DEF ClearLogs, TypeOK
<1>4. ASSUME spent.deletes < MaxDeletes, spent' = [spent EXCEPT !.deletes = @ + 1]
      PROVE  spent' \in Spendings
  <2>1. spent.deletes + 1 \in 0..MaxDeletes
    BY <1>4 DEF TypeOK, Spendings
  <2> QED BY <1>4, <2>1 DEF TypeOK, Spendings
<1>5. CASE Delete
  BY <1>4, <1>5 DEF Delete, TypeOK
<1>6. CASE Elsewhere
  BY <1>4, <1>6 DEF Elsewhere, TypeOK
<1>7. CASE Crash
  <2>1. spent' \in Spendings
    <3>1. spent.crashes + 1 \in 0..MaxFaults
      BY <1>7 DEF Crash, TypeOK, Spendings
    <3> QED BY <1>7, <3>1 DEF Crash, TypeOK, Spendings
  <2>2. run' \in [Run -> Progress]
    BY <1>7, ProgressTypes DEF Crash, TypeOK
  <2> QED BY <1>7, <2>1, <2>2 DEF Crash, TypeOK
<1> QED BY <1>1, <1>2, <1>3, <1>5, <1>6, <1>7

LEMMA TypeStep == TypeOK /\ [Next]_vars => TypeOK'
<1> SUFFICES ASSUME TypeOK, [Next]_vars PROVE TypeOK'
  OBVIOUS
<1>1. CASE UNCHANGED vars
  BY <1>1 DEF vars, TypeOK
<1> QED BY <1>1, TypeRun, TypeBeside DEF Next

-----------------------------------------------------------------------------
(* Where the steps of a run lead, and what they leave alone. *)

Leads(r, p) == /\ \A q \in Run \ {r} : run'[q] = run[q]
               /\ run'[r].pc = p /\ run'[r].step = run[r].step

LEMMA Steps ==
  ASSUME TypeOK, NEW r \in Run
  PROVE  /\ \A p : Goto(r, p) => Leads(r, p)
         /\ \A o : Ends(r, o) => Leads(r, "log")
         /\ \A b : Swaps(r, b) => Leads(r, "swap")
         /\ \A how : StepEnds(r, how) => Leads(r, "next") \/ Leads(r, "log")
         /\ Rest(r) => (\A q \in Run \ {r} : run'[q] = run[q]) /\ run'[r] = Gone("over")
<1>1. run[r] \in Progress /\ run \in [Run -> Progress]
  BY DEF TypeOK
<1>2. ASSUME NEW p, Goto(r, p) PROVE Leads(r, p)
  BY <1>1, <1>2 DEF Goto, Leads, Progress
<1>3. ASSUME NEW o, Ends(r, o) PROVE Leads(r, "log")
  BY <1>1, <1>3 DEF Ends, Leads, Progress
<1>4. ASSUME NEW b, Swaps(r, b) PROVE Leads(r, "swap")
  BY <1>1, <1>4 DEF Swaps, Leads, Progress
<1>5. ASSUME NEW how, NEW p, NEW o, Ended(r, how, p, o) PROVE Leads(r, p)
  BY <1>1, <1>5 DEF Ended, Leads, Progress
<1>6. \A how : StepEnds(r, how) => Leads(r, "next") \/ Leads(r, "log")
  BY <1>5 DEF StepEnds
<1>7. Rest(r) => (\A q \in Run \ {r} : run'[q] = run[q]) /\ run'[r] = Gone("over")
  BY <1>1 DEF Rest
<1> QED BY <1>2, <1>3, <1>4, <1>6, <1>7

\* What a step that leaves the files alone may do to a run.
Plain(q) ==
  /\ run'[q].pc \notin Over => run[q].pc \notin Over
  /\ run'[q].pc \in Moving => run'[q].step \in Transfers
  /\ run'[q].pc \in Moving \ {"open"} =>
       run[q].pc \in Moving /\ run'[q].step = run[q].step
  /\ run'[q].pc = "copy" => run[q].pc = "copy"
  /\ run'[q].pc \in {"backup", "swap"} => run[q].pc \in {"backup", "swap"}
  /\ run'[q].pc = "tidy" => run[q].pc = "tidy"

LEMMA PlainSame ==
  ASSUME Inv, NEW q \in Run, run'[q] = run[q], ~spent.overlap
  PROVE  Plain(q)
BY DEF Plain, Inv, Transferring, Moving

LEMMA Still ==
  ASSUME Inv, file' = file, spent'.overlap = spent.overlap,
         ~spent.overlap => \A q \in Run : Plain(q)
  PROVE  Alone' /\ Transferring' /\ FileSafe'
<1> SUFFICES ASSUME ~spent.overlap PROVE Alone' /\ Transferring' /\ FileSafe'
  BY DEF Alone, Transferring, FileSafe
<1>1. Alone'
  BY DEF Inv, Alone, Plain, Active
<1>2. Transferring'
  <2> SUFFICES ASSUME NEW q \in Run, run'[q].pc \in Moving
               PROVE  run'[q].step \in Transfers /\ Ready(run'[q].pc, F(q)')
    BY DEF Transferring
  <2>1. run'[q].step \in Transfers
    BY DEF Plain
  <2>2. CASE run'[q].pc = "open"
    BY <2>1, <2>2 DEF Ready
  <2>3. CASE run'[q].pc # "open"
    <3>1. run[q].pc \in Moving /\ F(q)' = F(q)
      BY <2>3 DEF Plain, F
    <3>2. Ready(run[q].pc, F(q))
      BY <3>1 DEF Inv, Transferring
    <3> QED BY <2>1, <3>1, <3>2 DEF Plain, Ready
  <2> QED BY <2>2, <2>3
<1>3. FileSafe'
  BY DEF Inv, FileSafe
<1> QED BY <1>1, <1>2, <1>3

LEMMA Written ==
  ASSUME Inv, NEW r \in Run, run[r].pc \in Moving, NEW p, Leads(r, p), NEW f, Write(r, f),
         spent' = spent, ~spent.overlap => Whole(f) /\ Ready(p, f)
  PROVE  Alone' /\ Transferring' /\ FileSafe'
<1> SUFFICES ASSUME ~spent.overlap PROVE Alone' /\ Transferring' /\ FileSafe'
  BY DEF Alone, Transferring, FileSafe
<1>1. run[r].step \in Transfers /\ r \in Active
  BY DEF Inv, Transferring, Active, Moving, Over
<1>2. /\ file' = [file EXCEPT ![run[r].step] = f] /\ file'[run[r].step] = f
      /\ \A s \in Transfers \ {run[r].step} : file'[s] = file[s]
  BY <1>1 DEF Write, Inv, TypeOK
<1>3. \A q \in Run \ {r} : run[q].pc \in Over /\ run'[q] = run[q]
  BY <1>1 DEF Inv, Alone, Active, Leads
<1>4. Alone'
  BY <1>3 DEF Alone, Active
<1>5. Transferring'
  <2> SUFFICES ASSUME NEW q \in Run, run'[q].pc \in Moving
               PROVE  run'[q].step \in Transfers /\ Ready(run'[q].pc, F(q)')
    BY DEF Transferring
  <2>1. q = r
    BY <1>3 DEF Moving, Over
  <2> QED BY <1>1, <1>2, <2>1 DEF Leads, F
<1>6. FileSafe'
  BY <1>1, <1>2 DEF FileSafe, Whole, Inv
<1> QED BY <1>4, <1>5, <1>6

LEMMA Kept ==
  ASSUME Inv, NEW r \in Run, NEW p, Leads(r, p), run[r].pc \notin Over,
         file' = file, spent'.overlap = spent.overlap,
         \/ p \notin Moving
         \/ run[r].pc = "backup" /\ p = "swap"
         \/ run[r].pc = "swap" /\ p = "restore"
  PROVE  Alone' /\ Transferring' /\ FileSafe'
<1> SUFFICES ASSUME ~spent.overlap, NEW q \in Run PROVE Plain(q)
  BY Still
<1>1. CASE q # r
  BY <1>1, PlainSame DEF Leads
<1>2. CASE q = r
  <2>1. run[r].pc \in Moving => run[r].step \in Transfers
    BY DEF Inv, Transferring
  <2> QED BY <1>2, <2>1 DEF Plain, Leads, Moving
<1> QED BY <1>1, <1>2

LEMMA Stops ==
  ASSUME Inv, NEW r \in Run, Rest(r), file' = file, spent'.overlap = spent.overlap
  PROVE  Alone' /\ Transferring' /\ FileSafe'
<1> SUFFICES ASSUME ~spent.overlap, NEW q \in Run PROVE Plain(q)
  BY Still
<1>1. CASE q # r
  BY <1>1, PlainSame, Steps DEF Inv
<1>2. CASE q = r
  BY <1>2, Steps DEF Plain, Gone, Idle, Inv, Moving, Over
<1> QED BY <1>1, <1>2

\* The files of the step a run is in.
LEMMA OwnFiles ==
  ASSUME Inv, NEW r \in Run, run[r].pc \in Moving, ~spent.overlap
  PROVE  F(r) \in Files /\ Whole(F(r)) /\ Ready(run[r].pc, F(r))
BY DEF Inv, TypeOK, Transferring, FileSafe, F, Whole

LEMMA SafeTransfer ==
  ASSUME Inv, NEW r \in Run,
         OpenFile(r) \/ Copy(r) \/ Backup(r) \/ Swap(r) \/ Restore(r) \/ Tidy(r)
  PROVE  Alone' /\ Transferring' /\ FileSafe'
<1> DEFINE Safe == Alone' /\ Transferring' /\ FileSafe'
<1>1. Quiet /\ spent' = spent /\ run[r].pc \in Moving /\ run[r].pc \notin Over
  BY DEF OpenFile, Copy, Backup, Swap, Restore, Tidy, Quiet, At, Moving, Over
<1>2. TypeOK
  BY DEF Inv
<1>3. ASSUME NEW how, StepEnds(r, how), file' = file PROVE Safe
  <2>1. Leads(r, "next") \/ Leads(r, "log")
    BY <1>2, <1>3, Steps
  <2>2. ASSUME NEW p \in {"next", "log"}, Leads(r, p) PROVE Safe
    BY <1>1, <1>3, <2>2, Kept DEF Moving
  <2> QED BY <2>1, <2>2
<1>4. ASSUME NEW how, StepEnds(r, how), NEW f, Write(r, f), ~spent.overlap => Whole(f) PROVE Safe
  <2>1. Leads(r, "next") \/ Leads(r, "log")
    BY <1>2, <1>4, Steps
  <2>2. ASSUME NEW p \in {"next", "log"}, Leads(r, p) PROVE Safe
    <3>1. ~spent.overlap => Ready(p, f)
      BY <2>2 DEF Ready
    <3> QED BY <1>1, <1>4, <2>2, <3>1, Written
  <2> QED BY <2>1, <2>2
<1>5. CASE OpenFile(r)
  <2>1. CASE Write(r, [F(r) EXCEPT !.temp = "part"]) /\ Goto(r, "copy")
    <3>1. Leads(r, "copy")
      BY <1>2, <2>1, Steps
    <3>2. ~spent.overlap => LET f == [F(r) EXCEPT !.temp = "part"] IN Whole(f) /\ Ready("copy", f)
      BY <1>1, OwnFiles DEF Whole, Ready, Files
    <3> QED BY <1>1, <2>1, <3>1, <3>2, Written
  <2> QED BY <1>3, <1>5, <2>1 DEF OpenFile
<1>6. CASE Copy(r)
  <2>1. CASE Goto(r, "backup")
             /\ Write(r, IF F(r).temp = "none" \/ Shared(r) THEN F(r) ELSE [F(r) EXCEPT !.temp = "new"])
    <3> DEFINE f == IF F(r).temp = "none" \/ Shared(r) THEN F(r) ELSE [F(r) EXCEPT !.temp = "new"]
    <3>1. Leads(r, "backup")
      BY <1>2, <2>1, Steps
    <3>2. ~spent.overlap => Whole(f) /\ Ready("backup", f)
      <4> SUFFICES ASSUME ~spent.overlap PROVE Whole(f) /\ Ready("backup", f)
        OBVIOUS
      <4>1. ~Shared(r)
        BY <1>1, <1>6 DEF Shared, Inv, Alone, Active, At, Over, Copy
      <4>2. F(r) \in Files /\ Whole(F(r)) /\ F(r).temp = "part"
        BY <1>1, <1>6, OwnFiles DEF Copy, At, Ready
      <4>3. f = [F(r) EXCEPT !.temp = "new"]
        BY <4>1, <4>2
      <4> HIDE DEF f
      <4> QED BY <4>2, <4>3 DEF Whole, Ready, Files
    <3>3. Write(r, f)
      BY <2>1
    <3> HIDE DEF f
    <3> QED BY <1>1, <3>1, <3>2, <3>3, Written
  <2>2. ~spent.overlap => Whole([F(r) EXCEPT !.temp = "none"])
    BY <1>1, OwnFiles DEF Whole, Files
  <2> QED BY <1>3, <1>4, <1>6, <2>1, <2>2 DEF Copy
<1>7. CASE Backup(r)
  <2>1. CASE F(r).target # "none" /\ (\E b : Swaps(r, b))
             /\ Write(r, [F(r) EXCEPT !.target = "none", !.backup = F(r).target])
    <3> DEFINE f == [F(r) EXCEPT !.target = "none", !.backup = F(r).target]
    <3>1. Leads(r, "swap")
      BY <1>2, <2>1, Steps
    <3>2. ~spent.overlap => Whole(f) /\ Ready("swap", f)
      <4> SUFFICES ASSUME ~spent.overlap PROVE Whole(f) /\ Ready("swap", f)
        OBVIOUS
      <4>1. F(r) \in Files /\ Whole(F(r)) /\ F(r).temp = "new"
        BY <1>1, <1>7, OwnFiles DEF Backup, At, Ready
      <4>2. F(r).target \in {"old", "new"}
        BY <2>1, <4>1 DEF Whole, Files
      <4>3. f.target = "none" /\ f.backup = F(r).target /\ f.temp = "new"
        BY <4>1 DEF Files
      <4> HIDE DEF f
      <4> QED BY <4>2, <4>3 DEF Whole, Ready
    <3> HIDE DEF f
    <3>3. Write(r, f)
      BY <2>1 DEF f
    <3> QED BY <1>1, <3>1, <3>2, <3>3, Written
  <2>2. CASE Swaps(r, FALSE) /\ file' = file
    <3>1. Leads(r, "swap")
      BY <1>2, <2>2, Steps
    <3>2. run[r].pc = "backup"
      BY <1>7 DEF Backup, At
    <3> QED BY <1>1, <2>2, <3>1, <3>2, Kept
  <2> QED BY <1>3, <1>7, <2>1, <2>2 DEF Backup
<1>8. CASE Swap(r)
  <2>0. run[r].pc = "swap"
    BY <1>8 DEF Swap, At
  <2>1. CASE Goto(r, "tidy") /\ Write(r, [F(r) EXCEPT !.target = F(r).temp, !.temp = "none"])
    <3> DEFINE f == [F(r) EXCEPT !.target = F(r).temp, !.temp = "none"]
    <3>1. Leads(r, "tidy")
      BY <1>2, <2>1, Steps
    <3>2. ~spent.overlap => Whole(f) /\ Ready("tidy", f)
      <4> SUFFICES ASSUME ~spent.overlap PROVE Whole(f) /\ Ready("tidy", f)
        OBVIOUS
      <4>1. F(r) \in Files /\ Whole(F(r)) /\ F(r).temp = "new"
        BY <1>1, <2>0, OwnFiles DEF Ready
      <4>2. f.target = "new" /\ f.backup = F(r).backup
        BY <4>1 DEF Files
      <4> HIDE DEF f
      <4> QED BY <4>1, <4>2 DEF Whole, Ready
    <3> HIDE DEF f
    <3>3. Write(r, f)
      BY <2>1 DEF f
    <3> QED BY <1>1, <3>1, <3>2, <3>3, Written
  <2>2. CASE Goto(r, "restore") /\ file' = file
    <3>1. Leads(r, "restore")
      BY <1>2, <2>2, Steps
    <3> QED BY <1>1, <2>0, <2>2, <3>1, Kept
  \* The answer to the renaming is lost.
  <2>3. ~spent.overlap => Whole([F(r) EXCEPT !.target = F(r).temp, !.temp = "none"])
    <3> SUFFICES ASSUME ~spent.overlap PROVE Whole([F(r) EXCEPT !.target = F(r).temp, !.temp = "none"])
      OBVIOUS
    <3>1. F(r) \in Files /\ Whole(F(r)) /\ F(r).temp = "new"
      BY <1>1, <2>0, OwnFiles DEF Ready
    <3> QED BY <3>1 DEF Whole, Files
  <2>4. CASE Goto(r, "restore") /\ Write(r, [F(r) EXCEPT !.target = F(r).temp, !.temp = "none"])
    <3>1. Leads(r, "restore")
      BY <1>2, <2>4, Steps
    <3>2. \A f : Ready("restore", f)
      BY DEF Ready
    <3> QED BY <1>1, <2>3, <2>4, <3>1, <3>2, Written
  <2> QED BY <1>3, <1>4, <1>8, <2>1, <2>2, <2>3, <2>4 DEF Swap
<1>9. CASE Restore(r)
  <2>1. CASE F(r).backup # "none" /\ Write(r, [F(r) EXCEPT !.target = F(r).backup, !.backup = "none"])
    <3> DEFINE f == [F(r) EXCEPT !.target = F(r).backup, !.backup = "none"]
    <3>1. ~spent.overlap => Whole(f)
      <4> SUFFICES ASSUME ~spent.overlap PROVE Whole(f)
        OBVIOUS
      <4>1. F(r) \in Files /\ Whole(F(r))
        BY <1>1, OwnFiles
      <4>2. F(r).backup \in {"old", "new"} /\ f.target = F(r).backup /\ f.backup = "none"
        BY <2>1, <4>1 DEF Files, Whole
      <4> HIDE DEF f
      <4> QED BY <4>2 DEF Whole
    <3> HIDE DEF f
    <3>2. Write(r, f)
      BY <2>1 DEF f
    <3> QED BY <1>4, <1>9, <3>1, <3>2 DEF Restore
  <2> QED BY <1>3, <1>9, <2>1 DEF Restore
<1>10. CASE Tidy(r)
  <2>1. CASE Write(r, [F(r) EXCEPT !.backup = "none"])
    <3>1. ~spent.overlap => Whole([F(r) EXCEPT !.backup = "none"])
      <4> SUFFICES ASSUME ~spent.overlap PROVE Whole([F(r) EXCEPT !.backup = "none"])
        OBVIOUS
      <4>1. F(r) \in Files /\ F(r).target = "new"
        BY <1>1, <1>10, OwnFiles DEF Tidy, At, Ready
      <4> QED BY <4>1 DEF Whole, Files
    <3> QED BY <1>4, <1>10, <2>1, <3>1 DEF Tidy
  <2> QED BY <1>3, <1>10, <2>1 DEF Tidy
<1> QED BY <1>5, <1>6, <1>7, <1>8, <1>9, <1>10

LEMMA SafeRun ==
  ASSUME Inv, NEW r \in Run, Prepare(r) \/ Works(r) \/ Cancel(r)
  PROVE  Alone' /\ Transferring' /\ FileSafe'
<1> DEFINE Safe == Alone' /\ Transferring' /\ FileSafe'
<1>1. TypeOK
  BY DEF Inv
<1>2. ASSUME NEW p, p \notin Moving, Leads(r, p), run[r].pc \notin Over,
             file' = file, spent'.overlap = spent.overlap
      PROVE  Safe
  BY <1>2, Kept
<1>3. Spends(r) => spent'.overlap = spent.overlap
  BY <1>1, Spent
<1>4. CASE Prepare(r)
  <2>1. Leads(r, "read") /\ file' = file
    BY <1>1, <1>4, Steps DEF Prepare
  <2>2. spent'.overlap = (spent.overlap \/ Active # {})
    BY <1>1, <1>4 DEF Prepare, TypeOK, Spendings
  <2> SUFFICES ASSUME ~spent'.overlap PROVE Safe
    BY DEF Alone, Transferring, FileSafe
  <2>3. ~spent.overlap /\ Active = {}
    BY <2>2
  <2>4. Active' \subseteq {r}
    BY <2>1, <2>3 DEF Active, Leads
  <2>5. Alone'
    BY <2>4 DEF Alone
  <2>6. \A q \in Run : run'[q].pc \notin Moving
    BY <2>1, <2>3 DEF Active, Leads, Moving, Over
  <2>7. FileSafe'
    BY <2>1, <2>3 DEF FileSafe, Inv
  <2> QED BY <2>5, <2>6, <2>7 DEF Transferring
<1>5. CASE CreateLog(r)
  BY <1>1, <1>2, <1>5, Steps DEF CreateLog, At, Over, Moving
<1>6. CASE Insert(r)
  <2>1. CASE Rest(r) /\ Fault
    BY <1>3, <1>6, <2>1, Stops DEF Insert, Spends
  <2>2. CASE Goto(r, "inserted") /\ UNCHANGED spent
    BY <1>1, <1>2, <1>6, <2>2, Steps DEF Insert, At, Over, Moving
  <2> QED BY <1>6, <2>1, <2>2 DEF Insert
<1>7. CASE Register(r)
  BY <1>1, <1>2, <1>7, Steps DEF Register, At, Over, Moving
<1>8. CASE Connect(r)
  <2>1. Leads(r, "next") \/ Leads(r, "log")
    BY <1>1, <1>8, Steps DEF Connect
  <2> QED BY <1>2, <1>8, <2>1 DEF Connect, Quiet, At, Over, Moving
<1>9. CASE NextStep(r)
  <2>1. run[r].pc = "next" /\ file' = file /\ spent' = spent
    BY <1>9 DEF NextStep, At, Quiet
  <2>2. CASE Leads(r, "log")
    BY <1>2, <2>1, <2>2 DEF Over, Moving
  <2>3. CASE run' = [run EXCEPT ![r] = [run[r] EXCEPT !.step = run[r].step + 1, !.had = FALSE,
                       !.pc = IF run[r].step + 1 \in Transfers THEN "open" ELSE "exec"]]
    <3>1. \A q \in Run \ {r} : run'[q] = run[q]
      BY <1>1, <2>3 DEF TypeOK
    <3>2. run'[r].step = run[r].step + 1
          /\ run'[r].pc = IF run[r].step + 1 \in Transfers THEN "open" ELSE "exec"
      BY <1>1, <2>3 DEF TypeOK, Progress
    <3>3. Plain(r)
      BY <2>1, <3>2 DEF Plain, Over, Moving
    <3> QED BY <2>1, <3>1, <3>3, PlainSame, Still
  <2>4. \A o : Ends(r, o) => Leads(r, "log")
    BY <1>1, Steps
  <2> QED BY <1>9, <2>2, <2>3, <2>4 DEF NextStep
<1>10. CASE Command(r)
  <2>1. Leads(r, "next") \/ Leads(r, "log")
    BY <1>1, <1>10, Steps DEF Command
  <2> QED BY <1>2, <1>10, <2>1 DEF Command, Quiet, At, Over, Moving
<1>11. CASE OpenFile(r) \/ Copy(r) \/ Backup(r) \/ Swap(r) \/ Restore(r) \/ Tidy(r)
  BY <1>11, SafeTransfer
<1>12. CASE FinishLog(r)
  BY <1>1, <1>2, <1>12, Steps DEF FinishLog, At, Over, Moving
<1>13. CASE FinishRow(r)
  <2>1. spent'.overlap = spent.overlap
    BY <1>3, <1>13 DEF FinishRow, Spends
  <2> QED BY <1>1, <1>2, <1>13, <2>1, Steps DEF FinishRow, At, Over, Moving
<1>14. CASE Leave(r)
  BY <1>1, <1>2, <1>14, Steps DEF Leave, At, Over, Moving
<1>15. CASE List(r)
  <2>1. CASE Rest(r) /\ Spends(r)
    BY <1>3, <1>15, <2>1, Stops DEF List
  <2>2. CASE UNCHANGED spent /\ ~Rest(r)
    <3>0. ASSUME NEW x, run' = [run EXCEPT ![r] = [run[r] EXCEPT !.pc = "prune", !.prune = x]]
          PROVE  Leads(r, "prune")
      BY <1>1, <3>0 DEF Leads, TypeOK, Progress
    <3>1. Leads(r, "prune")
      BY <1>15, <2>2, <3>0 DEF List
    <3> QED BY <1>2, <1>15, <2>2, <3>1 DEF List, At, Over, Moving
  <2>3. CASE Rest(r) /\ UNCHANGED spent
    BY <1>15, <2>3, Stops DEF List
  <2> QED BY <1>15, <2>1, <2>2, <2>3 DEF List, Spends
<1>16. CASE Prune(r)
  <2>1. spent'.overlap = spent.overlap /\ file' = file /\ run[r].pc = "prune"
    BY <1>3, <1>16 DEF Prune, Spends, At
  <2>2. CASE Rest(r)
    BY <2>1, <2>2, Stops
  <2>3. ASSUME NEW q, run' = [run EXCEPT ![r].prune = @ \ {q}] PROVE Leads(r, "prune")
    BY <1>1, <2>1, <2>3 DEF Leads, TypeOK, Progress
  <2>4. Rest(r) \/ Leads(r, "prune")
    BY <1>16, <2>3 DEF Prune
  <2> QED BY <1>2, <2>1, <2>2, <2>4 DEF Over, Moving
<1>17. CASE Cancel(r)
  BY <1>17, PlainSame, Still DEF Cancel
<1> QED
  BY <1>4, <1>5, <1>6, <1>7, <1>8, <1>9, <1>10, <1>11, <1>12, <1>13, <1>14, <1>15, <1>16, <1>17 DEF Works

LEMMA SafeBeside ==
  ASSUME Inv,
         \/ \E c \in Clearer \cup {Deleter} : ClearList(c) \/ ClearRows(c) \/ ClearLogs(c)
         \/ Delete \/ Elsewhere \/ Crash
  PROVE  Alone' /\ Transferring' /\ FileSafe'
<1>1. file' = file /\ spent'.overlap = spent.overlap
  BY DEF ClearList, ClearRows, ClearLogs, Delete, Elsewhere, Crash, Inv, TypeOK, Spendings
<1>2. CASE Crash
  <2> SUFFICES ASSUME NEW q \in Run, ~spent.overlap PROVE Plain(q)
    BY <1>1, Still
  <2>1. CASE q \in Active
    BY <1>2, <2>1 DEF Crash, Plain, Gone, Idle, Over, Moving
  <2>2. CASE q \notin Active
    BY <1>2, <2>2, PlainSame DEF Crash
  <2> QED BY <2>1, <2>2
<1>3. CASE ~Crash
  <2>1. run' = run
    BY <1>3 DEF ClearList, ClearRows, ClearLogs, Delete, Elsewhere
  <2> QED BY <1>1, <2>1, PlainSame, Still
<1> QED BY <1>2, <1>3

LEMMA InitInv == Init => Inv
<1> SUFFICES ASSUME Init PROVE Inv
  OBVIOUS
<1>1. \A r \in Run : run[r].pc = "none"
  BY DEF Init, Idle
<1>2. Alone /\ Transferring
  BY <1>1 DEF Alone, Transferring, Active, Over, Moving
<1>3. FileSafe
  <2> SUFFICES ASSUME NEW s \in Transfers PROVE Whole(file[s])
    BY DEF FileSafe, Whole
  <2>1. PICK c \in {"none", "old"} :
          file[s] = [had |-> c # "none", target |-> c, temp |-> "none", backup |-> "none"]
    BY DEF Init
  <2>2. file[s].had = (c # "none") /\ file[s].target = c /\ file[s].backup = "none"
    BY <2>1
  <2>3. CASE c = "none"
    BY <2>2, <2>3 DEF Whole
  <2>4. CASE c = "old"
    BY <2>2, <2>4 DEF Whole
  <2> QED BY <2>3, <2>4
<1> QED BY <1>2, <1>3, InitType DEF Inv

LEMMA StepInv == Inv /\ [Next]_vars => Inv'
<1> SUFFICES ASSUME Inv, [Next]_vars PROVE Inv'
  OBVIOUS
<1>1. TypeOK'
  BY TypeStep DEF Inv
<1>2. CASE UNCHANGED vars
  <2>1. Alone' /\ Transferring' /\ FileSafe'
    BY <1>2, PlainSame, Still DEF vars
  <2> QED BY <1>1, <2>1 DEF Inv
<1>3. CASE Next
  <2>1. Alone' /\ Transferring' /\ FileSafe'
    BY <1>3, SafeRun, SafeBeside DEF Next
  <2> QED BY <1>1, <2>1 DEF Inv
<1> QED BY <1>2, <1>3

-----------------------------------------------------------------------------
(* A cancel. *)

\* After a cancel the step of a run stays the one that was cancelled.
LEMMA CancelStep == TypeOK /\ CancelHolds /\ [Next]_vars => CancelHolds'
<1> SUFFICES ASSUME TypeOK, CancelHolds, [Next]_vars, NEW q \in Run, told'[q] # Never
             PROVE  run'[q].step <= told'[q]
  BY DEF CancelHolds
<1>1. told[q] # Never => run[q].step <= told[q]
  BY DEF CancelHolds
<1>2. ASSUME told'[q] = told[q], run'[q].step = run[q].step \/ run'[q].step = 0 PROVE run'[q].step <= told'[q]
  BY <1>1, <1>2, Bounds DEF TypeOK, Never
<1>3. ASSUME NEW r \in Run, Prepare(r) \/ Works(r), told' = told PROVE run'[q].step <= told'[q]
  <2>1. ASSUME NEW p, Leads(r, p) PROVE run'[q].step = run[q].step
    BY <2>1 DEF Leads
  <2>2. CASE NextStep(r)
    <3>1. CASE q = r
      <4>1. told[r] # Never
        BY <1>3, <3>1
      <4>2. \E o : Ends(r, o)
        BY <2>2, <4>1 DEF NextStep
      <4> QED BY <1>2, <1>3, <2>1, <4>2, Steps
    <3>2. CASE q # r
      BY <1>2, <1>3, <2>2, <3>2 DEF NextStep, Ends, TypeOK
    <3> QED BY <3>1, <3>2
  <2>3. CASE (\E p : Leads(r, p)) \/ Rest(r)
    <3>1. Rest(r) => run'[q].step \in {0, run[q].step}
      BY Steps DEF Gone, Idle
    <3> QED BY <1>2, <1>3, <2>1, <2>3, <3>1
  <2>4. CASE (Works(r) /\ ~NextStep(r)) \/ Prepare(r)
    <3>1. ASSUME NEW x, run' = [run EXCEPT ![r].prune = x] PROVE Leads(r, run[r].pc)
      BY <3>1 DEF Leads, TypeOK, Progress
    <3>2. ASSUME NEW x, run' = [run EXCEPT ![r] = [run[r] EXCEPT !.pc = "prune", !.prune = x]]
          PROVE  Leads(r, "prune")
      BY <3>2 DEF Leads, TypeOK, Progress
    <3>3. (\E p : Leads(r, p)) \/ Rest(r)
      BY <2>4, <3>1, <3>2, Steps DEF Works, Prepare, CreateLog, Insert, Register, Connect, Command,
           OpenFile, Copy, Backup, Swap, Restore, Tidy, FinishLog, FinishRow, Leave, List, Prune
    <3> QED BY <2>3, <3>3
  <2> QED BY <1>3, <2>2, <2>4
<1>4. ASSUME NEW r \in Run, Leave(r) PROVE run'[q].step <= told'[q]
  <2>1. q # r
    BY <1>4 DEF Leave, TypeOK
  <2> QED BY <1>2, <1>4, <2>1 DEF Leave, Goto, TypeOK
<1>5. ASSUME NEW r \in Run, Cancel(r) PROVE run'[q].step <= told'[q]
  <2>1. CASE q = r
    BY <1>5, <2>1 DEF Cancel, TypeOK, Progress
  <2>2. CASE q # r
    BY <1>2, <1>5, <2>2 DEF Cancel, TypeOK
  <2> QED BY <2>1, <2>2
<1>6. CASE Crash
  BY <1>6 DEF Crash
<1>7. CASE \/ \E c \in Clearer \cup {Deleter} : ClearList(c) \/ ClearRows(c) \/ ClearLogs(c)
           \/ Delete \/ Elsewhere \/ UNCHANGED vars
  BY <1>2, <1>7 DEF ClearList, ClearRows, ClearLogs, Delete, Elsewhere, vars
<1>8. ASSUME NEW r \in Run, Works(r) PROVE told' = told \/ Leave(r)
  BY <1>8 DEF Works, CreateLog, Insert, Register, Connect, NextStep, Command,
       OpenFile, Copy, Backup, Swap, Restore, Tidy, FinishLog, FinishRow, List, Prune, Quiet
<1>9. ASSUME NEW r \in Run, Prepare(r) PROVE told' = told
  BY <1>9 DEF Prepare
<1> QED BY <1>3, <1>4, <1>5, <1>6, <1>7, <1>8, <1>9 DEF Next

-----------------------------------------------------------------------------
(* What the history tells. *)

Passed(d, n) == Len(d) = n /\ \A s \in 1..n : d[s] = "ok" \/ (d[s] = "failed" /\ Plan[s].goOn)

\* How a run may end, from how its steps ended and whether it was cancelled.
Truth(r, x) ==
  /\ x.out = "success" => x.step = Len(Plan) /\ Passed(x.did, Len(Plan))
  /\ x.out = "cancelled" => told[r] # Never
  /\ x.out = "failed" => x.did = <<>> \/ (x.did[Len(x.did)] = "failed" /\ ~Plan[Len(x.did)].goOn)

Early == {"none", "read", "logged", "inserted", "connect"}
Stepping == Moving \cup {"exec"}
Ending == {"log", "finish"}
Unwritten == Early \cup Stepping \cup Ending \cup {"next"}

Book(r, x) ==
  /\ x.pc \in Unwritten => row[r] \notin Final
  /\ x.pc \in Early => x.step = 0 /\ x.did = <<>>
  /\ x.pc = "next" => Passed(x.did, x.step)
  /\ x.pc \in Stepping => x.step \in Step /\ Passed(x.did, x.step - 1)
  /\ x.pc \in Ending => Truth(r, x)

Books == \A r \in Run : Book(r, run[r])

\* A run that stays where it is keeps its book.
LEMMA BookStays ==
  ASSUME Books, NEW q \in Run, run'[q] = run[q], row'[q] \in Final => row'[q] = row[q],
         told'[q] = Never => told[q] = Never \/ run[q].pc \notin Ending
  PROVE  Book(q, run[q])'
<1>1. Book(q, run[q])
  BY DEF Books
<1> QED BY <1>1 DEF Book, Truth, Ending

\* So does one that goes on without the end of a step.
LEMMA Keeps ==
  ASSUME TypeOK, NEW r \in Run
  PROVE  /\ \A p : Goto(r, p) => run'[r].did = run[r].did /\ run'[r].out = run[r].out
         /\ \A b : Swaps(r, b) => run'[r].did = run[r].did /\ run'[r].out = run[r].out
         /\ \A o : Ends(r, o) => run'[r].did = run[r].did /\ run'[r].out = o
<1>1. run[r] \in Progress /\ run \in [Run -> Progress]
  BY DEF TypeOK
<1>2. ASSUME NEW p, Goto(r, p) PROVE run'[r].did = run[r].did /\ run'[r].out = run[r].out
  BY <1>1, <1>2 DEF Goto, Progress
<1>3. ASSUME NEW b, Swaps(r, b) PROVE run'[r].did = run[r].did /\ run'[r].out = run[r].out
  BY <1>1, <1>3 DEF Swaps, Progress
<1>4. ASSUME NEW o, Ends(r, o) PROVE run'[r].did = run[r].did /\ run'[r].out = o
  BY <1>1, <1>4 DEF Ends, Progress
<1> QED BY <1>2, <1>3, <1>4

\* The end of a step is written as it was.
LEMMA BookOfStep ==
  ASSUME TypeOK, Books, NEW r \in Run, run[r].pc \in Stepping,
         NEW how \in {"ok", "failed", "cancelled"}, StepEnds(r, how), how = "cancelled" => told[r] # Never,
         row' = row, told' = told
  PROVE  Book(r, run[r])'
<1> DEFINE d == run[r].did
           n == run[r].step
<1>1. /\ run[r] \in Progress /\ run \in [Run -> Progress]
      /\ d \in Seq({"ok", "failed", "cancelled"}) /\ n \in Step /\ n \in Nat /\ Passed(d, n - 1)
      /\ row[r] \notin Final
  BY DEF TypeOK, Progress, Books, Book, Step, Unwritten
<1>2. /\ Len(Append(d, how)) = n /\ Append(d, how)[n] = how
      /\ \A s \in 1..(n - 1) : Append(d, how)[s] = d[s]
  BY <1>1, AppendProperties DEF Passed, Step
<1>3. ASSUME NEW p, NEW o, Ended(r, how, p, o)
      PROVE  run'[r].did = Append(d, how) /\ run'[r].pc = p /\ run'[r].out = o /\ run'[r].step = n
  BY <1>1, <1>3 DEF Ended, Progress
<1>4. CASE how = "ok" \/ (how = "failed" /\ Plan[n].goOn)
  <2>1. run'[r].did = Append(d, how) /\ run'[r].pc = "next" /\ run'[r].step = n
    BY <1>3, <1>4 DEF StepEnds
  <2>2. Passed(Append(d, how), n)
    BY <1>1, <1>2, <1>4 DEF Passed, Step
  <2> QED BY <1>1, <2>1, <2>2 DEF Book, Early, Stepping, Moving, Ending, Passed
<1>5. CASE ~(how = "ok" \/ (how = "failed" /\ Plan[n].goOn))
  <2>1. run'[r].did = Append(d, how) /\ run'[r].pc = "log" /\ run'[r].out = how
    BY <1>3, <1>5 DEF StepEnds
  <2>2. Truth(r, run[r])'
    BY <1>2, <1>5, <2>1 DEF Truth
  <2> QED BY <1>1, <2>1, <2>2 DEF Book, Early, Stepping, Moving, Ending
<1> QED BY <1>4, <1>5

LEMMA BooksKept ==
  ASSUME Books, NEW r \in Run, Book(r, run[r])',
         \A q \in Run \ {r} : /\ run'[q] = run[q] /\ row'[q] \in {row[q], "absent"}
                              /\ told'[q] = told[q]
  PROVE  Books'
<1>1. \A q \in Run \ {r} : Book(q, run[q])'
  BY BookStays DEF Final
<1> QED BY <1>1 DEF Books

\* The steps of a plan, and the moves of a file in them.
LEMMA BookOfPlan ==
  ASSUME TypeOK, Books, NEW r \in Run,
         Command(r) \/ OpenFile(r) \/ Copy(r) \/ Backup(r) \/ Swap(r) \/ Restore(r) \/ Tidy(r)
  PROVE  Books'
<1>1. run[r].pc \in Stepping /\ row' = row /\ told' = told
  BY DEF Command, OpenFile, Copy, Backup, Swap, Restore, Tidy, At, Quiet, Stepping, Moving
<1>2. \/ StepEnds(r, "ok") \/ StepEnds(r, "failed")
      \/ StepEnds(r, "cancelled") /\ told[r] # Never
      \/ \E p \in Moving : Goto(r, p)
      \/ \E b : Swaps(r, b)
  BY DEF Command, OpenFile, Copy, Backup, Swap, Restore, Tidy, Moving
<1>3. \A q \in Run \ {r} : run'[q] = run[q]
  BY <1>2, Steps DEF Leads
<1>4. Book(r, run[r])
  BY DEF Books
<1>5. CASE StepEnds(r, "ok") \/ StepEnds(r, "failed") \/ (StepEnds(r, "cancelled") /\ told[r] # Never)
  <2>1. Book(r, run[r])'
    BY <1>1, <1>5, BookOfStep
  <2> QED BY <1>1, <1>3, <2>1, BooksKept
<1>6. CASE (\E p \in Moving : Goto(r, p)) \/ (\E b : Swaps(r, b))
  <2>1. run'[r].pc \in Moving /\ run'[r].step = run[r].step /\ run'[r].did = run[r].did
    BY <1>6, Steps, Keeps DEF Leads, Moving
  <2>2. Book(r, run[r])'
    BY <1>1, <1>4, <2>1 DEF Book, Unwritten, Early, Stepping, Moving, Ending
  <2> QED BY <1>1, <1>3, <2>2, BooksKept
<1> QED BY <1>2, <1>5, <1>6

\* What is left of a run: before its first step, between two, and at its end.
LEMMA BookOfRun ==
  ASSUME TypeOK, Books, NEW r \in Run, Prepare(r) \/ Works(r) \/ Cancel(r)
  PROVE  Books'
<1> USE DEF Unwritten, Early, Stepping, Moving, Ending
<1>0. Book(r, run[r]) /\ run[r] \in Progress
  BY DEF Books, TypeOK
<1>1. ASSUME NEW p, Goto(r, p)
      PROVE  /\ run'[r].pc = p /\ run'[r].step = run[r].step
             /\ run'[r].did = run[r].did /\ run'[r].out = run[r].out
             /\ \A q \in Run \ {r} : run'[q] = run[q]
  BY <1>1, Steps, Keeps DEF Leads
<1>2. ASSUME NEW o, Ends(r, o)
      PROVE  /\ run'[r].pc = "log" /\ run'[r].step = run[r].step
             /\ run'[r].did = run[r].did /\ run'[r].out = o
             /\ \A q \in Run \ {r} : run'[q] = run[q]
  BY <1>2, Steps, Keeps DEF Leads
<1>3. ASSUME Rest(r) PROVE Book(r, run[r])' /\ \A q \in Run \ {r} : run'[q] = run[q]
  BY <1>3, Steps DEF Book, Gone, Idle
<1>4. CASE Prepare(r)
  BY <1>0, <1>1, <1>4, BooksKept DEF Prepare, At, Book
<1>5. CASE CreateLog(r)
  BY <1>0, <1>1, <1>5, BooksKept DEF CreateLog, At, Book
<1>6. CASE Insert(r)
  <2>1. CASE Goto(r, "inserted") /\ row' = [row EXCEPT ![r] = "running"]
    <3>1. Book(r, run[r])'
      BY <1>0, <1>1, <1>6, <2>1 DEF Insert, At, Book, TypeOK, Final
    <3> QED BY <1>1, <1>6, <2>1, <3>1, BooksKept DEF Insert, TypeOK
  <2>2. CASE Rest(r) /\ row' = row
    BY <1>3, <1>6, <2>2, BooksKept DEF Insert
  <2> QED BY <1>6, <2>1, <2>2 DEF Insert
<1>7. CASE Register(r)
  BY <1>0, <1>1, <1>7, BooksKept DEF Register, At, Book
<1>8. CASE Connect(r)
  <2>1. run[r].pc = "connect" /\ run[r].did = <<>> /\ run[r].step = 0 /\ row[r] \notin Final
    BY <1>0, <1>8 DEF Connect, At, Book
  <2>2. Goto(r, "next") => Book(r, run[r])'
    BY <1>1, <1>8, <2>1 DEF Connect, Quiet, Book, Passed
  <2>3. Ends(r, "failed") => Book(r, run[r])'
    BY <1>2, <1>8, <2>1 DEF Connect, Quiet, Book, Truth
  <2> QED BY <1>1, <1>2, <1>8, <2>2, <2>3, BooksKept DEF Connect, Quiet
<1>9. CASE NextStep(r)
  <2> DEFINE n == run[r].step
  <2>1. /\ run[r].pc = "next" /\ Passed(run[r].did, n) /\ row[r] \notin Final
        /\ n \in 0..Len(Plan) /\ n \in Nat /\ Len(Plan) \in Nat
    BY <1>0, <1>9, Bounds DEF NextStep, At, Book, Progress
  <2>2. row' = row /\ told' = told
    BY <1>9 DEF NextStep, Quiet
  <2>3. CASE n + 1 > Len(Plan)
    <3>1. Ends(r, "success") /\ n = Len(Plan)
      BY <1>9, <2>1, <2>3 DEF NextStep
    <3>2. Truth(r, run[r])'
      BY <1>2, <2>1, <3>1 DEF Truth
    <3>3. Book(r, run[r])'
      BY <1>2, <2>1, <2>2, <3>1, <3>2 DEF Book
    <3> QED BY <1>2, <2>2, <3>1, <3>3, BooksKept
  <2>4. CASE n + 1 <= Len(Plan) /\ told[r] # Never
    <3>1. Ends(r, "cancelled")
      BY <1>9, <2>1, <2>4 DEF NextStep
    <3>2. Truth(r, run[r])'
      BY <1>2, <2>2, <2>4, <3>1 DEF Truth
    <3>3. Book(r, run[r])'
      BY <1>2, <2>1, <2>2, <3>1, <3>2 DEF Book
    <3> QED BY <1>2, <2>2, <3>1, <3>3, BooksKept
  <2>5. CASE n + 1 <= Len(Plan) /\ told[r] = Never
    <3>1. run' = [run EXCEPT ![r] = [run[r] EXCEPT !.step = n + 1, !.had = FALSE,
                    !.pc = IF n + 1 \in Transfers THEN "open" ELSE "exec"]]
      <4>1. ~(n + 1 > Len(Plan))
        BY <2>1, <2>5
      <4> QED BY <1>9, <2>5, <4>1 DEF NextStep
    <3>2. /\ run'[r].pc \in {"open", "exec"} /\ run'[r].step = n + 1 /\ run'[r].did = run[r].did
          /\ \A q \in Run \ {r} : run'[q] = run[q]
      BY <1>0, <3>1 DEF TypeOK, Progress
    <3>3. n + 1 \in Step /\ (n + 1) - 1 = n
      BY <2>1, <2>5 DEF Step
    <3>4. Book(r, run[r])'
      BY <2>1, <2>2, <3>2, <3>3 DEF Book
    <3> QED BY <2>2, <3>2, <3>4, BooksKept
  <2> QED BY <2>1, <2>3, <2>4, <2>5
<1>10. CASE Command(r) \/ OpenFile(r) \/ Copy(r) \/ Backup(r) \/ Swap(r) \/ Restore(r) \/ Tidy(r)
  BY <1>10, BookOfPlan
<1>11. CASE FinishLog(r)
  <2>1. Truth(r, run[r])'
    BY <1>0, <1>1, <1>11 DEF FinishLog, At, Book, Truth
  <2> QED BY <1>0, <1>1, <1>11, <2>1, BooksKept DEF FinishLog, At, Book
<1>12. CASE FinishRow(r)
  <2>1. Book(r, run[r])'
    BY <1>1, <1>12 DEF FinishRow, Book
  <2> QED BY <1>1, <1>12, <2>1, BooksKept DEF FinishRow, TypeOK
<1>13. CASE Leave(r)
  <2>1. Book(r, run[r])'
    BY <1>1, <1>13 DEF Leave, Book
  <2> QED BY <1>1, <1>13, <2>1, BooksKept DEF Leave, TypeOK
<1>14. CASE List(r)
  <2>1. CASE Rest(r)
    BY <1>3, <1>14, <2>1, BooksKept DEF List
  <2>2. ASSUME NEW x, run' = [run EXCEPT ![r] = [run[r] EXCEPT !.pc = "prune", !.prune = x]] PROVE Books'
    <3>1. run'[r].pc = "prune" /\ \A q \in Run \ {r} : run'[q] = run[q]
      BY <1>0, <2>2 DEF TypeOK, Progress
    <3>2. Book(r, run[r])'
      BY <3>1 DEF Book
    <3> QED BY <1>14, <3>1, <3>2, BooksKept DEF List
  <2> QED BY <1>14, <2>1, <2>2 DEF List
<1>15. CASE Prune(r)
  <2>1. told' = told /\ \A q \in Run : row'[q] \in {row[q], "absent"}
    BY <1>15 DEF Prune, TypeOK
  <2>2. CASE Rest(r)
    BY <1>3, <2>1, <2>2, BooksKept
  <2>3. ASSUME NEW x, run' = [run EXCEPT ![r].prune = x] PROVE Books'
    <3>1. run'[r].pc = "prune" /\ \A q \in Run \ {r} : run'[q] = run[q]
      BY <1>0, <1>15, <2>3 DEF Prune, At, TypeOK, Progress
    <3>2. Book(r, run[r])'
      BY <3>1 DEF Book
    <3> QED BY <2>1, <3>1, <3>2, BooksKept
  <2> QED BY <1>15, <2>2, <2>3 DEF Prune
<1>16. CASE Cancel(r)
  <2>1. told'[r] # Never /\ run' = run /\ row' = row /\ \A q \in Run \ {r} : told'[q] = told[q]
    BY <1>0, <1>16 DEF Cancel, TypeOK, Progress, Never
  <2>2. Book(r, run[r])'
    BY <2>1, BookStays
  <2> QED BY <2>1, <2>2, BooksKept
<1> QED
  BY <1>4, <1>5, <1>6, <1>7, <1>8, <1>9, <1>10, <1>11, <1>12, <1>13, <1>14, <1>15, <1>16 DEF Works

LEMMA BooksStep == TypeOK /\ Books /\ [Next]_vars => Books'
<1> SUFFICES ASSUME TypeOK, Books, [Next]_vars PROVE Books'
  OBVIOUS
<1>1. CASE Crash
  <2> SUFFICES ASSUME NEW q \in Run PROVE Book(q, run[q])'
    BY DEF Books
  <2>1. row' = row
    BY <1>1 DEF Crash
  <2>2. CASE q \in Active
    <3>1. run'[q].pc = "dead"
      BY <1>1, <2>2 DEF Crash, Gone, Idle
    <3> QED BY <3>1 DEF Book, Unwritten, Early, Stepping, Moving, Ending
  <2>3. CASE q \notin Active
    <3>1. run'[q] = run[q] /\ run[q].pc \notin Ending
      BY <1>1, <2>3 DEF Crash, Active, Over, Ending
    <3> QED BY <2>1, <3>1, BookStays
  <2> QED BY <2>2, <2>3
<1>2. CASE \/ \E c \in Clearer \cup {Deleter} : ClearList(c) \/ ClearRows(c) \/ ClearLogs(c)
           \/ Delete \/ Elsewhere \/ UNCHANGED vars
  <2>1. run' = run /\ told' = told
    BY <1>2 DEF ClearList, ClearRows, ClearLogs, Delete, Elsewhere, vars
  <2>2. \A q \in Run : row'[q] \in {row[q], "absent"}
    BY <1>2 DEF ClearList, ClearRows, ClearLogs, Delete, Elsewhere, vars
  <2>3. \A q \in Run : Book(q, run[q])'
    BY <2>1, <2>2, BookStays DEF Final
  <2> QED BY <2>3 DEF Books
<1> QED BY <1>1, <1>2, BookOfRun DEF Next

\* What finish_task_run writes.
LEMMA Tells == TypeOK /\ CancelHolds /\ Books /\ [Next]_vars => RowTold
<1> SUFFICES ASSUME TypeOK, CancelHolds, Books, [Next]_vars, NEW q \in Run,
                    row'[q] # row[q], row'[q] \in Final
             PROVE  /\ row[q] = "running"
                    /\ row'[q] = "success" =>
                         /\ Len(run[q].did) = Len(Plan) /\ told[q] \in {Never, Len(Plan)}
                         /\ \A s \in Step : run[q].did[s] = "ok" \/ (run[q].did[s] = "failed" /\ Plan[s].goOn)
                    /\ row'[q] = "cancelled" => told[q] # Never
                    /\ row'[q] = "failed" =>
                         \/ run[q].did = <<>>
                         \/ run[q].did[Len(run[q].did)] = "failed" /\ ~Plan[Len(run[q].did)].goOn
  BY DEF RowTold
<1>1. row \in [Run -> Final \cup {"absent", "running"}]
  BY DEF TypeOK
<1>2. ~\E c \in Clearer \cup {Deleter} : ClearList(c) \/ ClearRows(c) \/ ClearLogs(c)
  BY <1>1 DEF ClearList, ClearRows, ClearLogs, Final
<1>3. ~(Delete \/ Elsewhere \/ Crash \/ UNCHANGED vars)
  BY <1>1 DEF Delete, Elsewhere, Crash, vars, Final
<1>4. PICK r \in Run : Prepare(r) \/ Works(r) \/ Cancel(r)
  BY <1>2, <1>3 DEF Next
<1>5. ~Prune(r) /\ ~Insert(r)
  BY <1>1 DEF Prune, Insert, Final
<1>6. FinishRow(r)
  BY <1>4, <1>5 DEF Works, Prepare, CreateLog, Register, Connect, NextStep, Command, OpenFile, Copy,
     Backup, Swap, Restore, Tidy, FinishLog, Leave, List, Cancel, Quiet
<1>7. q = r /\ run[q].pc = "finish" /\ row'[q] = run[q].out
  BY <1>1, <1>6 DEF FinishRow, At
<1>8. row[q] \notin Final /\ Truth(q, run[q])
  BY <1>7 DEF Books, Book, Unwritten, Ending
<1>9. row[q] = "running"
  BY <1>1, <1>6, <1>7, <1>8 DEF FinishRow, Final
<1>10. told[q] \in {Never} \cup 0..Len(Plan) /\ (told[q] # Never => run[q].step <= told[q])
  BY DEF TypeOK, CancelHolds
<1>11. run[q].out = "success" => told[q] \in {Never, Len(Plan)}
  BY <1>8, <1>10, Bounds DEF Truth
<1> QED BY <1>7, <1>8, <1>9, <1>11 DEF Truth, Passed, Step

-----------------------------------------------------------------------------
(* Logs, rows and the registry. *)

Going == Moving \cup {"connect", "next", "exec", "log"}
Writing == Going \cup {"logged", "inserted"}
After == {"leave", "list", "prune", "over", "dead"}

\* What a run has left in the registry, in its row and in its log.
Record(x) ==
  /\ run[x].pc \in Writing => log[x] = "open"
  /\ run[x].pc = "finish" => log[x] = "whole"
  /\ row[x] \in Final => log[x] = "whole" /\ run[x].pc \in After
  /\ run[x].pc \in {"none", "read", "logged"} => row[x] = "absent"
  /\ run[x].pc \in After \ {"dead"} => row[x] # "running" \/ x \in spent.lost
  /\ x \in registry => run[x].pc \in Going \cup {"finish", "leave"}
  /\ run[x].pc # "prune" => run[x].prune = {}

\* A run whose row is finished or gone for good: what is removed is of such runs.
Past(x) == run[x].pc \in After /\ row[x] # "running"

Records == \A x \in Run : Record(x)
Collected ==
  /\ \A q \in Run : \A x \in run[q].prune : Past(x)
  /\ \A c \in Clearer \cup {Deleter} : \A x \in sweep[c].logs :
       Past(x) /\ (sweep[c].pc = "logs" => row[x] = "absent")

LEMMA Goes ==
  ASSUME TypeOK, NEW r \in Run
  PROVE  /\ \A p : Goto(r, p) => run'[r].pc = p /\ run'[r].prune = run[r].prune
         /\ \A o : Ends(r, o) => run'[r].pc = "log" /\ run'[r].prune = run[r].prune
         /\ \A b : Swaps(r, b) => run'[r].pc = "swap" /\ run'[r].prune = run[r].prune
         /\ \A how : StepEnds(r, how) => run'[r].pc \in {"next", "log"} /\ run'[r].prune = run[r].prune
         /\ Rest(r) => run'[r].pc = "over" /\ run'[r].prune = {}
<1>1. run[r] \in Progress /\ run \in [Run -> Progress]
  BY DEF TypeOK
<1>2. \A p : Goto(r, p) => run'[r].pc = p /\ run'[r].prune = run[r].prune
  BY <1>1 DEF Goto, Progress
<1>3. \A o : Ends(r, o) => run'[r].pc = "log" /\ run'[r].prune = run[r].prune
  BY <1>1 DEF Ends, Progress
<1>4. \A b : Swaps(r, b) => run'[r].pc = "swap" /\ run'[r].prune = run[r].prune
  BY <1>1 DEF Swaps, Progress
<1>5. ASSUME NEW how, NEW p, NEW o, Ended(r, how, p, o)
      PROVE  run'[r].pc = p /\ run'[r].prune = run[r].prune
  BY <1>1, <1>5 DEF Ended, Progress
<1>6. Rest(r) => run'[r].pc = "over" /\ run'[r].prune = {}
  BY <1>1 DEF Rest, Gone, Idle
<1> QED BY <1>2, <1>3, <1>4, <1>5, <1>6 DEF StepEnds

\* Connecting, the steps and the files in them.
LEMMA OnItsWay ==
  ASSUME TypeOK, NEW r \in Run,
         \/ Connect(r) \/ NextStep(r) \/ Command(r)
         \/ OpenFile(r) \/ Copy(r) \/ Backup(r) \/ Swap(r) \/ Restore(r) \/ Tidy(r)
  PROVE  /\ run[r].pc \in Going /\ run'[r].pc \in Going /\ run'[r].prune = run[r].prune
         /\ \A q \in Run \ {r} : run'[q] = run[q]
         /\ Quiet
<1>1. run[r].pc \in Going /\ Quiet
  BY DEF Connect, NextStep, Command, OpenFile, Copy, Backup, Swap, Restore, Tidy, At, Going, Moving, Quiet
<1>2. CASE NextStep(r)
  <2>1. run[r] \in Progress /\ run \in [Run -> Progress]
    BY DEF TypeOK
  <2> DEFINE s == run[r].step + 1
             begun == [run[r] EXCEPT !.step = s, !.had = FALSE,
                                     !.pc = IF s \in Transfers THEN "open" ELSE "exec"]
  <2>2. Ends(r, "success") \/ Ends(r, "cancelled") \/ run' = [run EXCEPT ![r] = begun]
    BY <1>2 DEF NextStep
  <2>3. CASE Ends(r, "success") \/ Ends(r, "cancelled")
    BY <1>1, <2>3, Goes, Steps DEF Leads, Going, Moving
  <2>4. CASE run' = [run EXCEPT ![r] = begun]
    <3>1. begun.pc \in Going /\ begun.prune = run[r].prune
      BY <2>1 DEF Progress, Going, Moving
    <3> QED BY <1>1, <2>1, <2>4, <3>1
  <2> QED BY <2>2, <2>3, <2>4
<1>3. CASE ~NextStep(r)
  <2>1. \/ \E p \in Going : Goto(r, p)
        \/ \E o : Ends(r, o)
        \/ \E b : Swaps(r, b)
        \/ \E how : StepEnds(r, how)
    BY <1>3 DEF Connect, Command, OpenFile, Copy, Backup, Swap, Restore, Tidy, Going, Moving
  <2> QED BY <1>1, <2>1, Goes, Steps DEF Leads, Going, Moving
<1> QED BY <1>2, <1>3

\* A run that only r's step is about, and what the step may do to others: nothing.
LEMMA Alike ==
  ASSUME TypeOK, Records, Collected, NEW r \in Run, Record(r)',
         \A q \in Run \ {r} : run'[q] = run[q] /\ row'[q] = row[q] /\ log'[q] = log[q],
         registry' \subseteq registry \cup {r}, sweep' = sweep,
         spent.lost \subseteq spent'.lost,
         run'[r].prune \subseteq run[r].prune,
         Past(r) => Past(r)' /\ row'[r] = row[r]
  PROVE  Records' /\ Collected'
<1>1. ASSUME NEW q \in Run \ {r} PROVE Record(q)'
  <2>1. Record(q)
    BY DEF Records
  <2> QED BY <2>1 DEF Record
<1>2. ASSUME NEW x, Past(x), x \in Run PROVE Past(x)' /\ row'[x] = row[x]
  BY <1>2 DEF Past
<1>3. \A q \in Run : \A x \in run'[q].prune : x \in Run /\ x \in run[q].prune
  BY DEF TypeOK, Progress
<1>4. \A c \in Clearer \cup {Deleter} : \A x \in sweep'[c].logs : x \in Run /\ x \in sweep[c].logs
  BY DEF TypeOK
<1>5. Records'
  BY <1>1 DEF Records
<1>6. ASSUME NEW c \in Clearer \cup {Deleter}, NEW x \in sweep'[c].logs
      PROVE  Past(x)' /\ (sweep'[c].pc = "logs" => row'[x] = "absent")
  <2>1. x \in Run /\ Past(x) /\ (sweep[c].pc = "logs" => row[x] = "absent")
    BY <1>4 DEF Collected
  <2> QED BY <1>2, <2>1
<1>7. ASSUME NEW q \in Run, NEW x \in run'[q].prune PROVE Past(x)'
  <2>1. x \in Run /\ Past(x)
    BY <1>3 DEF Collected
  <2> QED BY <1>2, <2>1
<1> QED BY <1>5, <1>6, <1>7 DEF Collected

LEMMA RecordsOf ==
  ASSUME TypeOK, Records, Collected, NEW r \in Run, Prepare(r) \/ Works(r) \/ Cancel(r)
  PROVE  Records' /\ Collected'
<1> USE DEF Going, Moving, Writing, After
<1>0. /\ run[r] \in Progress /\ run \in [Run -> Progress] /\ Record(r)
      /\ row \in [Run -> Final \cup {"absent", "running"}] /\ log \in [Run -> {"none", "open", "whole"}]
      /\ spent \in Spendings /\ run[r].prune \subseteq Run
  BY Bounds DEF TypeOK, Records, Spendings, Progress
<1>1. ASSUME NEW p, Goto(r, p)
      PROVE  run'[r].pc = p /\ run'[r].prune = run[r].prune /\ \A q \in Run \ {r} : run'[q] = run[q]
  BY <1>1, Goes, Steps DEF Leads
<1>2. ASSUME Rest(r)
      PROVE  run'[r].pc = "over" /\ run'[r].prune = {} /\ \A q \in Run \ {r} : run'[q] = run[q]
  BY <1>2, Goes, Steps
<1>3. Spends(r) => spent.lost \subseteq spent'.lost /\ (Loses(r) => r \in spent'.lost)
  BY Spent
<1>4. CASE Prepare(r)
  <2>1. spent'.lost = spent.lost /\ run[r].pc = "none" /\ Goto(r, "read")
    BY <1>0, <1>4 DEF Prepare, Spendings, At
  <2>2. Record(r)' /\ ~Past(r)
    BY <1>0, <1>1, <1>4, <2>1 DEF Prepare, Record, Past, Final
  <2> QED BY <1>1, <1>4, <2>1, <2>2, Alike DEF Prepare
<1>5. CASE CreateLog(r)
  <2>1. run[r].pc = "read" /\ Goto(r, "logged")
    BY <1>5 DEF CreateLog, At
  <2>2. Record(r)' /\ ~Past(r)
    BY <1>0, <1>1, <1>5, <2>1 DEF CreateLog, Record, Past, Final
  <2> QED BY <1>0, <1>1, <1>5, <2>1, <2>2, Alike DEF CreateLog
<1>6. CASE Insert(r)
  <2>1. run[r].pc = "logged" /\ ~Past(r) /\ run[r].prune = {} /\ row[r] = "absent"
    BY <1>0, <1>6 DEF Insert, At, Past, Record
  <2>2. Goto(r, "inserted") /\ row' = [row EXCEPT ![r] = "running"] /\ spent' = spent => Record(r)'
    BY <1>0, <1>1, <1>6, <2>1 DEF Insert, Record, Final
  <2>3. Rest(r) /\ Fault /\ row' = row => Record(r)'
    BY <1>0, <1>2, <1>3, <1>6, <2>1 DEF Insert, Spends, Record, Final
  <2> QED BY <1>0, <1>1, <1>2, <1>3, <1>6, <2>1, <2>2, <2>3, Alike DEF Insert, Spends
<1>7. CASE Register(r)
  <2>1. run[r].pc = "inserted" /\ Goto(r, "connect")
    BY <1>7 DEF Register, At
  <2>2. Record(r)' /\ ~Past(r)
    BY <1>0, <1>1, <1>7, <2>1 DEF Register, Record, Past, Final
  <2> QED BY <1>0, <1>1, <1>7, <2>1, <2>2, Alike DEF Register
<1>8. CASE \/ Connect(r) \/ NextStep(r) \/ Command(r)
           \/ OpenFile(r) \/ Copy(r) \/ Backup(r) \/ Swap(r) \/ Restore(r) \/ Tidy(r)
  <2>1. /\ run[r].pc \in Going /\ run'[r].pc \in Going /\ run'[r].prune = run[r].prune
        /\ \A q \in Run \ {r} : run'[q] = run[q]
        /\ Quiet
    BY <1>8, OnItsWay
  <2>2. Record(r)' /\ ~Past(r)
    BY <1>0, <2>1 DEF Record, Past, Quiet, Final
  <2> QED BY <2>1, <2>2, Alike DEF Quiet
<1>9. CASE FinishLog(r)
  <2>1. run[r].pc = "log" /\ Goto(r, "finish")
    BY <1>9 DEF FinishLog, At
  <2>2. Record(r)' /\ ~Past(r)
    BY <1>0, <1>1, <1>9, <2>1 DEF FinishLog, Record, Past, Final
  <2> QED BY <1>0, <1>1, <1>9, <2>1, <2>2, Alike DEF FinishLog
<1>10. CASE FinishRow(r)
  <2>1. run[r].pc = "finish" /\ Goto(r, "leave") /\ ~Past(r) /\ run[r].out \in Final /\ log[r] = "whole"
    BY <1>0, <1>10 DEF FinishRow, At, Past, Progress, Record
  <2>2. row'[r] # "running" \/ r \in spent'.lost
    BY <1>0, <1>3, <1>10, <2>1 DEF FinishRow, Spends, Final
  <2>3. Record(r)'
    BY <1>0, <1>1, <1>10, <2>1, <2>2 DEF FinishRow, Record, Final
  <2> QED BY <1>0, <1>1, <1>3, <1>10, <2>1, <2>3, Alike DEF FinishRow, Spends
<1>11. CASE Leave(r)
  <2>1. run[r].pc = "leave" /\ Goto(r, "list")
    BY <1>11 DEF Leave, At
  <2>2. Record(r)' /\ (Past(r) => Past(r)')
    BY <1>0, <1>1, <1>11, <2>1 DEF Leave, Record, Past, Final
  <2> QED BY <1>0, <1>1, <1>11, <2>1, <2>2, Alike DEF Leave
<1>12. CASE Cancel(r)
  <2>1. Record(r)' /\ (Past(r) => Past(r)')
    BY <1>0, <1>12 DEF Cancel, Record, Past
  <2> QED BY <1>12, <2>1, Alike DEF Cancel
<1>13. CASE List(r)
  <2> DEFINE Old(old) == {q \in Finished : q <= old \/ Newer(q) >= MaxRuns}
  <2>0. /\ row' = row /\ log' = log /\ registry' = registry /\ sweep' = sweep /\ file' = file
        /\ \/ Spends(r) /\ Rest(r)
           \/ \E S \in SUBSET Finished :
                spent' = spent /\ run' = [run EXCEPT ![r] = [run[r] EXCEPT !.pc = "prune", !.prune = S]]
    <3>1. \A old : Old(old) \in SUBSET Finished
      OBVIOUS
    <3>2. \/ Spends(r) /\ Rest(r)
          \/ \E old : spent' = spent /\ run' = [run EXCEPT ![r] = [run[r] EXCEPT !.pc = "prune", !.prune = Old(old)]]
      BY <1>13, Zenon DEF List, Spends
    <3>3. UNCHANGED <<task, told, registry, row, log, file, sweep>>
      BY <1>13, Zenon DEF List
    <3> HIDE DEF Old
    <3>4. row' = row /\ log' = log /\ registry' = registry /\ sweep' = sweep /\ file' = file
      BY <3>3
    <3> QED BY <3>1, <3>2, <3>4, Zenon
  <2>1. run[r].pc = "list"
    BY <1>13, Zenon DEF List, At
  <2>2. CASE Rest(r) /\ Spends(r)
    <3>1. Record(r)' /\ (Past(r) => Past(r)')
      BY <1>0, <1>2, <1>3, <2>0, <2>1, <2>2 DEF Record, Past
    <3> QED BY <1>0, <1>2, <1>3, <2>0, <2>2, <3>1, Alike
  <2>3. ASSUME NEW S \in SUBSET Finished, spent' = spent,
               run' = [run EXCEPT ![r] = [run[r] EXCEPT !.pc = "prune", !.prune = S]]
        PROVE  Records' /\ Collected'
    <3>1. run'[r].pc = "prune" /\ run'[r].prune = S /\ \A q \in Run \ {r} : run'[q] = run[q]
      BY <1>0, <2>3 DEF Progress
    <3>2. /\ row' = row /\ log' = log /\ registry' = registry /\ sweep' = sweep
      BY <2>0, Zenon
    <3>3. \A q \in Run \ {r} : Record(q)'
      BY <2>3, <3>1, <3>2 DEF Records, Record
    <3>4. Record(r)'
      BY <1>0, <2>1, <2>3, <3>1, <3>2 DEF Record
    <3>5. \A x \in Run : Past(x) => Past(x)'
      BY <3>1, <3>2 DEF Past
    <3>6. \A x \in S : x \in Run /\ Past(x)
      BY DEF Finished, Records, Record, Past, Final
    <3>7. \A q \in Run : \A x \in run'[q].prune : Past(x)'
      <4> SUFFICES ASSUME NEW q \in Run, NEW x \in run'[q].prune PROVE Past(x)'
        OBVIOUS
      <4>1. x \in Run
        BY <1>0, <3>1, <3>6 DEF Progress
      <4>2. Past(x)
        BY <3>1, <3>6 DEF Collected
      <4> QED BY <3>5, <4>1, <4>2
    <3>8. \A c \in Clearer \cup {Deleter} : \A x \in sweep[c].logs : x \in Run
      BY DEF TypeOK
    <3> QED BY <3>2, <3>3, <3>4, <3>5, <3>7, <3>8 DEF Records, Collected
  <2> QED BY <2>0, <2>2, <2>3, Zenon
<1>14. CASE Prune(r)
  <2>1. run[r].pc = "prune" /\ registry' = registry /\ sweep' = sweep
    BY <1>14 DEF Prune, At
  <2>2. CASE Rest(r) /\ row' = row /\ log' = log /\ (spent' = spent \/ Spends(r))
    <3>1. Record(r)' /\ (Past(r) => Past(r)')
      BY <1>0, <1>2, <1>3, <2>1, <2>2 DEF Record, Past
    <3> QED BY <1>0, <1>2, <1>3, <2>1, <2>2, <3>1, Alike
  <2>3. ASSUME NEW q \in run[r].prune, spent' = spent,
               row' = [row EXCEPT ![q] = "absent"], log' = [log EXCEPT ![q] = "none"],
               run' = [run EXCEPT ![r].prune = @ \ {q}]
        PROVE  Records' /\ Collected'
    <3>1. q \in Run /\ Past(q)
      BY <1>0 DEF Collected
    <3>2. /\ run'[r].pc = "prune" /\ run'[r].prune = run[r].prune \ {q}
          /\ \A p \in Run \ {r} : run'[p] = run[p]
      BY <1>0, <2>1, <2>3 DEF Progress
    <3>3. \A x \in Run : run'[x].pc = run[x].pc /\ run'[x].prune \subseteq run[x].prune
      BY <2>1, <3>2
    <3>4. /\ row'[q] = "absent" /\ log'[q] = "none"
          /\ \A x \in Run \ {q} : row'[x] = row[x] /\ log'[x] = log[x]
      BY <1>0, <2>3, <3>1
    <3>5. ASSUME NEW x \in Run PROVE Record(x)'
      <4>1. Record(x)
        BY DEF Records
      <4>2. CASE x = q
        BY <2>1, <2>3, <3>1, <3>3, <3>4, <4>1, <4>2 DEF Record, Past, Final
      <4>3. CASE x # q
        BY <2>1, <2>3, <3>3, <3>4, <4>1, <4>3 DEF Record
      <4> QED BY <4>2, <4>3
    <3>6. \A x \in Run : Past(x) => Past(x)' /\ (row[x] = "absent" => row'[x] = "absent")
      BY <3>3, <3>4 DEF Past
    <3>7. \A c \in Clearer \cup {Deleter} : \A x \in sweep[c].logs : x \in Run
      BY DEF TypeOK
    <3>8. \A p \in Run : run[p].prune \subseteq Run
      BY <1>0 DEF Progress
    <3> QED BY <2>1, <3>3, <3>5, <3>6, <3>7, <3>8 DEF Records, Collected
  <2>4. \/ Rest(r) /\ row' = row /\ log' = log /\ (spent' = spent \/ Spends(r))
        \/ \E q \in run[r].prune :
             /\ row' = [row EXCEPT ![q] = "absent"] /\ log' = [log EXCEPT ![q] = "none"]
             /\ run' = [run EXCEPT ![r].prune = @ \ {q}] /\ spent' = spent
    BY <1>14 DEF Prune, Spends
  <2> QED BY <2>2, <2>3, <2>4
<1> QED BY <1>4, <1>5, <1>6, <1>7, <1>8, <1>9, <1>10, <1>11, <1>12, <1>13, <1>14 DEF Works

LEMMA RecordsBeside ==
  ASSUME TypeOK, Records, Collected,
         \/ \E c \in Clearer \cup {Deleter} : ClearList(c) \/ ClearRows(c) \/ ClearLogs(c)
         \/ Delete \/ Elsewhere \/ Crash \/ UNCHANGED vars
  PROVE  Records' /\ Collected'
<1> USE DEF Going, Moving, Writing, After
<1> DEFINE Sweeper == Clearer \cup {Deleter}
<1>0. /\ run \in [Run -> Progress] /\ spent \in Spendings
      /\ row \in [Run -> Final \cup {"absent", "running"}] /\ log \in [Run -> {"none", "open", "whole"}]
      /\ sweep \in [Sweeper -> [pc : {"idle", "rows", "logs"}, logs : SUBSET Run]]
  BY DEF TypeOK
<1>a. \A q \in Run : run[q].prune \subseteq Run
  BY <1>0 DEF Progress
<1>b. \A c \in Sweeper : sweep[c].logs \subseteq Run
  BY <1>0
\* Rows go, and with them the logs of runs that are past.
<1>1. ASSUME run' = run, registry' = registry, spent'.lost = spent.lost,
             \A x \in Run : row'[x] \in {row[x], "absent"},
             \A x \in Run : log'[x] = log[x] \/ (Past(x) /\ row'[x] = "absent")
      PROVE  Records' /\ \A x \in Run : Past(x) => Past(x)' /\ (row[x] = "absent" => row'[x] = "absent")
  BY <1>0, <1>1 DEF Records, Record, Past, Final
<1>2. ASSUME run' = run, \A x \in Run : Past(x) => Past(x)',
             NEW c \in Sweeper, NEW s \in [pc : {"idle", "rows", "logs"}, logs : SUBSET Run],
             sweep' = [sweep EXCEPT ![c] = s],
             \A x \in Run : Past(x) /\ row[x] = "absent" => row'[x] = "absent",
             \A x \in s.logs : Past(x)' /\ (s.pc = "logs" => row'[x] = "absent")
      PROVE  Collected'
  <2>1. sweep'[c] = s /\ \A d \in Sweeper \ {c} : sweep'[d] = sweep[d]
    BY <1>0, <1>2
  <2>2. ASSUME NEW d \in Sweeper, NEW x \in sweep'[d].logs
        PROVE  Past(x)' /\ (sweep'[d].pc = "logs" => row'[x] = "absent")
    BY <1>b, <1>2, <2>1, <2>2 DEF Collected
  <2>3. ASSUME NEW q \in Run, NEW x \in run'[q].prune PROVE Past(x)'
    BY <1>a, <1>2, <2>3 DEF Collected
  <2> QED BY <2>2, <2>3 DEF Collected
<1>3. ASSUME NEW c \in Sweeper, ClearList(c) PROVE Records' /\ Collected'
  <2>1. [pc |-> "rows", logs |-> Finished] \in [pc : {"idle", "rows", "logs"}, logs : SUBSET Run]
    BY DEF Finished
  <2>2. \A x \in Finished : Past(x)
    BY DEF Finished, Records, Record, Past, Final
  <2>3. Records' /\ \A x \in Run : Past(x) <=> Past(x)'
    BY <1>3 DEF ClearList, Records, Record, Past
  <2> QED BY <1>2, <1>3, <2>1, <2>2, <2>3 DEF ClearList, Finished
<1>4. ASSUME NEW c \in Sweeper, ClearRows(c) PROVE Records' /\ Collected'
  <2> DEFINE s == [sweep[c] EXCEPT !.pc = "logs"]
  <2>1. s \in [pc : {"idle", "rows", "logs"}, logs : SUBSET Run] /\ s.logs = sweep[c].logs
    BY <1>0
  <2>2. /\ run' = run /\ registry' = registry /\ spent' = spent /\ log' = log
        /\ \A x \in Run : row'[x] = IF row[x] \in Final THEN "absent" ELSE row[x]
        /\ sweep' = [sweep EXCEPT ![c] = s]
    BY <1>0, <1>4 DEF ClearRows, Finished
  <2>3. Records' /\ \A x \in Run : Past(x) => Past(x)' /\ (row[x] = "absent" => row'[x] = "absent")
    BY <1>1, <2>2
  <2>4. \A x \in s.logs : x \in Run /\ Past(x) /\ row'[x] = "absent"
    BY <1>0, <1>b, <2>1, <2>2 DEF Collected, Past
  <2> QED BY <1>2, <2>1, <2>2, <2>3, <2>4
<1>5. ASSUME NEW c \in Sweeper, ClearLogs(c) PROVE Records' /\ Collected'
  <2> DEFINE s == [pc |-> "idle", logs |-> {}]
  <2>1. /\ run' = run /\ registry' = registry /\ spent' = spent /\ row' = row
        /\ \A x \in Run : log'[x] = IF x \in sweep[c].logs THEN "none" ELSE log[x]
        /\ sweep' = [sweep EXCEPT ![c] = s] /\ sweep[c].pc = "logs"
    BY <1>5 DEF ClearLogs
  <2>2. \A x \in sweep[c].logs : Past(x) /\ row[x] = "absent"
    BY <2>1 DEF Collected
  <2>3. Records' /\ \A x \in Run : Past(x) => Past(x)'
    BY <1>1, <2>1, <2>2
  <2>4. s \in [pc : {"idle", "rows", "logs"}, logs : SUBSET Run] /\ s.pc = "idle" /\ s.logs = {}
    OBVIOUS
  <2> HIDE DEF s
  <2> QED BY <1>2, <2>1, <2>3, <2>4
<1>6. CASE Delete
  <2> DEFINE s == [pc |-> "logs", logs |-> {x \in Run : row[x] # "absent"}]
  <2>1. /\ run' = run /\ registry' = registry /\ log' = log
        /\ \A x \in Run : row'[x] = "absent" /\ row[x] # "running"
        /\ sweep' = [sweep EXCEPT ![Deleter] = s]
    BY <1>6 DEF Delete
  <2>2. spent'.lost = spent.lost
    BY <1>0, <1>6 DEF Delete, Spendings
  <2>3. Records' /\ \A x \in Run : Past(x) => Past(x)'
    BY <1>1, <2>1, <2>2
  <2>4. \A x \in s.logs : x \in Run /\ Past(x)
    BY <1>0, <2>1 DEF Records, Record, Past
  <2> QED BY <1>2, <2>1, <2>3, <2>4
<1>7. CASE Elsewhere
  <2>1. /\ run' = run /\ registry' = registry /\ log' = log /\ sweep' = sweep
        /\ \A x \in Run : row'[x] \in {row[x], "absent"}
    BY <1>7 DEF Elsewhere
  <2>2. spent'.lost = spent.lost
    BY <1>0, <1>7 DEF Elsewhere, Spendings
  <2>3. Records' /\ \A x \in Run : Past(x) => Past(x)' /\ (row[x] = "absent" => row'[x] = "absent")
    BY <1>1, <2>1, <2>2
  <2> QED BY <1>a, <1>b, <2>1, <2>3 DEF Collected
<1>8. CASE Crash
  <2>1. /\ row' = row /\ log' = log /\ registry' = {} /\ spent'.lost = spent.lost
        /\ \A x \in Run : run'[x] = IF x \in Active THEN Gone("dead") ELSE run[x]
        /\ \A c \in Sweeper : sweep'[c].logs = {}
    BY <1>0, <1>8 DEF Crash, Spendings
  <2>2. Gone("dead").pc = "dead" /\ Gone("dead").prune = {}
    BY DEF Gone, Idle
  <2>3. ASSUME NEW x \in Run PROVE Record(x)' /\ (Past(x) => Past(x)')
    <3>1. Record(x)
      BY DEF Records
    <3>2. CASE x \in Active
      BY <2>1, <2>2, <3>1, <3>2 DEF Record, Past
    <3>3. CASE x \notin Active
      BY <2>1, <3>1, <3>3 DEF Record, Past
    <3> QED BY <3>2, <3>3
  <2>4. \A q \in Run : run'[q].prune \subseteq run[q].prune
    BY <2>1, <2>2
  <2> QED BY <1>a, <2>1, <2>3, <2>4 DEF Records, Collected
<1>9. CASE UNCHANGED vars
  BY <1>9 DEF vars, Records, Record, Collected, Past
<1> QED BY <1>3, <1>4, <1>5, <1>6, <1>7, <1>8, <1>9

LEMMA RecordsStep == TypeOK /\ Records /\ Collected /\ [Next]_vars => Records' /\ Collected'
BY RecordsOf, RecordsBeside DEF Next

LEMMA InitRecords == Init => Records /\ Collected
BY DEF Init, Idle, Records, Record, Collected, Going, Moving, Writing, After, Final

-----------------------------------------------------------------------------
(* How many finished runs are kept. *)

\* The finite sets 0..k, ordered by inclusion, have least elements: so have sets of numbers.
LEMMA Least ==
  ASSUME NEW T, T \subseteq Nat, T # {}
  PROVE  \E m \in T : \A k \in T : m <= k
<1> DEFINE I == {0..k : k \in T}
           R == StrictSubsetOrdering(Nat)
<1>1. I \subseteq FiniteSubsetsOf(Nat) /\ I # {}
  <2>1. ASSUME NEW k \in T PROVE 0..k \in FiniteSubsetsOf(Nat)
    <3>1. k \in Nat /\ 0 \in Int
      OBVIOUS
    <3>2. IsFiniteSet(0..k)
      BY <3>1, FS_Interval
    <3> QED BY <3>1, <3>2 DEF FiniteSubsetsOf
  <2> QED BY <2>1
<1>2. PICK x \in I : \A y \in I : ~(<<y, x>> \in R)
  <2> HIDE DEF R, I
  <2>1. IsWellFoundedOn(R, FiniteSubsetsOf(Nat))
    BY FS_StrictSubsetOrderingWellFounded DEF R
  <2> QED BY <1>1, <2>1, WFMin
<1>3. PICK m \in T : x = 0..m
  OBVIOUS
<1>4. ASSUME NEW k \in T, k < m PROVE FALSE
  <2>1. 0..k \subseteq 0..m /\ 0..k # 0..m
    BY <1>4
  <2>2. <<0..k, 0..m>> \in R
    BY <2>1 DEF StrictSubsetOrdering
  <2> QED BY <1>2, <1>3, <2>2
<1> QED BY <1>4

\* Of a set there are at most n numbers with fewer than n greater ones.
LEMMA Newest ==
  ASSUME NEW S, IsFiniteSet(S), S \subseteq Nat, NEW n \in Nat, NEW T \in SUBSET S,
         \A q \in T : Cardinality({p \in S : p > q}) < n
  PROVE  Cardinality(T) <= n
<1>1. IsFiniteSet(T)
  BY FS_Subset
<1>2. CASE T = {}
  BY <1>2, FS_EmptySet
<1>3. CASE T # {}
  <2>1. PICK m \in T : \A k \in T : m <= k
    BY <1>3, Least
  <2> DEFINE above == {p \in S : p > m}
  <2>2. IsFiniteSet(above) /\ Cardinality(above) \in Nat
    BY FS_Subset, FS_CardinalityType
  <2>3. T \ {m} \in SUBSET above
    BY <2>1
  <2>4. Cardinality(T \ {m}) <= Cardinality(above) /\ Cardinality(T \ {m}) = Cardinality(T) - 1
    BY <1>1, <2>2, <2>3, FS_Subset, FS_RemoveElement
  <2>5. Cardinality(above) < n /\ Cardinality(T) \in Nat
    BY <1>1, FS_CardinalityType
  <2> QED BY <2>2, <2>4, <2>5
<1> QED BY <1>2, <1>3

Listing == {r \in Run : run[r].pc \in {"leave", "list"}}

\* What is left of the finished runs if those of X were to miss their cleanup.
Doomed(X) == UNION {run[q].prune : q \in Run \ X}
Left(X) == Finished \ (Doomed(X) \cup Unswept \cup X)

\* Whichever runs are still to miss their cleanup, and all that have not listed yet among
\* them, what is left is within the limit: the last of the others to list listed it all.
Trimmed == \A X \in SUBSET Run : Listing \subseteq X => Cardinality(Left(X)) <= MaxRuns

LEMMA FewFinished == IsFiniteSet(Finished) /\ \A S \in SUBSET Finished : IsFiniteSet(S)
<1>1. Runs \in Int /\ 1 \in Int
  BY Bounds
<1>2. IsFiniteSet(Run)
  BY <1>1, FS_Interval DEF Run
<1>3. \A S \in SUBSET Run : IsFiniteSet(S)
  BY <1>2, FS_Subset
<1> QED BY <1>3 DEF Finished

LEMMA TrimmedKept ==
  ASSUME Trimmed, NEW X \in SUBSET Run, Listing \subseteq X, NEW T, T \subseteq Left(X)
  PROVE  Cardinality(T) <= MaxRuns
<1>1. IsFiniteSet(Left(X)) /\ Cardinality(Left(X)) <= MaxRuns
  BY FewFinished DEF Trimmed, Left
<1>2. /\ IsFiniteSet(T) /\ Cardinality(T) <= Cardinality(Left(X)) /\ Cardinality(Left(X)) \in Nat
      /\ MaxRuns \in Nat
  BY <1>1, FS_Subset, FS_CardinalityType, BoundsAssumption
<1>3. Cardinality(T) \in Nat
  BY <1>2, FS_CardinalityType
<1> QED BY <1>1, <1>2, <1>3

\* A step that brings no finished run but those of X, and spares none that was to go.
LEMMA TrimmedSame ==
  ASSUME Trimmed, NEW X \in SUBSET Run, Listing \subseteq X, Unswept \subseteq Unswept',
         Finished' \ X \subseteq Finished,
         \A q \in Run \ X : \A x \in Finished' \cap run[q].prune : x \in run'[q].prune
  PROVE  Cardinality(Left(X)') <= MaxRuns
<1>1. Left(X)' \subseteq Left(X)
  BY DEF Left, Doomed
<1> QED BY <1>1, TrimmedKept

\* Runs that miss their cleanup now have been reckoned with.
LEMMA TrimmedMissed ==
  ASSUME Trimmed, NEW X \in SUBSET Run, NEW M \in SUBSET Run, Listing' \subseteq X,
         Unswept \cup M \subseteq Unswept', Finished' \subseteq Finished,
         \A q \in Run \ M : run'[q] = run[q]
  PROVE  Cardinality(Left(X)') <= MaxRuns
<1>1. X \cup M \in SUBSET Run /\ Listing \subseteq X \cup M
  BY DEF Listing
<1>2. Left(X)' \subseteq Left(X \cup M)
  BY DEF Left, Doomed
<1> QED BY <1>1, <1>2, TrimmedKept

\* What listing leaves in the run that does it.
LEMMA Lists ==
  ASSUME NEW r \in Run, run \in [Run -> Progress], NEW S,
         run' = [run EXCEPT ![r] = [run[r] EXCEPT !.pc = "prune", !.prune = S]]
  PROVE  run'[r].pc = "prune" /\ run'[r].prune = S /\ \A q \in Run \ {r} : run'[q] = run[q]
BY DEF Progress

\* The run that lists counts all that have finished.
LEMMA TrimmedList ==
  ASSUME TypeOK, Trimmed, NEW X \in SUBSET Run, Listing' \subseteq X, NEW r \in Run, NEW old \in 0..Runs,
         run' = [run EXCEPT ![r] = [run[r] EXCEPT !.pc = "prune",
                    !.prune = {q \in Finished : q <= old \/ Newer(q) >= MaxRuns}]],
         run[r].pc = "list", row' = row, spent' = spent
  PROVE  Cardinality(Left(X)') <= MaxRuns
<1> DEFINE Old == {q \in Finished : q <= old \/ Newer(q) >= MaxRuns}
<1>1. /\ run'[r].pc = "prune" /\ run'[r].prune = Old /\ \A q \in Run \ {r} : run'[q] = run[q]
  <2>1. run \in [Run -> Progress] /\ run' = [run EXCEPT ![r] = [run[r] EXCEPT !.pc = "prune", !.prune = Old]]
    BY DEF TypeOK
  <2> HIDE DEF Old
  <2> QED BY ONLY <2>1, r \in Run, Lists
<1>2. \A q \in Finished \ Old : Newer(q) < MaxRuns
  <2> SUFFICES ASSUME NEW q \in Finished \ Old PROVE Newer(q) < MaxRuns
    OBVIOUS
  <2>1. {p \in Finished : p > q} \in SUBSET Finished
    OBVIOUS
  <2>2. Newer(q) \in Nat /\ MaxRuns \in Nat
    BY <2>1, FewFinished, FS_CardinalityType, BoundsAssumption DEF Newer
  <2> QED BY <2>2
<1> HIDE DEF Old
<1>3. Finished' = Finished /\ Finished \subseteq Nat
  BY Bounds DEF Finished, Run
<1>4. Unswept \subseteq Unswept'
  BY <1>1 DEF Unswept, At
<1>5. CASE r \in X
  <2>1. Listing \subseteq X
    BY <1>1, <1>5 DEF Listing
  <2> QED BY <1>1, <1>3, <1>4, <1>5, <2>1, TrimmedSame
<1>6. CASE r \notin X
  <2> DEFINE T == Left(X)'
  <2>1. T \in SUBSET Finished /\ T \subseteq Finished \ Old
    BY <1>1, <1>3, <1>6 DEF Left, Doomed
  <2>2. \A q \in T : Cardinality({p \in Finished : p > q}) < MaxRuns
    BY <1>2, <2>1 DEF Newer
  <2>3. MaxRuns \in Nat /\ IsFiniteSet(Finished)
    BY BoundsAssumption, FewFinished
  <2> HIDE DEF T
  <2>4. Cardinality(T) <= MaxRuns
    BY <1>3, <2>1, <2>2, <2>3, Newest
  <2> QED BY <2>4 DEF T
<1> QED BY <1>5, <1>6

LEMMA TrimmedStep == TypeOK /\ Records /\ Trimmed /\ [Next]_vars => Trimmed'
<1> SUFFICES ASSUME TypeOK, Records, Trimmed, [Next]_vars, NEW X \in SUBSET Run, Listing' \subseteq X
             PROVE  Cardinality(Left(X)') <= MaxRuns
  BY DEF Trimmed
<1> DEFINE Fits == Cardinality(Left(X)') <= MaxRuns
<1>0. /\ spent \in Spendings /\ run \in [Run -> Progress]
      /\ row \in [Run -> Final \cup {"absent", "running"}]
  BY DEF TypeOK
<1>1. CASE \/ \E c \in Clearer \cup {Deleter} : ClearList(c) \/ ClearRows(c) \/ ClearLogs(c)
           \/ Delete \/ Elsewhere \/ UNCHANGED vars
  <2>1. run' = run /\ Finished' \subseteq Finished /\ spent'.missed = spent.missed
    BY <1>0, <1>1 DEF ClearList, ClearRows, ClearLogs, Delete, Elsewhere, vars, Finished, Final, Spendings
  <2>2. Listing' = Listing /\ Unswept' = Unswept
    BY <2>1 DEF Listing, Unswept, At
  <2> QED BY <2>1, <2>2, TrimmedSame
<1>2. CASE Crash
  <2>1. /\ Finished' = Finished /\ spent'.missed = spent.missed
        /\ \A q \in Run : run'[q] = IF q \in Active THEN Gone("dead") ELSE run[q]
    BY <1>0, <1>2 DEF Crash, Finished, Spendings
  <2>2. Active \in SUBSET Run /\ Unswept \cup Active \subseteq Unswept'
    BY <2>1 DEF Active, Unswept, At, Gone, Idle
  <2> QED BY <2>1, <2>2, TrimmedMissed
<1>3. ASSUME NEW r \in Run, Prepare(r) \/ Works(r) \/ Cancel(r) PROVE Fits
  <2>0. Record(r) /\ run[r] \in Progress
    BY <1>0 DEF Records
  \* A step after which no less is to be pruned.
  <2>1. ASSUME \A q \in Run \ {r} : run'[q] = run[q],
               run[r].pc \in {"leave", "list"} => run'[r].pc \in {"leave", "list"},
               run[r].pc = "dead" => run'[r].pc = "dead", spent.missed \subseteq spent'.missed,
               Finished' \ X \subseteq Finished,
               \A x \in Finished' \cap run[r].prune : x \in run'[r].prune
        PROVE  Fits
    <3>1. Listing \subseteq X /\ Unswept \subseteq Unswept'
      BY <2>1 DEF Listing, Unswept, At
    <3>2. \A q \in Run \ X : \A x \in Finished' \cap run[q].prune : x \in run'[q].prune
      BY <2>1
    <3> QED BY <2>1, <3>1, <3>2, TrimmedSame
  <2>2. ASSUME NEW p, Goto(r, p)
        PROVE  run'[r].pc = p /\ run'[r].prune = run[r].prune /\ \A q \in Run \ {r} : run'[q] = run[q]
    BY <2>2, Goes, Steps DEF Leads
  <2>3. ASSUME Rest(r)
        PROVE  run'[r].pc = "over" /\ run'[r].prune = {} /\ \A q \in Run \ {r} : run'[q] = run[q]
    BY <2>3, Goes, Steps
  <2>4. ASSUME Spends(r)
        PROVE  spent.missed \subseteq spent'.missed /\ (Fault \/ Loses(r) \/ r \in spent'.missed)
    BY <2>4, Spent
  <2>5. ASSUME Rest(r), row' = row, spent.missed \subseteq spent'.missed, r \in spent'.missed, run[r].pc # "dead"
        PROVE  Fits
    <3>1. Unswept \cup {r} \subseteq Unswept' /\ Finished' = Finished /\ {r} \in SUBSET Run
      BY <2>3, <2>5 DEF Unswept, At, Finished
    <3> QED BY <2>3, <2>5, <3>1, TrimmedMissed
  <2>13. /\ \A n : [spent EXCEPT !.faults = n, !.missed = @ \cup {r}].missed = spent.missed \cup {r}
         /\ [spent EXCEPT !.missed = @ \cup {r}].missed = spent.missed \cup {r}
    BY <1>0 DEF Spendings
  <2>6. CASE Prepare(r) \/ CreateLog(r) \/ Register(r) \/ FinishLog(r) \/ Leave(r)
    <3>1. /\ \E p : Goto(r, p) /\ (run[r].pc \in {"leave", "list"} => p = "list")
          /\ run[r].pc # "dead" /\ row' = row /\ spent'.missed = spent.missed
      BY <1>0, <2>6 DEF Prepare, CreateLog, Register, FinishLog, Leave, At, Spendings
    <3> QED BY <2>1, <2>2, <3>1 DEF Finished
  <2>7. CASE Insert(r)
    <3>1. run[r].pc = "logged" /\ run[r].prune = {}
      BY <2>0, <2>7 DEF Insert, At, Record
    <3>2. Finished' \subseteq Finished /\ spent.missed \subseteq spent'.missed
      BY <1>0, <2>4, <2>7 DEF Insert, Finished, Final, Spends
    <3> QED BY <2>1, <2>2, <2>3, <2>7, <3>1, <3>2 DEF Insert
  <2>8. CASE FinishRow(r)
    <3>1. run[r].pc = "finish" /\ Goto(r, "leave") /\ spent.missed \subseteq spent'.missed
      BY <2>4, <2>8 DEF FinishRow, At, Spends
    <3>2. r \in X
      BY <2>2, <3>1 DEF Listing
    <3>3. Finished' \ X \subseteq Finished
      BY <1>0, <2>8, <3>2 DEF FinishRow, Finished
    <3> QED BY <2>1, <2>2, <3>1, <3>3
  <2>9. CASE List(r)
    <3>1. run[r].pc = "list" /\ row' = row
      BY <2>9, Zenon DEF List, At
    <3>2. CASE Rest(r) /\ (Misses(r) \/ spent' = [spent EXCEPT !.missed = @ \cup {r}])
      <4>1. spent.missed \subseteq spent'.missed /\ r \in spent'.missed
        BY <1>0, <2>13, <3>2 DEF Misses
      <4> QED BY <2>5, <3>1, <3>2, <4>1
    <3>3. ASSUME NEW old \in 0..Runs, spent' = spent,
                 run' = [run EXCEPT ![r] = [run[r] EXCEPT !.pc = "prune",
                            !.prune = {q \in Finished : q <= old \/ Newer(q) >= MaxRuns}]]
          PROVE  Fits
      BY <3>1, <3>3, TrimmedList
    <3> QED BY <2>9, <3>2, <3>3, Zenon DEF List
  <2>10. CASE Prune(r)
    <3>1. run[r].pc = "prune"
      BY <2>10 DEF Prune, At
    <3>2. CASE run[r].prune = {} /\ Rest(r) /\ UNCHANGED <<row, log, spent>>
      BY <2>1, <2>3, <3>1, <3>2 DEF Finished
    <3>3. CASE Misses(r) /\ Rest(r) /\ UNCHANGED <<row, log>>
      <4>1. spent.missed \subseteq spent'.missed /\ r \in spent'.missed
        BY <1>0, <2>13, <3>3 DEF Misses
      <4> QED BY <2>5, <3>1, <3>3, <4>1
    <3>4. ASSUME NEW q \in run[r].prune, row' = [row EXCEPT ![q] = "absent"], UNCHANGED spent,
                 run' = [run EXCEPT ![r].prune = @ \ {q}]
          PROVE  Fits
      <4>1. /\ run'[r].prune = run[r].prune \ {q} /\ run'[r].pc = "prune" /\ q \in Run
            /\ \A p \in Run \ {r} : run'[p] = run[p]
        BY <1>0, <3>1, <3>4 DEF Progress
      <4>2. Finished' \subseteq Finished /\ q \notin Finished'
        BY <1>0, <3>4, <4>1 DEF Finished, Final
      <4> QED BY <2>1, <3>1, <3>4, <4>1, <4>2
    <3>5. \/ run[r].prune = {} /\ Rest(r) /\ UNCHANGED <<row, log, spent>>
          \/ Misses(r) /\ Rest(r) /\ UNCHANGED <<row, log>>
          \/ \E q \in run[r].prune : /\ row' = [row EXCEPT ![q] = "absent"] /\ UNCHANGED spent
                                     /\ run' = [run EXCEPT ![r].prune = @ \ {q}]
      BY <2>10, Zenon DEF Prune
    <3> QED BY <3>2, <3>3, <3>4, <3>5
  <2>11. CASE \/ Connect(r) \/ NextStep(r) \/ Command(r)
             \/ OpenFile(r) \/ Copy(r) \/ Backup(r) \/ Swap(r) \/ Restore(r) \/ Tidy(r)
    <3>1. /\ run[r].pc \in Going /\ run'[r].prune = run[r].prune /\ row' = row /\ spent' = spent
          /\ \A q \in Run \ {r} : run'[q] = run[q]
      BY <2>11, OnItsWay DEF Quiet
    <3> QED BY <2>1, <3>1 DEF Finished, Going, Moving
  <2>12. CASE Cancel(r)
    <3>1. run' = run /\ Finished' = Finished /\ spent' = spent
      BY <2>12 DEF Cancel, Finished
    <3> QED BY <2>1, <3>1
  <2> QED BY <1>3, <2>6, <2>7, <2>8, <2>9, <2>10, <2>11, <2>12 DEF Works
<1> QED BY <1>1, <1>2, <1>3 DEF Next

LEMMA InitTrimmed == Init => Trimmed
<1> SUFFICES ASSUME Init, NEW X \in SUBSET Run PROVE Cardinality(Left(X)) <= MaxRuns
  BY DEF Trimmed
<1>1. Finished = {}
  BY DEF Init, Finished, Final
<1>2. Left(X) = {} /\ MaxRuns \in Nat
  BY <1>1, BoundsAssumption DEF Left
<1> QED BY <1>2, FS_EmptySet

LEMMA TrimmedIsBounded == TypeOK /\ Records /\ Trimmed => Bounded
<1> SUFFICES ASSUME TypeOK, Records, Trimmed, Active = {}
             PROVE  Cardinality(Finished \ Unswept) <= MaxRuns
  BY DEF Bounded
<1>1. \A r \in Run : run[r].pc \in Over /\ run[r].prune = {}
  BY DEF Active, Records, Record, Over
<1>2. Listing = {} /\ Left({}) = Finished \ Unswept
  BY <1>1 DEF Listing, Left, Doomed, Over
<1> QED BY <1>2 DEF Trimmed

-----------------------------------------------------------------------------
(* The theorems. *)

\* Runs, rows, logs and files keep their types, for any task and bounds.
THEOREM TaskTypes == Spec => []TypeOK
BY InitType, TypeStep, PTL DEF Spec

\* replace_local_download and replace_remote_file: as long as runs do not overlap, no
\* failure, cancel or crash loses a target or leaves it half written.
THEOREM FilesAreSafe == Spec => []FileSafe
<1>1. Inv => FileSafe
  BY DEF Inv
<1> QED BY <1>1, InitInv, StepInv, PTL DEF Spec

\* execute_serial: a run that has been cancelled begins no other step.
THEOREM CancelsHold == Spec => []CancelHolds
<1>1. Init => CancelHolds
  BY DEF Init, CancelHolds
<1> QED BY <1>1, CancelStep, InitType, TypeStep, PTL DEF Spec

\* finish_task_run: a finished row tells how the run went, and is written once.
THEOREM HistoryIsTrue == Spec => HistoryTrue
<1>1. Init => Books
  BY DEF Init, Idle, Books, Book, Early, Stepping, Moving, Ending, Final
<1>2. Init => CancelHolds
  BY DEF Init, CancelHolds
<1> QED
  BY <1>1, <1>2, InitType, TypeStep, CancelStep, BooksStep, Tells, PTL DEF Spec, HistoryTrue

\* clear_task_runs, delete_task_on, cleanup_task_retention: none removes a log that is being
\* written, and a finished row has its whole log.
THEOREM LogsAreKept == Spec => []LogKept
<1>1. TypeOK /\ Records => LogKept
  BY DEF TypeOK, Progress, Records, Record, LogKept, Writing, Going, Moving, Places, Over
<1> QED BY <1>1, InitType, TypeStep, InitRecords, RecordsStep, PTL DEF Spec

\* execute_task_background: a run that is over is out of the registry, and its row is not
\* running unless the statement that finishes it failed.
THEOREM RunsLeave == Spec => []RunLeaves
<1>1. Records => RunLeaves
  BY DEF Records, Record, RunLeaves, At, Going, Moving, After
<1> QED BY <1>1, InitType, TypeStep, InitRecords, RecordsStep, PTL DEF Spec

\* cleanup_task_retention: of the finished runs that are left when nothing runs, no more
\* than MAX_RUNS_PER_TASK had their own cleanup go through, however the ends of runs
\* interleaved with each other, with clears, deletions, failures and crashes.
THEOREM HistoryIsBounded == Spec => []Bounded
BY InitType, TypeStep, InitRecords, RecordsStep, InitTrimmed, TrimmedStep, TrimmedIsBounded, PTL DEF Spec
=============================================================================
