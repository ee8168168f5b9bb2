----------------------------- MODULE SyncFlight -----------------------------
(***************************************************************************)
(* The single-flight gate of unfour-cloud-sync: who runs a workspace's       *)
(* rounds.  Commands and the periodic worker trigger a workspace at any       *)
(* time; the first opens a flight, the others mark it dirty and return.  The *)
(* flight waits for one of the global permits, runs a round, and runs        *)
(* another for as long as it finds itself dirty under an unchanged session.  *)
(*                                                                         *)
(* A round is reduced to what the gate's promises are about: the generation  *)
(* it puts on the binding row, the local edits it has read and whether it     *)
(* succeeds (SyncOutbox models its inside).  Of the row's life only what the  *)
(* flight meets is here: a pause, a resumption, a sign-in that restores it    *)
(* (SyncBinding has the rest, Global Sync included).                        *)
(***************************************************************************)
EXTENDS Integers, FiniteSets

CONSTANTS
  Workspace,    \* the workspaces bound for synchronisation
  Command,      \* tasks of the user's commands; the worker has one per workspace
  Limit,        \* GLOBAL_WORKSPACE_CONCURRENCY
  MaxEdits,     \* how often each workspace is edited
  MaxTriggers, MaxFaults, MaxMoves   \* bounds of the explored behaviours

Task == Workspace \cup Command

ASSUME TaskAssumption == IsFiniteSet(Task) /\ Workspace # {} /\ Workspace \cap Command = {}
ASSUME LimitAssumption == Limit \in Nat \ {0}
ASSUME BoundsAssumption == MaxEdits \in [Workspace -> Nat] /\ MaxTriggers \in Nat
                           /\ MaxFaults \in Nat /\ MaxMoves \in Nat

VARIABLES
  flights,    \* the entry of each workspace: running, dirty (no entry: neither)
  task,       \* what each task is doing, for which workspace and session
  free,       \* permits of global_limit left
  session,    \* generation of the live account session
  edited,     \* local revision of each workspace
  synced,     \* the revision its last successful round carried to the server
  row,        \* the binding of each workspace: enabled, and its generation
  shown,      \* the error of each binding: shown, dismissed since, or none
  spent       \* budget used: triggers, faults, moves (new sessions and pauses)

gate == <<flights, free>>
around == <<session, edited>>
vars == <<gate, task, around, synced, row, shown, spent>>

-----------------------------------------------------------------------------
Pc == {"idle", "triggered", "waiting", "round", "claim", "syncing", "ended", "refresh",
       "record", "leaving", "unlock"}

\* seen is the revision the round has read, claimed whether a round of this
\* flight put its generation on the row, error is terminal_error, last is how
\* the last round or refresh went, "dropped" if its record failed too.
TaskState == [pc : Pc, ws : Workspace, session : Nat, seen : Nat, claimed : BOOLEAN,
              error : {"none", "failed", "account"},
              last : {"ok", "failed", "account", "dropped"}]
At(p, w, g) == [pc |-> p, ws |-> w, session |-> g, seen |-> 0, claimed |-> FALSE,
                error |-> "none", last |-> "ok"]

\* A worker's task is that of its workspace, a command's of any.
Home == CHOOSE w \in Workspace : TRUE
Parked(t) == At("idle", IF t \in Workspace THEN t ELSE Home, 0)

NoEntry == [running |-> FALSE, dirty |-> FALSE]

\* The tasks that own a flight guard, and those that hold a permit.
Flying == {t \in Task : task[t].pc \notin {"idle", "triggered"}}
Holding == {t \in Flying : task[t].pc \notin {"waiting", "unlock"}}

\* The row still carries the generation of the flight's session.
Own(t) == row[task[t].ws].generation = task[t].session

Goto(t, p) == task' = [task EXCEPT ![t].pc = p]
\* A round, an account lookup or a record is over.
Ends(t, e, l) ==
  task' = [task EXCEPT ![t] = [@ EXCEPT !.pc = "ended", !.seen = 0, !.error = e, !.last = l]]
Spend(k) == spent' = [spent EXCEPT ![k] = @ + 1]
Fault == spent.faults < MaxFaults /\ Spend("faults")
Move == spent.moves < MaxMoves /\ Spend("moves")

Init ==
  /\ flights = [w \in Workspace |-> NoEntry]
  /\ task = [t \in Task |-> Parked(t)]
  /\ free = Limit
  /\ session = 0
  /\ edited = [w \in Workspace |-> 0]
  /\ synced = [w \in Workspace |-> 0]
  /\ row = [w \in Workspace |-> [enabled |-> TRUE, generation |-> 0]]
  /\ shown = [w \in Workspace |-> "none"]
  /\ spent = [triggers |-> 0, faults |-> 0, moves |-> 0]

-----------------------------------------------------------------------------
(* What happens around the gate. *)

\* An error disappears from its binding without a round's success: a manual
\* retry clears it (prepare_manual_retry), an account lookup forgives refused
\* credentials (activate_account), resuming starts afresh (set_enabled).  Which
\* error it is, and whether dead letters keep it, is left open.
Dismissing(S) ==
  \E D \in SUBSET S :
     shown' = [w \in Workspace |-> IF w \in D /\ shown[w] = "shown" THEN "dismissed" ELSE shown[w]]

Edit(w) ==
  /\ edited[w] < MaxEdits[w]
  /\ edited' = [edited EXCEPT ![w] = @ + 1]
  /\ UNCHANGED <<gate, task, session, synced, row, shown, spent>>

\* The account signs out and in again.  What the cleanup of the sign-out and
\* the next account lookup do to a row is below.
NewSession ==
  /\ Move
  /\ session' = session + 1
  /\ UNCHANGED <<gate, task, edited, synced, row, shown>>

\* set_enabled, or a cleanup that pauses the row and the account lookup that
\* restores it: each raises the row's generation.  Enabling an enabled row,
\* which raises it too, is the pause and the resumption it amounts to.
SetEnabled(w, on) ==
  /\ row[w].enabled # on
  /\ IF on THEN UNCHANGED spent ELSE Move
  /\ row' = [row EXCEPT ![w] = [enabled |-> on, generation |-> @.generation + 1]]
  /\ IF on THEN Dismissing({w}) ELSE UNCHANGED shown
  /\ UNCHANGED <<gate, task, around, synced>>

\* A command looks up the account, captures the session and is about to enter.
Trigger(t, w) ==
  /\ task[t].pc = "idle"
  /\ spent.triggers < MaxTriggers /\ Spend("triggers")
  /\ task' = [task EXCEPT ![t] = At("triggered", w, session)]
  /\ Dismissing(Workspace)
  /\ UNCHANGED <<gate, around, synced, row>>

\* sync_all: one task per enabled workspace, and the worker waits for all of them.
Tick ==
  /\ \A w \in Workspace : task[w].pc = "idle"
  /\ task' = [t \in Task |-> IF t \in Workspace /\ row[t].enabled
                             THEN At("triggered", t, session) ELSE task[t]]
  /\ Dismissing(Workspace)
  /\ UNCHANGED <<gate, around, synced, row, spent>>

-----------------------------------------------------------------------------
(* A flight. *)

EnterFlight(t) ==
  LET w == task[t].ws
  IN  /\ task[t].pc = "triggered"
      /\ \/ /\ flights[w].running
            /\ flights' = [flights EXCEPT ![w].dirty = TRUE]
            /\ task' = [task EXCEPT ![t] = Parked(t)]
         \/ /\ ~flights[w].running
            /\ flights' = [flights EXCEPT ![w].running = TRUE]
            /\ task' = [task EXCEPT ![t].pc = "waiting"]
      /\ UNCHANGED <<free, around, synced, row, shown, spent>>

Acquire(t) ==
  /\ task[t].pc = "waiting" /\ free > 0
  /\ free' = free - 1
  /\ Goto(t, "round")
  /\ UNCHANGED <<flights, around, synced, row, shown, spent>>

\* account_is_current and ensure_protocol: nothing is on the row yet.
RoundStarts(t) ==
  /\ task[t].pc = "round" /\ session = task[t].session
  /\ Goto(t, "claim")
  /\ UNCHANGED <<gate, around, synced, row, shown, spent>>

\* claim_generation: an enabled row takes the generation of the flight's
\* session, whatever it carried; the round reads what it will carry.
Claim(t) ==
  LET w == task[t].ws
  IN  /\ task[t].pc = "claim" /\ row[w].enabled
      /\ task' = [task EXCEPT ![t] = [@ EXCEPT !.pc = "syncing", !.claimed = TRUE, !.seen = edited[w]]]
      /\ row' = [row EXCEPT ![w].generation = task[t].session]
      /\ shown' = [shown EXCEPT ![w] = IF @ = "dismissed" THEN "none" ELSE @]
      /\ UNCHANGED <<gate, around, synced, spent>>

\* The round has carried what it read.  It reads the row again on the way and
\* goes by the generation it finds; only some of its ends clear the error.
RoundSucceeds(t) ==
  LET w == task[t].ws
  IN  /\ task[t].pc = "syncing"
      /\ Ends(t, "none", "ok")
      /\ synced' = [synced EXCEPT ![w] = task[t].seen]
      /\ shown' \in {shown, [shown EXCEPT ![w] = "none"]}
      /\ UNCHANGED <<gate, around, row, spent>>

\* A binding paused since the claim ends the round without an error.
RoundSkips(t) ==
  /\ task[t].pc = "syncing" /\ ~row[task[t].ws].enabled
  /\ Ends(t, "none", "ok")
  /\ UNCHANGED <<gate, around, synced, row, shown, spent>>

\* A round fails at any of its steps, has no enabled row to claim, or finds
\* that the session, or the generation of the row, is not its own any more.
RoundFails(t) ==
  /\ task[t].pc \in {"round", "claim", "syncing"}
  /\ \/ /\ \/ Fault
           \/ task[t].pc = "claim" /\ ~row[task[t].ws].enabled /\ UNCHANGED spent
        /\ Ends(t, "failed", "failed")
     \/ /\ \/ task[t].pc # "claim" /\ session # task[t].session
           \/ task[t].pc = "syncing" /\ ~Own(t)
        /\ Ends(t, "account", "account")
        /\ UNCHANGED spent
  /\ UNCHANGED <<gate, around, synced, row, shown>>

\* take_dirty_or_finish finds a trigger that was merged into this flight.
TakeDirty(t) ==
  /\ task[t].pc = "ended" /\ flights[task[t].ws].dirty
  /\ flights' = [flights EXCEPT ![task[t].ws].dirty = FALSE]
  /\ Goto(t, "refresh")
  /\ UNCHANGED <<free, around, synced, row, shown, spent>>

\* The account is looked up again: the flight goes on only under its own
\* session; a changed one ends it without a record, a failure is recorded.
Refresh(t) ==
  /\ task[t].pc = "refresh"
  /\ \/ /\ session = task[t].session
        /\ task' = [task EXCEPT ![t] = [@ EXCEPT !.pc = "round", !.error = "none"]]
        /\ Dismissing(Workspace) /\ UNCHANGED spent
     \/ /\ session # task[t].session
        /\ Ends(t, "none", "account")
        /\ Dismissing(Workspace) /\ UNCHANGED spent
     \/ /\ Fault
        /\ task' = [task EXCEPT ![t] = [@ EXCEPT !.pc = "record", !.error = "failed", !.last = "failed"]]
        /\ UNCHANGED shown
  /\ UNCHANGED <<gate, around, synced, row>>

\* Mutant: finishing also removes the entry, which the guard's Drop does again.
FinishRemoves(t) ==
  /\ task[t].pc = "ended" /\ ~flights[task[t].ws].dirty
  /\ flights' = IF task[t].error = "none"
                THEN [flights EXCEPT ![task[t].ws] = NoEntry] ELSE flights
  /\ Goto(t, IF task[t].error = "none" THEN "leaving" ELSE "record")
  /\ UNCHANGED <<free, around, synced, row, shown, spent>>

\* Mutant: a flight that is not dirty leaves, whatever its last round said.
FinishSilent(t) ==
  /\ task[t].pc = "ended" /\ ~flights[task[t].ws].dirty
  /\ Goto(t, "leaving")
  /\ UNCHANGED <<gate, around, synced, row, shown, spent>>

\* It finds none: an error is dealt with first, and then it looks once more.
Finish(t) ==
  /\ task[t].pc = "ended" /\ ~flights[task[t].ws].dirty
  /\ \/ task[t].error = "failed" /\ Goto(t, "record")
     \/ task[t].error = "account" /\ task' = [task EXCEPT ![t].error = "none"]
     \/ task[t].error = "none" /\ Goto(t, "leaving")
  /\ UNCHANGED <<gate, around, synced, row, shown, spent>>

\* record_error updates the row only while that carries the generation of the
\* flight's session; whether the statement itself fails nobody asks.
Record(t) ==
  LET w == task[t].ws
  IN  /\ task[t].pc = "record"
      /\ \/ /\ Ends(t, "none", task[t].last)
            /\ shown' = IF Own(t) THEN [shown EXCEPT ![w] = "shown"] ELSE shown
            /\ UNCHANGED spent
         \/ /\ Fault
            /\ Ends(t, "none", "dropped")
            /\ UNCHANGED shown
      /\ UNCHANGED <<gate, around, synced, row>>

\* The permit is dropped before the guard, which removes the entry.
Leave(t) ==
  /\ task[t].pc = "leaving"
  /\ free' = free + 1
  /\ task' = [task EXCEPT ![t] = At("unlock", task[t].ws, task[t].session)]
  /\ UNCHANGED <<flights, around, synced, row, shown, spent>>

\* Mutant: without a Drop nobody removes the entry.
UnlockForgets(t) ==
  /\ task[t].pc = "unlock"
  /\ task' = [task EXCEPT ![t] = Parked(t)]
  /\ UNCHANGED <<gate, around, synced, row, shown, spent>>

Unlock(t) ==
  /\ task[t].pc = "unlock"
  /\ flights' = [flights EXCEPT ![task[t].ws] = NoEntry]
  /\ task' = [task EXCEPT ![t] = Parked(t)]
  /\ UNCHANGED <<free, around, synced, row, shown, spent>>

\* Mutant: a permit that is not released by its Drop.
PanicKeepsPermit(t) ==
  /\ t \in Flying /\ task[t].pc # "unlock"
  /\ Fault
  /\ task' = [task EXCEPT ![t] = At("unlock", task[t].ws, task[t].session)]
  /\ UNCHANGED <<gate, around, synced, row, shown>>

\* The task panics or is dropped at an await; its guards are dropped with it.
Panic(t) ==
  /\ t \in Flying /\ task[t].pc # "unlock"
  /\ Fault
  /\ free' = IF t \in Holding THEN free + 1 ELSE free
  /\ task' = [task EXCEPT ![t] = At("unlock", task[t].ws, task[t].session)]
  /\ UNCHANGED <<flights, around, synced, row, shown>>

-----------------------------------------------------------------------------
Advance(t) ==
  \/ EnterFlight(t) \/ RoundStarts(t) \/ Claim(t) \/ RoundSucceeds(t) \/ RoundSkips(t)
  \/ RoundFails(t) \/ TakeDirty(t) \/ Refresh(t) \/ Finish(t) \/ Record(t) \/ Leave(t) \/ Unlock(t)

Next ==
  \/ \E w \in Workspace : Edit(w) \/ \E on \in BOOLEAN : SetEnabled(w, on)
  \/ NewSession
  \/ \E t \in Command, w \in Workspace : Trigger(t, w)
  \/ Tick
  \/ \E t \in Task : Advance(t) \/ Acquire(t) \/ Panic(t)

Spec == Init /\ [][Next]_vars

\* The interval ticks for ever, a task runs on, the semaphore queues its waiters.
\* Ticks are minutes apart: in a command's flight one does not fall into every
\* account lookup, nor between every round's end and the look for triggers.
Fairness ==
  /\ WF_vars(Tick)
  /\ \A t \in Task : WF_vars(Advance(t)) /\ SF_vars(Acquire(t))
  /\ \A t \in Command : SF_vars(Finish(t)) /\ SF_vars(Refresh(t) /\ ~flights[task[t].ws].dirty)

FairSpec == Spec /\ Fairness

-----------------------------------------------------------------------------
(* Properties. *)

\* Every variable keeps its type; no more than Limit permits are ever free.
TypeOK ==
  /\ flights \in [Workspace -> [running : BOOLEAN, dirty : BOOLEAN]]
  /\ task \in [Task -> TaskState]
  /\ free \in 0..Limit /\ session \in Nat
  /\ edited \in [Workspace -> Nat] /\ synced \in [Workspace -> Nat]
  /\ row \in [Workspace -> [enabled : BOOLEAN, generation : Nat]]
  /\ shown \in [Workspace -> {"none", "shown", "dismissed"}]
  /\ spent \in [triggers : Nat, faults : Nat, moves : Nat]

\* One flight per workspace: between the entry it makes and the entry its
\* guard removes, no other task runs rounds for the same workspace.
OneFlight ==
  \A t, u \in Flying : task[t].ws = task[u].ws => t = u

\* Every permit that is not free belongs to a task that runs rounds: neither a
\* panic nor an early return leaks one or returns it twice.
PermitsBalance ==
  free + Cardinality(Holding) = Limit

\* A flight does not swallow the failure it ends on: if it had claimed the row
\* and the row is still its own, then about to go it has left the error on the
\* binding, unless record_error failed as well; whatever was merged into it,
\* refreshed or retried before, the error is there or was dismissed after its
\* last claim.  A row that was never claimed, or has moved on, shows nothing.
FailureShown ==
  \A t \in Task : task[t].pc = "leaving" /\ task[t].last = "failed" /\ task[t].claimed /\ Own(t)
                    => shown[task[t].ws] # "none"

\* Whatever was edited is carried to the server in the end or its workspace is
\* paused, merged and lost triggers, failed rounds, panics, pauses and new
\* sessions included.
EveryEditSynced ==
  edited # synced ~> \A w \in Workspace : edited[w] = synced[w] \/ ~row[w].enabled
=============================================================================
