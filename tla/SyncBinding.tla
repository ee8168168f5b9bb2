---------------------------- MODULE SyncBinding ----------------------------
(***************************************************************************)
(* The lifecycle of a workspace binding in unfour-cloud-sync: who may pause *)
(* it, who may resume it, and what a flight that is under way still does.   *)
(* Accounts sign in and out, commands pause and resume, the desktop's        *)
(* account refresh opens and closes the credential gate, and all of them     *)
(* write the binding row, fenced by its generation, between the awaits of a  *)
(* flight.  Each account has one bound workspace, and at most one flight of   *)
(* it (SyncFlight).  What a round carries is left to SyncOutbox.             *)
(***************************************************************************)
EXTENDS Integers, FiniteSets

CONSTANTS
  Account,      \* accounts that own a bound workspace on this device
  NoAccount,    \* nobody is signed in
  MaxEvents, MaxCommands   \* bounds of the explored behaviours

ASSUME AccountAssumption == NoAccount \notin Account
ASSUME BoundsAssumption == MaxEvents \in Nat /\ MaxCommands \in Nat

VARIABLES
  session,    \* the live desktop session: its account and its generation
  gate,       \* SyncAccessGate: the generation it is open for, or Closed
  active,     \* cloud_sync_runtime_context: the active account
  row,        \* cloud_sync_workspace_bindings, one row for each account
  reason,     \* cloud_sync_account_binding_pause_reasons: the previous state
  global,     \* cloud_sync_account_settings: Global Sync of each account
  flight,     \* the flight of each account's workspace
  command,    \* the command being executed
  refresh,    \* the account refresh of the desktop shell
  cleanup,    \* a sign-out that has yet to deactivate the account
  paused,     \* accounts whose last command paused the workspace (ghost)
  late,       \* pushes sent since sync is off, counted up to 2 (ghost)
  spent       \* budget used: account events, commands

account == <<session, gate>>
stored == <<active, row, reason, global>>
shell == <<command, refresh, cleanup>>
ghosts == <<paused, late>>
vars == <<account, stored, flight, shell, ghosts, spent>>

-----------------------------------------------------------------------------
Closed == -1
NoReason == "none"

State == {"reconciling", "active", "error", "paused"}
\* last_error: refused credentials, one of the codes that park a binding
\* (deleted, not found, snapshot required, permanent), or any other or none.
Error == {"auth", "gone", "plain"}
Row == [enabled : BOOLEAN, state : State, generation : Nat, error : Error]

Want == {"enable", "disable", "globalOn", "globalOff"}

Pc == {"idle", "fetched", "looking", "check", "claim", "read", "capture", "pull", "page",
       "reapply", "reread", "repair", "reload", "queue", "push", "sending", "settle",
       "last", "review", "close", "activate", "failed"}

\* seen is what the flight last read of its binding row, cred the generation of
\* the credential its pending request carries.
FlightState == [pc : Pc, session : Nat, seen : [generation : Nat, state : State],
                pushed : BOOLEAN, cred : Nat, error : Error]
Unread == [generation |-> 0, state |-> "paused"]
At(p, g) == [pc |-> p, session |-> g, seen |-> Unread, pushed |-> FALSE,
             cred |-> 0, error |-> "plain"]

Idle == [pc |-> "idle", kind |-> "none", account |-> NoAccount, generation |-> 0]

Spend(k) == spent' = [spent EXCEPT ![k] = @ + 1]
Event == spent.events < MaxEvents /\ Spend("events")

\* session_for_cloud_sync hands out the live credential, whoever asks for it.
Credential == session.account # NoAccount /\ gate = session.generation

\* What the user, or the account, has switched off.
Off(a) == a \in paused \/ ~global[a]

Init ==
  \E x \in Account \cup {NoAccount} :
    /\ session = [account |-> x, generation |-> 0]
    /\ gate = Closed /\ active = x
    /\ row = [a \in Account |->
                IF a = x THEN [enabled |-> TRUE, state |-> "active", generation |-> 0, error |-> "plain"]
                ELSE [enabled |-> FALSE, state |-> "paused", generation |-> 1, error |-> "plain"]]
    /\ reason = [a \in Account |-> IF a = x THEN NoReason ELSE "active"]
    /\ global = [a \in Account |-> TRUE]
    /\ flight = [a \in Account |-> At("idle", 0)]
    /\ command = Idle /\ refresh = Idle /\ cleanup = FALSE
    /\ paused = {} /\ late = [a \in Account |-> 0]
    /\ spent = [events |-> 0, commands |-> 0]

-----------------------------------------------------------------------------
(* The transactions of repository/bindings.rs. *)

Suspended(r) == [r EXCEPT !.enabled = FALSE, !.state = "paused", !.generation = @ + 1]
Suspendable(r) == r.enabled /\ r.state # "paused"

Restored(a) ==
  IF reason[a] # NoReason /\ ~row[a].enabled /\ row[a].state = "paused"
  THEN [row[a] EXCEPT !.enabled = TRUE, !.state = reason[a], !.generation = @ + 1]
  ELSE row[a]

AuthForgiven(r) ==
  IF r.error = "auth"
  THEN [r EXCEPT !.state = IF @ = "error" THEN "reconciling" ELSE @, !.error = "plain"]
  ELSE r

\* Mutant: the reasons are kept once they have been used.
ActivateKeepsReasons(a) ==
  /\ active' = a
  /\ row' = [b \in Account |->
               IF b = a THEN AuthForgiven(Restored(a))
               ELSE IF active # a /\ row[b].enabled THEN Suspended(row[b]) ELSE row[b]]
  /\ reason' = [b \in Account |->
                  IF b # a /\ active # a /\ Suspendable(row[b]) THEN row[b].state ELSE reason[b]]
  /\ UNCHANGED global

\* activate_account: the rows paused by an earlier sign-out come back, those of
\* the other accounts are paused when the active account changes.
ActivateAccount(a) ==
  /\ active' = a
  /\ row' = [b \in Account |->
               IF b = a THEN AuthForgiven(Restored(a))
               ELSE IF active # a /\ row[b].enabled THEN Suspended(row[b]) ELSE row[b]]
  /\ reason' = [b \in Account |->
                  IF b = a THEN NoReason
                  ELSE IF active # a /\ Suspendable(row[b]) THEN row[b].state ELSE reason[b]]
  /\ UNCHANGED global

\* deactivate_active_account
DeactivateAccount ==
  LET hit == {b \in Account : b = active /\ Suspendable(row[b])}
  IN  /\ active' = NoAccount
      /\ row' = [b \in Account |-> IF b \in hit THEN Suspended(row[b]) ELSE row[b]]
      /\ reason' = [b \in Account |-> IF b \in hit THEN row[b].state ELSE reason[b]]
      /\ UNCHANGED global

\* Mutant: pausing a workspace leaves the reason of an earlier pause behind.
SetEnabledKeepsReason(a, on) ==
  /\ row' = [row EXCEPT ![a] =
               IF on THEN [enabled |-> TRUE, state |-> "reconciling",
                           generation |-> row[a].generation + 1, error |-> "plain"]
               ELSE Suspended(row[a])]
  /\ paused' = IF on THEN paused \ {a} ELSE paused \cup {a}
  /\ late' = IF on /\ global[a] THEN [late EXCEPT ![a] = 0] ELSE late
  /\ UNCHANGED <<active, global, reason>>

\* set_enabled
SetEnabled(a, on) ==
  /\ reason' = [reason EXCEPT ![a] = NoReason]
  /\ row' = [row EXCEPT ![a] =
               IF on THEN [enabled |-> TRUE, state |-> "reconciling",
                           generation |-> row[a].generation + 1, error |-> "plain"]
               ELSE Suspended(row[a])]
  /\ paused' = IF on THEN paused \ {a} ELSE paused \cup {a}
  /\ late' = IF on /\ global[a] THEN [late EXCEPT ![a] = 0] ELSE late
  /\ UNCHANGED <<active, global>>

\* set_global_sync_enabled
SetGlobal(a, on) ==
  /\ global' = [global EXCEPT ![a] = on]
  /\ row' = [row EXCEPT ![a].generation = IF row[a].enabled THEN @ + 1 ELSE @]
  /\ late' = IF on /\ a \notin paused THEN [late EXCEPT ![a] = 0] ELSE late
  /\ UNCHANGED <<active, reason, paused>>

\* Mutant: the assertion compares the generation and nothing else.
CurrentByGeneration(a) == row[a].generation = flight[a].seen.generation

\* assert_binding_generation_on
Current(a) ==
  /\ row[a].enabled /\ row[a].state # "paused" /\ global[a]
  /\ row[a].generation = flight[a].seen.generation

-----------------------------------------------------------------------------
(* Accounts, commands and the desktop shell. *)

SignIn(a) ==
  /\ session.account = NoAccount
  /\ Event
  /\ session' = [account |-> a, generation |-> session.generation + 1]
  /\ UNCHANGED <<gate, stored, flight, shell, ghosts>>

\* account_sign_out: the gate is closed and the session cleared before the
\* revocation is awaited; only then is the account deactivated.
SignOut ==
  /\ session.account # NoAccount /\ ~cleanup
  /\ Event
  /\ gate' = Closed
  /\ session' = [account |-> NoAccount, generation |-> session.generation + 1]
  /\ cleanup' = TRUE
  /\ UNCHANGED <<stored, flight, command, refresh, ghosts>>

CleanUp ==
  /\ cleanup /\ cleanup' = FALSE
  /\ DeactivateAccount
  /\ UNCHANGED <<account, flight, command, refresh, ghosts, spent>>

\* The stored session has expired: it is deleted under a new generation.
Expire ==
  /\ session.account # NoAccount
  /\ Event
  /\ session' = [account |-> NoAccount, generation |-> session.generation + 1]
  /\ UNCHANGED <<gate, stored, flight, shell, ghosts>>

\* A new process keeps the stored session and the database, and counts its
\* generations from zero again.
Restart ==
  /\ Event
  /\ session' = [session EXCEPT !.generation = 0]
  /\ gate' = Closed
  /\ flight' = [a \in Account |-> At("idle", 0)]
  /\ command' = Idle /\ refresh' = Idle /\ cleanup' = FALSE
  /\ UNCHANGED <<stored, ghosts>>

\* The account's state is fetched, with or without the entitlement.
RefreshReads ==
  /\ refresh.pc = "idle"
  /\ \/ /\ session.account # NoAccount /\ UNCHANGED spent
        /\ refresh' = [Idle EXCEPT !.pc = "fetched", !.kind = "in", !.account = session.account]
     \/ /\ session.account # NoAccount /\ Event
        /\ refresh' = [Idle EXCEPT !.pc = "fetched", !.kind = "out"]
     \/ /\ session.account = NoAccount /\ UNCHANGED spent
        /\ \E k \in {"out", "signing"} : refresh' = [Idle EXCEPT !.pc = "fetched", !.kind = k]
  /\ UNCHANGED <<account, stored, flight, command, cleanup, ghosts>>

\* The gate is closed first, and the generation is read only now.
RefreshDenies ==
  /\ refresh.pc = "fetched"
  /\ gate' = Closed
  /\ refresh' = IF refresh.kind = "signing" THEN Idle
                ELSE [refresh EXCEPT !.pc = "denied", !.generation = session.generation]
  /\ UNCHANGED <<session, stored, flight, command, cleanup, ghosts, spent>>

RefreshCommits ==
  /\ refresh.pc = "denied"
  /\ \/ /\ refresh.kind = "in" /\ ActivateAccount(refresh.account)
        /\ refresh' = [refresh EXCEPT !.pc = "committed"]
     \/ /\ refresh.kind = "out" /\ DeactivateAccount
        /\ refresh' = Idle
  /\ UNCHANGED <<account, flight, command, cleanup, ghosts, spent>>

RefreshAllows ==
  /\ refresh.pc = "committed"
  /\ gate' = refresh.generation
  /\ refresh' = Idle
  /\ UNCHANGED <<session, stored, flight, command, cleanup, ghosts, spent>>

\* A command looks its account up, commits that account as the active one, and
\* only then, after more awaits, does what it was asked to.
CommandReads(k) ==
  /\ command.pc = "idle" /\ Credential
  /\ spent.commands < MaxCommands /\ Spend("commands")
  /\ command' = [pc |-> "fetched", kind |-> k, account |-> session.account,
                 generation |-> session.generation]
  /\ UNCHANGED <<account, stored, flight, refresh, cleanup, ghosts>>

CommandActivates ==
  /\ command.pc = "fetched"
  /\ ActivateAccount(command.account)
  /\ command' = [command EXCEPT !.pc = "looking"]
  /\ UNCHANGED <<account, flight, refresh, cleanup, ghosts, spent>>

\* Enable goes on to sync the workspace itself, unless a flight is under way.
EnableFlies(a, g) ==
  IF (row[a].enabled /\ row[a].state = "active") \/ ~global[a] \/ flight[a].pc # "idle"
  THEN UNCHANGED flight
  ELSE flight' = [flight EXCEPT ![a] = At("check", g)]

CommandActs ==
  LET a == command.account
  IN  /\ command.pc = "looking"
      /\ \/ /\ command.kind = "enable" /\ SetEnabled(a, TRUE)
            /\ EnableFlies(a, command.generation)
         \/ command.kind = "disable" /\ SetEnabled(a, FALSE) /\ UNCHANGED flight
         \/ command.kind = "globalOn" /\ SetGlobal(a, TRUE) /\ UNCHANGED flight
         \/ command.kind = "globalOff" /\ SetGlobal(a, FALSE) /\ UNCHANGED flight
      /\ command' = Idle
      /\ UNCHANGED <<account, refresh, cleanup, spent>>

-----------------------------------------------------------------------------
(* A flight: sync_workspace_scheduled, sync_workspace_for and the round. *)

Goto(a, p) == flight' = [flight EXCEPT ![a].pc = p]
Land(a) == flight' = [flight EXCEPT ![a] = At("idle", 0)]
Answered(a, p) == flight' = [flight EXCEPT ![a] = [@ EXCEPT !.pc = p, !.cred = 0]]
Fail(a, e) == flight' = [flight EXCEPT ![a] = [At("failed", flight[a].session) EXCEPT !.error = e]]
Sees(a, p) ==
  flight' = [flight EXCEPT ![a] = [@ EXCEPT !.pc = p,
                !.seen = [generation |-> row[a].generation, state |-> row[a].state]]]

SameSession(a) == session.generation = flight[a].session
Fenced(a) == row[a].generation = flight[a].seen.generation
Marked(a, s, e) == row' = [row EXCEPT ![a] = [@ EXCEPT !.state = s, !.error = e]]

\* Nothing but the flight and its binding row.
Quiet == UNCHANGED <<account, active, reason, global, shell, ghosts, spent>>

\* A tick, a mutation hint, a due retry or the user's "sync now".
StartFlight(a) ==
  /\ flight[a].pc = "idle" /\ Credential /\ session.account = a
  /\ flight' = [flight EXCEPT ![a] = At("fetched", session.generation)]
  /\ UNCHANGED <<account, stored, shell, ghosts, spent>>

FlightActivates(a) ==
  /\ flight[a].pc = "fetched"
  /\ ActivateAccount(a)
  /\ Goto(a, "looking")
  /\ UNCHANGED <<account, shell, ghosts, spent>>

\* global_sync_enabled, the flight's entry and its permit.
Enter(a) ==
  /\ flight[a].pc = "looking"
  /\ IF global[a] THEN Goto(a, "check") ELSE Land(a)
  /\ Quiet /\ UNCHANGED row

\* account_is_current and ensure_protocol, which may fail.
CheckSession(a) ==
  /\ flight[a].pc = "check"
  /\ \/ SameSession(a) /\ Goto(a, "claim")
     \/ ~SameSession(a) /\ Land(a)
     \/ \E e \in {"auth", "plain"} : Fail(a, e)
  /\ Quiet /\ UNCHANGED row

\* claim_generation, and the NotFound of a row it may not claim.
Claim(a) ==
  /\ flight[a].pc = "claim"
  /\ IF row[a].enabled /\ row[a].state # "paused" /\ global[a]
     THEN row' = [row EXCEPT ![a].generation = flight[a].session] /\ Goto(a, "read")
     ELSE Fail(a, "gone") /\ UNCHANGED row
  /\ Quiet

ReadBinding(a) ==
  LET r == row[a]
  IN  /\ flight[a].pc = "read"
      /\ \/ (~r.enabled \/ r.state = "paused") /\ Land(a)
         \/ r.enabled /\ r.state = "error" /\ r.error = "gone" /\ Fail(a, "gone")
         \/ /\ r.enabled /\ r.state # "paused" /\ ~(r.state = "error" /\ r.error = "gone")
            /\ Sees(a, "capture")
      /\ Quiet /\ UNCHANGED row

\* capture_untracked_flow_definitions and reconcile_missing_local_sync_state
\* run in transactions that assert the generation.
Reconcile(a) ==
  /\ flight[a].pc \in {"capture", "repair"}
  /\ IF Current(a) THEN Goto(a, IF flight[a].pc = "capture" THEN "pull" ELSE "reload") ELSE Land(a)
  /\ Quiet /\ UNCHANGED row

\* A request leaves with the live credential.
Send(a, p) ==
  /\ Credential
  /\ flight' = [flight EXCEPT ![a] = [@ EXCEPT !.pc = p, !.cred = session.generation]]
  /\ UNCHANGED <<account, stored, shell, paused, spent>>

SendPull(a) ==
  /\ flight[a].pc = "pull"
  /\ Send(a, "page")
  /\ UNCHANGED late

\* There is no credential to send with; only a push then asks whose session it is.
Refused(a) ==
  /\ flight[a].pc \in {"pull", "sending"} /\ ~Credential
  /\ IF flight[a].pc = "pull" \/ SameSession(a) THEN Fail(a, "auth") ELSE Land(a)
  /\ Quiet /\ UNCHANGED row

\* A page is applied and the cursor advanced, fenced by the generation alone; a
\* dead letter keeps last_error.  A page this build cannot read parks the binding.
PullPage(a) ==
  /\ flight[a].pc = "page"
  /\ \/ (~SameSession(a) \/ ~Fenced(a)) /\ Land(a) /\ UNCHANGED row
     \/ /\ SameSession(a) /\ Fenced(a)
        /\ \/ /\ \E e \in {"plain", row[a].error} : Marked(a, row[a].state, e)
              /\ Answered(a, "pull") \/ Answered(a, "reapply")
           \/ Marked(a, "error", "plain") /\ (Answered(a, "pull") \/ Fail(a, "plain"))
  /\ Quiet

\* reapply_retained_remote, with the full assertion.
Reapply(a) ==
  /\ flight[a].pc = "reapply"
  /\ \/ ~Current(a) /\ Land(a) /\ UNCHANGED row
     \/ Current(a) /\ Goto(a, IF flight[a].pushed THEN "close" ELSE "reread") /\ UNCHANGED row
     \/ Current(a) /\ Marked(a, "error", "plain") /\ Fail(a, "plain")
  /\ Quiet

\* The binding is read again, whatever has become of it: after the opening
\* pull, after the repair, after the pushes and before the round closes.
Reread(a) ==
  /\ \/ flight[a].pc = "reread" /\ Sees(a, "repair")
     \/ flight[a].pc = "reload" /\ Sees(a, "queue")
     \/ flight[a].pc = "last" /\ Sees(a, "review")
     \/ flight[a].pc = "close" /\ Sees(a, "activate")
  /\ Quiet /\ UNCHANGED row

\* set_binding_state("error"), fenced by the generation alone.
Block(a) ==
  \/ Fenced(a) /\ Marked(a, "error", "plain") /\ Fail(a, "plain")
  \/ ~Fenced(a) /\ Land(a) /\ UNCHANGED row

\* Dead letters with nothing else due stop the round before it pushes.
CheckQueue(a) ==
  /\ flight[a].pc = "queue"
  /\ Block(a) \/ (Goto(a, "push") /\ UNCHANGED row)
  /\ Quiet

\* push_one_batch: nothing is due, or the batch passes the session's fence.
PushBatch(a) ==
  /\ flight[a].pc = "push"
  /\ \/ Goto(a, "last")
     \/ SameSession(a) /\ Goto(a, "sending")
     \/ ~SameSession(a) /\ Land(a)
  /\ Quiet /\ UNCHANGED row

SendPush(a) ==
  /\ flight[a].pc = "sending"
  /\ Send(a, "settle")
  /\ late' = IF Off(a) /\ late[a] < 2 THEN [late EXCEPT ![a] = @ + 1] ELSE late

\* apply_push_results commits the answer under the full assertion.
SettlePush(a) ==
  /\ flight[a].pc = "settle"
  /\ IF SameSession(a) /\ Current(a)
     THEN flight' = [flight EXCEPT ![a] = [@ EXCEPT !.pc = "push", !.pushed = TRUE, !.cred = 0]]
     ELSE Land(a)
  /\ Quiet /\ UNCHANGED row

\* A request fails; refused credentials close the gate they came through.
RequestFails(a) ==
  /\ flight[a].pc = "page" \/ (flight[a].pc = "settle" /\ SameSession(a))
  /\ \/ \E e \in {"gone", "plain"} : Fail(a, e) /\ UNCHANGED gate
     \/ /\ \E e \in {"auth", "plain"} : Fail(a, e)
        /\ gate' = IF gate = flight[a].cred /\ session.generation = flight[a].cred THEN Closed ELSE gate
  /\ UNCHANGED <<session, stored, shell, ghosts, spent>>

\* After the pushes: dead letters block the binding, otherwise it reconciles.
Review(a) ==
  LET next == IF flight[a].pushed THEN "pull" ELSE "close"
  IN  /\ flight[a].pc = "review"
      /\ \/ Block(a)
         \/ flight[a].seen.state \in {"active", "paused"} /\ Goto(a, next) /\ UNCHANGED row
         \/ /\ flight[a].seen.state \notin {"active", "paused"}
            /\ \/ Goto(a, next) /\ UNCHANGED row        \* the initial upload is not confirmed
               \/ Fenced(a) /\ Marked(a, "reconciling", "plain") /\ Goto(a, next)
               \/ ~Fenced(a) /\ Land(a) /\ UNCHANGED row
      /\ Quiet

\* can_activate
Close(a) ==
  /\ flight[a].pc = "activate"
  /\ \/ Block(a)
     \/ Land(a) /\ UNCHANGED row                        \* the outbox is not drained
     \/ Fail(a, "plain") /\ UNCHANGED row               \* unresolved conflicts
     \/ /\ flight[a].seen.state \notin {"error", "paused"} /\ Fenced(a)
        /\ Marked(a, "active", "plain") /\ Land(a)
  /\ Quiet

\* record_error: dead letters replace the code, the generation guards the row.
RecordError(a) ==
  /\ flight[a].pc = "failed"
  /\ \E e \in {flight[a].error, "plain"} :
        row' = IF row[a].generation = flight[a].session
               THEN [row EXCEPT ![a] = [@ EXCEPT !.state = "error", !.error = e]] ELSE row
  /\ Land(a)
  /\ Quiet

-----------------------------------------------------------------------------
Shell ==
  \/ \E a \in Account : SignIn(a)
  \/ SignOut \/ CleanUp \/ Expire \/ Restart
  \/ RefreshReads \/ RefreshDenies \/ RefreshCommits \/ RefreshAllows

Commands == (\E k \in Want : CommandReads(k)) \/ CommandActivates \/ CommandActs

Fly(a) ==
  \/ StartFlight(a) \/ FlightActivates(a) \/ Enter(a) \/ CheckSession(a) \/ Claim(a)
  \/ ReadBinding(a) \/ Reconcile(a) \/ SendPull(a) \/ Refused(a) \/ PullPage(a) \/ Reapply(a)
  \/ Reread(a) \/ CheckQueue(a) \/ PushBatch(a) \/ SendPush(a) \/ SettlePush(a)
  \/ RequestFails(a) \/ Review(a) \/ Close(a) \/ RecordError(a)

Next == Shell \/ Commands \/ \E a \in Account : Fly(a)

Spec == Init /\ [][Next]_vars

-----------------------------------------------------------------------------
(* Properties. *)

\* Every variable keeps its type.
TypeOK ==
  /\ session \in [account : Account \cup {NoAccount}, generation : Nat]
  /\ gate \in Nat \cup {Closed} /\ active \in Account \cup {NoAccount}
  /\ row \in [Account -> Row]
  /\ reason \in [Account -> (State \ {"paused"}) \cup {NoReason}]
  /\ global \in [Account -> BOOLEAN]
  /\ flight \in [Account -> FlightState]
  /\ command \in [pc : {"idle", "fetched", "looking"}, kind : Want \cup {"none"},
                  account : Account \cup {NoAccount}, generation : Nat]
  /\ refresh \in [pc : {"idle", "fetched", "denied", "committed"},
                  kind : {"none", "in", "out", "signing"},
                  account : Account \cup {NoAccount}, generation : Nat]
  /\ cleanup \in BOOLEAN
  /\ paused \subseteq Account /\ late \in [Account -> 0..2]
  /\ spent \in [events : Nat, commands : Nat]

\* What the user paused stays paused: whatever sign-outs, sign-ins, account
\* refreshes and flights interleave with the command, only Enable resumes it.
PauseSticks ==
  \A a \in paused : ~row[a].enabled

\* Of a workspace whose sync is off, globally or by itself, at most one more
\* push leaves: the one that had passed its checks.
OnePushAfterPause ==
  \A a \in Account : late[a] =< 1

\* A pause that the account context made is remembered with the state to go
\* back to, and belongs to an account that is not the active one.
ContextPauses ==
  \A a \in Account : reason[a] # NoReason => ~row[a].enabled /\ a # active /\ a \notin paused
=============================================================================
