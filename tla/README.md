# Unfour: TLA+ models of workspace cloud sync, flow runs and terminal sessions

Unfour is a local-first desktop workbench (Tauri shell, React pages, Rust engines over one SQLite
database) with an MCP server beside it. This directory models the parts in which several actors
meet: *workspace cloud sync*, an account-scoped outbox that replicates local documents to a server
through crashes, lost answers, account switches and pauses, with the hierarchies it replicates; the
*flow engine*, whose runs race with timeouts, cancellations and a second process; and the *SSH
engine*, whose sessions reconnect while they are being closed and whose tasks replace files. TLC checks the models on small
instances, and TLAPS proves the safety properties of all of them for every instance.

Paths below are relative to `src/`; `CS` is `crates/unfour-cloud-sync/src`.

| module | what it is |
| --- | --- |
| `SyncOutbox` | the replication loop of one bound workspace: outbox, attempts, pull, push, conflicts, server |
| `SyncTree` | what the loop does to a hierarchy: one API collection with folders and requests |
| `WorkspaceStore` | the workspace engine's tables and settings, its commands, and the pages applied to them |
| `SyncFlight` | the single-flight gate: who runs a workspace's rounds, permits, triggers, errors |
| `SyncBinding` | the life of a binding: accounts, pauses, the credential gate, the fences of a flight |
| `FlowRun` | one run of a flow: its row, its task, the external capability, other actors and processes |
| `FlowHistory` | what the history of a run promises its readers; `FlowRun` implements it |
| `SshSession` | one native SSH session: entry, supervisor, closing commands, SFTP, transcript |
| `SshTask` | the runs of one SSH task: steps, files, cancellation, history rows, logs and retention |
| `SyncOutboxProofs`, `SyncTreeProofs`, `SyncFlightProofs`, `SyncBindingProofs`, `FlowRunProofs`, `SshSessionProofs`, `SshTaskProofs`, `WorkspaceStoreProofs` | theorems |
| `MCSyncOutbox`, `MCSyncTree`, `MCWorkspaceStore`, `MCSyncFlight`, `MCSyncBinding`, `MCFlowRun`, `MCSshSession`, `MCSshTask` | instances for TLC (values, symmetry, named constraints) |

`PROJECT.json` lists the components, the runs, the source lines each definition stands for, the
mutants that show each property can fail, the findings, the hazards and the theorems.

## 1. Inventory of the system

| part | state it keeps | operations | hard behaviour | correct when |
| --- | --- | --- | --- | --- |
| sync: outbox, push, pull, conflicts (`CS/repository`, `CS/service`) | outbox heads (one per entity), attempts, entity versions and conflict shadows, cursor, binding state and counters | enqueue with an edit; rounds: recover leases, pull, push batches, pull; keep-local, use-remote, retry of a dead letter | edits during a flight, lost answers, crashes, own operations coming back, stale reads across awaits | no edit is lost or doubled; caught up means equal; versions never run ahead; rows do not wait for ever |
| sync: scopes, retained envelopes, external apply (`CS/conflict_scope.rs`, `CS/repository/remote_entities.rs`, the engines' `external_apply`) | envelopes, the hierarchy of business rows | intent check of a page, apply by kind, replay parents first, push order, both conflict choices over a subtree | a page is judged before it is applied; cascades on both sides | the tree keeps its shape; queued edits are left alone; settled means equal |
| sync: single-flight gate (`CS/service/worker.rs`) | `flights` map (running, dirty), semaphore, task-local errors | enter, take_dirty, drop, acquire, record_error | triggers between two critical sections, panics, account switches | one flight per workspace; permits conserved; failures shown; every edit carried |
| sync: scheduler (`worker.rs`) | interval, retry timer, wake-up | tick, hint, retry | the timer armed before an await | retries fire for the live account only |
| sync: binding lifecycle (`CS/repository/bindings.rs`) | binding row (enabled, state, generation, last_error), pause reasons, active account, Global Sync | activate, deactivate, enable, disable, global, claim, assert, set state, record error | many writers fenced by one generation | user pauses stick; context pauses are undone for their owner; nothing is sent when paused |
| account session (`crates/unfour-account`) | keychain session, generation, pending sign-in, entitlement cache | sign in, sign out, expire, refresh, billing | answers of an older session arriving late | an old answer never touches a newer session |
| desktop shell (`apps/desktop/src-tauri`) | credential gate | account refresh, sign-out with cleanup, IPC | refresh in four awaits; cleanup after revocation | credentials leave only for the account that was verified |
| flow engine: runs (`crates/flow-engine/src/runner.rs`, `storage.rs`) | run rows with steps and attempts, `cancel_requested`, heartbeat | start, step, attempt, wait-until, cancel, settle, recover stale, purge | result vs timeout vs cancel; two processes on one row; failed writes | no effect is hidden, no result overturned, one final status |
| flow engine: definitions (`definitions.rs`, `expression.rs`, `validation.rs`) | definitions with revisions | save with compare-and-swap, validate, evaluate | two editors | one of them wins |
| ssh engine: sessions and SFTP (`crates/ssh-engine/src/ssh`) | sessions map (status, transport, channel, generation, pending output), transfers, history rows | connect, supervise, reconnect, close, cancel, delete, sftp_open, transfer, flush | critical sections with awaits between them; several writers of one row | one transport per session; nothing revived; nothing saved twice; every ended session leaves |
| ssh engine: task runs (`crates/ssh-engine/src/task`) | registry of runs, run rows, logs, temporary files and backups | run, cancel, step, transfer, finish, prune, clear, delete | failures between renames; cancels between steps; clears beside runs; overlapping runs | no file is lost; no step after a cancel; the history tells the truth; history is bounded |
| ssh engine: definitions, host keys | tasks and steps, known hosts | save, trust | — | sequential safety |
| workspace engine (`crates/workspace-engine`) | workspaces, environments, variables, default, active, selected | CRUD with cascades, exact-replace lists, external apply | foreign deletes under the user; unique names row by row | always a live workspace; no orphan; local settings stay local |
| http, database engines | collections and requests, pools, row mutations | execute, import, CRUD | pools, drivers | sequential safety of each command |
| command bus, MCP server | request ids, call control, credential locks | dispatch, cancel, shut down | cancel vs answer | each call is answered once |
| local storage, secrets, core, telemetry, diagnostics, paths, UI | SQLite, keychain, settings, page state | I/O, conversions, presentation | — | — |

How they meet: a command (UI or MCP) runs through the command bus, whose transaction commits the
business rows and, through the mutation hook, one outbox head per entity. A hint wakes the worker;
the worker, or a command, enters the gate (`SyncFlight`) and runs rounds (`SyncOutbox`), each of
which reads and fences the binding row (`SyncBinding`) and takes a credential from the desktop
shell's gate for every request. Pages of the change stream reach the engines through their external
apply (`SyncTree`, `WorkspaceStore`). Flow runs call the other engines through the command bus; the
deletion of a workspace purges their history (`FlowRun`). SSH sessions live in memory and in the
terminal history (`SshSession`); a task run has a connection of its own (`SshTask`).

## 2. SyncOutbox: the replication loop

*State.* `doc`/`rev` are the business row and its `content_revision`; `head` is the row of
`cloud_sync_outbox` (operation id, payload or `Deferred`, base version, revision, status, and
whether a retry time is set); `attempts`, `st` (server version, conflict, shadow) and `cursor` are
their tables; `binding` has the binding's state and `initial_confirmed`. `pc`, `batch`, `pinned`
and `pushed` are locals of the running round, `resolver` those of a conflict command between its
reads and its transaction. `log`, `sver`, `top` are the server's change stream and versions,
`net`/`reply` the request on its way and the answer on its way back.

*Actions.* `Edit` is the hook's transaction (`enqueue_mutations_on`). `StartRound` recovers expired
leases, for any subset of the rows in flight. `PullPage` is one page in one transaction: `AckOwn`,
`ShadowRemote` or `ApplyRemote`, then `advance_cursor_on`. `SelectBatch`, `BuildBatch` and
`SendBatch` are the three awaits of `push_one_batch` (select, materialise, mark in flight and
send); the outcomes are `PushApplied`, `PushConflicts`, `PushUnknown`, `PushNotSent`,
`PushPermanent`, `PushReleased`. `FinishPush` and `CloseRound` end the round. `KeepLocalReads`/
`KeepLocalCommits` and `UseRemoteReads`/`UseRemoteCommits` split each conflict command at its
transaction, since that is where the code awaits. `Crash` drops the round at any point.

*The server* is not in the repository; it is modelled from what the client relies on: a batch
commits whole or not at all, an operation id it has committed is answered again without effect,
any other operation must name the current version, and an unprocessed request may be processed
long after the client has given up. Those definitions are marked external.

*Abstractions.* Documents are opaque values, tombstones among them. Pages of one change stand for
pages of any length, since a longer page does nothing that shorter ones do not. Leases (45 s),
retry times and back-off are reduced to "expired or not" and "due or not". Enabling again is only
taken between rounds here (a change of generation ends a running round: `SyncBinding`). Retained
envelopes, conflict scopes and the parent-first order of `due_outbox` are `SyncTree`'s. Not
modelled: rows waiting for compatibility, use-remote of a dead letter, and what a round that fails
stores as the binding's `last_error`: four codes (workspace deleted, not found, snapshot required,
permanent failure) stop the rounds that follow until the user retries (`worker.rs` 369-375), a pull
can store any of them, and a push the last one when the row it blames was replaced in flight. In the model
such a binding is merely in error and the next round runs; `SyncBinding` has codes that park it.

| property | says |
| --- | --- |
| `NoLostEdit` | an edit shown on the device is queued or at the server |
| `CaughtUpAgrees` | with the stream pulled, an entity with nothing queued and no conflict equals the server's |
| `NeverAhead` | known versions and bases never exceed the server's: such a row could never be accepted |
| `IntentSurvives` | a row leaves the outbox only when the server has its operation or the user takes the remote side |
| `OperationImmutable`, `CommittedOnce` | one id, one payload; one edit, one commit |
| `EventuallySettled` | a queued row leaves, or the state shown to the user says why it stays |

*Runs.* `outbox_one` (one entity captured by snapshot, both conflict choices, dead-letter retry, two
edits, two foreign commits, two faults, about 2.2 million states) reaches every action and checks
`NoLostEdit`, `CaughtUpAgrees`, `NeverAhead` and `IntentSurvives`. `outbox_two` (two entities, eager
and deferred capture, batches of up to two) checks `OperationImmutable` and `CommittedOnce`, which
need two rows: batches with one stale member, operation ids, partial permanent failures.
`outbox_live` checks `EventuallySettled` under `FairSpec`. Two edits are enough to have an old
operation in flight, a newer one queued and a deferred payload materialised between; two foreign
commits give a stale shadow a newer one; two faults allow a lost answer followed by a crash.

*Named bounds.* `MaxEdits`, `MaxWrites`, `MaxFaults` cap the budget of `spent`. `PromptResolver`, a
constraint on steps that `outbox_one` takes: while what a use-remote has read waits for its
transaction, only conflict choices and crashes step. Without it `CaughtUpAgrees` fails, which is the
run `outbox_stale_shadow`. `CommittedOnce` is checked without dead-letter retries: a retry sends the same
content under a fresh id on purpose, so the content may be committed twice when the dead
operation's first copy still arrives.

*Fairness.* A round that has begun goes on (`WF` of its steps); the worker's loop never ends
(`worker.rs` 63-123), so rounds keep starting, and since leases and retry times end, some rounds
find all leases expired and some find a given row due (`SF` of `StartRound(InFlight)` and, for each
entity, of `SelectBatch` with it); a request that is waited for is answered (`WF`; the client's
timeout is the fault `PushUnknown`). No fairness is assumed for edits, foreign writes, faults or
the user.

## 3. SyncTree: a hierarchy under the loop

One collection with folders and requests. `row` is the device's tables, `head`, `st` and `kept` the
outbox, the entity state with its conflict shadow and the retained envelopes, `blocked` the binding's
conflict state, `srv` and `log` the server's rows and the part of its stream beyond the cursor.

*Actions.* `Create`, `Rename`, `Move`, `Delete` are the commands of `http-engine`'s
`collections.rs`/`requests.rs` with the intents their transaction enqueues; a delete buries its
subtree (`Doomed`) and enqueues each row of it. `CloudUpsert` and `CloudDelete` are other devices'.
`PullPage(k)` is `prepare_remote_change_with_aggregate_root_on` over k changes, the merge of several
changes of one entity (`LastOfEach`), the apply by kinds (`Apply`, with the passes over folders) and
the record of what was applied, in one transaction: a hard error rolls the page back and the action
is not enabled. `Replay` is `reapply_retained_remote`. `Push` takes a due operation in the order of
`due_outbox`. `KeepLocal` and `UseRemote` act on a conflict with the scope of its delete.

The server checks a base version and that a parent can hold a child, and takes a deleted folder's
content with it, children first; those definitions are external. `SharedCascade` says whether such a
cascade carries the operation id of the pushed delete; the run takes it not to.

A page is a set of positions in a sequence of changes: the stream for `PullPage`, the retained
envelopes in the order of `Topology` for `Replay`, one shadow for `UseRemote`. `Topology` lists the
entities as `remote_entities_on` sorts them: collection, folders, requests, each by id. A walk up
the tree (`Above`) is as long as there are holders, which no chain of parents outruns.

*Abstractions.* One request pushes one operation, and its answer is not lost (`SyncOutbox`). Names
stand for the documents' content; an order of siblings is not modelled. Bounds: `PageLimit` changes
per page, `MaxEdits` commands here, `MaxWrites` operations elsewhere; `Restores` lets others recreate
what was deleted.

| property | says |
| --- | --- |
| `WellFormed` | a live node sits in a live parent, and parent edges end at the collection, through tombstones too |
| `IntentUntouched` | only a command of the user changes a row whose edit stays queued |
| `Converges` | with nothing queued, in conflict or unread, the device shows the server's tree |

*Run.* `tree`: two folders side by side or nested, with a request, one command here, two operations
elsewhere, pages of two, a created request, both conflict choices. A move and a delete in one page, a
delete meeting an edit inside the folder, and an edit of a folder deleted elsewhere all happen.
Deadlock is not checked: a page that the apply refuses is refused for good (section 11).
`PageLimit` is two because longer pages break `IntentUntouched`: that is the run `tree_page`, with
pages of four.
`Converges` leaves out what use-remote of a folder's delete buries, and it does not hold of every
tree: with a third folder and a third operation elsewhere a subtree can stay buried (section 11 has
both). The run shows it for two operations elsewhere, and it holds there with pages of four too.

## 4. WorkspaceStore: workspaces, environments, variables

`store` is the three tables of `workspace-engine` (a row is absent, live or deleted, with its name or
key), the defaults, the active workspace and the environment selected in each. One workspace is
`Shared`: `queued` and `conflict` are its entities with an intent or a conflict, `cloud` its rows at
the server, `log` its stream.

*Actions.* Every command that changes which rows live: create, rename, delete of workspaces and
environments, with their cascades and fallbacks (`NextActive`, `NextSelected`), variables one by one,
and the two commands that replace a whole list (`ReplaceVariables`, `UpdateEnvironment`), which
delete what is not shown and revive what is. `PullPage` is intent check and external apply, unique
keys checked row by row, in one transaction. `Push` sends an intent whose base is current. The other
device runs the same program (`CloudCreate`, `CloudRename`, `CloudDelete`, `CloudReplace`) and can
restore what was deleted (`CloudRestore`).

*Abstractions.* `Rank` fixes which of equal candidates a query puts first. Values, colours, sort
orders, secrets and bundles are left out. What becomes of a conflict is `SyncTree`'s; here it stays.
So is the replay of retained envelopes after a complete pull (`pull.rs` 193, 199-287), which is left
out here. The delete of a workspace that the device does not have does nothing, where the code fails the page
(`external_apply/workspace.rs` 41); the shared workspace, the only one in the stream, is always there.
Bounds: `PageLimit`, `MaxEdits`, `MaxWrites`, and the ids: a fallback for which none is left fails its page.

| property | says |
| --- | --- |
| `Closed` | no live environment or variable sits under a deleted parent |
| `Anchored` | the active workspace lives; a selected environment is a live one of its workspace |
| `LocalFieldsKept` | a pull changes the active, default and selected ones only when they are gone |
| `IntentUntouched` | a pull never changes a row whose edit stays queued |
| `Converges` | settled, the device shows what the server holds |

*Run.* `workspace`: the shared workspace with an environment, its variable and two variables, alone;
or with one variable fewer and a workspace of the device's own; ids for a third workspace and a second
environment, one command here and two elsewhere, pages of two. Deadlock is not checked: commands are bounded, and a page may be refused.

## 5. SyncFlight: the single-flight gate

`flights` is the `HashMap` of `FlightState` (a missing entry has both flags down), `task` the state
of each task in `sync_workspace_for`, `free` the semaphore of four permits (`Limit`), `session` the
account generation. `row` is what a flight meets of the binding: whether it is enabled, and its
generation; `shown` its `last_error`. A round is reduced to three steps: `RoundStarts`
(`account_is_current`, `ensure_protocol`), `Claim` (`claim_generation`, which puts the session's
generation on the row if that is enabled, and reads the local revision), and its end, with success
or failure.

`TakeDirty`, `Finish`, `Leave` and `Unlock` are separate steps because they are separate critical
sections. `Record` is `record_error`: it updates the row only while that carries the generation of
the flight's session, and whether the statement itself fails nobody asks. So a first round that fails before its
claim, and one overtaken by a pause, show nothing. `SetEnabled` is a pause or a resumption, by the user
or by a sign-out and the return from it; each raises the row's generation. `Dismissing` is an error
that goes away by a manual retry, a resumption or an account lookup; which one goes is a free choice.
`Panic` is an unwinding or a dropped future: the guards are released by their `Drop`s. The switch of
Global Sync is `SyncBinding`'s.

| property | says |
| --- | --- |
| `OneFlight` | no two tasks run rounds for a workspace |
| `PermitsBalance` | free permits and permits held add up to the limit |
| `FailureShown` | a flight that ends on a failure, had claimed its row and still owns it, leaves with the error on the row, or dismissed since its last claim, unless `record_error` failed too |
| `EveryEditSynced` | in the end every edit is carried or its workspace is paused, merged and lost triggers included |

*Run.* `flight`: two workspaces, a command and the tick over one permit; one edit (of the first
workspace), one trigger, one fault (a panic, a round that fails, a record that fails) and one move (a new session or a
pause), about 235 000 states. That is three tasks, so that one can run, one wait at the semaphore and
one merge its trigger; the theorems cover any number of each. *Named bounds*: `MaxEdits`,
`MaxTriggers`, `MaxFaults`, `MaxMoves`. *Fairness*: the interval ticks (`WF`), tasks run (`WF`), the
semaphore is FIFO (`SF` of `Acquire`). Two strong assumptions are about commands only:
ticks come minutes apart (`PERIODIC_PULL`), so one of them does not fall into *every* account lookup
or *every* gap between a round's end and the look for triggers; without them a flight could be
marked dirty for ever by triggers that would have to be in step with it. Nobody is assumed to resume
a paused workspace.

## 6. SyncBinding: accounts, pauses and fences

`session` and `gate` are the desktop session and `SyncAccessGate`; `active`, `row`, `reason`,
`global` are the tables (`cloud_sync_runtime_context`, `..._workspace_bindings`,
`..._account_binding_pause_reasons`, account settings). `flight` is where each account's flight is
between two awaits, with what it last read of its row and the credential its request carries.
`command`, `refresh` and `cleanup` are a user command, the account refresh and a sign-out's late
cleanup between theirs. `paused` and `late` are history: what the user paused last, and pushes
sent since sync is off.

The transactions of `bindings.rs` are operators (`ActivateAccount`, `DeactivateAccount`,
`SetEnabled`, `SetGlobal`), and there are three fences in the code, kept apart in the model:
`SameSession` (`account_is_current`), `Current` (`assert_binding_generation_on`: enabled, not paused,
Global Sync on, same generation) and `Fenced` (`set_binding_state`, `advance_cursor_on`: same
generation only). What a round meets (dead letters, conflicts, a drained outbox) is a free choice.

| property | says |
| --- | --- |
| `PauseSticks` | what the user paused is resumed by Enable only |
| `OnePushAfterPause` | at most one push leaves after sync is switched off |
| `ContextPauses` | a remembered context pause is a disabled row of an inactive account the user did not pause |

*Run.* `binding_pause`: two accounts, two account events (sign-in, sign-out, expiry, restart, lost
entitlement), one command, about 4.4 million states. *Named bounds*: `MaxEvents`, `MaxCommands`; one
command, one account refresh and one cleanup at a time; `OneAloft`, one flight aloft at a time (the
rows of two accounts meet only in `ActivateAccount` and `DeactivateAccount`); `late` is counted up
to 2. Two events and a command give every pair of writers of a row around a flight. The proofs do
not use `OneAloft`, `MaxEvents` or `MaxCommands`.

*Abstractions.* `last_error` is refused credentials, a code that parks the binding, or any other;
binding states `conflict` and `uploading` are `SyncOutbox`'s; a second trigger during a flight is
`SyncFlight`'s. Commands act for the account they looked up, as the code does.

## 7. FlowRun: a run of a flow

`row` is the row of `flow_runs` (the run, `cancel_requested`, whether the heartbeat is fresh), `run`
the task's own copy, `kind` the definition it was started with, `live` whether workspace and
definition still exist. `pc` and `at` are the task's place in `execute_run`, `work` its place in the
step's future, `signal` the interrupt that has cancelled the token, `result` what the future ended
with. `call` and `done` are the external capability: the latest call of each step and the effects
that took place. `late` counts effects begun although the row was over.

*Actions.* `Prepare`, `Insert`, `Spawn` are `start_run`; `Head` and `Start` the loop; `Unattempted`,
`Attempt`, `Branch`, `Refuse`, `Withdraw`, `Call`, `Answer`, `TooLarge`, `RecordAnswer`, `Judge`, `Retry`, `Wake`
one step of any kind (action, probe, wait-until, wait, branch) with the executor of the command bus;
`Timeout`, `Heartbeat` and `GraceExpires` the other branches of the `select!`; `Completed`,
`Abandoned`, `Settle` and `Final` what becomes of the result. Each write of the row is fenced by
`status = 'running'` (`Held`) and may fail (`Unwritten`). `Die` is a crash; `Stale` a task that does
not beat for 30 seconds, dead or suspended; `RecoverStale` the recovery by any process; `Cancel`,
`DeleteFlow` and `DeleteWorkspace` other actors. The effect of a call (`TakeEffect`) happens at any
time until it is answered, and even after it is dropped.

*Abstractions.* Predicates, inputs, outputs, the times of waits, whether arguments resolve and the later
step that a definition may name as the next one (`Ahead`) are free choices; codes keep what
the code branches on. Bounds: `Steps`, `MaxTries`, `MaxFaults` (failed writes, crashes, stalls),
`MaxEvents` (cancellations, deletions).

| property | says |
| --- | --- |
| `NothingHidden` | a call that is out, or was dropped, is an open or uncertain attempt of the row; a step shown as cancelled or timed out had nothing under way |
| `ResultStands` | an action shown as succeeded has acted, and a received success is never shown as anything else |
| `OneLateEffect` | once the row is over or gone, at most one call is made |
| `PurgeIsFinal` | no write brings back the history of a deleted workspace |
| `IsHistory` | the run as readers see it is a `FlowHistory`: forward only, one step at a time, final |
| `RunEnds` | a running row ends, is found interrupted or is purged |

*Refinement.* `FlowHistory` has five actions over the status and the steps a reader sees. `FlowRun`
maps to it with `decode_run`'s view of interrupted runs (`Shown`) and with `purged` for a deleted
workspace. Its `EndsAs` allows what the code does: a run that fails because its history could not be
written leaves the step it was at as it was, running or succeeded.

*Run.* `flow_run`: flows of three steps with every kind among them and a branch over a step, two
attempts, two faults, two events: a failed write followed by a crash, a stall with a recovery
meanwhile, a cancellation against a timeout. Deadlock is not checked: runs end. *Fairness*: the task
goes on (`WF`) unless it dies, timeouts and the grace window expire (`WF`), a row whose task is over
or dead becomes stale and is recovered by some reader (`WF`: readers recover on every listing and
start). Nothing is assumed of the capability's answer, of heartbeats, or of other actors.

## 8. SshSession: one terminal session

The sessions map is behind a mutex that is never held across an await; an action is one critical
section, or one await between two. `session` is the entry (status, closing, transport, channel with
its generation, pending output), `told` the cancel channel, `link` the transports: open, with an
ended shell, or gone. `connect`, `sup`, `cmd`, `opener`, `transfer` and `flush` are where the connect
command, the supervisor, closing commands, callers of `sftp_open`, transfers and writers of the
history are. `stored` is the row in `terminal_history`.

*Actions.* `Establish`, `Save`, `Discard` are `connect_native` and `discard_unpersisted_session`;
`Reading` to `Clear` the supervisor with its attempts (in `spawn_native_supervisor`); `Call` to
`Purge` the commands: `close_session` and `cancel_reconnect` in the same four sections,
`close_sessions_for_connection` in its two, with the purge of the history last. `Open` claims a
generation, `Opened` installs the channel if no other was claimed; `Begin`, `Register`, `Copy`,
`Check`, `Replace` are a transfer. `Take`, `Select`, `Update`, `Restore` are
`flush_session_history` with `append_output`, which reads and writes the row in two statements.

*Abstractions.* Pieces of output are members of sets: their order is not modelled, and only what the
server prints is counted. The caps of the buffers (512 KB, 256 KB of tail) are not reached. Input,
resize, events, host keys, the stored status, the simulated transport and the two steps in which an
uploaded file replaces its target are left out; so are two more writers of the history, the first line of
a connection (`session.rs` 67-75), whose read and write can race the worker's and lose a piece, and
`session_history` (`session.rs` 170-177), which flushes like any other writer. Whether a
transport that nobody holds any more is closed is not stated: dropping its handle closes it (russh). Bounds: `Links` transports, `Attempts` reconnects,
`Opens` calls of each opener, `Chunks` pieces, `MaxFaults` failed writes.

| property | says |
| --- | --- |
| `OneTransport` | while connected and not being closed, the entry, the supervisor and the channel use one transport |
| `NoRevival` | once somebody ends the session, nothing gives it a transport, a channel or a live status |
| `OnceInTranscript` | a piece of output is pending, with one writer, or in the row; never saved twice |
| `TransferIsCurrent` | a transfer replaces its target only over the session's present channel |
| `SessionEnds` | a session that is ended or given up leaves memory, and its supervisor ends, even if its history cannot be saved |

*Run.* `ssh_session`: two transports, one attempt, one closing command of either kind, in two halves
that share no property: files (one opener with two calls, one transfer) or output (one piece, one
failed write). Two generations of the channel, a reconnect during any section of a close, and a
failed write with a second writer all happen; the theorems cover both halves together and any number
of each. Deadlock is not checked: everything ends. *Fairness*: tasks that have begun go on (`WF` of
the supervisor, each command, each writer, the save after connect); transfers, users and the server
get none. So `SessionEnds` says nothing of transfers: deleting a connection does not sweep them
(`connection.rs` 226-312).

## 9. SshTask: the runs of a task

`run` is where each run is in `run_task` and `execute_task_background`, its step, how its steps ended
and its outcome; `registry` and `told` are the map of runs that can be cancelled and the cancel channel
(with the step it found the run in); `row` and `log` are the row of `ssh_task_run` and the log file of
each run; `file` has, for each transfer of the task, its target, temporary file and backup; `sweep` is
where each clear and the deletion are; `task` says whether the task is live.

*Actions.* `Prepare`, `CreateLog`, `Insert`, `Register` are `run_task`; `Connect` and `NextStep` the
connection and the loop of `execute_serial`; `Command` a command with exit status, signal, timeout or
cancel; `OpenFile`, `Copy`, `Backup`, `Swap`, `Restore`, `Tidy` an upload or a download, one action per
file operation that a crash can come after (the server may also do a renaming and its answer be lost); `FinishLog`, `FinishRow`, `Leave`, `List`, `Prune` the end
with its retention. `Cancel`, `ClearList`, `ClearRows`, `Delete`, `ClearLogs` are the commands beside
it (a clear of the whole workspace does not ask for the task), `Elsewhere` the workspace cascade and a pull, `Crash` the end of the process.

*Abstractions.* Contents are `old`, `part` or `new`. Inputs, output and its cap, events and secrets
are left out, and so is the time of a run: the index of a run orders the start times. Age is a free
choice (`old` in `List`). Bounds: `Runs`, `MaxRuns` (100 in the code), `MaxFaults` failed statements and
crashes, `MaxDeletes` deletions and returns of the task.

| property | says |
| --- | --- |
| `FileSafe` | while runs do not overlap, a file that was there is whole, at its place or in its backup |
| `CancelHolds` | no step begins after a cancel (proved, and in no run) |
| `HistoryTrue` | the status written tells how the steps ended, and is written once |
| `LogKept` | a log is there while it is written, and whole once its row is finished |
| `Bounded` | when nothing runs, no more finished runs are kept than the limit, not counting those whose own cleanup failed, met a deleted task or was cut off by a crash (`Unswept`) |
| `RunLeaves` | however a run ends, it leaves the registry; it leaves its row running only if the statement that finishes that row failed |

*Run.* `ssh_task`: two runs of a command that may fail, an upload and a download that overwrite, with
one run kept, one failed statement or crash, one clear and one deletion. `OneAtATime` in `MCSshTask`
keeps the instance small by taking one question at a time: either there are files to be replaced, or
the history is cleared and the task deleted beside its runs, or the runs overlap. The theorems are
about every combination. Deadlock is not checked: runs end.

## 10. Findings shown by a run

Two runs end in a violation, each of one property that states what a document or a comment of the
repository says; `PROJECT.json` quotes the lines.

| run | property | what the code does |
| --- | --- | --- |
| `outbox_stale_shadow` | `CaughtUpAgrees` | use-remote applies the shadow it read earlier and clears a newer one |
| `tree_page` | `IntentUntouched` | intents are judged by the hierarchy before the page; a page that moves a folder into another and deletes both buries a request created here, with its intent queued |

## 11. Behaviour worth knowing

Seen while modelling, each reproducible by checking the formula on the module named; they are not
runs of their own.

*Cloud sync.*
- `SyncOutbox`, `[][CloseRound /\ (\A e : ~Queued(e) /\ ~st[e].conflict) /\ binding.state #
  "conflict" => binding'.state = "active"]_vars`: fails. An initial operation acknowledged by a pull
  (`reconciliation.rs` 66) is not counted in `initial_confirmed`, so `worker.rs` 517 never activates.
- `SyncOutbox`, `pc = "idle" /\ cursor = top /\ binding.state = "conflict" => \E e : st[e].conflict`:
  fails. An acknowledgement clears the last conflict (`reconciliation.rs` 88) but not the binding's
  state, and `worker.rs` 407 refuses every later round.
- `SyncBinding`, `\A a : a = active /\ a = session.account /\ a \notin paused => row[a].enabled`:
  fails. A flight marks a row as an error after the sign-out has paused it, and the owner's return
  forgets the reason (`bindings.rs` 119 and 192).
- `SyncBinding`, `[][\A a : Off(a) /\ flight[a].pc = "page" => flight'[a].pc # "pull"]_vars`: fails.
  After its pushes a round re-reads its binding, adopts a pause's generation and pulls on.
- `SyncFlight`: a trigger between the last look for one and the guard's drop is erased; the next
  tick serves it (`EveryEditSynced`).
- `SyncFlight`, `\A t \in Task : task[t].pc = "leaving" /\ task[t].last = "failed" => shown[task[t].ws]
  # "none"`: fails. The first round of a session that fails in `ensure_protocol` has not claimed its row,
  so `record_error` finds another generation there and updates nothing (`bindings.rs` 535-546).
- `SyncTree`, `pc = "pull" => \A k \in 1..PageLimit : k <= Len(log) => Apply(row, log,
  LastOfEach(log, Received(k).safe)).ok`: fails. Of a
  request moved and then deleted in one page only the delete stays; its parent is not the row's, which
  is a hard error, in every round.
- `SyncTree`: use-remote of a folder's delete also buries a child that was moved out of it at the
  server, and use-remote of a child under a locally deleted parent always fails. With `Restores`, a
  creation under a folder that was deleted and restored is acknowledged and not applied; with
  `SharedCascade` the tombstones of a cascade are.
- `SyncTree`, `Converges` with folders F, G and H, a request R in H, H in F, `MaxWrites = 3`, pages
  of two: fails. Elsewhere H is moved from F to G and F is deleted, while G is deleted here. The upsert of H
  meets no intent of its own and is left out under the deleted G; the delete of F then buries H and R
  here. H is moved out of G elsewhere before the push of G's delete, so that H comes back with the
  next page, but nothing in the stream or among the retained envelopes brings R back.
- `WorkspaceStore`, `\A k \in 1..PageLimit : k <= Len(log) => Page(k).ok` with `Start <- OnlyAlone`,
  `MaxEdits = 0`: fails. A list saved
  elsewhere deletes one variable and gives its key to another; the upsert comes first in the stream,
  and `uq_workspace_variables_key` refuses the page every time (`variable.rs` 132). Two devices that
  create one key offline, and a remote rename to a name that is taken, end the same way.
- `WorkspaceStore`: what is pushed under a parent that was deleted and restored between pull and push
  stays buried (`Converges` leaves it out by `spent.restored`). Two live defaults are possible. A list
  saved from a stale page deletes what a pull has brought and revives tombstones.

*SSH sessions.*
- With `Chunks = 2`, `session.here => \A k \in 1..printed : k \in session.pending \cup stored.text
  \cup UNION {flush[f].held : f \in Flusher}`: fails without a fault, in sixteen steps. `append_output` reads the row and writes it in two statements; a worker and a closing command
  that read the same row leave the pieces of one of them (`terminal_history.rs` 63). They can also
  reorder pieces.
- A transport installed between the two sections of `close_sessions_for_connection` is dropped
  instead of disconnected. A `connect` whose `save_session` runs after the purge leaves a row.
- A transfer that began before a reconnect and registers after the sweep runs on over the old
  transport; its target is not replaced. `finalize_remote_upload` asks for an existing target early.

*SSH tasks.*
- `SshTask`, `FileSafe` without its condition: fails. Temporary file and backup are named by the
  step, so two runs of one task share them. One run sets the target aside and puts the new one in its
  place; the other sets that aside, finds no temporary file, and comes to restore what the first
  has removed as its backup (`upload_step.rs` 115). Nothing refuses a second run.
- `SshTask`, `\A r \in Run : At(r, "dead") => row[r] # "running"`: fails. After a crash the row says
  running for ever, and `clear_task_runs` and `delete_task` pass over it or are refused.
- `run_task` reads the task and inserts its run without looking again: a run of a task deleted in
  between works on. A run that ends between the two statements of `clear_task_runs` loses its row and
  leaves its log. A run that takes longer than a hundred others is pruned when it ends.
- `SshTask`, `Active = {} => Cardinality(Finished) <= MaxRuns`: fails. `execute_task_background` ignores
  a failed cleanup (`mod.rs` 276), and a task that is deleted and comes back is not cleaned up in
  between: the rows above the limit stay until the cleanup of the next run.
- Only an upload that cannot set its target aside goes on: it then asks for a rename over it, which
  servers may refuse.

## 12. Proofs

All theorems are proved by TLAPS without assumptions other than the `ASSUME`s of the modules (finite
sets, positive limits, natural bounds), and for every value of the constants.

*SyncOutbox.* `TypeCorrect`, `NoEditIsLost`, `OperationsAreImmutable`, `IntentsSurvive`. `NoLostEdit`
is not inductive: an acknowledgement deletes a row, and it takes knowing that the row's operation
was sent with exactly the row's content, that the server commits what was sent, and that the reply
names committed operations. `Safe` in `SyncOutboxProofs` says so part by part: a row carries the
current revision and content (`RowOK`), rows never share an id (`RowsDiffer`), an attempt of a queued
row has its content (`AttemptOK`), the flight's batch agrees with the rows it still owns and holds
no conflicted entity (`BatchOK`), what the server has was sent (`LogOK`), what it answers is
committed (`ReplyOK`), a shadow, and what a conflict command read, is content the server has or the
row has since moved past (`ConflictOK`, `ChoiceOK`). There is one lemma per group of actions and
the action property is proved with the invariant (`StepSafe`).

*SyncFlight.* `FlightTypes`, `FlightsExclude`, `PermitsAreConserved`, `FailuresAreShown`, from one
invariant: a guard's owner owns the running mark (`Owned`), and at each point of a flight its error is
still to be recorded, belongs to another session, or is shown (`Reported`). The last part looks at the
row's generation: once a flight has claimed its row, that only rises until the next claim (`Honest`), so
that if it is still the flight's own when it leaves, it was when the error was recorded.

*SyncBinding.* `BindingTypes`, `UserPausesStick`, `ContextPausesRemembered`, `OnePushLeaves`. The
invariant adds that a pending command has an account (`Commanded`) and that once a late push has been
sent the flight is at a point from which it cannot push before it claims or settles
(`LateSpent`), which both fail while sync is off.

*FlowRun.* `RunTypes`, `EffectsAreShown`, `ResultsStand`, `OneCallAtMost`, `PurgesAreFinal`, and
`RunIsHistory`: the run implements `FlowHistory`. None of them is inductive, because the row that
readers see lags behind the task's copy, and by how much depends on where the task is. The invariant
says where the task may be for what its copy says (`Position`), which call a step may have for where
its work is (`Calls`, `Answers`, `Action`), that the attempt of a call is in the row before the call is
made (`Attempts`), how far the row may lag (`Behind`, `Mirror`) and what a task whose row is over can
still do (`Late`). The refinement is one lemma per action: a step maps to a step of the history or to
a stutter.

*SshSession.* `SessionTypes`, `ConnectedIsOneTransport`, `NothingIsRevived`, `TranscriptOnce`,
`TransfersStayCurrent`. The invariant: nobody knows the session before it exists (`Unknown`); an entry
that is gone is empty, one that is being closed has no transport (`Entry`); the supervisor of a live
session works on the entry's transport (`Supervised`); generations tell openers and channels apart, and
only the latest opener may install (`Channels`); a transfer of the present generation uses the
present channel's transport (`Transfers`); and what is pending or held is in no text that is
stored or was read (`Pieces`). `NoRevival` and `TransferIsCurrent` are then read off single steps.

*SyncOutbox, the order of things* (the second half of `SyncOutboxProofs`, on top of the invariant above).
`VersionsNeverAhead`, `EntitiesAgree`, `EditsCommittedOnce`, `KeepersAgree`, `KeepersCommitOnce`. `Ordered`: the
stream counts up, an operation is in it once, and neither the device nor a request names a version
above the server's. `Seen`: a device pulls before it pushes, so every foreign change up to the base
of a row or request was pulled when it was taken. `Rows`: a request the server would still take
belongs to a row that is still queued; an entity's shown document is that of the latest change
pulled, or queued on top of it; an acknowledged row is the last own change. Two hypotheses are
stated in the theorems. `PromptResolver` on every step: without it `CaughtUpAgrees` is false
(`outbox_stale_shadow`), and it is needed only for use-remote: `KeepersAgree` and
`KeepersCommitOnce` have no schedule, for a user who keeps the local side. `~Repairs` for
`CommittedOnce`, because a retry of a dead letter commits its content again on purpose; `Fresh` is the
strengthening: what the server would still take carries content that is in no change yet.

*SshTask.* `TaskTypes`, `FilesAreSafe`, `CancelsHold`, `HistoryIsTrue`, `LogsAreKept`, `RunsLeave`,
`HistoryIsBounded`. `FileSafe` is not inductive: that a removal of the backup is harmless rests on the
new file being whole when it takes its place. The invariant adds that runs that have not overlapped
are one at a time (`Alone`), and that a run that moves a file owns the temporary file of its step,
which is `part` while it copies, `new` when the target is set aside and the target itself when the
backup goes (`Transferring`). For the history, how the steps of a run ended is known at each place it
can be (`Books`), and its row is not final before it comes to finish it. Logs stay because only those
of runs past their end are ever listed, and an absent row never returns. `Bounded` is inductive in
the form `Trimmed`: whichever of the runs are still to miss their cleanup, and all that have not listed
yet among them, the others leave no more than the limit of what has finished, since the last of them to
list listed everything that was finished then and removes what was over the limit. Runs that miss their
cleanup have thus been reckoned with before they do. This counts, with lemmas on what the newest `MaxRuns` of a
finite set leave.

*Types.* The type invariants of these modules are theorems and in no run.

*WorkspaceStore.* `StoreTypes`, `NoOrphans`, `AlwaysAnchored`, `LocalFieldsStay`, `IntentsUntouched`,
`StoreConverges`, for any ids, starts and pages of any length. The invariant is what the unique indexes, the cascades and
the fallbacks keep together (`Kept`), which each command, and each change of a page, maps to
itself; a delete of the last workspace finds a name for its successor because nothing is live any more.
`Step` says what one change may do to a store and `Follows` what the changes read so far may have
done: rows outside their scopes are as they were, and the active workspace or a selected environment
was left only for one that the page has settled as deleted. That no later change of the page revives
it is what `LastOfEach` is for. The passes are recursive functions; that they have a value at every
position (`Loop`), and what holds there (`Upward`), is proved by a least counterexample, because the
library's induction theorems take an operator and cannot be instantiated.

`StoreConverges` needs an invariant about the stream and not only about the tables (`Converging`). Of the
stream: the server shows the latest change of each entity in it, has or had the home of each, and
unless a deleted parent was restored a holder deleted in it is deleted still. Of the device, while
nothing waits for the user: an entity that is neither queued nor in the stream is the same on both
sides, or gone here under a queued delete of what it sits in (`AllAgree`). The weak point is the upsert
that finds no live parent and is left out for good. `AllHoused` is what makes it harmless: if the
parent lives at the server and is not itself in the stream before the upsert, then it lives here, or
an intent explains that it does not, and that intent will take the child along at the server or
come into conflict. A page keeps this because its passes go parents first and only the last change of
an entity stays (`Keyed`, `PageAgrees`); a command because it buries no holder without
queueing it (`CommandConverges`); a write of the other device because what it changes it also
appends (`StreamGrows`, `GrownShown`, `EditionConverges`); a push because the server's own cascade is in the stream
(`PushConverges`). A restored parent breaks `AllHoused`, which is why the property excludes it.

*SyncTree.* `TreeTypes`, `TreeStaysWhole`, for any entities, starting trees, page lengths and choices.
`Above` computes a closure in a bounded walk; `Walk` shows that the bound is enough (a walk that still
grows has met one more holder at each step) and so that `Above` is the least set of holders closed
under the steps up, and everything about trees follows from that without a recursion: what is put in a
live holder that is not inside it leaves the tree whole (`PutWhole`, with `LiveWalk`: on a whole tree
the walk through live rows that `folder_contains_descendant_on` takes sees all that a walk through
tombstones would), and so does what is buried with all that lives in it (`BuryWhole`,
`DoomedRows`, `DeleteWhole`). `WellFormed` is inductive only together with the types: a delete of
a request alone is harmless because nobody's parent is a request. `ApplyKeeps` carries it through the
passes of a page, whatever the page holds and whichever of its changes are skipped, so that
neither the intent check nor the merge is needed for it: they are needed for `Converges` and
`IntentUntouched`.

*Only model-checked.* `Converges` and `IntentUntouched` of `SyncTree`. Neither holds for every value of
the constants (section 11 and `tree_page`), so there is no theorem to state: the runs show where they
do. In `WorkspaceStore` nothing changes its home, and there both are theorems.
`EventuallySettled`, `EveryEditSynced`, `RunEnds` and `SessionEnds` rest on fairness, which
with `ENABLED` is beyond the prover.

## 13. What is not modelled, and the plan

The next steps, each in place of a run or a property that has become weaker than it:

1. **SyncSnapshot**: staged download, interruption, resume against a stream that has moved, apply.
2. **Refinements** of the sync modules: an abstract replicated register implemented by `SyncOutbox`,
   an abstract mutual exclusion with permits by `SyncFlight`, as properties and as theorems.
3. **AccountSession**: sign-in exchange with epochs, late answers, entitlement cache; it would
   replace the session part of `SyncBinding`.
4. **SyncRecovery**: use-remote of dead letters, protocol revival, subtree repair, compatibility waits.
5. MCP call control, the compare-and-swap of flow definitions, connection pools.
6. `SyncTree`: which moves elsewhere keep `Converges`, as a condition on the stream, and its proof.

The modules stand for about 10 500 lines, 9 % of the implementation. Most of the rest has no
behaviour of its own that a model could be faithful to. It is made of React pages and stores,
command and tool adapters that pass arguments on, conversions (canonical JSON, import and export,
SQL generation, expression evaluation), drivers and wire formats (HTTP, SQL, SSH), migrations,
telemetry and diagnostics bundles, and tests that live beside the sources. Modelling a conversion by
what it does would restate it, and the properties above do not tell its data apart.

## 14. Running it

`tlc -workers 2 -config SyncOutboxOne.cfg MCSyncOutbox`, and so on for each row of `runs` in
`PROJECT.json`; the safety runs of `SyncOutbox`, `SyncFlight` and `SyncBinding` check deadlock, the
other modules' systems do stop, as said above. `tlapm SyncOutboxProofs.tla` (and the others)
checks the proofs.
