----------------------------- MODULE SshSession -----------------------------
(***************************************************************************)
(* One native SSH session: the entry of the sessions map, the supervisor that *)
(* reads its transport and reconnects, the commands that close it, the SFTP   *)
(* channel with its transfers, and the tasks that save its output.            *)
(*                                                                         *)
(* The map is behind a mutex that is never held across an await: one action   *)
(* is one critical section, or one await between two of them.                 *)
(***************************************************************************)
EXTENDS Integers, FiniteSets

CONSTANTS
  Links,        \* bound on the transports that can be opened
  Attempts,     \* attempts to reconnect (RECONNECT_BACKOFF_SECS)
  Command,      \* tasks of commands that end the session
  Opener,       \* callers of sftp_open
  Opens,        \* bound on the calls of each
  Transfer,     \* transfers
  Chunks,       \* bound on the pieces of output
  MaxFaults     \* bound on failed writes of the history

ASSUME LinksAssumption == Links \in Nat \ {0} /\ Attempts \in Nat \ {0}
ASSUME BoundsAssumption == Opens \in Nat /\ Chunks \in Nat /\ MaxFaults \in Nat

Link == 1..Links
Chunk == 1..Chunks
Nobody == 0             \* no transport
Flusher == [command : Command] \cup [task : {"supervisor", "worker"}]
By(t) == [task |-> t]
Of(c) == [command |-> c]

VARIABLES
  session,   \* the entry: here, status, closing, handle, sftp, chan, gen, pending, flushing
  told,      \* the cancel channel's value has been set
  link,      \* each transport: "none", "open", "shell" (its shell has ended), "gone"
  connect,   \* where the connect command is, and the transport it discards
  sup,       \* the supervisor: where it is, its transport, the next one, attempts made
  cmd,       \* each closing command: what and where it is, the transport it took
  opener,    \* each caller of sftp_open: where it is, transport, generation, calls left
  transfer,  \* each transfer: where it is, its transport and generation, cancelled
  flush,     \* each writer of the history: where it is, what it holds, what it read
  stored,    \* the row of the history: there, and its text
  printed,   \* pieces of output so far
  faults     \* failed writes so far

vars == <<session, told, link, connect, sup, cmd, opener, transfer, flush, stored, printed, faults>>

Live == {"connected", "degraded", "reconnecting"}
Idle == [pc |-> "idle", held |-> {}, base |-> {}]
NoEntry == [here |-> FALSE, status |-> "disconnected", closing |-> FALSE, handle |-> Nobody,
            sftp |-> Nobody, chan |-> 0, gen |-> 0, pending |-> {}, flushing |-> FALSE]

\* What the bounds leave of openers, transfers, output and faults is part of the start.
Init ==
  /\ session = NoEntry /\ told = FALSE
  /\ link = [l \in Link |-> "none"]
  /\ connect = [pc |-> "dial", took |-> Nobody]
  /\ sup = [pc |-> "none", at |-> Nobody, next |-> Nobody, tries |-> 0]
  /\ cmd = [c \in Command |-> [kind |-> "none", pc |-> "idle", took |-> Nobody]]
  /\ opener \in [Opener -> [pc : {"idle"}, via : {Nobody}, gen : {0}, left : 0..Opens]]
  /\ \E p \in {"none", "over"} :
       transfer = [t \in Transfer |-> [pc |-> p, via |-> Nobody, gen |-> 0, cancel |-> FALSE]]
  /\ flush = [f \in Flusher |-> Idle]
  /\ stored = [here |-> FALSE, text |-> {}]
  /\ printed \in 0..Chunks /\ faults \in 0..MaxFaults

Usable(l) == l \in Link /\ link[l] \in {"open", "shell"}
Fresh(l) == link[l] = "none" /\ \A k \in 1..(l - 1) : link[k] # "none"
Disconnected(l) == [k \in Link |-> IF k = l THEN "gone" ELSE link[k]]
Fault == faults < MaxFaults /\ faults' = faults + 1

-----------------------------------------------------------------------------
(* Saving output: a writer takes what is pending, reads the row and writes it. *)

\* A bug: the output is copied and stays pending.
TakeCopies(f) ==
  /\ flush[f].pc = "take"
  /\ IF session.here /\ session.pending # {}
     THEN flush' = [flush EXCEPT ![f] = [pc |-> "select", held |-> session.pending, base |-> {}]]
     ELSE flush' = [flush EXCEPT ![f].pc = "ok"]
  /\ UNCHANGED <<session, told, link, connect, sup, cmd, opener, transfer, stored, printed, faults>>

\* flush_session_history moves the output out of the entry.
Take(f) ==
  /\ flush[f].pc = "take"
  /\ IF session.here /\ session.pending # {}
     THEN /\ flush' = [flush EXCEPT ![f] = [pc |-> "select", held |-> session.pending, base |-> {}]]
          /\ session' = [session EXCEPT !.pending = {}]
     ELSE flush' = [flush EXCEPT ![f].pc = "ok"] /\ UNCHANGED session
  /\ UNCHANGED <<told, link, connect, sup, cmd, opener, transfer, stored, printed, faults>>

\* append_output reads the row; there may be none yet, or no longer.
Select(f) ==
  /\ flush[f].pc = "select"
  /\ \/ stored.here /\ flush' = [flush EXCEPT ![f].pc = "update", ![f].base = stored.text]
        /\ UNCHANGED faults
     \/ ~stored.here /\ flush' = [flush EXCEPT ![f].pc = "restore"] /\ UNCHANGED faults
     \/ Fault /\ flush' = [flush EXCEPT ![f].pc = "restore"]
  /\ UNCHANGED <<session, told, link, connect, sup, cmd, opener, transfer, stored, printed>>

\* It writes what it read with what it holds, in a statement of its own.
Update(f) ==
  /\ flush[f].pc = "update"
  /\ \/ /\ stored' = IF stored.here
                     THEN [stored EXCEPT !.text = flush[f].base \cup flush[f].held]
                     ELSE stored
        /\ flush' = [flush EXCEPT ![f] = [pc |-> "ok", held |-> {}, base |-> {}]]
        /\ UNCHANGED faults
     \/ Fault /\ flush' = [flush EXCEPT ![f].pc = "restore"] /\ UNCHANGED stored
  /\ UNCHANGED <<session, told, link, connect, sup, cmd, opener, transfer, printed>>

\* A failed write puts the output back in front of what has come since.
Restore(f) ==
  /\ flush[f].pc = "restore"
  /\ session' = IF session.here THEN [session EXCEPT !.pending = @ \cup flush[f].held] ELSE session
  /\ flush' = [flush EXCEPT ![f] = [pc |-> "err", held |-> {}, base |-> {}]]
  /\ UNCHANGED <<told, link, connect, sup, cmd, opener, transfer, stored, printed, faults>>

Flush(f) == Take(f) \/ Select(f) \/ Update(f) \/ Restore(f)
Flushed(f) == flush[f].pc \in {"ok", "err"}

\* spawn_flush_session_history, by the supervisor's interval or a full buffer.
SpawnWorker ==
  /\ sup.pc = "reading"
  /\ session.here /\ session.pending # {} /\ ~session.flushing
  /\ flush[By("worker")].pc = "idle"
  /\ session' = [session EXCEPT !.flushing = TRUE]
  /\ flush' = [flush EXCEPT ![By("worker")].pc = "take"]
  /\ UNCHANGED <<told, link, connect, sup, cmd, opener, transfer, stored, printed, faults>>

\* flush_session_history_worker goes on until nothing is pending or a write fails.
WorkerLoops ==
  LET w == By("worker")
      again == session.here /\ flush[w].pc = "ok" /\ session.pending # {}
  IN  /\ Flushed(w)
      /\ flush' = [flush EXCEPT ![w].pc = IF again THEN "take" ELSE "idle"]
      /\ session' = [session EXCEPT !.flushing = @ /\ again]
      /\ UNCHANGED <<told, link, connect, sup, cmd, opener, transfer, stored, printed, faults>>

-----------------------------------------------------------------------------
(* connect. *)

\* What every path that ends the session does to its entry.
DetachedBare == [session EXCEPT !.closing = TRUE, !.sftp = Nobody, !.chan = 0, !.handle = Nobody]
Detached == [session EXCEPT !.closing = TRUE, !.sftp = Nobody, !.chan = 0, !.gen = @ + 1,
                            !.handle = Nobody]
Closed(s) == [s EXCEPT !.closing = TRUE, !.status = "disconnected"]

\* cancel_sftp_transfers_for_session
Sweep == transfer' = [t \in Transfer |->
  IF transfer[t].pc \in {"running", "copied", "replacing"}
  THEN [transfer[t] EXCEPT !.cancel = TRUE] ELSE transfer[t]]

\* connect_native: the transport is open, the entry made and its supervisor spawned.
Establish ==
  /\ connect.pc = "dial"
  /\ \/ \E l \in Link :
          /\ Fresh(l)
          /\ link' = [link EXCEPT ![l] = "open"]
          /\ session' = [NoEntry EXCEPT !.here = TRUE, !.status = "connected", !.handle = l]
          /\ sup' = [sup EXCEPT !.pc = "reading", !.at = l]
          /\ connect' = [connect EXCEPT !.pc = "save"]
     \/ connect' = [connect EXCEPT !.pc = "failed"] /\ UNCHANGED <<session, link, sup>>
  /\ UNCHANGED <<told, cmd, opener, transfer, flush, stored, printed, faults>>

\* save_session makes the row, even after a purge; a first line is appended to it.
Save ==
  /\ connect.pc \in {"save", "append"}
  /\ \/ /\ connect.pc = "save" /\ stored' = [stored EXCEPT !.here = TRUE]
        /\ connect' = [connect EXCEPT !.pc = "append"] /\ UNCHANGED faults
     \/ /\ connect.pc = "append" /\ stored.here
        /\ connect' = [connect EXCEPT !.pc = "done"] /\ UNCHANGED <<stored, faults>>
     \/ /\ connect.pc = "append" /\ ~stored.here
        /\ connect' = [connect EXCEPT !.pc = "detach"] /\ UNCHANGED <<stored, faults>>
     \/ Fault /\ connect' = [connect EXCEPT !.pc = "detach"] /\ UNCHANGED stored
  /\ UNCHANGED <<session, told, link, sup, cmd, opener, transfer, flush, printed>>

\* discard_unpersisted_session, in its three critical sections.
Discard ==
  /\ \/ /\ connect.pc = "detach"
        /\ session' = IF session.here THEN [Detached EXCEPT !.status = "disconnected"] ELSE session
        /\ told' = (told \/ session.here)
        /\ connect' = [pc |-> "shut", took |-> session.handle] /\ UNCHANGED <<link, transfer>>
     \/ /\ connect.pc = "shut"
        /\ link' = Disconnected(connect.took)
        /\ connect' = [pc |-> "sweep", took |-> Nobody] /\ UNCHANGED <<session, told, transfer>>
     \/ /\ connect.pc = "sweep" /\ Sweep
        /\ connect' = [connect EXCEPT !.pc = "remove"] /\ UNCHANGED <<session, told, link>>
     \/ /\ connect.pc = "remove"
        /\ session' = NoEntry
        /\ connect' = [connect EXCEPT !.pc = "failed"] /\ UNCHANGED <<told, link, transfer>>
  /\ UNCHANGED <<sup, cmd, opener, flush, stored, printed, faults>>

-----------------------------------------------------------------------------
(* The supervisor. *)

At(p) == sup.pc = p
To(p) == sup' = [sup EXCEPT !.pc = p]
Cancelled == told \/ ~session.here    \* the channel's value is set, or its sender dropped
Over == [pc |-> "done", at |-> Nobody, next |-> Nobody, tries |-> 0]

\* set_session_health
Health(s) ==
  session' = IF session.here /\ ~(session.closing /\ s # "disconnected")
             THEN [session EXCEPT !.status = s] ELSE session

\* The server prints something: it is buffered if the session still exists.
Receive ==
  /\ At("reading") /\ link[sup.at] = "open" /\ printed < Chunks
  /\ printed' = printed + 1
  /\ session' = IF session.here THEN [session EXCEPT !.pending = @ \cup {printed + 1}] ELSE session
  /\ UNCHANGED <<told, link, connect, sup, cmd, opener, transfer, flush, stored, faults>>

\* The supervisor waits in a select!: it is told to stop, or the channel closes.
Reading ==
  /\ At("reading")
  /\ \/ Cancelled /\ sup' = Over
     \/ /\ link[sup.at] # "open"
        /\ IF session.here /\ ~session.closing /\ session.status \in Live
           THEN To("degrade") ELSE sup' = Over
  /\ UNCHANGED <<session, told, link, connect, cmd, opener, transfer, flush, stored, printed, faults>>

Degrade ==
  /\ At("degrade") /\ Health("degraded")
  /\ sup' = [sup EXCEPT !.pc = "try", !.tries = 0]
  /\ UNCHANGED <<told, link, connect, cmd, opener, transfer, flush, stored, printed, faults>>

\* The next attempt, or none is left.
Try ==
  /\ At("try")
  /\ IF sup.tries < Attempts
     THEN Health("reconnecting") /\ sup' = [sup EXCEPT !.pc = "backoff", !.tries = @ + 1]
     ELSE Health("failed") /\ To("flush")
  /\ flush' = IF sup.tries < Attempts THEN flush ELSE [flush EXCEPT ![By("supervisor")].pc = "take"]
  /\ UNCHANGED <<told, link, connect, cmd, opener, transfer, stored, printed, faults>>

\* The wait before an attempt ends with the timer or with the cancel channel.
Backoff ==
  /\ At("backoff")
  /\ \/ Cancelled /\ Health("disconnected") /\ To("last")
        /\ flush' = [flush EXCEPT ![By("supervisor")].pc = "take"]
     \/ (IF told THEN sup' = Over ELSE To("dial")) /\ UNCHANGED <<session, flush>>
  /\ UNCHANGED <<told, link, connect, cmd, opener, transfer, stored, printed, faults>>

\* open_native_transport against the cancel channel.
Dial ==
  /\ At("dial")
  /\ \/ Cancelled /\ sup' = Over /\ UNCHANGED link
     \/ To("try") /\ UNCHANGED link
     \/ \E l \in Link :
          /\ Fresh(l) /\ link' = [link EXCEPT ![l] = "open"]
          /\ sup' = [sup EXCEPT !.pc = "install", !.next = l]
  /\ UNCHANGED <<session, told, connect, cmd, opener, transfer, flush, stored, printed, faults>>

\* A bug: the new transport keeps the old generation.
InstallSameGeneration ==
  /\ At("install")
  /\ IF session.here /\ ~session.closing
     THEN session' = [session EXCEPT !.sftp = Nobody, !.chan = 0, !.handle = sup.next] /\ To("sweep")
     ELSE To("orphan") /\ UNCHANGED session
  /\ UNCHANGED <<told, link, connect, cmd, opener, transfer, flush, stored, printed, faults>>

\* install_reconnected_handle
Install ==
  /\ At("install")
  /\ IF session.here /\ ~session.closing
     THEN session' = [session EXCEPT !.sftp = Nobody, !.chan = 0, !.gen = @ + 1, !.handle = sup.next]
          /\ To("sweep")
     ELSE To("orphan") /\ UNCHANGED session
  /\ UNCHANGED <<told, link, connect, cmd, opener, transfer, flush, stored, printed, faults>>

\* A transport that nobody owns is disconnected.
Orphan ==
  /\ At("orphan")
  /\ link' = Disconnected(sup.next) /\ sup' = Over
  /\ UNCHANGED <<session, told, connect, cmd, opener, transfer, flush, stored, printed, faults>>

Installed ==
  /\ At("sweep") /\ Sweep /\ To("up")
  /\ UNCHANGED <<session, told, link, connect, cmd, opener, flush, stored, printed, faults>>

Up ==
  /\ At("up") /\ Health("connected")
  /\ sup' = [pc |-> "reading", at |-> sup.next, next |-> Nobody, tries |-> 0]
  /\ UNCHANGED <<told, link, connect, cmd, opener, transfer, flush, stored, printed, faults>>

\* After the last attempt, or a cancelled one, what is pending is saved.
Saved ==
  /\ sup.pc \in {"flush", "last"} /\ Flushed(By("supervisor"))
  /\ flush' = [flush EXCEPT ![By("supervisor")].pc = "idle"]
  /\ IF At("flush") THEN To("clear") ELSE sup' = Over
  /\ UNCHANGED <<session, told, link, connect, cmd, opener, transfer, stored, printed, faults>>

\* clear_native_session_resources, and the entry is dropped.
Clear ==
  /\ \/ /\ At("clear") /\ To("cancel") /\ UNCHANGED transfer
        /\ session' = IF session.here
                      THEN [session EXCEPT !.handle = Nobody, !.sftp = Nobody, !.chan = 0, !.gen = @ + 1]
                      ELSE session
     \/ At("cancel") /\ Sweep /\ To("remove") /\ UNCHANGED session
     \/ At("remove") /\ session' = NoEntry /\ sup' = Over /\ UNCHANGED transfer
  /\ UNCHANGED <<told, link, connect, cmd, opener, flush, stored, printed, faults>>

-----------------------------------------------------------------------------
(* Commands that end the session. *)

CmdAt(c, p) == cmd[c].pc = p
Goto(c, p) == cmd' = [cmd EXCEPT ![c].pc = p]
Finish(c) == cmd' = [cmd EXCEPT ![c] = [kind |-> "none", pc |-> "done", took |-> Nobody]]
Rest == UNCHANGED <<connect, sup, opener, printed, faults>>

\* close_session or cancel_reconnect ("close"), or the deletion of the connection.
Call(c, k) ==
  /\ CmdAt(c, "idle") /\ connect.pc # "dial"
  /\ cmd' = [cmd EXCEPT ![c] = [kind |-> k, pc |-> IF k = "delete" THEN "collect" ELSE "sweep", took |-> Nobody]]
  /\ UNCHANGED <<session, told, link, transfer, flush, stored>> /\ Rest

CancelTransfers(c) ==
  /\ CmdAt(c, "sweep") /\ Sweep /\ Goto(c, "detach")
  /\ UNCHANGED <<session, told, link, flush, stored>> /\ Rest

\* A bug: the generation stays when the entry gives up its transport.
DetachSameGeneration(c) ==
  /\ CmdAt(c, "detach")
  /\ session' = IF session.here THEN DetachedBare ELSE session
  /\ told' = (told \/ session.here)
  /\ cmd' = [cmd EXCEPT ![c].pc = "shut", ![c].took = session.handle]
  /\ UNCHANGED <<link, transfer, flush, stored>> /\ Rest

\* The entry gives up its transport and the supervisor is told.
Detach(c) ==
  /\ CmdAt(c, "detach")
  /\ session' = IF session.here THEN Detached ELSE session
  /\ told' = (told \/ session.here)
  /\ cmd' = [cmd EXCEPT ![c].pc = "shut", ![c].took = session.handle]
  /\ UNCHANGED <<link, transfer, flush, stored>> /\ Rest

\* The transport that was taken is disconnected, after the deletion's other steps.
Shut(c) ==
  /\ CmdAt(c, "shut")
  /\ link' = Disconnected(cmd[c].took)
  /\ cmd' = [cmd EXCEPT ![c].took = Nobody, ![c].pc = IF cmd[c].kind = "delete" THEN "purge" ELSE "mark"]
  /\ UNCHANGED <<session, told, transfer, flush, stored>> /\ Rest

\* The entry is marked, if it is still there, and what is pending is saved.
Mark(c) ==
  /\ CmdAt(c, "mark") /\ cmd[c].kind # "delete"
  /\ IF session.here
     THEN /\ session' = Closed(session)
          /\ flush' = [flush EXCEPT ![Of(c)].pc = "take"] /\ Goto(c, "flush")
     ELSE Finish(c) /\ UNCHANGED <<session, flush>>
  /\ UNCHANGED <<told, link, transfer, stored>> /\ Rest

\* close_sessions_for_connection looks for transports first, ...
Collect(c) ==
  /\ CmdAt(c, "collect")
  /\ cmd' = [cmd EXCEPT ![c].pc = "mark",
                        ![c].took = IF session.status \in Live THEN session.handle ELSE Nobody]
  /\ UNCHANGED <<session, told, link, transfer, flush, stored>> /\ Rest

\* ... then marks the sessions that are live.
MarkDeleted(c) ==
  /\ CmdAt(c, "mark") /\ cmd[c].kind = "delete"
  /\ IF session.here /\ session.status \in Live
     THEN /\ session' = [Closed(session) EXCEPT !.handle = Nobody] /\ told' = TRUE
          /\ flush' = [flush EXCEPT ![Of(c)].pc = "take"] /\ Goto(c, "flush")
     ELSE Goto(c, "shut") /\ UNCHANGED <<session, told, flush>>
  /\ UNCHANGED <<link, transfer, stored>> /\ Rest

\* A bug: the entry is dropped only if its output could be saved.
RemoveSaved(c) ==
  /\ CmdAt(c, "flush") /\ Flushed(Of(c))
  /\ session' = IF flush[Of(c)].pc = "ok" THEN NoEntry ELSE session
  /\ flush' = [flush EXCEPT ![Of(c)].pc = "idle"]
  /\ IF cmd[c].kind = "delete" THEN Goto(c, "shut") ELSE Finish(c)
  /\ UNCHANGED <<told, link, transfer, stored>> /\ Rest

\* The entry is dropped, whether or not its output could be saved.
Remove(c) ==
  /\ CmdAt(c, "flush") /\ Flushed(Of(c))
  /\ session' = NoEntry
  /\ flush' = [flush EXCEPT ![Of(c)].pc = "idle"]
  /\ IF cmd[c].kind = "delete" THEN Goto(c, "shut") ELSE Finish(c)
  /\ UNCHANGED <<told, link, transfer, stored>> /\ Rest

\* delete_connection_history
Purge(c) ==
  /\ CmdAt(c, "purge") /\ Finish(c)
  /\ stored' = [here |-> FALSE, text |-> {}]
  /\ UNCHANGED <<session, told, link, transfer, flush>> /\ Rest

Commands(c) ==
  \/ CancelTransfers(c) \/ Detach(c) \/ Shut(c) \/ Mark(c) \/ Collect(c) \/ MarkDeleted(c)
  \/ Remove(c) \/ Purge(c)

-----------------------------------------------------------------------------
(* SFTP: the channel and its transfers. *)

\* sftp_open: a generation is claimed, ...
Open(o) ==
  /\ opener[o].pc = "idle" /\ opener[o].left > 0
  /\ session.here /\ session.status = "connected"
  /\ session.sftp = Nobody /\ session.handle # Nobody
  /\ session' = [session EXCEPT !.gen = @ + 1]
  /\ opener' = [opener EXCEPT ![o] = [pc |-> "opening", via |-> session.handle,
                                       gen |-> session.gen + 1, left |-> @.left - 1]]
  /\ UNCHANGED <<told, link, connect, sup, cmd, transfer, flush, stored, printed, faults>>

\* ... the channel opened over the transport, and installed if no other one was claimed.
Opened(o) ==
  /\ opener[o].pc = "opening"
  /\ opener' = [opener EXCEPT ![o] = [@ EXCEPT !.pc = "idle", !.via = Nobody, !.gen = 0]]
  /\ \/ /\ Usable(opener[o].via)
        /\ session.here /\ session.status = "connected" /\ session.gen = opener[o].gen
        /\ session' = [session EXCEPT !.sftp = opener[o].via, !.chan = opener[o].gen]
     \/ UNCHANGED session
  /\ UNCHANGED <<told, link, connect, sup, cmd, transfer, flush, stored, printed, faults>>

Set(t, r) == transfer' = [transfer EXCEPT ![t] = r]
Transferring == UNCHANGED <<session, told, link, connect, sup, cmd, opener, flush, stored, printed, faults>>
Ended == [pc |-> "over", via |-> Nobody, gen |-> 0, cancel |-> FALSE]

\* start_transfer takes the channel, ...
Begin(t) ==
  /\ transfer[t].pc = "none"
  /\ session.here /\ session.status = "connected" /\ session.sftp # Nobody
  /\ Set(t, [pc |-> "starting", via |-> session.sftp, gen |-> session.chan, cancel |-> FALSE])
  /\ Transferring

\* ... and is registered later, if no other transfer runs.
Register(t) ==
  /\ transfer[t].pc = "starting"
  /\ IF \E u \in Transfer : transfer[u].pc \in {"running", "copied", "replacing"}
     THEN Set(t, Ended) ELSE Set(t, [transfer[t] EXCEPT !.pc = "running"])
  /\ Transferring

\* The copy ends, is cancelled or fails.
Copy(t) ==
  /\ transfer[t].pc = "running"
  /\ \/ Usable(transfer[t].via) /\ Set(t, [transfer[t] EXCEPT !.pc = "copied"])
     \/ Set(t, Ended)
  /\ Transferring

\* A bug: the check asks for a connected session instead of the channel it used.
CheckConnected(t) ==
  /\ transfer[t].pc = "copied"
  /\ IF session.here /\ session.sftp # Nobody /\ session.status = "connected"
     THEN Set(t, [transfer[t] EXCEPT !.pc = "replacing"]) ELSE Set(t, Ended)
  /\ Transferring

\* ensure_sftp_generation, before the target is replaced.
Check(t) ==
  /\ transfer[t].pc = "copied"
  /\ IF session.here /\ session.sftp # Nobody /\ session.chan = transfer[t].gen
     THEN Set(t, [transfer[t] EXCEPT !.pc = "replacing"]) ELSE Set(t, Ended)
  /\ Transferring

Replace(t) ==
  /\ transfer[t].pc = "replacing"
  /\ Set(t, Ended)
  /\ Transferring

\* sftp_cancel_transfer
CancelTransfer(t) ==
  /\ transfer[t].pc \in {"running", "copied", "replacing"} /\ ~transfer[t].cancel
  /\ Set(t, [transfer[t] EXCEPT !.cancel = TRUE])
  /\ Transferring

Run(t) == Register(t) \/ Copy(t) \/ Check(t) \/ Replace(t)

-----------------------------------------------------------------------------
\* The server: a shell ends, a transport is lost.
Lose(l) ==
  /\ \/ link[l] = "open" /\ \E s \in {"shell", "gone"} : link' = [link EXCEPT ![l] = s]
     \/ link[l] = "shell" /\ link' = [link EXCEPT ![l] = "gone"]
  /\ UNCHANGED <<session, told, connect, sup, cmd, opener, transfer, flush, stored, printed, faults>>

Supervise ==
  \/ Reading \/ Degrade \/ Try \/ Backoff \/ Dial \/ Install \/ Orphan \/ Installed \/ Up
  \/ Saved \/ Clear

Next ==
  \/ Establish \/ Save \/ Discard
  \/ Supervise \/ Receive \/ SpawnWorker \/ WorkerLoops
  \/ \E f \in Flusher : Flush(f)
  \/ \E c \in Command : Commands(c) \/ \E k \in {"close", "delete"} : Call(c, k)
  \/ \E o \in Opener : Open(o) \/ Opened(o)
  \/ \E t \in Transfer : Begin(t) \/ Run(t) \/ CancelTransfer(t)
  \/ \E l \in Link : Lose(l)

Spec == Init /\ [][Next]_vars

\* Tasks that have begun go on; so do the writes they wait for.
Fairness ==
  /\ WF_vars(Save \/ Discard) /\ WF_vars(Supervise) /\ WF_vars(WorkerLoops)
  /\ \A f \in Flusher : WF_vars(Flush(f))
  /\ \A c \in Command : WF_vars(Commands(c))

-----------------------------------------------------------------------------
(* Properties. *)

Entries == [here : BOOLEAN, status : Live \cup {"disconnected", "failed"}, closing : BOOLEAN,
            handle : 0..Links, sftp : 0..Links, chan : Nat, gen : Nat,
            pending : SUBSET Chunk, flushing : BOOLEAN]
Connects == [pc : {"dial", "save", "append", "detach", "shut", "sweep", "remove", "done", "failed"},
             took : 0..Links]
Supervisors == [pc : {"none", "reading", "degrade", "try", "backoff", "dial", "install", "orphan",
                      "sweep", "up", "flush", "last", "clear", "cancel", "remove", "done"},
                at : 0..Links, next : 0..Links, tries : 0..Attempts]
Closings == [kind : {"none", "close", "delete"}, took : 0..Links,
             pc : {"idle", "sweep", "detach", "shut", "mark", "collect", "flush", "purge", "done"}]
Openings == [pc : {"idle", "opening"}, via : 0..Links, gen : Nat, left : 0..Opens]
Copies == [pc : {"none", "starting", "running", "copied", "replacing", "over"},
           via : 0..Links, gen : Nat, cancel : BOOLEAN]
Writes == [pc : {"idle", "take", "select", "update", "restore", "ok", "err"},
           held : SUBSET Chunk, base : SUBSET Chunk]

TypeOK ==
  /\ session \in Entries /\ told \in BOOLEAN
  /\ link \in [Link -> {"none", "open", "shell", "gone"}]
  /\ connect \in Connects /\ sup \in Supervisors
  /\ cmd \in [Command -> Closings] /\ opener \in [Opener -> Openings]
  /\ transfer \in [Transfer -> Copies] /\ flush \in [Flusher -> Writes]
  /\ stored \in [here : BOOLEAN, text : SUBSET Chunk]
  /\ printed \in 0..Chunks /\ faults \in 0..MaxFaults

\* While a session is shown as connected and nobody closes it, keystrokes, output and
\* files use one transport: the entry's is the one the supervisor reads, and an SFTP
\* channel rides it, whatever reconnect falls between the two sections of sftp_open.
OneTransport ==
  session.here /\ ~session.closing /\ session.status = "connected" =>
    /\ session.handle # Nobody
    /\ sup.pc \in {"reading", "degrade"} => session.handle = sup.at
    /\ session.sftp \in {Nobody, session.handle}

\* Once somebody has begun to end the session, a supervisor in the middle of a
\* reconnect, or an sftp_open, brings nothing back: no transport, channel or live status.
NoRevival ==
  [][session.closing /\ session'.here =>
       /\ session'.closing
       /\ session'.handle \in {Nobody, session.handle}
       /\ session'.sftp \in {Nobody, session.sftp}
       /\ session'.status \in {"disconnected", session.status}]_vars

\* However writes of the history fail and meet, a piece of output is in one place only:
\* pending, with one writer, or in the row. None is ever saved twice.
OnceInTranscript ==
  /\ \A f \in Flusher : session.pending \cap flush[f].held = {}
  /\ session.pending \cap stored.text = {}
  /\ \A f, g \in Flusher : f # g => flush[f].held \cap flush[g].held = {}
  /\ \A f, g \in Flusher : flush[f].held \cap flush[g].base = {}

\* A transfer replaces its target only if the channel it copied over is, at that
\* time, the session's: not one of a transport that a reconnect has replaced.
TransferIsCurrent ==
  [][\A t \in Transfer : transfer[t].pc = "copied" /\ transfer'[t].pc = "replacing" =>
       session.here /\ transfer[t].via = session.sftp
         /\ (~session.closing => transfer[t].via = session.handle)]_vars

\* A session that somebody ends, or that cannot be reconnected, leaves memory, and its
\* supervisor ends, even if its history cannot be saved.
SessionEnds ==
  session.closing \/ session.status = "failed" ~>
    ~session.here /\ sup.pc = "done"
=============================================================================
