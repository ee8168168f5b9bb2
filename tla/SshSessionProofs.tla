-------------------------- MODULE SshSessionProofs --------------------------
(***************************************************************************)
(* Proofs about SshSession, for any number of transports, attempts, commands, *)
(* openers, transfers, pieces of output and faults.                         *)
(***************************************************************************)
EXTENDS SshSession, TLAPS

Ending == session.closing \/ ~session.here

\* Before the session exists nobody knows it.
Unknown ==
  connect.pc = "dial" =>
    /\ session = NoEntry /\ ~told /\ sup.pc = "none"
    /\ \A c \in Command : cmd[c].pc = "idle"
    /\ \A o \in Opener : opener[o].pc = "idle"
    /\ \A t \in Transfer : transfer[t].pc \in {"none", "over"}

\* An entry that is not there is empty; one that is being closed has no transport.
Entry ==
  /\ ~session.here => session = NoEntry
  /\ sup.pc = "none" => ~session.here
  /\ session.closing => session.handle = Nobody
  /\ told => Ending
  /\ \A c \in Command :
       /\ cmd[c].pc = "collect" => cmd[c].kind = "delete"
       /\ cmd[c].kind # "delete" /\ cmd[c].pc \in {"shut", "mark"} => Ending

\* The supervisor of a session that nobody closes works on the entry's transport.
Supervised ==
  /\ sup.pc \in {"install", "sweep", "up"} => sup.next \in Link
  /\ ~Ending =>
       /\ sup.pc \in {"reading", "degrade"} => session.handle = sup.at /\ sup.at \in Link
       /\ sup.pc \in {"sweep", "up"} => session.handle = sup.next
       /\ session.status = "connected" => sup.pc \in {"reading", "degrade"}

\* Generations: the latest opener has the entry's, and its transport.
Channels ==
  /\ ~Ending => session.sftp \in {Nobody, session.handle}
  /\ session.sftp # Nobody => session.chan <= session.gen
  /\ \A o \in Opener : opener[o].pc = "opening" /\ session.here =>
       /\ opener[o].gen <= session.gen
       /\ ~session.closing /\ opener[o].gen = session.gen =>
            opener[o].via = session.handle /\ session.sftp = Nobody
       /\ session.closing /\ session.status = "connected" => opener[o].gen < session.gen
  /\ \A o, p \in Opener : opener[o].pc = "opening" /\ opener[p].pc = "opening" /\ o # p =>
       opener[o].gen # opener[p].gen

\* The transfers of the entry's channel use its transport.
Transfers ==
  \A t \in Transfer : transfer[t].pc \in {"starting", "running", "copied"} /\ session.here =>
    /\ transfer[t].gen <= session.gen
    /\ session.sftp # Nobody /\ session.chan = transfer[t].gen => transfer[t].via = session.sftp
    /\ \A o \in Opener : opener[o].pc = "opening" /\ ~session.closing /\ opener[o].gen = session.gen =>
         transfer[t].gen < session.gen

\* What is pending or held is in no text that is stored or was read.
Pieces ==
  /\ session.pending \subseteq 1..printed /\ stored.text \subseteq 1..printed
  /\ \A f \in Flusher : flush[f].held \subseteq 1..printed /\ flush[f].base \subseteq 1..printed
  /\ session.pending \cap stored.text = {}
  /\ \A f \in Flusher :
       /\ session.pending \cap flush[f].held = {} /\ session.pending \cap flush[f].base = {}
       /\ flush[f].held \cap stored.text = {}
  /\ \A f, g \in Flusher : flush[f].held \cap flush[g].base = {}
  /\ \A f, g \in Flusher : f # g => flush[f].held \cap flush[g].held = {}

Inv == TypeOK /\ Unknown /\ Entry /\ Supervised /\ Channels /\ Transfers /\ Pieces

-----------------------------------------------------------------------------
(* Types. *)

\* The writers that the actions name.
LEMMA FlusherFacts ==
  /\ By("supervisor") \in Flusher /\ By("worker") \in Flusher
  /\ \A c \in Command : Of(c) \in Flusher
BY DEF By, Of, Flusher

\* What the bounds allow.
LEMMA Bounds ==
  Nobody \in 0..Links /\ Link \subseteq 0..Links /\ 0 \in 0..Attempts /\ 0 \in Nat /\ 0 \in 0..Opens
BY LinksAssumption, BoundsAssumption DEF Nobody, Link

\* What the types say of the fields that an action copies or changes.
LEMMA Fields ==
  ASSUME TypeOK
  PROVE  /\ session.handle \in 0..Links /\ session.sftp \in 0..Links
         /\ session.chan \in Nat /\ session.gen \in Nat /\ session.gen + 1 \in Nat
         /\ session.pending \in SUBSET Chunk
         /\ \A f \in Flusher : flush[f].held \in SUBSET Chunk /\ flush[f].base \in SUBSET Chunk
         /\ sup.next \in 0..Links
         /\ \A o \in Opener : opener[o].via \in 0..Links /\ opener[o].gen \in Nat
                              /\ (opener[o].left > 0 => opener[o].left - 1 \in 0..Opens)
         /\ \A c \in Command : cmd[c].took \in 0..Links
         /\ faults < MaxFaults => faults + 1 \in 0..MaxFaults
         /\ printed < Chunks => printed + 1 \in 0..Chunks /\ printed + 1 \in Chunk
         /\ sup.tries < Attempts => sup.tries + 1 \in 0..Attempts
<1>1. session.handle \in 0..Links /\ session.sftp \in 0..Links /\ session.chan \in Nat
      /\ session.gen \in Nat /\ session.gen + 1 \in Nat /\ session.pending \in SUBSET Chunk
  BY DEF TypeOK, Entries
<1>2. \A f \in Flusher : flush[f].held \in SUBSET Chunk /\ flush[f].base \in SUBSET Chunk
  BY DEF TypeOK, Writes
<1>3. \A o \in Opener : opener[o].via \in 0..Links /\ opener[o].gen \in Nat
                        /\ (opener[o].left > 0 => opener[o].left - 1 \in 0..Opens)
  BY BoundsAssumption DEF TypeOK, Openings
<1>4. \A c \in Command : cmd[c].took \in 0..Links
  BY DEF TypeOK, Closings
<1>5. /\ faults < MaxFaults => faults + 1 \in 0..MaxFaults
      /\ printed < Chunks => printed + 1 \in 0..Chunks /\ printed + 1 \in Chunk
  BY BoundsAssumption DEF TypeOK, Chunk
<1>6. sup.next \in 0..Links /\ (sup.tries < Attempts => sup.tries + 1 \in 0..Attempts)
  BY LinksAssumption DEF TypeOK, Supervisors
<1> QED BY <1>1, <1>2, <1>3, <1>4, <1>5, <1>6

\* The entry as the actions write it.
LEMMA EntryTypes ==
  ASSUME TypeOK
  PROVE  /\ NoEntry \in Entries /\ Detached \in Entries /\ Closed(session) \in Entries
         /\ [Detached EXCEPT !.status = "disconnected"] \in Entries
         /\ [Closed(session) EXCEPT !.handle = Nobody] \in Entries
         /\ [session EXCEPT !.handle = Nobody, !.sftp = Nobody, !.chan = 0, !.gen = @ + 1] \in Entries
         /\ \A l \in 0..Links :
              [session EXCEPT !.sftp = Nobody, !.chan = 0, !.gen = @ + 1, !.handle = l] \in Entries
         /\ \A x \in SUBSET Chunk : [session EXCEPT !.pending = @ \cup x] \in Entries
<1>1. NoEntry \in Entries
  BY Bounds DEF NoEntry, Entries, Live, Chunk
<1>2. Detached \in Entries
  BY Bounds, Fields DEF TypeOK, Detached, Entries
<1>3. Closed(session) \in Entries
  BY DEF TypeOK, Closed, Entries
<1>4. \A l \in 0..Links :
        [session EXCEPT !.sftp = Nobody, !.chan = 0, !.gen = @ + 1, !.handle = l] \in Entries
  BY Bounds, Fields DEF TypeOK, Entries
<1>5. \A x \in SUBSET Chunk : [session EXCEPT !.pending = @ \cup x] \in Entries
  BY DEF TypeOK, Entries
<1>6. [Detached EXCEPT !.status = "disconnected"] \in Entries
  BY <1>2 DEF Entries
<1>7. [Closed(session) EXCEPT !.handle = Nobody] \in Entries
  BY <1>3, Bounds DEF Entries
<1>8. [session EXCEPT !.handle = Nobody, !.sftp = Nobody, !.chan = 0, !.gen = @ + 1] \in Entries
  BY Bounds, Fields DEF TypeOK, Entries
<1> QED BY <1>1, <1>2, <1>3, <1>4, <1>5, <1>6, <1>7, <1>8

\* A writer, an opener, a command or the supervisor as the actions write it.
LEMMA TaskTypes ==
  ASSUME TypeOK
  PROVE  /\ \A f \in Flusher : \A p \in {"idle", "take", "update", "restore", "ok"} :
              [flush[f] EXCEPT !.pc = p] \in Writes
         /\ \A x \in SUBSET Chunk : [pc |-> "select", held |-> x, base |-> {}] \in Writes
         /\ \A p \in {"ok", "err"} : [pc |-> p, held |-> {}, base |-> {}] \in Writes
         /\ \A f \in Flusher : \A x \in SUBSET Chunk :
              [flush[f] EXCEPT !.pc = "update", !.base = x] \in Writes
         /\ \A o \in Opener : [opener[o] EXCEPT !.pc = "idle", !.via = Nobody, !.gen = 0] \in Openings
         /\ \A c \in Command : \A l \in 0..Links :
              [cmd[c] EXCEPT !.pc = "mark", !.took = l] \in Closings
         /\ \A p \in {"try", "flush", "orphan", "sweep"} : [sup EXCEPT !.pc = p] \in Supervisors
         /\ sup.tries < Attempts => [sup EXCEPT !.pc = "backoff", !.tries = @ + 1] \in Supervisors
         /\ \A l \in Link : [sup EXCEPT !.pc = "install", !.next = l] \in Supervisors
         /\ Over \in Supervisors
<1>1. /\ \A f \in Flusher : \A p \in {"idle", "take", "update", "restore", "ok"} :
           [flush[f] EXCEPT !.pc = p] \in Writes
      /\ \A x \in SUBSET Chunk : [pc |-> "select", held |-> x, base |-> {}] \in Writes
      /\ \A p \in {"ok", "err"} : [pc |-> p, held |-> {}, base |-> {}] \in Writes
      /\ \A f \in Flusher : \A x \in SUBSET Chunk :
           [flush[f] EXCEPT !.pc = "update", !.base = x] \in Writes
  BY DEF TypeOK, Writes
<1>2. \A o \in Opener : [opener[o] EXCEPT !.pc = "idle", !.via = Nobody, !.gen = 0] \in Openings
  BY Bounds DEF TypeOK, Openings
<1>3. \A c \in Command : \A l \in 0..Links :
        [cmd[c] EXCEPT !.pc = "mark", !.took = l] \in Closings
  BY DEF TypeOK, Closings
<1>4. /\ \A p \in {"try", "flush", "orphan", "sweep"} : [sup EXCEPT !.pc = p] \in Supervisors
      /\ sup.tries < Attempts => [sup EXCEPT !.pc = "backoff", !.tries = @ + 1] \in Supervisors
      /\ \A l \in Link : [sup EXCEPT !.pc = "install", !.next = l] \in Supervisors
      /\ Over \in Supervisors
  BY Bounds, Fields DEF TypeOK, Supervisors, Over
<1> QED BY <1>1, <1>2, <1>3, <1>4

\* A transfer as the actions write it.
LEMMA TransferTypes ==
  ASSUME TypeOK
  PROVE  /\ Ended \in Copies
         /\ \A t \in Transfer : [transfer[t] EXCEPT !.cancel = TRUE] \in Copies
         /\ \A t \in Transfer : \A p \in {"running", "copied", "replacing"} :
              [transfer[t] EXCEPT !.pc = p] \in Copies
BY Bounds DEF TypeOK, Copies, Ended

\* Every step keeps the types.
LEMMA TypeStep == TypeOK /\ [Next]_vars => TypeOK'
<1> SUFFICES ASSUME TypeOK, [Next]_vars PROVE TypeOK'
  OBVIOUS
<1> USE Bounds, Fields
<1>1. CASE Establish
  <2>1. link' \in [Link -> {"none", "open", "shell", "gone"}]
    BY <1>1 DEF Establish, TypeOK
  <2>2. session' \in Entries
    BY <1>1, ZenonT(60) DEF Establish, Fresh, NoEntry, TypeOK, Entries, Live, Chunk
  <2>3. sup' \in Supervisors
    BY <1>1 DEF Establish, Fresh, NoEntry, TypeOK, Supervisors
  <2>4. connect' \in Connects
    BY <1>1 DEF Establish, Fresh, NoEntry, TypeOK, Connects
  <2> QED BY <1>1, <2>1, <2>2, <2>3, <2>4 DEF Establish, Fresh, NoEntry, TypeOK
<1>2. CASE Save
  <2>1. stored' \in [here : BOOLEAN, text : SUBSET Chunk]
    BY <1>2 DEF Save, Fault, TypeOK, Chunk
  <2>2. connect' \in Connects
    BY <1>2 DEF Save, Fault, TypeOK, Connects
  <2>3. faults' \in 0..MaxFaults
    BY <1>2 DEF Save, Fault, TypeOK
  <2> QED BY <1>2, <2>1, <2>2, <2>3 DEF Save, Fault, TypeOK
<1>3. CASE Discard
  <2>1. session' \in Entries
    BY <1>3, EntryTypes DEF Discard, Disconnected, Sweep, TypeOK
  <2>2. told' \in BOOLEAN
    BY <1>3 DEF Discard, Detached, Disconnected, Sweep, NoEntry, TypeOK
  <2>3. connect' \in Connects
    BY <1>3 DEF Discard, Detached, Disconnected, Sweep, NoEntry, TypeOK, Connects
  <2>4. link' \in [Link -> {"none", "open", "shell", "gone"}]
    BY <1>3 DEF Discard, Detached, Disconnected, Sweep, TypeOK, Link
  <2>5. transfer' \in [Transfer -> Copies]
    BY <1>3, TransferTypes DEF Discard, Detached, Disconnected, Sweep, NoEntry, TypeOK
  <2> QED BY <1>3, <2>1, <2>2, <2>3, <2>4, <2>5 DEF Discard, Detached, Disconnected, Sweep, NoEntry,
       TypeOK
<1>4. CASE Reading
  <2>1. sup' \in Supervisors
    BY <1>4 DEF Reading, Cancelled, Over, To, At, TypeOK, Supervisors
  <2> QED BY <1>4, <2>1 DEF Reading, Cancelled, Over, To, At, TypeOK
<1>5. CASE Degrade
  <2>1. session' \in Entries
    BY <1>5 DEF Degrade, At, Health, TypeOK, Entries, Live, Chunk
  <2>2. sup' \in Supervisors
    BY <1>5 DEF Degrade, At, Health, TypeOK, Supervisors
  <2> QED BY <1>5, <2>1, <2>2 DEF Degrade, At, Health, TypeOK
<1>6. CASE Try
  <2>1. session' \in Entries
    BY <1>6 DEF Try, At, Health, To, By, TypeOK, Entries, Live, Chunk
  <2>2. sup' \in Supervisors
    BY <1>6, TaskTypes DEF Try, At, Health, To, By, TypeOK
  <2>3. flush' \in [Flusher -> Writes]
    <3>1. flush' \in {flush, [flush EXCEPT ![By("supervisor")].pc = "take"]}
      BY <1>6 DEF Try
    <3>2. [flush EXCEPT ![By("supervisor")].pc = "take"] \in [Flusher -> Writes]
      BY TaskTypes, FlusherFacts DEF TypeOK
    <3> QED BY <3>1, <3>2 DEF TypeOK
  <2> QED BY <1>6, <2>1, <2>2, <2>3 DEF Try, At, Health, To, By, TypeOK
<1>7. CASE Backoff
  <2>1. session' \in Entries
    BY <1>7 DEF Backoff, At, Cancelled, Health, To, Over, By, TypeOK, Entries, Live, Chunk
  <2>2. sup' \in Supervisors
    BY <1>7 DEF Backoff, At, Cancelled, Health, To, Over, By, TypeOK, Supervisors
  <2>3. flush' \in [Flusher -> Writes]
    <3>1. flush' \in {flush, [flush EXCEPT ![By("supervisor")].pc = "take"]}
      BY <1>7 DEF Backoff
    <3>2. [flush EXCEPT ![By("supervisor")].pc = "take"] \in [Flusher -> Writes]
      BY TaskTypes, FlusherFacts DEF TypeOK
    <3> QED BY <3>1, <3>2 DEF TypeOK
  <2> QED BY <1>7, <2>1, <2>2, <2>3 DEF Backoff, At, Cancelled, Health, To, Over, By, TypeOK
<1>8. CASE Dial
  <2>1. sup' \in Supervisors
    <3>1. \/ sup' \in {Over, [sup EXCEPT !.pc = "try"]}
          \/ \E l \in Link : sup' = [sup EXCEPT !.pc = "install", !.next = l]
      BY <1>8 DEF Dial, To
    <3> QED BY <3>1, TaskTypes
  <2>2. link' \in [Link -> {"none", "open", "shell", "gone"}]
    BY <1>8 DEF Dial, At, Cancelled, Over, To, TypeOK, Link
  <2> QED BY <1>8, <2>1, <2>2 DEF Dial, At, Cancelled, Over, To, Fresh, TypeOK
<1>9. CASE Install
  <2>1. session' \in Entries
    BY <1>9, EntryTypes DEF Install, At, To, TypeOK
  <2>2. sup' \in Supervisors
    BY <1>9 DEF Install, At, To, TypeOK, Supervisors
  <2> QED BY <1>9, <2>1, <2>2 DEF Install, At, To, TypeOK
<1>10. CASE Orphan
  <2>1. link' \in [Link -> {"none", "open", "shell", "gone"}]
    BY <1>10 DEF Orphan, At, Disconnected, Over, TypeOK, Link
  <2>2. sup' \in Supervisors
    BY <1>10 DEF Orphan, At, Disconnected, Over, TypeOK, Supervisors
  <2> QED BY <1>10, <2>1, <2>2 DEF Orphan, At, Disconnected, Over, TypeOK
<1>11. CASE Installed
  <2>1. transfer' \in [Transfer -> Copies]
    BY <1>11, TransferTypes DEF Installed, At, Sweep, To, TypeOK
  <2>2. sup' \in Supervisors
    BY <1>11 DEF Installed, At, Sweep, To, TypeOK, Supervisors
  <2> QED BY <1>11, <2>1, <2>2 DEF Installed, At, Sweep, To, TypeOK
<1>12. CASE Up
  <2>1. session' \in Entries
    BY <1>12 DEF Up, At, Health, TypeOK, Entries, Live, Chunk
  <2>2. sup' \in Supervisors
    BY <1>12 DEF Up, At, Health, TypeOK, Supervisors
  <2> QED BY <1>12, <2>1, <2>2 DEF Up, At, Health, TypeOK
<1>13. CASE Saved
  <2>1. flush' \in [Flusher -> Writes]
    BY <1>13, TaskTypes, FlusherFacts DEF Saved, At, Flushed, To, TypeOK
  <2>2. sup' \in Supervisors
    BY <1>13 DEF Saved, At, Flushed, To, Over, By, TypeOK, Supervisors
  <2> QED BY <1>13, <2>1, <2>2 DEF Saved, At, Flushed, To, Over, By, TypeOK
<1>14. CASE Clear
  <2>1. sup' \in Supervisors
    BY <1>14 DEF Clear, At, To, Sweep, NoEntry, Over, TypeOK, Supervisors
  <2>2. session' \in Entries
    BY <1>14, EntryTypes DEF Clear, At, To, Sweep, Over, TypeOK
  <2>3. transfer' \in [Transfer -> Copies]
    BY <1>14, TransferTypes DEF Clear, At, To, Sweep, NoEntry, Over, TypeOK
  <2> QED BY <1>14, <2>1, <2>2, <2>3 DEF Clear, At, To, Sweep, NoEntry, Over, TypeOK
<1>15. CASE Receive
  <2>1. printed' \in 0..Chunks
    BY <1>15 DEF Receive, At, TypeOK
  <2>2. session' \in Entries
    BY <1>15, EntryTypes DEF Receive, At, TypeOK
  <2> QED BY <1>15, <2>1, <2>2 DEF Receive, At, TypeOK
<1>16. CASE SpawnWorker
  <2>1. session' \in Entries
    BY <1>16 DEF SpawnWorker, By, TypeOK, Entries, Live, Chunk
  <2>2. flush' \in [Flusher -> Writes]
    BY <1>16, FlusherFacts DEF SpawnWorker, TypeOK, Writes, Chunk
  <2> QED BY <1>16, <2>1, <2>2 DEF SpawnWorker, By, TypeOK
<1>17. CASE WorkerLoops
  <2>1. flush' \in [Flusher -> Writes]
    BY <1>17, FlusherFacts DEF WorkerLoops, Flushed, TypeOK, Writes, Chunk
  <2>2. session' \in Entries
    BY <1>17 DEF WorkerLoops, By, Flushed, TypeOK, Entries, Live, Chunk
  <2> QED BY <1>17, <2>1, <2>2 DEF WorkerLoops, By, Flushed, TypeOK
<1>18. ASSUME NEW f \in Flusher, Take(f) PROVE TypeOK'
  <2>1. flush' \in [Flusher -> Writes]
    BY <1>18, TaskTypes, FlusherFacts DEF Take, TypeOK
  <2>2. session' \in Entries
    BY <1>18 DEF Take, TypeOK, Entries, Live, Chunk
  <2> QED BY <1>18, <2>1, <2>2 DEF Take, TypeOK
<1>19. ASSUME NEW f \in Flusher, Select(f) PROVE TypeOK'
  <2>1. flush' \in [Flusher -> Writes]
    <3>1. flush' \in {[flush EXCEPT ![f].pc = "update", ![f].base = stored.text],
                       [flush EXCEPT ![f].pc = "restore"]}
      BY <1>19 DEF Select
    <3>2. [flush EXCEPT ![f].pc = "update", ![f].base = stored.text] \in [Flusher -> Writes]
      <4>1. stored.text \in SUBSET Chunk
        BY DEF TypeOK
      <4>2. [flush[f] EXCEPT !.pc = "update", !.base = stored.text] \in Writes
        BY <4>1, TaskTypes
      <4> QED BY <4>2 DEF TypeOK
    <3>3. [flush EXCEPT ![f].pc = "restore"] \in [Flusher -> Writes]
      BY TaskTypes DEF TypeOK
    <3> QED BY <3>1, <3>2, <3>3
  <2>2. faults' \in 0..MaxFaults
    BY <1>19 DEF Select, Fault, TypeOK
  <2> QED BY <1>19, <2>1, <2>2 DEF Select, Fault, TypeOK
<1>20. ASSUME NEW f \in Flusher, Update(f) PROVE TypeOK'
  <2>1. stored' \in [here : BOOLEAN, text : SUBSET Chunk]
    BY <1>20 DEF Update, Fault, TypeOK, Chunk
  <2>2. flush' \in [Flusher -> Writes]
    BY <1>20, TaskTypes, FlusherFacts DEF Update, Fault, TypeOK
  <2>3. faults' \in 0..MaxFaults
    BY <1>20 DEF Update, Fault, TypeOK
  <2> QED BY <1>20, <2>1, <2>2, <2>3 DEF Update, Fault, TypeOK
<1>21. ASSUME NEW f \in Flusher, Restore(f) PROVE TypeOK'
  <2>1. session' \in Entries
    BY <1>21, EntryTypes DEF Restore, TypeOK
  <2>2. flush' \in [Flusher -> Writes]
    BY <1>21, FlusherFacts DEF Restore, TypeOK, Writes, Chunk
  <2> QED BY <1>21, <2>1, <2>2 DEF Restore, TypeOK
<1>22. ASSUME NEW c \in Command, CancelTransfers(c) PROVE TypeOK'
  <2>1. transfer' \in [Transfer -> Copies]
    BY <1>22, TransferTypes DEF CancelTransfers, CmdAt, Sweep, Goto, Rest, TypeOK
  <2>2. cmd' \in [Command -> Closings]
    BY <1>22 DEF CancelTransfers, CmdAt, Sweep, Goto, Rest, TypeOK, Closings
  <2> QED BY <1>22, <2>1, <2>2 DEF CancelTransfers, CmdAt, Sweep, Goto, Rest, TypeOK
<1>23. ASSUME NEW c \in Command, Detach(c) PROVE TypeOK'
  <2>1. session' \in Entries
    BY <1>23, EntryTypes DEF Detach, CmdAt, Rest, TypeOK
  <2>2. told' \in BOOLEAN
    BY <1>23 DEF Detach, CmdAt, Detached, Rest, TypeOK
  <2>3. cmd' \in [Command -> Closings]
    BY <1>23, ZenonT(60) DEF Detach, CmdAt, Detached, Rest, TypeOK, Closings
  <2> QED BY <1>23, <2>1, <2>2, <2>3 DEF Detach, CmdAt, Detached, Rest, TypeOK
<1>24. ASSUME NEW c \in Command, Shut(c) PROVE TypeOK'
  <2>1. link' \in [Link -> {"none", "open", "shell", "gone"}]
    BY <1>24 DEF Shut, CmdAt, Disconnected, Rest, TypeOK, Link
  <2>2. cmd' \in [Command -> Closings]
    BY <1>24 DEF Shut, CmdAt, Disconnected, Rest, TypeOK, Closings
  <2> QED BY <1>24, <2>1, <2>2 DEF Shut, CmdAt, Disconnected, Rest, TypeOK
<1>25. ASSUME NEW c \in Command, Mark(c) PROVE TypeOK'
  <2>1. session' \in Entries
    BY <1>25, EntryTypes DEF Mark, CmdAt, Goto, Finish, Of, Rest, TypeOK
  <2>2. flush' \in [Flusher -> Writes]
    <3>1. flush' \in {flush, [flush EXCEPT ![Of(c)].pc = "take"]}
      BY <1>25 DEF Mark
    <3>2. [flush EXCEPT ![Of(c)].pc = "take"] \in [Flusher -> Writes]
      BY TaskTypes, FlusherFacts DEF TypeOK
    <3> QED BY <3>1, <3>2 DEF TypeOK
  <2>3. cmd' \in [Command -> Closings]
    BY <1>25 DEF Mark, CmdAt, Closed, Goto, Finish, Of, Rest, TypeOK, Closings
  <2> QED BY <1>25, <2>1, <2>2, <2>3 DEF Mark, CmdAt, Closed, Goto, Finish, Of, Rest, TypeOK
<1>26. ASSUME NEW c \in Command, Collect(c) PROVE TypeOK'
  <2>1. cmd' \in [Command -> Closings]
    BY <1>26, TaskTypes DEF Collect, CmdAt, Rest, TypeOK
  <2> QED BY <1>26, <2>1 DEF Collect, CmdAt, Rest, TypeOK
<1>27. ASSUME NEW c \in Command, MarkDeleted(c) PROVE TypeOK'
  <2>1. session' \in Entries
    BY <1>27, EntryTypes DEF MarkDeleted, CmdAt, Of, Goto, Rest, TypeOK
  <2>2. told' \in BOOLEAN
    BY <1>27 DEF MarkDeleted, CmdAt, Closed, Of, Goto, Rest, TypeOK
  <2>3. flush' \in [Flusher -> Writes]
    <3>1. flush' \in {flush, [flush EXCEPT ![Of(c)].pc = "take"]}
      BY <1>27 DEF MarkDeleted
    <3>2. [flush EXCEPT ![Of(c)].pc = "take"] \in [Flusher -> Writes]
      BY TaskTypes, FlusherFacts DEF TypeOK
    <3> QED BY <3>1, <3>2 DEF TypeOK
  <2>4. cmd' \in [Command -> Closings]
    BY <1>27, SMTT(60) DEF MarkDeleted, CmdAt, Closed, Of, Goto, Rest, TypeOK, Closings
  <2> QED BY <1>27, <2>1, <2>2, <2>3, <2>4 DEF MarkDeleted, CmdAt, Closed, Of, Goto, Rest, TypeOK
<1>28. ASSUME NEW c \in Command, Remove(c) PROVE TypeOK'
  <2>1. session' \in Entries
    BY <1>28, EntryTypes DEF Remove, CmdAt, Flushed, Of, Goto, Finish, Rest, TypeOK
  <2>2. flush' \in [Flusher -> Writes]
    BY <1>28, FlusherFacts DEF Remove, CmdAt, Flushed, NoEntry, Goto, Finish, Rest, TypeOK, Writes,
         Chunk
  <2>3. cmd' \in [Command -> Closings]
    BY <1>28 DEF Remove, CmdAt, Flushed, Of, NoEntry, Goto, Finish, Rest, TypeOK, Closings
  <2> QED BY <1>28, <2>1, <2>2, <2>3 DEF Remove, CmdAt, Flushed, Of, NoEntry, Goto, Finish, Rest, TypeOK
<1>29. ASSUME NEW c \in Command, Purge(c) PROVE TypeOK'
  <2>1. stored' \in [here : BOOLEAN, text : SUBSET Chunk]
    BY <1>29 DEF Purge, CmdAt, Finish, Rest, TypeOK, Chunk
  <2>2. cmd' \in [Command -> Closings]
    BY <1>29 DEF Purge, CmdAt, Finish, Rest, TypeOK, Closings
  <2> QED BY <1>29, <2>1, <2>2 DEF Purge, CmdAt, Finish, Rest, TypeOK
<1>30. ASSUME NEW c \in Command, NEW k \in {"close", "delete"}, Call(c, k) PROVE TypeOK'
  <2>1. cmd' \in [Command -> Closings]
    BY <1>30 DEF Call, CmdAt, Rest, TypeOK, Closings
  <2> QED BY <1>30, <2>1 DEF Call, CmdAt, Rest, TypeOK
<1>31. ASSUME NEW o \in Opener, Open(o) PROVE TypeOK'
  <2>1. session' \in Entries
    BY <1>31 DEF Open, TypeOK, Entries, Live, Chunk
  <2>2. opener' \in [Opener -> Openings]
    BY <1>31 DEF Open, TypeOK, Openings
  <2> QED BY <1>31, <2>1, <2>2 DEF Open, TypeOK
<1>32. ASSUME NEW o \in Opener, Opened(o) PROVE TypeOK'
  <2>1. session' \in Entries
    BY <1>32 DEF Opened, Usable, TypeOK, Entries, Live, Chunk
  <2>2. opener' \in [Opener -> Openings]
    BY <1>32, TaskTypes DEF Opened, Usable, TypeOK
  <2> QED BY <1>32, <2>1, <2>2 DEF Opened, Usable, TypeOK
<1>33. ASSUME NEW t \in Transfer, Begin(t) PROVE TypeOK'
  <2>1. transfer' \in [Transfer -> Copies]
    BY <1>33 DEF Begin, Set, Transferring, TypeOK, Copies
  <2> QED BY <1>33, <2>1 DEF Begin, Set, Transferring, TypeOK
<1>34. ASSUME NEW t \in Transfer, Register(t) PROVE TypeOK'
  <2>1. transfer' \in [Transfer -> Copies]
    BY <1>34, TransferTypes DEF Register, Set, Transferring, TypeOK
  <2> QED BY <1>34, <2>1 DEF Register, Set, Ended, Transferring, TypeOK
<1>35. ASSUME NEW t \in Transfer, Copy(t) PROVE TypeOK'
  <2>1. transfer' \in [Transfer -> Copies]
    BY <1>35, TransferTypes DEF Copy, Usable, Set, Transferring, TypeOK
  <2> QED BY <1>35, <2>1 DEF Copy, Usable, Set, Ended, Transferring, TypeOK
<1>36. ASSUME NEW t \in Transfer, Check(t) PROVE TypeOK'
  <2>1. transfer' \in [Transfer -> Copies]
    BY <1>36, TransferTypes DEF Check, Set, Transferring, TypeOK
  <2> QED BY <1>36, <2>1 DEF Check, Set, Ended, Transferring, TypeOK
<1>37. ASSUME NEW t \in Transfer, Replace(t) PROVE TypeOK'
  <2>1. transfer' \in [Transfer -> Copies]
    BY <1>37, TransferTypes DEF Replace, Set, Transferring, TypeOK
  <2> QED BY <1>37, <2>1 DEF Replace, Set, Ended, Transferring, TypeOK
<1>38. ASSUME NEW t \in Transfer, CancelTransfer(t) PROVE TypeOK'
  <2>1. transfer' \in [Transfer -> Copies]
    BY <1>38, TransferTypes DEF CancelTransfer, Set, Transferring, TypeOK
  <2> QED BY <1>38, <2>1 DEF CancelTransfer, Set, Transferring, TypeOK
<1>39. ASSUME NEW l \in Link, Lose(l) PROVE TypeOK'
  <2>1. link' \in [Link -> {"none", "open", "shell", "gone"}]
    BY <1>39 DEF Lose, TypeOK, Link
  <2> QED BY <1>39, <2>1 DEF Lose, TypeOK
<1>40. CASE UNCHANGED vars
  BY <1>40 DEF vars, TypeOK
<1>41. QED BY <1>1, <1>2, <1>3, <1>4, <1>5, <1>6, <1>7, <1>8, <1>9, <1>10, <1>11, <1>12, <1>13, <1>14,
     <1>15, <1>16, <1>17, <1>18, <1>19, <1>20, <1>21, <1>22, <1>23, <1>24, <1>25, <1>26, <1>27, <1>28,
     <1>29, <1>30, <1>31, <1>32, <1>33, <1>34, <1>35, <1>36, <1>37, <1>38, <1>39, <1>40 DEF Next,
     Supervise, Flush, Commands, Run

-----------------------------------------------------------------------------
(* What the actions make of the entry. *)

\* The entry as a command, the discarding of a session or its last clearing leaves it.
Discarded == [Detached EXCEPT !.status = "disconnected"]
Cleared == [session EXCEPT !.handle = Nobody, !.sftp = Nobody, !.chan = 0, !.gen = @ + 1]
Unowned == [Closed(session) EXCEPT !.handle = Nobody]
Renewed(l) == [session EXCEPT !.sftp = Nobody, !.chan = 0, !.gen = @ + 1, !.handle = l]

\* What each of them is made of.
LEMMA Forms ==
  ASSUME TypeOK
  PROVE  /\ \A e \in {Detached, Discarded} :
              /\ e.here = session.here /\ e.closing /\ e.handle = Nobody /\ e.sftp = Nobody
              /\ e.gen = session.gen + 1 /\ e.chan = 0
              /\ e.pending = session.pending /\ e.status \in {"disconnected", session.status}
         /\ Detached.status = session.status /\ Discarded.status = "disconnected"
         /\ /\ Cleared.here = session.here /\ Cleared.closing = session.closing
            /\ Cleared.handle = Nobody /\ Cleared.sftp = Nobody /\ Cleared.gen = session.gen + 1
            /\ Cleared.pending = session.pending /\ Cleared.status = session.status
            /\ Cleared.chan = 0
         /\ \A l : /\ Renewed(l).here = session.here /\ Renewed(l).closing = session.closing
            /\ Renewed(l).handle = l /\ Renewed(l).sftp = Nobody /\ Renewed(l).gen = session.gen + 1
            /\ Renewed(l).pending = session.pending /\ Renewed(l).status = session.status
            /\ Renewed(l).chan = 0
         /\ \A e \in {Closed(session), Unowned} :
              /\ e.here = session.here /\ e.closing /\ e.status = "disconnected"
              /\ e.handle \in {Nobody, session.handle} /\ e.sftp = session.sftp
              /\ e.gen = session.gen /\ e.chan = session.chan /\ e.pending = session.pending
         /\ Closed(session).handle = session.handle /\ Unowned.handle = Nobody
         /\ ~NoEntry.here /\ ~NoEntry.closing /\ NoEntry.handle = Nobody /\ NoEntry.sftp = Nobody
         /\ NoEntry.gen = 0 /\ NoEntry.chan = 0 /\ NoEntry.pending = {} /\ NoEntry.status = "disconnected"
<1> USE DEF TypeOK, Entries
<1>1. /\ \A e \in {Detached, Discarded} :
           /\ e.here = session.here /\ e.closing /\ e.handle = Nobody /\ e.sftp = Nobody
           /\ e.gen = session.gen + 1 /\ e.chan = 0
           /\ e.pending = session.pending /\ e.status \in {"disconnected", session.status}
      /\ Detached.status = session.status /\ Discarded.status = "disconnected"
  BY DEF Detached, Discarded
<1>2. /\ Cleared.here = session.here /\ Cleared.closing = session.closing
      /\ Cleared.handle = Nobody /\ Cleared.sftp = Nobody /\ Cleared.gen = session.gen + 1
      /\ Cleared.pending = session.pending /\ Cleared.status = session.status
      /\ Cleared.chan = 0
  BY DEF Cleared
<1>3. \A l : /\ Renewed(l).here = session.here /\ Renewed(l).closing = session.closing
      /\ Renewed(l).handle = l /\ Renewed(l).sftp = Nobody /\ Renewed(l).gen = session.gen + 1
      /\ Renewed(l).pending = session.pending /\ Renewed(l).status = session.status
      /\ Renewed(l).chan = 0
  BY DEF Renewed
<1>4. /\ \A e \in {Closed(session), Unowned} :
           /\ e.here = session.here /\ e.closing /\ e.status = "disconnected"
           /\ e.handle \in {Nobody, session.handle} /\ e.sftp = session.sftp
           /\ e.gen = session.gen /\ e.chan = session.chan /\ e.pending = session.pending
      /\ Closed(session).handle = session.handle /\ Unowned.handle = Nobody
  BY DEF Closed, Unowned
<1>5. /\ ~NoEntry.here /\ ~NoEntry.closing /\ NoEntry.handle = Nobody /\ NoEntry.sftp = Nobody
      /\ NoEntry.gen = 0 /\ NoEntry.chan = 0 /\ NoEntry.pending = {} /\ NoEntry.status = "disconnected"
  BY DEF NoEntry
<1> QED BY <1>1, <1>2, <1>3, <1>4, <1>5

-----------------------------------------------------------------------------
(* Each part of the invariant is preserved. *)

\* Nobody does anything before the session exists.
LEMMA UnknownStep == TypeOK /\ Unknown /\ [Next]_vars => Unknown'
<1> SUFFICES ASSUME TypeOK, Unknown, [Next]_vars PROVE Unknown'
  OBVIOUS
<1>1. CASE Establish
  BY <1>1 DEF Establish, Fresh, NoEntry, Unknown, TypeOK, Entries, Connects
<1>2. CASE Save
  BY <1>2 DEF Save, Fault, Unknown, NoEntry, TypeOK, Entries, Connects
<1>3. CASE Discard
  BY <1>3 DEF Discard, Detached, Disconnected, Sweep, NoEntry, Unknown, TypeOK, Entries, Connects
<1>4. CASE Reading
  BY <1>4 DEF Reading, Cancelled, Over, To, At, Unknown, NoEntry, TypeOK, Entries, Connects
<1>5. CASE Degrade
  BY <1>5 DEF Degrade, At, Health, Unknown, NoEntry, TypeOK, Entries, Connects
<1>6. CASE Try
  BY <1>6 DEF Try, At, Health, To, By, Unknown, NoEntry, TypeOK, Entries, Connects
<1>7. CASE Backoff
  BY <1>7 DEF Backoff, At, Cancelled, Health, To, Over, By, Unknown, NoEntry, TypeOK, Entries, Connects
<1>8. CASE Dial
  BY <1>8 DEF Dial, At, Cancelled, Over, To, Fresh, Unknown, NoEntry, TypeOK, Entries, Connects
<1>9. CASE Install
  BY <1>9 DEF Install, At, To, Unknown, NoEntry, TypeOK, Entries, Connects
<1>10. CASE Orphan
  BY <1>10 DEF Orphan, At, Disconnected, Over, Unknown, NoEntry, TypeOK, Entries, Connects
<1>11. CASE Installed
  BY <1>11 DEF Installed, At, Sweep, To, Unknown, NoEntry, TypeOK, Entries, Connects
<1>12. CASE Up
  BY <1>12 DEF Up, At, Health, Unknown, NoEntry, TypeOK, Entries, Connects
<1>13. CASE Saved
  BY <1>13 DEF Saved, At, Flushed, To, Over, By, Unknown, NoEntry, TypeOK, Entries, Connects
<1>14. CASE Clear
  BY <1>14 DEF Clear, At, To, Sweep, NoEntry, Over, Unknown, TypeOK, Entries, Connects
<1>15. CASE Receive
  BY <1>15 DEF Receive, At, Unknown, NoEntry, TypeOK, Entries, Connects
<1>16. CASE SpawnWorker
  BY <1>16 DEF SpawnWorker, By, Unknown, NoEntry, TypeOK, Entries, Connects
<1>17. CASE WorkerLoops
  <2> SUFFICES ASSUME connect'.pc = "dial" PROVE Unknown'
    BY DEF Unknown
  <2>1. connect.pc = "dial" /\ session = NoEntry
    BY <1>17 DEF WorkerLoops, Unknown
  <2>2. session' = [session EXCEPT !.flushing = FALSE]
    BY <1>17, <2>1 DEF WorkerLoops, NoEntry
  <2>3. session' = NoEntry
    BY <2>1, <2>2 DEF NoEntry
  <2> QED BY <1>17, <2>1, <2>3 DEF WorkerLoops, Unknown
<1>18. ASSUME NEW f \in Flusher, Take(f) PROVE Unknown'
  BY <1>18 DEF Take, Unknown, NoEntry, TypeOK, Entries, Connects
<1>19. ASSUME NEW f \in Flusher, Select(f) PROVE Unknown'
  BY <1>19 DEF Select, Fault, Unknown, NoEntry, TypeOK, Entries, Connects
<1>20. ASSUME NEW f \in Flusher, Update(f) PROVE Unknown'
  BY <1>20 DEF Update, Fault, Unknown, NoEntry, TypeOK, Entries, Connects
<1>21. ASSUME NEW f \in Flusher, Restore(f) PROVE Unknown'
  BY <1>21 DEF Restore, Unknown, NoEntry, TypeOK, Entries, Connects
<1>22. ASSUME NEW c \in Command, CancelTransfers(c) PROVE Unknown'
  BY <1>22 DEF CancelTransfers, CmdAt, Sweep, Goto, Rest, Unknown, NoEntry, TypeOK, Entries, Connects
<1>23. ASSUME NEW c \in Command, Detach(c) PROVE Unknown'
  BY <1>23 DEF Detach, CmdAt, Detached, Rest, Unknown, NoEntry, TypeOK, Entries, Connects
<1>24. ASSUME NEW c \in Command, Shut(c) PROVE Unknown'
  BY <1>24 DEF Shut, CmdAt, Disconnected, Rest, Unknown, NoEntry, TypeOK, Entries, Connects
<1>25. ASSUME NEW c \in Command, Mark(c) PROVE Unknown'
  BY <1>25 DEF Mark, CmdAt, Closed, Goto, Finish, Of, Rest, Unknown, NoEntry, TypeOK, Entries, Connects
<1>26. ASSUME NEW c \in Command, Collect(c) PROVE Unknown'
  BY <1>26 DEF Collect, CmdAt, Rest, Unknown, NoEntry, TypeOK, Entries, Connects
<1>27. ASSUME NEW c \in Command, MarkDeleted(c) PROVE Unknown'
  BY <1>27 DEF MarkDeleted, CmdAt, Closed, Of, Goto, Rest, Unknown, NoEntry, TypeOK, Entries, Connects
<1>28. ASSUME NEW c \in Command, Remove(c) PROVE Unknown'
  BY <1>28 DEF Remove, CmdAt, Flushed, Of, NoEntry, Goto, Finish, Rest, Unknown, TypeOK, Entries,
       Connects
<1>29. ASSUME NEW c \in Command, Purge(c) PROVE Unknown'
  BY <1>29 DEF Purge, CmdAt, Finish, Rest, Unknown, NoEntry, TypeOK, Entries, Connects
<1>30. ASSUME NEW c \in Command, NEW k \in {"close", "delete"}, Call(c, k) PROVE Unknown'
  BY <1>30 DEF Call, CmdAt, Rest, Unknown, NoEntry, TypeOK, Entries, Connects
<1>31. ASSUME NEW o \in Opener, Open(o) PROVE Unknown'
  BY <1>31 DEF Open, Unknown, NoEntry, TypeOK, Entries, Connects
<1>32. ASSUME NEW o \in Opener, Opened(o) PROVE Unknown'
  BY <1>32 DEF Opened, Usable, Unknown, NoEntry, TypeOK, Entries, Connects
<1>33. ASSUME NEW t \in Transfer, Begin(t) PROVE Unknown'
  BY <1>33 DEF Begin, Set, Transferring, Unknown, NoEntry, TypeOK, Entries, Connects
<1>34. ASSUME NEW t \in Transfer, Register(t) PROVE Unknown'
  BY <1>34 DEF Register, Set, Ended, Transferring, Unknown, NoEntry, TypeOK, Entries, Connects
<1>35. ASSUME NEW t \in Transfer, Copy(t) PROVE Unknown'
  BY <1>35 DEF Copy, Usable, Set, Ended, Transferring, Unknown, NoEntry, TypeOK, Entries, Connects
<1>36. ASSUME NEW t \in Transfer, Check(t) PROVE Unknown'
  BY <1>36 DEF Check, Set, Ended, Transferring, Unknown, NoEntry, TypeOK, Entries, Connects
<1>37. ASSUME NEW t \in Transfer, Replace(t) PROVE Unknown'
  BY <1>37 DEF Replace, Set, Ended, Transferring, Unknown, NoEntry, TypeOK, Entries, Connects
<1>38. ASSUME NEW t \in Transfer, CancelTransfer(t) PROVE Unknown'
  BY <1>38 DEF CancelTransfer, Set, Transferring, Unknown, NoEntry, TypeOK, Entries, Connects
<1>39. ASSUME NEW l \in Link, Lose(l) PROVE Unknown'
  BY <1>39 DEF Lose, Unknown, NoEntry, TypeOK, Entries, Connects
<1>40. CASE UNCHANGED vars
  BY <1>40 DEF vars, Unknown, NoEntry, TypeOK, Entries, Connects
<1>41. QED BY <1>1, <1>2, <1>3, <1>4, <1>5, <1>6, <1>7, <1>8, <1>9, <1>10, <1>11, <1>12, <1>13, <1>14,
     <1>15, <1>16, <1>17, <1>18, <1>19, <1>20, <1>21, <1>22, <1>23, <1>24, <1>25, <1>26, <1>27, <1>28,
     <1>29, <1>30, <1>31, <1>32, <1>33, <1>34, <1>35, <1>36, <1>37, <1>38, <1>39, <1>40 DEF Next,
     Supervise, Flush, Commands, Run

\* The entry stays empty when it is gone and without a transport when it is closed.
LEMMA EntryStep == TypeOK /\ Unknown /\ Entry /\ [Next]_vars => Entry'
<1> SUFFICES ASSUME TypeOK, Unknown, Entry, [Next]_vars PROVE Entry'
  OBVIOUS
<1>1. CASE Establish
  <2>1. ~session'.here => session' = NoEntry
    BY <1>1, ZenonT(60) DEF Establish, Fresh, NoEntry, Entry, Ending, Unknown, TypeOK, Entries
  <2>2. sup'.pc = "none" => ~session'.here
    BY <1>1 DEF Establish, Fresh, NoEntry, Entry, Ending, Unknown, TypeOK, Entries, Supervisors
  <2>3. session'.closing => session'.handle = Nobody
    BY <1>1 DEF Establish, Fresh, NoEntry, Entry, Ending, Unknown, TypeOK, Entries
  <2>4. told' => Ending'
    BY <1>1 DEF Establish, Fresh, NoEntry, Entry, Ending, Unknown, TypeOK, Entries
  <2>5. \A d \in Command :
           /\ cmd'[d].pc = "collect" => cmd'[d].kind = "delete"
           /\ cmd'[d].kind # "delete" /\ cmd'[d].pc \in {"shut", "mark"} => Ending'
    BY <1>1 DEF Establish, Fresh, NoEntry, Entry, Ending, Unknown, TypeOK, Entries, Closings
  <2> QED BY <2>1, <2>2, <2>3, <2>4, <2>5 DEF Entry
<1>2. CASE Save
  BY <1>2 DEF Save, Entry, Ending
<1>3. CASE Discard
  <2>6. session' \in {session, Discarded, NoEntry}
    BY <1>3 DEF Discard, Discarded, Sweep, To
  <2>9. ~session.here => session' \in {session, NoEntry}
    BY <1>3 DEF Discard
  <2>7. session'.here => session.here /\ (session.closing => session'.closing) /\ (session'.closing => session'.handle = Nobody)
    BY <2>6, Forms DEF Entry
  <2>8. told' => told \/ Ending'
    BY <1>3 DEF Discard, Ending, Sweep, Detached, TypeOK, Entries
  <2>1. ~session'.here => session' = NoEntry
    BY <2>6, <2>9, <2>7, Forms DEF Entry
  <2>2. sup'.pc = "none" => ~session'.here
    BY <2>7, <1>3 DEF Discard, Sweep, Over, To, Entry, TypeOK, Supervisors
  <2>3. session'.closing => session'.handle = Nobody
    BY <2>6, <2>7, Forms DEF Entry
  <2>4. told' => Ending'
    BY <2>7, <2>8 DEF Entry, Ending
  <2>5. \A d \in Command :
           /\ cmd'[d].pc = "collect" => cmd'[d].kind = "delete"
           /\ cmd'[d].kind # "delete" /\ cmd'[d].pc \in {"shut", "mark"} => Ending'
    BY <2>7, <1>3 DEF Discard, Sweep, Entry, Ending
  <2> QED BY <2>1, <2>2, <2>3, <2>4, <2>5 DEF Entry
<1>4. CASE Reading
  BY <1>4 DEF Reading, Cancelled, Over, To, At, Entry, Ending, Unknown, NoEntry, TypeOK, Entries,
       Closings, Supervisors
<1>5. CASE Degrade
  BY <1>5 DEF Degrade, At, Health, Entry, Ending, Unknown, NoEntry, TypeOK, Entries, Closings,
       Supervisors
<1>6. CASE Try
  BY <1>6, ZenonT(60) DEF Try, At, Health, To, By, Entry, Ending, Unknown, NoEntry, TypeOK, Entries, Closings,
       Supervisors
<1>7. CASE Backoff
  BY <1>7, SMTT(60) DEF Backoff, At, Cancelled, Health, To, Over, By, Entry, Ending, Unknown, NoEntry, TypeOK,
       Entries, Closings, Supervisors
<1>8. CASE Dial
  <2>1. ~session'.here => session' = NoEntry
    BY <1>8 DEF Dial, At, Cancelled, Over, To, Fresh, Entry, Ending, Unknown, NoEntry, TypeOK, Entries
  <2>2. sup'.pc = "none" => ~session'.here
    <3>1. \/ sup' \in {Over, [sup EXCEPT !.pc = "try"]}
          \/ \E l \in Link : sup' = [sup EXCEPT !.pc = "install", !.next = l]
      BY <1>8 DEF Dial, To
    <3>2. \A l \in Link : [sup EXCEPT !.pc = "install", !.next = l].pc = "install"
      BY DEF TypeOK, Supervisors
    <3>3. [sup EXCEPT !.pc = "try"].pc = "try" /\ Over.pc = "done"
      BY DEF TypeOK, Supervisors, Over
    <3> QED BY <3>1, <3>2, <3>3
  <2>3. session'.closing => session'.handle = Nobody
    BY <1>8 DEF Dial, At, Cancelled, Over, To, Fresh, Entry, Ending, Unknown, NoEntry, TypeOK, Entries
  <2>4. told' => Ending'
    BY <1>8 DEF Dial, At, Cancelled, Over, To, Fresh, Entry, Ending, Unknown, NoEntry, TypeOK, Entries
  <2>5. \A d \in Command :
           /\ cmd'[d].pc = "collect" => cmd'[d].kind = "delete"
           /\ cmd'[d].kind # "delete" /\ cmd'[d].pc \in {"shut", "mark"} => Ending'
    BY <1>8 DEF Dial, At, Cancelled, Over, To, Fresh, Entry, Ending, Unknown, NoEntry, TypeOK, Entries,
         Closings
  <2> QED BY <2>1, <2>2, <2>3, <2>4, <2>5 DEF Entry
<1>9. CASE Install
  BY <1>9 DEF Install, At, To, Entry, Ending, Unknown, NoEntry, TypeOK, Entries, Closings, Supervisors
<1>10. CASE Orphan
  BY <1>10 DEF Orphan, At, Disconnected, Over, Entry, Ending, Unknown, NoEntry, TypeOK, Entries,
       Closings, Supervisors
<1>11. CASE Installed
  BY <1>11 DEF Installed, At, Sweep, To, Entry, Ending, Unknown, NoEntry, TypeOK, Entries, Closings,
       Supervisors
<1>12. CASE Up
  BY <1>12 DEF Up, At, Health, Entry, Ending, Unknown, NoEntry, TypeOK, Entries, Closings, Supervisors
<1>13. CASE Saved
  BY <1>13 DEF Saved, At, Flushed, To, Over, By, Entry, Ending, Unknown, NoEntry, TypeOK, Entries,
       Closings, Supervisors
<1>14. CASE Clear
  <2>6. session' \in {session, Cleared, NoEntry}
    BY <1>14 DEF Clear, Cleared, Sweep, To
  <2>9. ~session.here => session' \in {session, NoEntry}
    BY <1>14 DEF Clear
  <2>7. session'.here => session.here /\ (session.closing => session'.closing) /\ (session'.closing => session'.handle = Nobody)
    BY <2>6, Forms DEF Entry
  <2>8. told' => told \/ Ending'
    BY <1>14 DEF Clear, Ending, Sweep, Detached, TypeOK, Entries
  <2>1. ~session'.here => session' = NoEntry
    BY <2>6, <2>9, <2>7, Forms DEF Entry
  <2>2. sup'.pc = "none" => ~session'.here
    BY <2>7, <1>14 DEF Clear, Sweep, Over, To, Entry, TypeOK, Supervisors
  <2>3. session'.closing => session'.handle = Nobody
    BY <2>6, <2>7, Forms DEF Entry
  <2>4. told' => Ending'
    BY <2>7, <2>8 DEF Entry, Ending
  <2>5. \A d \in Command :
           /\ cmd'[d].pc = "collect" => cmd'[d].kind = "delete"
           /\ cmd'[d].kind # "delete" /\ cmd'[d].pc \in {"shut", "mark"} => Ending'
    BY <2>7, <1>14 DEF Clear, Sweep, Entry, Ending
  <2> QED BY <2>1, <2>2, <2>3, <2>4, <2>5 DEF Entry
<1>15. CASE Receive
  BY <1>15 DEF Receive, At, Entry, Ending, Unknown, NoEntry, TypeOK, Entries, Closings, Supervisors
<1>16. CASE SpawnWorker
  BY <1>16 DEF SpawnWorker, By, Entry, Ending, Unknown, NoEntry, TypeOK, Entries, Closings, Supervisors
<1>17. CASE WorkerLoops
  <2>1. ~session'.here => session' = NoEntry
    <3> SUFFICES ASSUME ~session'.here PROVE session' = NoEntry
      OBVIOUS
    <3>1. ~session.here /\ session' = [session EXCEPT !.flushing = FALSE]
      BY <1>17 DEF WorkerLoops, TypeOK, Entries
    <3>2. session = NoEntry
      BY <3>1 DEF Entry
    <3> QED BY <3>1, <3>2 DEF NoEntry
  <2>2. sup'.pc = "none" => ~session'.here
    BY <1>17 DEF WorkerLoops, By, Flushed, Entry, Ending, Unknown, NoEntry, TypeOK, Entries, Supervisors
  <2>3. session'.closing => session'.handle = Nobody
    BY <1>17 DEF WorkerLoops, By, Flushed, Entry, Ending, Unknown, NoEntry, TypeOK, Entries
  <2>4. told' => Ending'
    BY <1>17 DEF WorkerLoops, By, Flushed, Entry, Ending, Unknown, NoEntry, TypeOK, Entries
  <2>5. \A d \in Command :
           /\ cmd'[d].pc = "collect" => cmd'[d].kind = "delete"
           /\ cmd'[d].kind # "delete" /\ cmd'[d].pc \in {"shut", "mark"} => Ending'
    BY <1>17 DEF WorkerLoops, By, Flushed, Entry, Ending, Unknown, NoEntry, TypeOK, Entries, Closings
  <2> QED BY <2>1, <2>2, <2>3, <2>4, <2>5 DEF Entry
<1>18. ASSUME NEW f \in Flusher, Take(f) PROVE Entry'
  BY <1>18 DEF Take, Entry, Ending, Unknown, NoEntry, TypeOK, Entries, Closings, Supervisors
<1>19. ASSUME NEW f \in Flusher, Select(f) PROVE Entry'
  BY <1>19 DEF Select, Entry, Ending
<1>20. ASSUME NEW f \in Flusher, Update(f) PROVE Entry'
  BY <1>20 DEF Update, Entry, Ending
<1>21. ASSUME NEW f \in Flusher, Restore(f) PROVE Entry'
  BY <1>21 DEF Restore, Entry, Ending, Unknown, NoEntry, TypeOK, Entries, Closings, Supervisors
<1>22. ASSUME NEW c \in Command, CancelTransfers(c) PROVE Entry'
  BY <1>22 DEF CancelTransfers, CmdAt, Sweep, Goto, Rest, Entry, Ending, Unknown, NoEntry, TypeOK,
       Entries, Closings, Supervisors
<1>23. ASSUME NEW c \in Command, Detach(c) PROVE Entry'
  BY <1>23, ZenonT(60) DEF Detach, CmdAt, Detached, Rest, Entry, Ending, Unknown, NoEntry, TypeOK, Entries,
       Closings, Supervisors
<1>24. ASSUME NEW c \in Command, Shut(c) PROVE Entry'
  BY <1>24 DEF Shut, CmdAt, Disconnected, Rest, Entry, Ending, Unknown, NoEntry, TypeOK, Entries,
       Closings, Supervisors
<1>25. ASSUME NEW c \in Command, Mark(c) PROVE Entry'
  <2>1. ~session'.here => session' = NoEntry
    BY <1>25 DEF Mark, CmdAt, Closed, Goto, Finish, Of, Rest, Entry, Ending, Unknown, NoEntry, TypeOK,
         Entries
  <2>2. sup'.pc = "none" => ~session'.here
    BY <1>25 DEF Mark, CmdAt, Closed, Goto, Finish, Of, Rest, Entry, Ending, Unknown, NoEntry, TypeOK,
         Entries, Supervisors
  <2>3. session'.closing => session'.handle = Nobody
    BY <1>25 DEF Mark, CmdAt, Closed, Goto, Finish, Of, Rest, Entry, Ending, Unknown, NoEntry, TypeOK,
         Entries
  <2>4. told' => Ending'
    BY <1>25 DEF Mark, CmdAt, Closed, Goto, Finish, Of, Rest, Entry, Ending, Unknown, NoEntry, TypeOK,
         Entries
  <2>5. \A d \in Command :
           /\ cmd'[d].pc = "collect" => cmd'[d].kind = "delete"
           /\ cmd'[d].kind # "delete" /\ cmd'[d].pc \in {"shut", "mark"} => Ending'
    <3>1. session'.here => session.here /\ (session.closing => session'.closing)
      BY <1>25, Forms DEF Mark, Rest, Unowned
    <3>2. \A d \in Command : d # c => cmd'[d] = cmd[d]
      BY <1>25 DEF Mark, Goto, Finish, TypeOK
    <3>3. cmd'[c].pc \notin {"collect", "mark"} /\ (cmd'[c].pc = "shut" => cmd'[c].kind = "delete")
      BY <1>25 DEF Mark, CmdAt, Goto, Finish, TypeOK, Closings
    <3>4. \A d \in Command : cmd[d].kind # "delete" /\ cmd[d].pc \in {"shut", "mark"} => Ending'
      BY <3>1 DEF Entry, Ending
    <3> QED BY <3>2, <3>3, <3>4 DEF Entry
  <2> QED BY <2>1, <2>2, <2>3, <2>4, <2>5 DEF Entry
<1>26. ASSUME NEW c \in Command, Collect(c) PROVE Entry'
  <2>1. ~session'.here => session' = NoEntry
    BY <1>26 DEF Collect, CmdAt, Rest, Entry, Ending, Unknown, NoEntry, TypeOK, Entries
  <2>2. sup'.pc = "none" => ~session'.here
    BY <1>26 DEF Collect, CmdAt, Rest, Entry, Ending, Unknown, NoEntry, TypeOK, Entries, Supervisors
  <2>3. session'.closing => session'.handle = Nobody
    BY <1>26 DEF Collect, CmdAt, Rest, Entry, Ending, Unknown, NoEntry, TypeOK, Entries
  <2>4. told' => Ending'
    BY <1>26 DEF Collect, CmdAt, Rest, Entry, Ending, Unknown, NoEntry, TypeOK, Entries
  <2>5. \A d \in Command :
           /\ cmd'[d].pc = "collect" => cmd'[d].kind = "delete"
           /\ cmd'[d].kind # "delete" /\ cmd'[d].pc \in {"shut", "mark"} => Ending'
    BY <1>26 DEF Collect, CmdAt, Rest, Entry, Ending, Unknown, NoEntry, TypeOK, Entries, Closings
  <2> QED BY <2>1, <2>2, <2>3, <2>4, <2>5 DEF Entry
<1>27. ASSUME NEW c \in Command, MarkDeleted(c) PROVE Entry'
  <2>1. ~session'.here => session' = NoEntry
    BY <1>27 DEF MarkDeleted, CmdAt, Closed, Of, Goto, Rest, Entry, Ending, Unknown, NoEntry, TypeOK,
         Entries
  <2>2. sup'.pc = "none" => ~session'.here
    BY <1>27 DEF MarkDeleted, CmdAt, Closed, Of, Goto, Rest, Entry, Ending, Unknown, NoEntry, TypeOK,
         Entries, Supervisors
  <2>3. session'.closing => session'.handle = Nobody
    BY <1>27 DEF MarkDeleted, CmdAt, Closed, Of, Goto, Rest, Entry, Ending, Unknown, NoEntry, TypeOK,
         Entries
  <2>4. told' => Ending'
    BY <1>27 DEF MarkDeleted, CmdAt, Closed, Of, Goto, Rest, Entry, Ending, Unknown, NoEntry, TypeOK,
         Entries
  <2>5. \A d \in Command :
           /\ cmd'[d].pc = "collect" => cmd'[d].kind = "delete"
           /\ cmd'[d].kind # "delete" /\ cmd'[d].pc \in {"shut", "mark"} => Ending'
    <3>1. session'.here => session.here /\ (session.closing => session'.closing)
      BY <1>27, Forms DEF MarkDeleted, Rest, Unowned
    <3>2. \A d \in Command : d # c => cmd'[d] = cmd[d]
      BY <1>27 DEF MarkDeleted, Goto, Finish, TypeOK
    <3>3. cmd'[c].pc \notin {"collect", "mark"} /\ (cmd'[c].pc = "shut" => cmd'[c].kind = "delete")
      BY <1>27 DEF MarkDeleted, CmdAt, Goto, Finish, TypeOK, Closings
    <3>4. \A d \in Command : cmd[d].kind # "delete" /\ cmd[d].pc \in {"shut", "mark"} => Ending'
      BY <3>1 DEF Entry, Ending
    <3> QED BY <3>2, <3>3, <3>4 DEF Entry
  <2> QED BY <2>1, <2>2, <2>3, <2>4, <2>5 DEF Entry
<1>28. ASSUME NEW c \in Command, Remove(c) PROVE Entry'
  BY <1>28 DEF Remove, CmdAt, Flushed, Of, NoEntry, Goto, Finish, Rest, Entry, Ending, Unknown, TypeOK,
       Entries, Closings, Supervisors
<1>29. ASSUME NEW c \in Command, Purge(c) PROVE Entry'
  BY <1>29 DEF Purge, CmdAt, Finish, Rest, Entry, Ending, Unknown, NoEntry, TypeOK, Entries, Closings,
       Supervisors
<1>30. ASSUME NEW c \in Command, NEW k \in {"close", "delete"}, Call(c, k) PROVE Entry'
  BY <1>30 DEF Call, CmdAt, Rest, Entry, Ending, Unknown, NoEntry, TypeOK, Entries, Closings,
       Supervisors
<1>31. ASSUME NEW o \in Opener, Open(o) PROVE Entry'
  BY <1>31 DEF Open, Entry, Ending, Unknown, NoEntry, TypeOK, Entries, Closings, Supervisors
<1>32. ASSUME NEW o \in Opener, Opened(o) PROVE Entry'
  BY <1>32 DEF Opened, Usable, Entry, Ending, Unknown, NoEntry, TypeOK, Entries, Closings, Supervisors
<1>33. ASSUME NEW t \in Transfer, Begin(t) PROVE Entry'
  BY <1>33 DEF Begin, Transferring, Entry, Ending
<1>34. ASSUME NEW t \in Transfer, Register(t) PROVE Entry'
  BY <1>34 DEF Register, Transferring, Entry, Ending
<1>35. ASSUME NEW t \in Transfer, Copy(t) PROVE Entry'
  BY <1>35 DEF Copy, Transferring, Entry, Ending
<1>36. ASSUME NEW t \in Transfer, Check(t) PROVE Entry'
  BY <1>36 DEF Check, Transferring, Entry, Ending
<1>37. ASSUME NEW t \in Transfer, Replace(t) PROVE Entry'
  BY <1>37 DEF Replace, Transferring, Entry, Ending
<1>38. ASSUME NEW t \in Transfer, CancelTransfer(t) PROVE Entry'
  BY <1>38 DEF CancelTransfer, Transferring, Entry, Ending
<1>39. ASSUME NEW l \in Link, Lose(l) PROVE Entry'
  BY <1>39 DEF Lose, Entry, Ending
<1>40. CASE UNCHANGED vars
  BY <1>40 DEF vars, Entry, Ending, Unknown, NoEntry, TypeOK, Entries, Closings, Supervisors
<1>41. QED BY <1>1, <1>2, <1>3, <1>4, <1>5, <1>6, <1>7, <1>8, <1>9, <1>10, <1>11, <1>12, <1>13, <1>14,
     <1>15, <1>16, <1>17, <1>18, <1>19, <1>20, <1>21, <1>22, <1>23, <1>24, <1>25, <1>26, <1>27, <1>28,
     <1>29, <1>30, <1>31, <1>32, <1>33, <1>34, <1>35, <1>36, <1>37, <1>38, <1>39, <1>40 DEF Next,
     Supervise, Flush, Commands, Run

\* The supervisor keeps to the entry's transport.
LEMMA SupervisedStep == TypeOK /\ Unknown /\ Entry /\ Supervised /\ [Next]_vars => Supervised'
<1> SUFFICES ASSUME TypeOK, Unknown, Entry, Supervised, [Next]_vars PROVE Supervised'
  OBVIOUS
<1>1. CASE Establish
  <2>1. CASE UNCHANGED <<session, sup>>
    BY <2>1 DEF Supervised, Ending
  <2>2. CASE ~UNCHANGED <<session, sup>>
    <3>1. PICK l \in Link : /\ session' = [NoEntry EXCEPT !.here = TRUE, !.status = "connected", !.handle = l]
                            /\ sup' = [sup EXCEPT !.pc = "reading", !.at = l]
      BY <1>1, <2>2 DEF Establish
    <3>2. session'.handle = l
      BY <3>1 DEF NoEntry
    <3>3. sup'.pc = "reading" /\ sup'.at = l
      BY <3>1 DEF TypeOK, Supervisors
    <3> QED BY <3>2, <3>3, SMTT(60) DEF Supervised
  <2> QED BY <2>1, <2>2
<1>2. CASE Save
  BY <1>2 DEF Save, Supervised, Ending
<1>3. CASE Discard
  <2>1. session' \in {session, Discarded, NoEntry} /\ sup' = sup
    BY <1>3 DEF Discard, Discarded
  <2>2. CASE session' = session
    BY <2>1, <2>2 DEF Supervised, Ending
  <2>3. CASE session' # session
    BY <2>1, <2>3, Forms DEF Supervised, Ending
  <2> QED BY <2>2, <2>3
<1>4. CASE Reading
  BY <1>4 DEF Reading, Cancelled, Over, To, At, Supervised, Ending, Entry, Unknown, NoEntry, TypeOK,
       Entries, Supervisors, Nobody
<1>5. CASE Degrade
  BY <1>5 DEF Degrade, At, Health, Supervised, Ending, Entry, Unknown, NoEntry, TypeOK, Entries,
       Supervisors, Nobody
<1>6. CASE Try
  BY <1>6, ZenonT(60) DEF Try, At, Health, To, By, Supervised, Ending, Entry, Unknown, NoEntry, TypeOK, Entries,
       Supervisors, Nobody
<1>7. CASE Backoff
  BY <1>7 DEF Backoff, At, Cancelled, Health, To, Over, By, Supervised, Ending, Entry, Unknown,
       NoEntry, TypeOK, Entries, Supervisors, Nobody
<1>8. CASE Dial
  <2>1. session' = session /\ sup.pc = "dial"
    BY <1>8 DEF Dial, At
  <2>2. \/ sup' \in {Over, [sup EXCEPT !.pc = "try"]}
        \/ \E l \in Link : sup' = [sup EXCEPT !.pc = "install", !.next = l]
    BY <1>8 DEF Dial, To
  <2>3. \A l \in Link : /\ [sup EXCEPT !.pc = "install", !.next = l].pc = "install"
                        /\ [sup EXCEPT !.pc = "install", !.next = l].next = l
    BY DEF TypeOK, Supervisors
  <2>4. [sup EXCEPT !.pc = "try"].pc = "try" /\ Over.pc = "done"
    BY DEF TypeOK, Supervisors, Over
  <2>5. sup'.pc \in {"try", "done", "install"} /\ (sup'.pc = "install" => sup'.next \in Link)
    <3>1. CASE sup' = Over
      BY <3>1, <2>4
    <3>2. CASE sup' = [sup EXCEPT !.pc = "try"]
      BY <3>2, <2>4
    <3>3. CASE \E l \in Link : sup' = [sup EXCEPT !.pc = "install", !.next = l]
      BY <3>3, <2>3
    <3> QED BY <2>2, <3>1, <3>2, <3>3
  <2> QED BY <2>1, <2>5 DEF Supervised, Ending
<1>9. CASE Install
  <2>1. CASE session.here /\ ~session.closing
    <3>1. session' = Renewed(sup.next) /\ sup' = [sup EXCEPT !.pc = "sweep"] /\ sup.pc = "install"
      BY <1>9, <2>1 DEF Install, Renewed, To, At
    <3>2. sup'.pc = "sweep" /\ sup'.next = sup.next
      BY <3>1 DEF TypeOK, Supervisors
    <3>3. session'.handle = sup.next /\ session'.status = session.status
      BY <3>1, Forms
    <3> QED BY <2>1, <3>1, <3>2, <3>3 DEF Supervised, Ending
  <2>2. CASE ~(session.here /\ ~session.closing)
    <3>1. session' = session /\ sup' = [sup EXCEPT !.pc = "orphan"]
      BY <1>9, <2>2 DEF Install, To
    <3>2. sup'.pc = "orphan"
      BY <3>1 DEF TypeOK, Supervisors
    <3> QED BY <2>2, <3>1, <3>2 DEF Supervised, Ending
  <2> QED BY <2>1, <2>2
<1>10. CASE Orphan
  BY <1>10 DEF Orphan, At, Disconnected, Over, Supervised, Ending, Entry, Unknown, NoEntry, TypeOK,
       Entries, Supervisors, Nobody
<1>11. CASE Installed
  BY <1>11 DEF Installed, At, Sweep, To, Supervised, Ending, Entry, Unknown, NoEntry, TypeOK, Entries,
       Supervisors, Nobody
<1>12. CASE Up
  BY <1>12 DEF Up, At, Health, Supervised, Ending, Entry, Unknown, NoEntry, TypeOK, Entries,
       Supervisors, Nobody
<1>13. CASE Saved
  BY <1>13 DEF Saved, At, Flushed, To, Over, By, Supervised, Ending, Entry, Unknown, NoEntry, TypeOK,
       Entries, Supervisors, Nobody
<1>14. CASE Clear
  <2>1. session' \in {session, Cleared, NoEntry}
    BY <1>14 DEF Clear, Cleared
  <2>2. sup.pc \in {"clear", "cancel", "remove"} /\ sup'.pc \in {"cancel", "remove", "done"}
    BY <1>14 DEF Clear, At, To, Over, TypeOK, Supervisors
  <2>3. session' # NoEntry => session'.status = session.status /\ (Ending => Ending')
    BY <2>1, Forms DEF Ending
  <2>4. session' = NoEntry => Ending'
    BY Forms DEF Ending
  <2> QED BY <2>2, <2>3, <2>4 DEF Supervised
<1>15. CASE Receive
  BY <1>15 DEF Receive, At, Supervised, Ending, Entry, Unknown, NoEntry, TypeOK, Entries, Supervisors,
       Nobody
<1>16. CASE SpawnWorker
  BY <1>16 DEF SpawnWorker, By, Supervised, Ending, Entry, Unknown, NoEntry, TypeOK, Entries,
       Supervisors, Nobody
<1>17. CASE WorkerLoops
  BY <1>17 DEF WorkerLoops, By, Flushed, Supervised, Ending, Entry, Unknown, NoEntry, TypeOK, Entries,
       Supervisors, Nobody
<1>18. ASSUME NEW f \in Flusher, Take(f) PROVE Supervised'
  BY <1>18 DEF Take, Supervised, Ending, Entry, Unknown, NoEntry, TypeOK, Entries, Supervisors, Nobody
<1>19. ASSUME NEW f \in Flusher, Select(f) PROVE Supervised'
  BY <1>19 DEF Select, Supervised, Ending
<1>20. ASSUME NEW f \in Flusher, Update(f) PROVE Supervised'
  BY <1>20 DEF Update, Supervised, Ending
<1>21. ASSUME NEW f \in Flusher, Restore(f) PROVE Supervised'
  BY <1>21 DEF Restore, Supervised, Ending, Entry, Unknown, NoEntry, TypeOK, Entries, Supervisors,
       Nobody
<1>22. ASSUME NEW c \in Command, CancelTransfers(c) PROVE Supervised'
  BY <1>22 DEF CancelTransfers, Rest, Supervised, Ending
<1>23. ASSUME NEW c \in Command, Detach(c) PROVE Supervised'
  BY <1>23 DEF Detach, CmdAt, Detached, Rest, Supervised, Ending, Entry, Unknown, NoEntry, TypeOK,
       Entries, Supervisors, Nobody
<1>24. ASSUME NEW c \in Command, Shut(c) PROVE Supervised'
  BY <1>24 DEF Shut, Rest, Supervised, Ending
<1>25. ASSUME NEW c \in Command, Mark(c) PROVE Supervised'
  BY <1>25 DEF Mark, CmdAt, Closed, Goto, Finish, Of, Rest, Supervised, Ending, Entry, Unknown,
       NoEntry, TypeOK, Entries, Supervisors, Nobody
<1>26. ASSUME NEW c \in Command, Collect(c) PROVE Supervised'
  BY <1>26 DEF Collect, Rest, Supervised, Ending
<1>27. ASSUME NEW c \in Command, MarkDeleted(c) PROVE Supervised'
  BY <1>27 DEF MarkDeleted, CmdAt, Closed, Of, Goto, Rest, Supervised, Ending, Entry, Unknown, NoEntry,
       TypeOK, Entries, Supervisors, Nobody
<1>28. ASSUME NEW c \in Command, Remove(c) PROVE Supervised'
  BY <1>28 DEF Remove, CmdAt, Flushed, Of, NoEntry, Goto, Finish, Rest, Supervised, Ending, Entry,
       Unknown, TypeOK, Entries, Supervisors, Nobody
<1>29. ASSUME NEW c \in Command, Purge(c) PROVE Supervised'
  BY <1>29 DEF Purge, Rest, Supervised, Ending
<1>30. ASSUME NEW c \in Command, NEW k \in {"close", "delete"}, Call(c, k) PROVE Supervised'
  BY <1>30 DEF Call, Rest, Supervised, Ending
<1>31. ASSUME NEW o \in Opener, Open(o) PROVE Supervised'
  BY <1>31 DEF Open, Supervised, Ending, Entry, Unknown, NoEntry, TypeOK, Entries, Supervisors, Nobody
<1>32. ASSUME NEW o \in Opener, Opened(o) PROVE Supervised'
  BY <1>32 DEF Opened, Usable, Supervised, Ending, Entry, Unknown, NoEntry, TypeOK, Entries,
       Supervisors, Nobody
<1>33. ASSUME NEW t \in Transfer, Begin(t) PROVE Supervised'
  BY <1>33 DEF Begin, Transferring, Supervised, Ending
<1>34. ASSUME NEW t \in Transfer, Register(t) PROVE Supervised'
  BY <1>34 DEF Register, Transferring, Supervised, Ending
<1>35. ASSUME NEW t \in Transfer, Copy(t) PROVE Supervised'
  BY <1>35 DEF Copy, Transferring, Supervised, Ending
<1>36. ASSUME NEW t \in Transfer, Check(t) PROVE Supervised'
  BY <1>36 DEF Check, Transferring, Supervised, Ending
<1>37. ASSUME NEW t \in Transfer, Replace(t) PROVE Supervised'
  BY <1>37 DEF Replace, Transferring, Supervised, Ending
<1>38. ASSUME NEW t \in Transfer, CancelTransfer(t) PROVE Supervised'
  BY <1>38 DEF CancelTransfer, Transferring, Supervised, Ending
<1>39. ASSUME NEW l \in Link, Lose(l) PROVE Supervised'
  BY <1>39 DEF Lose, Supervised, Ending
<1>40. CASE UNCHANGED vars
  BY <1>40 DEF vars, Supervised, Ending, Entry, Unknown, NoEntry, TypeOK, Entries, Supervisors, Nobody
<1>41. QED BY <1>1, <1>2, <1>3, <1>4, <1>5, <1>6, <1>7, <1>8, <1>9, <1>10, <1>11, <1>12, <1>13, <1>14,
     <1>15, <1>16, <1>17, <1>18, <1>19, <1>20, <1>21, <1>22, <1>23, <1>24, <1>25, <1>26, <1>27, <1>28,
     <1>29, <1>30, <1>31, <1>32, <1>33, <1>34, <1>35, <1>36, <1>37, <1>38, <1>39, <1>40 DEF Next,
     Supervise, Flush, Commands, Run

\* Generations tell the openers apart.
LEMMA ChannelsStep == TypeOK /\ Unknown /\ Entry /\ Channels /\ [Next]_vars => Channels'
<1> SUFFICES ASSUME TypeOK, Unknown, Entry, Channels, [Next]_vars PROVE Channels'
  OBVIOUS
<1>1. CASE Establish
  <2>1. opener' = opener /\ \A o \in Opener : opener[o].pc = "idle"
    BY <1>1 DEF Establish, Unknown
  <2>2. session'.sftp = Nobody
    <3>1. \A l : [NoEntry EXCEPT !.here = TRUE, !.status = "connected", !.handle = l].sftp = Nobody
      BY DEF NoEntry
    <3>2. session.sftp = Nobody
      BY <1>1, Forms DEF Establish, Unknown
    <3> QED BY <1>1, <3>1, <3>2 DEF Establish
  <2> QED BY <2>1, <2>2 DEF Channels
<1>2. CASE Save
  BY <1>2 DEF Save, Channels, Ending
<1>3. CASE Discard
  <2>1. session' \in {session, Discarded, NoEntry} /\ opener' = opener
    BY <1>3 DEF Discard, Discarded, Sweep
  <2>2. CASE session' = session
    BY <2>1, <2>2 DEF Channels, Ending
  <2>3. CASE session' = Discarded /\ session' # session
    <3>1. /\ session'.handle = Nobody /\ session'.sftp = Nobody
          /\ session'.gen = session.gen + 1 /\ session'.here = session.here
      BY <2>3, Forms
    <3>2. session.here => \A o \in Opener : opener[o].pc = "opening" =>
            /\ opener[o].gen <= session'.gen /\ opener[o].gen < session'.gen
            /\ opener[o].gen # session'.gen
      BY <3>1 DEF Channels, TypeOK, Entries, Openings
    <3> QED BY <2>1, <3>1, <3>2 DEF Channels
  <2>4. CASE session' = NoEntry
    BY <2>1, <2>4, Forms DEF Channels, Ending
  <2> QED BY <2>1, <2>2, <2>3, <2>4
<1>4. CASE Reading
  BY <1>4 DEF Reading, Channels, Ending
<1>5. CASE Degrade
  BY <1>5 DEF Degrade, At, Health, Channels, Ending, NoEntry, TypeOK, Entries, Openings
<1>6. CASE Try
  BY <1>6 DEF Try, At, Health, To, By, Channels, Ending, NoEntry, TypeOK, Entries, Openings
<1>7. CASE Backoff
  BY <1>7 DEF Backoff, At, Cancelled, Health, To, Over, By, Channels, Ending, NoEntry, TypeOK, Entries,
       Openings
<1>8. CASE Dial
  BY <1>8 DEF Dial, Channels, Ending
<1>9. CASE Install
  <2>1. CASE session' = session
    BY <1>9, <2>1 DEF Install, Channels, Ending
  <2>2. CASE session' = Renewed(sup.next)
    <3>1. /\ session'.sftp = Nobody /\ session'.gen = session.gen + 1 /\ session'.here = session.here
      BY <2>2, Forms
    <3>2. session.here => \A o \in Opener : opener[o].pc = "opening" =>
            /\ opener[o].gen <= session'.gen /\ opener[o].gen < session'.gen
            /\ opener[o].gen # session'.gen
      BY <3>1 DEF Channels, TypeOK, Entries, Openings
    <3>3. opener' = opener
      BY <1>9 DEF Install
    <3> QED BY <3>1, <3>2, <3>3 DEF Channels
  <2> QED BY <1>9, <2>1, <2>2 DEF Install, Renewed
<1>10. CASE Orphan
  BY <1>10 DEF Orphan, Channels, Ending
<1>11. CASE Installed
  BY <1>11 DEF Installed, Channels, Ending
<1>12. CASE Up
  BY <1>12 DEF Up, At, Health, Channels, Ending, NoEntry, TypeOK, Entries, Openings
<1>13. CASE Saved
  BY <1>13 DEF Saved, Channels, Ending
<1>14. CASE Clear
  <2>1. session' \in {session, Cleared, NoEntry} /\ opener' = opener
    BY <1>14 DEF Clear, Cleared, Sweep
  <2>2. CASE session' = session
    BY <2>1, <2>2 DEF Channels, Ending
  <2>3. CASE session' = Cleared /\ session' # session
    <3>1. /\ session'.handle = Nobody /\ session'.sftp = Nobody
          /\ session'.gen = session.gen + 1 /\ session'.here = session.here
      BY <2>3, Forms
    <3>2. session.here => \A o \in Opener : opener[o].pc = "opening" =>
            /\ opener[o].gen <= session'.gen /\ opener[o].gen < session'.gen
            /\ opener[o].gen # session'.gen
      BY <3>1 DEF Channels, TypeOK, Entries, Openings
    <3> QED BY <2>1, <3>1, <3>2 DEF Channels
  <2>4. CASE session' = NoEntry
    BY <2>1, <2>4, Forms DEF Channels, Ending
  <2> QED BY <2>1, <2>2, <2>3, <2>4
<1>15. CASE Receive
  BY <1>15 DEF Receive, At, Channels, Ending, NoEntry, TypeOK, Entries, Openings
<1>16. CASE SpawnWorker
  BY <1>16 DEF SpawnWorker, By, Channels, Ending, NoEntry, TypeOK, Entries, Openings
<1>17. CASE WorkerLoops
  BY <1>17 DEF WorkerLoops, By, Flushed, Channels, Ending, NoEntry, TypeOK, Entries, Openings
<1>18. ASSUME NEW f \in Flusher, Take(f) PROVE Channels'
  BY <1>18 DEF Take, Channels, Ending, NoEntry, TypeOK, Entries, Openings
<1>19. ASSUME NEW f \in Flusher, Select(f) PROVE Channels'
  BY <1>19 DEF Select, Channels, Ending
<1>20. ASSUME NEW f \in Flusher, Update(f) PROVE Channels'
  BY <1>20 DEF Update, Channels, Ending
<1>21. ASSUME NEW f \in Flusher, Restore(f) PROVE Channels'
  BY <1>21 DEF Restore, Channels, Ending, NoEntry, TypeOK, Entries, Openings
<1>22. ASSUME NEW c \in Command, CancelTransfers(c) PROVE Channels'
  BY <1>22 DEF CancelTransfers, Rest, Channels, Ending
<1>23. ASSUME NEW c \in Command, Detach(c) PROVE Channels'
  BY <1>23 DEF Detach, CmdAt, Detached, Rest, Channels, Ending, NoEntry, TypeOK, Entries, Openings
<1>24. ASSUME NEW c \in Command, Shut(c) PROVE Channels'
  BY <1>24 DEF Shut, Rest, Channels, Ending
<1>25. ASSUME NEW c \in Command, Mark(c) PROVE Channels'
  BY <1>25, ZenonT(60) DEF Mark, CmdAt, Closed, Goto, Finish, Of, Rest, Channels, Ending, NoEntry, TypeOK, Entries,
       Openings
<1>26. ASSUME NEW c \in Command, Collect(c) PROVE Channels'
  BY <1>26 DEF Collect, Rest, Channels, Ending
<1>27. ASSUME NEW c \in Command, MarkDeleted(c) PROVE Channels'
  <2>1. session' \in {session, Unowned} /\ opener' = opener
    BY <1>27 DEF MarkDeleted, Unowned, Rest
  <2>2. CASE session' = session
    BY <2>1, <2>2 DEF Channels, Ending
  <2>3. CASE session' = Unowned
    <3>1. /\ session'.closing /\ session'.status = "disconnected" /\ session'.sftp = session.sftp
          /\ session'.chan = session.chan /\ session'.gen = session.gen /\ session'.here = session.here
      BY <2>3, Forms
    <3> QED BY <2>1, <3>1 DEF Channels, Ending
  <2> QED BY <2>1, <2>2, <2>3
<1>28. ASSUME NEW c \in Command, Remove(c) PROVE Channels'
  BY <1>28 DEF Remove, CmdAt, Flushed, Of, NoEntry, Goto, Finish, Rest, Channels, Ending, TypeOK,
       Entries, Openings
<1>29. ASSUME NEW c \in Command, Purge(c) PROVE Channels'
  BY <1>29 DEF Purge, Rest, Channels, Ending
<1>30. ASSUME NEW c \in Command, NEW k \in {"close", "delete"}, Call(c, k) PROVE Channels'
  BY <1>30 DEF Call, Rest, Channels, Ending
<1>31. ASSUME NEW o \in Opener, Open(o) PROVE Channels'
  <2>1. session.here /\ ~session.closing /\ session.status = "connected" /\ session.sftp = Nobody
    BY <1>31 DEF Open, Entry
  <2>2. /\ session'.here /\ session'.gen = session.gen + 1 /\ session'.sftp = Nobody
        /\ session'.handle = session.handle /\ ~session'.closing
    BY <1>31, <2>1 DEF Open, TypeOK, Entries
  <2>3. /\ opener'[o].gen = session.gen + 1 /\ opener'[o].via = session.handle
        /\ \A p \in Opener : p # o => opener'[p] = opener[p]
    BY <1>31 DEF Open, TypeOK
  <2>4. \A p \in Opener : p # o /\ opener'[p].pc = "opening" => opener'[p].gen < session'.gen
    BY <2>1, <2>2, <2>3 DEF Channels, TypeOK, Entries, Openings
  <2>5. session'.gen <= session'.gen
    BY <2>2 DEF TypeOK, Entries
  <2>6. \A p \in Opener : opener'[p].pc = "opening" =>
          /\ opener'[p].gen <= session'.gen
          /\ opener'[p].gen = session'.gen => opener'[p].via = session'.handle
    BY <2>2, <2>3, <2>4, <2>5 DEF TypeOK, Entries, Openings
  <2>7. \A p, q \in Opener : opener'[p].pc = "opening" /\ opener'[q].pc = "opening" /\ p # q =>
          opener'[p].gen # opener'[q].gen
    <3> SUFFICES ASSUME NEW p \in Opener, NEW q \in Opener,
                        opener'[p].pc = "opening", opener'[q].pc = "opening", p # q
                 PROVE  opener'[p].gen # opener'[q].gen
      OBVIOUS
    <3>1. CASE p # o /\ q # o
      BY <3>1, <2>3 DEF Channels
    <3>2. opener'[o].gen = session'.gen
      BY <2>2, <2>3
    <3>3. \A r \in Opener : r # o /\ opener'[r].pc = "opening" => opener'[r].gen # session'.gen
      BY <2>4, <2>2, <2>3 DEF TypeOK, Entries, Openings
    <3> QED BY <3>1, <3>2, <3>3
  <2> QED BY <2>2, <2>6, <2>7 DEF Channels
<1>32. ASSUME NEW o \in Opener, Opened(o) PROVE Channels'
  <2>1. /\ opener'[o].pc = "idle"
        /\ \A p \in Opener : p # o => opener'[p] = opener[p]
    BY <1>32 DEF Opened, TypeOK, Openings
  <2>2. CASE session' = session
    BY <2>1, <2>2 DEF Channels, Ending
  <2>3. CASE session' # session
    <3>1. /\ session.here /\ session.gen = opener[o].gen
          /\ session' = [session EXCEPT !.sftp = opener[o].via, !.chan = opener[o].gen]
      BY <1>32, <2>3 DEF Opened
    <3>2. /\ session'.here = session.here /\ session'.closing = session.closing
          /\ session'.status = session.status /\ session'.handle = session.handle
          /\ session'.gen = session.gen /\ session'.sftp = opener[o].via
          /\ session'.chan = session.gen
      BY <3>1 DEF TypeOK, Entries
    <3>3. \A p \in Opener : opener'[p].pc = "opening" =>
            p # o /\ opener[p].gen < session.gen /\ opener'[p] = opener[p]
      BY <1>32, <2>1, <3>1 DEF Opened, Channels, TypeOK, Entries, Openings
    <3>4. ~session.closing => opener[o].via = session.handle
      BY <1>32, <3>1 DEF Opened, Channels
    <3>5. session'.chan <= session'.gen
      BY <3>2 DEF TypeOK, Entries
    <3>6. /\ ~Ending' => session'.sftp \in {Nobody, session'.handle}
          /\ \A p \in Opener : opener'[p].pc = "opening" =>
               opener'[p].gen <= session'.gen /\ opener'[p].gen # session'.gen
               /\ opener'[p].gen < session'.gen
      BY <3>2, <3>3, <3>4 DEF Ending, TypeOK, Entries, Openings
    <3>7. \A p, q \in Opener : opener'[p].pc = "opening" /\ opener'[q].pc = "opening" /\ p # q =>
            opener'[p].gen # opener'[q].gen
      BY <3>3 DEF Channels
    <3> QED BY <3>5, <3>6, <3>7 DEF Channels
  <2> QED BY <2>2, <2>3
<1>33. ASSUME NEW t \in Transfer, Begin(t) PROVE Channels'
  BY <1>33 DEF Begin, Transferring, Channels, Ending
<1>34. ASSUME NEW t \in Transfer, Register(t) PROVE Channels'
  BY <1>34 DEF Register, Transferring, Channels, Ending
<1>35. ASSUME NEW t \in Transfer, Copy(t) PROVE Channels'
  BY <1>35 DEF Copy, Transferring, Channels, Ending
<1>36. ASSUME NEW t \in Transfer, Check(t) PROVE Channels'
  BY <1>36 DEF Check, Transferring, Channels, Ending
<1>37. ASSUME NEW t \in Transfer, Replace(t) PROVE Channels'
  BY <1>37 DEF Replace, Transferring, Channels, Ending
<1>38. ASSUME NEW t \in Transfer, CancelTransfer(t) PROVE Channels'
  BY <1>38 DEF CancelTransfer, Transferring, Channels, Ending
<1>39. ASSUME NEW l \in Link, Lose(l) PROVE Channels'
  BY <1>39 DEF Lose, Channels, Ending
<1>40. CASE UNCHANGED vars
  BY <1>40 DEF vars, Channels, Ending, NoEntry, TypeOK, Entries, Openings
<1>41. QED BY <1>1, <1>2, <1>3, <1>4, <1>5, <1>6, <1>7, <1>8, <1>9, <1>10, <1>11, <1>12, <1>13, <1>14,
     <1>15, <1>16, <1>17, <1>18, <1>19, <1>20, <1>21, <1>22, <1>23, <1>24, <1>25, <1>26, <1>27, <1>28,
     <1>29, <1>30, <1>31, <1>32, <1>33, <1>34, <1>35, <1>36, <1>37, <1>38, <1>39, <1>40 DEF Next,
     Supervise, Flush, Commands, Run

\* A channel that is replaced leaves its transfers behind.
LEMMA TransfersStep == TypeOK /\ Unknown /\ Entry /\ Channels /\ Transfers /\ [Next]_vars => Transfers'
<1> SUFFICES ASSUME TypeOK, Unknown, Entry, Channels, Transfers, [Next]_vars PROVE Transfers'
  OBVIOUS
<1>1. CASE Establish
  <2>1. transfer' = transfer /\ \A t \in Transfer : transfer[t].pc \in {"none", "over"}
    BY <1>1 DEF Establish, Unknown
  <2> QED BY <2>1 DEF Transfers
<1>2. CASE Save
  BY <1>2 DEF Save, Transfers
<1>3. CASE Discard
  <2>1. CASE session' = session
    BY <1>3, <2>1, SMTT(60) DEF Discard, Sweep, Transfers, TypeOK, Copies
  <2>2. CASE session' = Discarded /\ session' # session /\ session.here
    <3>1. /\ session'.sftp = Nobody /\ session'.gen = session.gen + 1 /\ session'.here = session.here
      BY <2>2, Forms
    <3>2. opener' = opener /\ transfer' = transfer
      BY <1>3, <2>2 DEF Discard
    <3>3. /\ \A o \in Opener : opener[o].pc = "opening" => opener[o].gen # session'.gen
          /\ \A t \in Transfer : transfer[t].pc \in {"starting", "running", "copied"} =>
               transfer[t].gen <= session'.gen
      BY <2>2, <3>1 DEF Channels, Transfers, TypeOK, Entries, Openings, Copies
    <3> QED BY <3>1, <3>2, <3>3 DEF Transfers
  <2>3. CASE ~session'.here
    BY <2>3 DEF Transfers
  <2> QED BY <1>3, <2>1, <2>2, <2>3, Forms DEF Discard, Discarded
<1>4. CASE Reading
  BY <1>4 DEF Reading, Transfers
<1>5. CASE Degrade
  BY <1>5 DEF Degrade, At, Health, Transfers, TypeOK, Entries, Openings, Copies
<1>6. CASE Try
  BY <1>6 DEF Try, At, Health, To, By, Transfers, TypeOK, Entries, Openings, Copies
<1>7. CASE Backoff
  BY <1>7 DEF Backoff, At, Cancelled, Health, To, Over, By, Transfers, TypeOK, Entries, Openings, Copies
<1>8. CASE Dial
  BY <1>8 DEF Dial, Transfers
<1>9. CASE Install
  <2>1. CASE session' = session
    BY <1>9, <2>1 DEF Install, Sweep, Transfers, TypeOK, Copies
  <2>2. CASE session' = Renewed(sup.next) /\ session' # session /\ session.here
    <3>1. /\ session'.sftp = Nobody /\ session'.gen = session.gen + 1 /\ session'.here = session.here
      BY <2>2, Forms
    <3>2. opener' = opener /\ transfer' = transfer
      BY <1>9, <2>2 DEF Install
    <3>3. /\ \A o \in Opener : opener[o].pc = "opening" => opener[o].gen # session'.gen
          /\ \A t \in Transfer : transfer[t].pc \in {"starting", "running", "copied"} =>
               transfer[t].gen <= session'.gen
      BY <2>2, <3>1 DEF Channels, Transfers, TypeOK, Entries, Openings, Copies
    <3> QED BY <3>1, <3>2, <3>3 DEF Transfers
  <2>3. CASE ~session'.here
    BY <2>3 DEF Transfers
  <2> QED BY <1>9, <2>1, <2>2, <2>3, Forms DEF Install, Renewed
<1>10. CASE Orphan
  BY <1>10 DEF Orphan, Transfers
<1>11. CASE Installed
  BY <1>11 DEF Installed, At, Sweep, To, Transfers, TypeOK, Entries, Openings, Copies
<1>12. CASE Up
  BY <1>12 DEF Up, At, Health, Transfers, TypeOK, Entries, Openings, Copies
<1>13. CASE Saved
  BY <1>13 DEF Saved, Transfers
<1>14. CASE Clear
  <2>1. CASE session' = session
    BY <1>14, <2>1 DEF Clear, Sweep, Transfers, TypeOK, Copies
  <2>2. CASE session' = Cleared /\ session' # session /\ session.here
    <3>1. /\ session'.sftp = Nobody /\ session'.gen = session.gen + 1 /\ session'.here = session.here
      BY <2>2, Forms
    <3>2. opener' = opener /\ transfer' = transfer
      BY <1>14, <2>2 DEF Clear
    <3>3. /\ \A o \in Opener : opener[o].pc = "opening" => opener[o].gen # session'.gen
          /\ \A t \in Transfer : transfer[t].pc \in {"starting", "running", "copied"} =>
               transfer[t].gen <= session'.gen
      BY <2>2, <3>1 DEF Channels, Transfers, TypeOK, Entries, Openings, Copies
    <3> QED BY <3>1, <3>2, <3>3 DEF Transfers
  <2>3. CASE ~session'.here
    BY <2>3 DEF Transfers
  <2> QED BY <1>14, <2>1, <2>2, <2>3, Forms DEF Clear, Cleared
<1>15. CASE Receive
  BY <1>15 DEF Receive, At, Transfers, TypeOK, Entries, Openings, Copies
<1>16. CASE SpawnWorker
  BY <1>16 DEF SpawnWorker, By, Transfers, TypeOK, Entries, Openings, Copies
<1>17. CASE WorkerLoops
  BY <1>17 DEF WorkerLoops, By, Flushed, Transfers, TypeOK, Entries, Openings, Copies
<1>18. ASSUME NEW f \in Flusher, Take(f) PROVE Transfers'
  BY <1>18 DEF Take, Transfers, TypeOK, Entries, Openings, Copies
<1>19. ASSUME NEW f \in Flusher, Select(f) PROVE Transfers'
  BY <1>19 DEF Select, Transfers
<1>20. ASSUME NEW f \in Flusher, Update(f) PROVE Transfers'
  BY <1>20 DEF Update, Transfers
<1>21. ASSUME NEW f \in Flusher, Restore(f) PROVE Transfers'
  BY <1>21 DEF Restore, Transfers, TypeOK, Entries, Openings, Copies
<1>22. ASSUME NEW c \in Command, CancelTransfers(c) PROVE Transfers'
  BY <1>22 DEF CancelTransfers, CmdAt, Sweep, Goto, Rest, Transfers, TypeOK, Entries, Openings, Copies
<1>23. ASSUME NEW c \in Command, Detach(c) PROVE Transfers'
  BY <1>23 DEF Detach, CmdAt, Detached, Rest, Transfers, TypeOK, Entries, Openings, Copies
<1>24. ASSUME NEW c \in Command, Shut(c) PROVE Transfers'
  BY <1>24 DEF Shut, Rest, Transfers
<1>25. ASSUME NEW c \in Command, Mark(c) PROVE Transfers'
  <2>1. CASE session' = session
    BY <1>25, <2>1 DEF Mark, Rest, Transfers
  <2>2. CASE session' = Closed(session)
    <3>1. /\ session'.closing /\ session'.sftp = session.sftp
          /\ session'.chan = session.chan /\ session'.gen = session.gen /\ session'.here = session.here
      BY <2>2, Forms
    <3> QED BY <1>25, <3>1 DEF Mark, Rest, Transfers
  <2> QED BY <1>25, <2>1, <2>2 DEF Mark
<1>26. ASSUME NEW c \in Command, Collect(c) PROVE Transfers'
  BY <1>26 DEF Collect, Rest, Transfers
<1>27. ASSUME NEW c \in Command, MarkDeleted(c) PROVE Transfers'
  <2>1. CASE session' = session
    BY <1>27, <2>1 DEF MarkDeleted, Rest, Transfers
  <2>2. CASE session' = Unowned
    <3>1. /\ session'.closing /\ session'.sftp = session.sftp
          /\ session'.chan = session.chan /\ session'.gen = session.gen /\ session'.here = session.here
      BY <2>2, Forms
    <3> QED BY <1>27, <3>1 DEF MarkDeleted, Rest, Transfers
  <2> QED BY <1>27, <2>1, <2>2 DEF MarkDeleted, Unowned
<1>28. ASSUME NEW c \in Command, Remove(c) PROVE Transfers'
  BY <1>28 DEF Remove, CmdAt, Flushed, Of, NoEntry, Goto, Finish, Rest, Transfers, TypeOK, Entries,
       Openings, Copies
<1>29. ASSUME NEW c \in Command, Purge(c) PROVE Transfers'
  BY <1>29 DEF Purge, Rest, Transfers
<1>30. ASSUME NEW c \in Command, NEW k \in {"close", "delete"}, Call(c, k) PROVE Transfers'
  BY <1>30 DEF Call, Rest, Transfers
<1>31. ASSUME NEW o \in Opener, Open(o) PROVE Transfers'
  BY <1>31 DEF Open, Transfers, TypeOK, Entries, Openings, Copies
<1>32. ASSUME NEW o \in Opener, Opened(o) PROVE Transfers'
  <2>1. /\ transfer' = transfer /\ opener'[o].pc = "idle"
        /\ \A p \in Opener : p # o => opener'[p] = opener[p]
    BY <1>32 DEF Opened, TypeOK, Openings
  <2>2. CASE session' = session
    BY <2>1, <2>2 DEF Transfers
  <2>3. CASE session' # session
    <3>1. /\ session.here /\ session.status = "connected" /\ session.gen = opener[o].gen
          /\ opener[o].pc = "opening"
          /\ session' = [session EXCEPT !.sftp = opener[o].via, !.chan = opener[o].gen]
      BY <1>32, <2>3 DEF Opened
    <3>2. /\ session'.here = session.here /\ session'.closing = session.closing
          /\ session'.gen = session.gen /\ session'.chan = session.gen
      BY <3>1 DEF TypeOK, Entries
    <3>3. ~session.closing
      BY <3>1 DEF Channels, TypeOK, Entries
    <3>4. \A t \in Transfer : transfer[t].pc \in {"starting", "running", "copied"} =>
            transfer[t].gen < session.gen
      BY <3>1, <3>3 DEF Transfers
    <3>5. \A t \in Transfer : transfer[t].pc \in {"starting", "running", "copied"} =>
            transfer[t].gen <= session'.gen /\ transfer[t].gen # session'.chan
            /\ transfer[t].gen < session'.gen
      BY <3>2, <3>4 DEF TypeOK, Entries, Copies
    <3> QED BY <2>1, <3>5 DEF Transfers
  <2> QED BY <2>2, <2>3
<1>33. ASSUME NEW t \in Transfer, Begin(t) PROVE Transfers'
  <2>1. /\ session' = session /\ opener' = opener /\ session.here /\ session.sftp # Nobody
        /\ transfer'[t].via = session.sftp /\ transfer'[t].gen = session.chan
        /\ \A u \in Transfer : u # t => transfer'[u] = transfer[u]
    BY <1>33 DEF Begin, Set, Transferring, TypeOK
  <2>2. session.chan <= session.gen
    BY <2>1 DEF Channels
  <2>3. \A o \in Opener : ~(opener[o].pc = "opening" /\ ~session.closing /\ opener[o].gen = session.gen)
    BY <2>1 DEF Channels
  <2>4. \A u \in Transfer : u # t /\ transfer'[u].pc \in {"starting", "running", "copied"} =>
          /\ transfer'[u].gen <= session.gen
          /\ session.chan = transfer'[u].gen => transfer'[u].via = session.sftp
    BY <2>1 DEF Transfers
  <2> QED BY <2>1, <2>2, <2>3, <2>4 DEF Transfers
<1>34. ASSUME NEW t \in Transfer, Register(t) PROVE Transfers'
  BY <1>34 DEF Register, Set, Ended, Transferring, Transfers, TypeOK, Entries, Openings, Copies
<1>35. ASSUME NEW t \in Transfer, Copy(t) PROVE Transfers'
  BY <1>35 DEF Copy, Usable, Set, Ended, Transferring, Transfers, TypeOK, Entries, Openings, Copies
<1>36. ASSUME NEW t \in Transfer, Check(t) PROVE Transfers'
  BY <1>36 DEF Check, Set, Ended, Transferring, Transfers, TypeOK, Entries, Openings, Copies
<1>37. ASSUME NEW t \in Transfer, Replace(t) PROVE Transfers'
  BY <1>37 DEF Replace, Set, Ended, Transferring, Transfers, TypeOK, Entries, Openings, Copies
<1>38. ASSUME NEW t \in Transfer, CancelTransfer(t) PROVE Transfers'
  BY <1>38 DEF CancelTransfer, Set, Transferring, Transfers, TypeOK, Entries, Openings, Copies
<1>39. ASSUME NEW l \in Link, Lose(l) PROVE Transfers'
  BY <1>39 DEF Lose, Transfers
<1>40. CASE UNCHANGED vars
  BY <1>40 DEF vars, Transfers, TypeOK, Entries, Openings, Copies
<1>41. QED BY <1>1, <1>2, <1>3, <1>4, <1>5, <1>6, <1>7, <1>8, <1>9, <1>10, <1>11, <1>12, <1>13, <1>14,
     <1>15, <1>16, <1>17, <1>18, <1>19, <1>20, <1>21, <1>22, <1>23, <1>24, <1>25, <1>26, <1>27, <1>28,
     <1>29, <1>30, <1>31, <1>32, <1>33, <1>34, <1>35, <1>36, <1>37, <1>38, <1>39, <1>40 DEF Next,
     Supervise, Flush, Commands, Run

\* Nothing is said in vain of pieces that leave what is pending.
LEMMA PiecesKept ==
  ASSUME Pieces, session'.pending \subseteq session.pending, stored' = stored, printed' = printed,
         \A f \in Flusher : flush'[f].held = flush[f].held /\ flush'[f].base = flush[f].base
  PROVE  Pieces'
<1>1. session'.pending \subseteq 1..printed' /\ stored'.text \subseteq 1..printed'
      /\ session'.pending \cap stored'.text = {}
  BY DEF Pieces
<1>2. \A f \in Flusher : flush'[f].held \subseteq 1..printed' /\ flush'[f].base \subseteq 1..printed'
  BY DEF Pieces
<1>3. \A f \in Flusher :
        /\ session'.pending \cap flush'[f].held = {} /\ session'.pending \cap flush'[f].base = {}
        /\ flush'[f].held \cap stored'.text = {}
  BY DEF Pieces
<1>4. \A f, g \in Flusher : flush'[f].held \cap flush'[g].base = {}
  BY DEF Pieces
<1>5. \A f, g \in Flusher : f # g => flush'[f].held \cap flush'[g].held = {}
  BY DEF Pieces
<1> QED BY <1>1, <1>2, <1>3, <1>4, <1>5 DEF Pieces
\* Pieces move from one place to the next.
LEMMA PiecesStep == TypeOK /\ Pieces /\ [Next]_vars => Pieces'
<1> SUFFICES ASSUME TypeOK, Pieces, [Next]_vars PROVE Pieces'
  OBVIOUS
<1>1. CASE Establish
  BY <1>1 DEF Establish, Fresh, NoEntry, Pieces, TypeOK, Entries, Writes, Chunk
<1>2. CASE Save
  BY <1>2 DEF Save, Fault, Pieces, TypeOK, Entries, Writes, Chunk
<1>3. CASE Discard
  <2>1. session'.pending \subseteq session.pending
    BY <1>3, Forms DEF Discard, Discarded
  <2>2. \A f \in Flusher : flush'[f].held = flush[f].held /\ flush'[f].base = flush[f].base
    BY <1>3 DEF Discard
  <2> QED BY <1>3, <2>1, <2>2, PiecesKept DEF Discard
<1>4. CASE Reading
  BY <1>4 DEF Reading, Pieces
<1>5. CASE Degrade
  BY <1>5 DEF Degrade, At, Health, Pieces, TypeOK, Entries, Writes, Chunk
<1>6. CASE Try
  BY <1>6 DEF Try, At, Health, To, By, Pieces, TypeOK, Entries, Writes, Chunk
<1>7. CASE Backoff
  BY <1>7, SMTT(60) DEF Backoff, At, Cancelled, Health, To, Over, By, Pieces, TypeOK, Entries, Writes, Chunk
<1>8. CASE Dial
  BY <1>8 DEF Dial, Pieces
<1>9. CASE Install
  BY <1>9 DEF Install, At, To, Pieces, TypeOK, Entries, Writes, Chunk
<1>10. CASE Orphan
  BY <1>10 DEF Orphan, Pieces
<1>11. CASE Installed
  BY <1>11 DEF Installed, Pieces
<1>12. CASE Up
  BY <1>12 DEF Up, At, Health, Pieces, TypeOK, Entries, Writes, Chunk
<1>13. CASE Saved
  BY <1>13 DEF Saved, At, Flushed, To, Over, By, Pieces, TypeOK, Entries, Writes, Chunk
<1>14. CASE Clear
  <2>1. session'.pending \subseteq session.pending
    BY <1>14, Forms DEF Clear, Cleared
  <2>2. \A f \in Flusher : flush'[f].held = flush[f].held /\ flush'[f].base = flush[f].base
    BY <1>14 DEF Clear
  <2> QED BY <1>14, <2>1, <2>2, PiecesKept DEF Clear
<1>15. CASE Receive
  BY <1>15 DEF Receive, At, Pieces, TypeOK, Entries, Writes, Chunk
<1>16. CASE SpawnWorker
  BY <1>16 DEF SpawnWorker, By, Pieces, TypeOK, Entries, Writes, Chunk
<1>17. CASE WorkerLoops
  BY <1>17 DEF WorkerLoops, By, Flushed, Pieces, TypeOK, Entries, Writes, Chunk
<1>18. ASSUME NEW f \in Flusher, Take(f) PROVE Pieces'
  BY <1>18, SMTT(60) DEF Take, Pieces, TypeOK, Entries, Writes, Chunk
<1>19. ASSUME NEW f \in Flusher, Select(f) PROVE Pieces'
  BY <1>19, SMTT(60) DEF Select, Fault, Pieces, TypeOK, Entries, Writes, Chunk
<1>20. ASSUME NEW f \in Flusher, Update(f) PROVE Pieces'
  <2>1. CASE stored' = stored
    BY <1>20, <2>1 DEF Update, Fault, Pieces, TypeOK, Writes
  <2>2. CASE stored' # stored
    <3>1. /\ flush' = [flush EXCEPT ![f] = [pc |-> "ok", held |-> {}, base |-> {}]]
          /\ stored' = [stored EXCEPT !.text = flush[f].base \cup flush[f].held]
          /\ session' = session /\ printed' = printed
      BY <1>20, <2>2 DEF Update
    <3>2. stored'.text = flush[f].base \cup flush[f].held
      BY <3>1 DEF TypeOK
    <3>3. flush'[f].held = {} /\ flush'[f].base = {} /\ \A g \in Flusher : g # f => flush'[g] = flush[g]
      BY <3>1 DEF TypeOK
    <3>4. session'.pending \subseteq 1..printed' /\ stored'.text \subseteq 1..printed'
          /\ session'.pending \cap stored'.text = {}
      BY <3>1, <3>2 DEF Pieces
    <3>5. \A g \in Flusher : flush'[g].held \subseteq flush[g].held /\ flush'[g].base \subseteq flush[g].base
      BY <3>3
    <3>6. \A g \in Flusher : flush'[g].held \cap stored'.text = {}
      <4> SUFFICES ASSUME NEW g \in Flusher PROVE flush'[g].held \cap stored'.text = {}
        OBVIOUS
      <4>1. CASE g = f
        BY <4>1, <3>3
      <4>2. CASE g # f
        BY <4>2, <3>2, <3>3 DEF Pieces
      <4> QED BY <4>1, <4>2
    <3>7. \A g \in Flusher :
            /\ flush'[g].held \subseteq 1..printed' /\ flush'[g].base \subseteq 1..printed'
            /\ session'.pending \cap flush'[g].held = {} /\ session'.pending \cap flush'[g].base = {}
      BY <3>1, <3>5 DEF Pieces
    <3>8. \A g, h \in Flusher : flush'[g].held \cap flush'[h].base = {}
      BY <3>5 DEF Pieces
    <3>9. \A g, h \in Flusher : g # h => flush'[g].held \cap flush'[h].held = {}
      BY <3>5 DEF Pieces
    <3> QED BY <3>4, <3>6, <3>7, <3>8, <3>9 DEF Pieces
  <2> QED BY <2>1, <2>2
<1>21. ASSUME NEW f \in Flusher, Restore(f) PROVE Pieces'
  BY <1>21 DEF Restore, Pieces, TypeOK, Entries, Writes, Chunk
<1>22. ASSUME NEW c \in Command, CancelTransfers(c) PROVE Pieces'
  BY <1>22 DEF CancelTransfers, Rest, Pieces
<1>23. ASSUME NEW c \in Command, Detach(c) PROVE Pieces'
  BY <1>23 DEF Detach, CmdAt, Detached, Rest, Pieces, TypeOK, Entries, Writes, Chunk
<1>24. ASSUME NEW c \in Command, Shut(c) PROVE Pieces'
  BY <1>24 DEF Shut, Rest, Pieces
<1>25. ASSUME NEW c \in Command, Mark(c) PROVE Pieces'
  <2>1. session'.pending \subseteq session.pending
    BY <1>25, Forms DEF Mark, Unowned
  <2>2. \A f \in Flusher : flush'[f].held = flush[f].held /\ flush'[f].base = flush[f].base
    BY <1>25 DEF Mark, TypeOK, Writes
  <2> QED BY <1>25, <2>1, <2>2, PiecesKept DEF Mark, Rest
<1>26. ASSUME NEW c \in Command, Collect(c) PROVE Pieces'
  BY <1>26 DEF Collect, Rest, Pieces
<1>27. ASSUME NEW c \in Command, MarkDeleted(c) PROVE Pieces'
  <2>1. session'.pending \subseteq session.pending
    BY <1>27, Forms DEF MarkDeleted, Unowned
  <2>2. \A f \in Flusher : flush'[f].held = flush[f].held /\ flush'[f].base = flush[f].base
    BY <1>27 DEF MarkDeleted, TypeOK, Writes
  <2> QED BY <1>27, <2>1, <2>2, PiecesKept DEF MarkDeleted, Rest
<1>28. ASSUME NEW c \in Command, Remove(c) PROVE Pieces'
  BY <1>28 DEF Remove, CmdAt, Flushed, Of, NoEntry, Goto, Finish, Rest, Pieces, TypeOK, Entries,
       Writes, Chunk
<1>29. ASSUME NEW c \in Command, Purge(c) PROVE Pieces'
  BY <1>29 DEF Purge, CmdAt, Finish, Rest, Pieces, TypeOK, Entries, Writes, Chunk
<1>30. ASSUME NEW c \in Command, NEW k \in {"close", "delete"}, Call(c, k) PROVE Pieces'
  BY <1>30 DEF Call, Rest, Pieces
<1>31. ASSUME NEW o \in Opener, Open(o) PROVE Pieces'
  BY <1>31 DEF Open, Pieces, TypeOK, Entries, Writes, Chunk
<1>32. ASSUME NEW o \in Opener, Opened(o) PROVE Pieces'
  BY <1>32 DEF Opened, Usable, Pieces, TypeOK, Entries, Writes, Chunk
<1>33. ASSUME NEW t \in Transfer, Begin(t) PROVE Pieces'
  BY <1>33 DEF Begin, Transferring, Pieces
<1>34. ASSUME NEW t \in Transfer, Register(t) PROVE Pieces'
  BY <1>34 DEF Register, Transferring, Pieces
<1>35. ASSUME NEW t \in Transfer, Copy(t) PROVE Pieces'
  BY <1>35 DEF Copy, Transferring, Pieces
<1>36. ASSUME NEW t \in Transfer, Check(t) PROVE Pieces'
  BY <1>36 DEF Check, Transferring, Pieces
<1>37. ASSUME NEW t \in Transfer, Replace(t) PROVE Pieces'
  BY <1>37 DEF Replace, Transferring, Pieces
<1>38. ASSUME NEW t \in Transfer, CancelTransfer(t) PROVE Pieces'
  BY <1>38 DEF CancelTransfer, Transferring, Pieces
<1>39. ASSUME NEW l \in Link, Lose(l) PROVE Pieces'
  BY <1>39 DEF Lose, Pieces
<1>40. CASE UNCHANGED vars
  BY <1>40 DEF vars, Pieces, TypeOK, Entries, Writes, Chunk
<1>41. QED BY <1>1, <1>2, <1>3, <1>4, <1>5, <1>6, <1>7, <1>8, <1>9, <1>10, <1>11, <1>12, <1>13, <1>14,
     <1>15, <1>16, <1>17, <1>18, <1>19, <1>20, <1>21, <1>22, <1>23, <1>24, <1>25, <1>26, <1>27, <1>28,
     <1>29, <1>30, <1>31, <1>32, <1>33, <1>34, <1>35, <1>36, <1>37, <1>38, <1>39, <1>40 DEF Next,
     Supervise, Flush, Commands, Run

-----------------------------------------------------------------------------
(* Theorems. *)

\* The start satisfies the invariant.
LEMMA Starts == Init => Inv
<1> SUFFICES ASSUME Init PROVE Inv
  OBVIOUS
<1>1. TypeOK
  <2>1. session \in Entries
    BY Bounds DEF Init, NoEntry, Entries, Live, Chunk
  <2>2. connect \in Connects /\ sup \in Supervisors
    BY Bounds DEF Init, Connects, Supervisors
  <2>3. cmd \in [Command -> Closings] /\ flush \in [Flusher -> Writes]
    BY Bounds DEF Init, Closings, Idle, Writes, Chunk
  <2>4. opener \in [Opener -> Openings]
    BY Bounds DEF Init, Openings
  <2>5. transfer \in [Transfer -> Copies]
    BY Bounds DEF Init, Copies
  <2> QED BY <2>1, <2>2, <2>3, <2>4, <2>5 DEF Init, TypeOK, Chunk
<1>2. session = NoEntry /\ ~NoEntry.here /\ NoEntry.sftp = Nobody /\ NoEntry.pending = {}
  BY DEF Init, NoEntry
<1>3. \A o \in Opener : opener[o].pc = "idle"
  BY DEF Init
<1>4. \A t \in Transfer : transfer[t].pc \in {"none", "over"}
  BY DEF Init
<1>5. \A c \in Command : cmd[c].pc = "idle"
  BY DEF Init
<1>6. sup.pc = "none" /\ ~told
  BY DEF Init
<1>7. stored.text = {} /\ \A f \in Flusher : flush[f].held = {} /\ flush[f].base = {}
  BY DEF Init, Idle
<1>8. Entry
  BY <1>2, <1>5, <1>6 DEF Entry, Ending, NoEntry
<1> QED BY <1>1, <1>2, <1>3, <1>4, <1>5, <1>6, <1>7, <1>8
        DEF Inv, Unknown, Supervised, Ending, Channels, Transfers, Pieces

\* The invariant is inductive.
LEMMA Holds == Spec => []Inv
<1>1. Inv /\ [Next]_vars => Inv'
  BY TypeStep, UnknownStep, EntryStep, SupervisedStep, ChannelsStep, TransfersStep, PiecesStep DEF Inv
<1> QED BY Starts, <1>1, PTL DEF Spec

\* Every variable keeps its type.
THEOREM SessionTypes == Spec => []TypeOK
<1>1. Inv => TypeOK
  BY DEF Inv
<1> QED BY Holds, <1>1, PTL

\* While a session is shown as connected and nobody closes it, the transport of its entry
\* is the one its supervisor reads, and its SFTP channel rides that transport.
THEOREM ConnectedIsOneTransport == Spec => []OneTransport
<1>1. Inv => OneTransport
  BY DEF Inv, OneTransport, Supervised, Channels, Ending, Link, Nobody
<1> QED BY Holds, <1>1, PTL

\* No piece of output is in two places: pending, with a writer, or in the row.
THEOREM TranscriptOnce == Spec => []OnceInTranscript
<1>1. Inv => OnceInTranscript
  BY DEF Inv, OnceInTranscript, Pieces
<1> QED BY Holds, <1>1, PTL

\* A transfer replaces its target only over the channel that is the session's then.
THEOREM TransfersStayCurrent == Spec => TransferIsCurrent
<1> DEFINE Current ==
      \A t \in Transfer : transfer[t].pc = "copied" /\ transfer'[t].pc = "replacing" =>
        session.here /\ transfer[t].via = session.sftp
          /\ (~session.closing => transfer[t].via = session.handle)
<1>1. Inv /\ [Next]_vars => Current
  <2> SUFFICES ASSUME Inv, [Next]_vars, NEW t \in Transfer,
                      transfer[t].pc = "copied", transfer'[t].pc = "replacing"
               PROVE  session.here /\ transfer[t].via = session.sftp
                        /\ (~session.closing => transfer[t].via = session.handle)
    OBVIOUS
  <2>1. Check(t)
    <3>1. transfer' # transfer
      OBVIOUS
    <3>2. ~Sweep
      <4> SUFFICES ASSUME Sweep PROVE FALSE
        OBVIOUS
      <4>1. transfer'[t].pc = transfer[t].pc
        BY SMTT(60) DEF Sweep, Inv, TypeOK, Copies
      <4> QED BY <4>1
    <3>3. \E u \in Transfer : Begin(u) \/ Register(u) \/ Copy(u) \/ Check(u) \/ Replace(u) \/ CancelTransfer(u)
      BY <3>1, <3>2 DEF Next, Supervise, Flush, Commands, Run, vars, Rest, Establish, Save, Reading,
           Degrade, Try, Backoff, Dial, Install, Orphan, Up, Saved, Receive, SpawnWorker, WorkerLoops,
           Take, Select, Update, Restore, Detach, Shut, Mark, Collect, MarkDeleted, Remove, Purge,
           Call, Open, Opened, Lose, Discard, Installed, Clear, CancelTransfers
    <3>4. PICK u \in Transfer : Begin(u) \/ Register(u) \/ Copy(u) \/ Check(u) \/ Replace(u) \/ CancelTransfer(u)
      BY <3>3
    <3>5. \A v \in Transfer : v # u => transfer'[v] = transfer[v]
      BY <3>4 DEF Begin, Register, Copy, Check, Replace, CancelTransfer, Set, Inv, TypeOK
    <3>6. u = t
      BY <3>5
    <3> QED BY <3>4, <3>6 DEF Begin, Register, Copy, Replace, CancelTransfer, Set, Inv, TypeOK, Copies
  <2>2. session.here /\ session.sftp # Nobody /\ session.chan = transfer[t].gen
    BY <2>1 DEF Check, Set, Ended, Inv, TypeOK, Copies
  <2>3. transfer[t].via = session.sftp
    BY <2>2 DEF Inv, Transfers
  <2>4. ~session.closing => session.sftp = session.handle
    BY <2>2 DEF Inv, Channels, Ending
  <2> QED BY <2>2, <2>3, <2>4
<1> QED BY Holds, <1>1, PTL DEF Spec, TransferIsCurrent

\* Once somebody ends the session, its entry gets no transport, channel or live status.
THEOREM NothingIsRevived == Spec => NoRevival
<1> DEFINE Final ==
      session.closing /\ session'.here =>
        /\ session'.closing
        /\ session'.handle \in {Nobody, session.handle}
        /\ session'.sftp \in {Nobody, session.sftp}
        /\ session'.status \in {"disconnected", session.status}
<1>1. Inv /\ [Next]_vars => Final
  <2> SUFFICES ASSUME Inv, [Next]_vars, session.closing, session'.here PROVE Final
    OBVIOUS
  <2> HIDE DEF Final
  <2>0. TypeOK /\ session.here
    BY DEF Inv, Entry, NoEntry
  <2>1. CASE Establish
    BY <2>0, <2>1, Forms DEF Establish, Inv, Unknown
  <2>2. CASE Discard
    BY <2>0, <2>2, Forms DEF Discard, Discarded, Final
  <2>3. CASE Degrade
    BY <2>0, <2>3 DEF Degrade, Health, TypeOK, Entries, Final
  <2>4. CASE Try
    BY <2>0, <2>4 DEF Try, Health, TypeOK, Entries, Final
  <2>5. CASE Backoff
    BY <2>0, <2>5 DEF Backoff, Health, TypeOK, Entries, Final
  <2>6. CASE Install
    BY <2>0, <2>6 DEF Install, Final
  <2>7. CASE Up
    BY <2>0, <2>7 DEF Up, Health, TypeOK, Entries, Final
  <2>8. CASE Clear
    BY <2>0, <2>8, Forms DEF Clear, Cleared, Final
  <2>9. CASE Receive
    BY <2>0, <2>9 DEF Receive, TypeOK, Entries, Final
  <2>10. CASE SpawnWorker
    BY <2>0, <2>10 DEF SpawnWorker, TypeOK, Entries, Final
  <2>11. CASE WorkerLoops
    BY <2>0, <2>11 DEF WorkerLoops, TypeOK, Entries, Final
  <2>12. ASSUME NEW f \in Flusher, Take(f) PROVE Final
    BY <2>0, <2>12 DEF Take, TypeOK, Entries, Final
  <2>13. ASSUME NEW f \in Flusher, Restore(f) PROVE Final
    BY <2>0, <2>13 DEF Restore, TypeOK, Entries, Final
  <2>14. ASSUME NEW c \in Command, Detach(c) PROVE Final
    BY <2>0, <2>14, Forms DEF Detach, Final
  <2>15. ASSUME NEW c \in Command, Mark(c) PROVE Final
    BY <2>0, <2>15, Forms DEF Mark, Final
  <2>16. ASSUME NEW c \in Command, MarkDeleted(c) PROVE Final
    BY <2>0, <2>16, Forms DEF MarkDeleted, Unowned, Final
  <2>17. ASSUME NEW c \in Command, Remove(c) PROVE Final
    BY <2>0, <2>17, Forms DEF Remove, Final
  <2>18. ASSUME NEW o \in Opener, Open(o) PROVE Final
    BY <2>0, <2>18 DEF Open, Inv, Entry, Final
  <2>19. ASSUME NEW o \in Opener, Opened(o) PROVE Final
    BY <2>0, <2>19 DEF Opened, Inv, Channels, TypeOK, Entries, Openings, Final
  <2>20. session' = session => Final
    BY <2>0 DEF Final
  <2> QED BY <2>1, <2>2, <2>3, <2>4, <2>5, <2>6, <2>7, <2>8, <2>9, <2>10, <2>11, <2>12, <2>13, <2>14,
       <2>15, <2>16, <2>17, <2>18, <2>19, <2>20 DEF Next, Supervise, Flush, Commands, Run,
       Transferring, Rest, Set, vars, Save, Reading, Dial, Orphan, Installed, Saved, Select, Update,
       CancelTransfers, Shut, Collect, Purge, Call, Begin, Register, Copy, Check, Replace,
       CancelTransfer, Lose
<1> QED BY Holds, <1>1, PTL DEF Spec, NoRevival
=============================================================================
