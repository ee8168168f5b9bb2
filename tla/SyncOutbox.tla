----------------------------- MODULE SyncOutbox -----------------------------
(***************************************************************************)
(* The replication loop of unfour-cloud-sync for one bound workspace: the   *)
(* durable outbox, the attempts table, the per-entity version state, the    *)
(* pull cursor and the flight that moves them, against the cloud server's   *)
(* change stream and a network that loses and delays requests.              *)
(*                                                                          *)
(* A document is one opaque value per entity (a tombstone is a value too).  *)
(* Leases and retry times are abstracted to what the code tests: a row left *)
(* in_flight may or may not have expired, a row with next_attempt_at set    *)
(* may or may not be due.                                                   *)
(***************************************************************************)
EXTENDS Integers, FiniteSets, Functions

CONSTANTS
  Entity,       \* the synchronised entities of the workspace
  Capture,      \* how an entity's intent gets its payload: "eager", when the
                \* edit commits; "deferred", when it is first pushed;
                \* "snapshot", deferred, and keep-local reads it beforehand
  Resolutions,  \* the conflict choices the user takes: "keep", "remote"
  Repairs,      \* whether the user retries dead letters
  BatchLimit,   \* operations of one push request
  MaxEdits, MaxWrites, MaxFaults   \* bounds of the explored behaviours

ASSUME EntityAssumption == IsFiniteSet(Entity)
ASSUME CaptureAssumption == Capture \in [Entity -> {"eager", "deferred", "snapshot"}]
ASSUME ResolutionsAssumption == Resolutions \subseteq {"keep", "remote"}
ASSUME RepairsAssumption == Repairs \in BOOLEAN
ASSUME BatchLimitAssumption == BatchLimit \in Nat \ {0}
ASSUME BoundsAssumption == MaxEdits \in Nat /\ MaxWrites \in Nat /\ MaxFaults \in Nat

VARIABLES
  doc,        \* local business row of each entity
  rev,        \* its content revision
  head,       \* cloud_sync_outbox: at most one row per entity
  attempts,   \* cloud_sync_attempts: what each operation id was sent with
  st,         \* cloud_sync_entity_state
  cursor,     \* last_pulled_cursor
  binding,    \* state and initial_confirmed of the workspace binding
  nextOp,     \* the id generator
  pc,         \* where the running round is
  batch,      \* the operations it is about to push or has pushed
  pinned,     \* current_cursor of the pull's first page, 0 before it
  pushed,     \* whether this round pushed anything
  resolver,   \* a conflict choice between its reads and its transaction
  log,        \* the server's change stream
  sver,       \* the server's version of each entity
  top,        \* the server's current cursor
  net,        \* requests the server has not processed yet
  reply,      \* the server's answer to the request the flight waits for
  spent       \* budget used: edits, writes, faults

device == <<doc, rev, head, attempts, st, cursor, binding, nextOp>>
flight == <<pc, batch, pinned, pushed>>
server == <<log, sver, top>>
vars == <<doc, rev, head, attempts, st, cursor, binding, nextOp, pc, batch, pinned,
          pushed, resolver, log, sver, top, net, reply, spent>>

-----------------------------------------------------------------------------
(* Values, rows and messages. *)

Value == [by : {"none", "deferred", "device", "cloud"}, n : Nat]
NoValue == [by |-> "none", n |-> 0]
Deferred == [by |-> "deferred", n |-> 0]     \* canonical_payload_json IS NULL
EditOf(n) == [by |-> "device", n |-> n]
WriteOf(n) == [by |-> "cloud", n |-> n]

Status == {"none", "pending", "uncertain", "in_flight", "dead"}
Head == [op : Nat, val : Value, base : Nat, rev : Nat, status : Status, later : BOOLEAN]
NoHead == [op |-> 0, val |-> NoValue, base |-> 0, rev |-> 0, status |-> "none", later |-> FALSE]

EntityState == [ver : Nat, conflict : BOOLEAN, shadow : Value]
Synced(v) == [ver |-> v, conflict |-> FALSE, shadow |-> NoValue]

Operation == [op : Nat, e : Entity, val : Value, base : Nat, rev : Nat]
Attempt == [op : Nat, e : Entity, val : Value]
Change == [cur : Nat, op : Nat, e : Entity, ver : Nat, val : Value]
OtherDevice == 0                             \* the operation id of a foreign change

NoReply == [kind |-> "none"]
Applied(r) == [kind |-> "applied", ver |-> r]     \* a version per operation
Conflict(e, v, x) == [kind |-> "conflict", e |-> e, ver |-> v, val |-> x]
Reply == {NoReply} \cup [kind : {"applied"}, ver : [Entity -> Nat]]
         \cup [kind : {"conflict"}, e : Entity, ver : Nat, val : Value]

BindingState == {"uploading", "reconciling", "active", "conflict", "error", "blocked"}
Pc == {"idle", "pull1", "check", "push", "build", "mark", "await", "drained", "pull2", "close"}
NoChoice == [mode |-> "none", val |-> NoValue, rev |-> 0]

MaxOf(a, b) == IF a >= b THEN a ELSE b
MinOf(a, b) == IF a <= b THEN a ELSE b

Total == Cardinality(Entity)                 \* initial_total
Queued(e) == head[e].status # "none"
Conflicts == {e \in Entity : st[e].conflict}
Dead == {e \in Entity : head[e].status = "dead"}
OwnOps == {a.op : a \in attempts} \cup {head[e].op : e \in Entity}
Spend(k) == spent' = [spent EXCEPT ![k] = @ + 1]
Fault == spent.faults < MaxFaults /\ Spend("faults")

-----------------------------------------------------------------------------
(* Outbox rows. *)

\* Mutant: an acknowledged version settles whatever row the entity has.
RaiseDrops(h, v) == IF v > 0 THEN NoHead ELSE h

\* base_version = MAX(base_version, v) on the row an entity has left.
Raise(h, v) == IF h.status = "none" THEN h ELSE [h EXCEPT !.base = MaxOf(@, v)]

\* Mutant: the upsert leaves the operation id of the row it replaces.
EnqueuedSameId(e, op, val, r) ==
  [op |-> IF Queued(e) THEN head[e].op ELSE op, val |-> val,
   base |-> IF Queued(e) THEN MaxOf(st[e].ver, head[e].base) ELSE st[e].ver,
   rev |-> r, status |-> "pending", later |-> FALSE]

\* Mutant: the base is the version the operation would create.
EnqueuedAhead(e, op, val, r) ==
  [op |-> op, val |-> val, base |-> st[e].ver + 1, rev |-> r,
   status |-> "pending", later |-> FALSE]

\* The upsert of enqueue_intent_on: a newer or equal revision replaces the
\* row under a fresh id, an older one leaves it alone.
Enqueued(e, op, val, r) ==
  LET new == [op |-> op, val |-> val, base |-> st[e].ver, rev |-> r,
              status |-> "pending", later |-> FALSE]
  IN  IF ~Queued(e) THEN new
      ELSE IF r >= head[e].rev THEN [new EXCEPT !.base = MaxOf(@, head[e].base)]
      ELSE head[e]

\* What the mutation hook stores for an edit whose new content is val.
IntentPayload(e, val) == IF Capture[e] = "eager" THEN val ELSE Deferred

\* Mutant: an outcome settles the entity's row, whatever its operation id.
MineByEntity(e) == \E o \in batch : o.e = e

\* An outcome settles a row only while its operation id is still the batch's.
Mine(e) == \E o \in batch : o.e = e /\ o.op = head[e].op
Settled(status, later) ==
  [e \in Entity |-> IF Mine(e) THEN [head[e] EXCEPT !.status = status, !.later = later]
                    ELSE head[e]]

\* due_outbox: rows that may be pushed, and whether none of them is due now.
Eligible == {e \in Entity : head[e].status \in {"pending", "uncertain"} /\ ~st[e].conflict}
NoneDue == \A e \in Eligible : head[e].later

\* clear_conflict_on, the binding half: the last conflict leaves.
StateAfterClearing(e) ==
  IF Conflicts \ {e} # {} THEN binding.state
  ELSE IF Dead # {} THEN "error" ELSE "reconciling"

-----------------------------------------------------------------------------
Init ==
  /\ doc = [e \in Entity |-> EditOf(1)]
  /\ rev = [e \in Entity |-> 1]
  /\ \E order \in Bijection(Entity, 1..Total) :
        head = [e \in Entity |-> [op |-> order[e], val |-> EditOf(1), base |-> 0,
                                  rev |-> 1, status |-> "pending", later |-> FALSE]]
  /\ attempts = {}
  /\ st = [e \in Entity |-> Synced(0)]
  /\ cursor = 0
  /\ binding = [state |-> "uploading", confirmed |-> 0]
  /\ nextOp = Total + 1
  /\ pc = "idle" /\ batch = {} /\ pinned = 0 /\ pushed = FALSE
  /\ resolver = [e \in Entity |-> NoChoice]
  /\ log = {}
  /\ sver = [e \in Entity |-> 0]
  /\ top = 0
  /\ net = {}
  /\ reply = NoReply
  /\ spent = [edits |-> 0, writes |-> 0, faults |-> 0]

-----------------------------------------------------------------------------
(* The user and the other devices. *)

\* A local mutation: business row and outbox head in one transaction.
Edit(e) ==
  /\ spent.edits < MaxEdits /\ Spend("edits")
  /\ doc' = [doc EXCEPT ![e] = EditOf(rev[e] + 1)]
  /\ rev' = [rev EXCEPT ![e] = @ + 1]
  /\ head' = [head EXCEPT ![e] =
                Enqueued(e, nextOp, IntentPayload(e, EditOf(rev[e] + 1)), rev[e] + 1)]
  /\ nextOp' = nextOp + 1
  /\ UNCHANGED <<attempts, st, cursor, binding, flight, resolver, server, net, reply>>

\* Another device commits a new version through the same server.
CloudWrite(e) ==
  /\ spent.writes < MaxWrites /\ Spend("writes")
  /\ sver[e] > 0
  /\ log' = log \cup {[cur |-> top + 1, op |-> OtherDevice, e |-> e,
                       ver |-> sver[e] + 1, val |-> WriteOf(sver[e] + 1)]}
  /\ sver' = [sver EXCEPT ![e] = @ + 1]
  /\ top' = top + 1
  /\ UNCHANGED <<device, flight, resolver, net, reply>>

-----------------------------------------------------------------------------
(* The beginning of a round, and its ends. *)

Rest == pc' = "idle" /\ batch' = {} /\ pinned' = 0 /\ pushed' = FALSE /\ reply' = NoReply

\* record_error: a conflict keeps its state; "blocked" is an error state whose
\* last_error makes the next rounds return at once.
RecordError(b, s) == [b EXCEPT !.state = IF @ = "conflict" THEN @ ELSE s]

\* A failed round records its error, unless a trigger that came during the
\* flight starts the next round first.
MayRecord(s) == binding' \in {binding, RecordError(binding, s)}
Fail == Rest /\ MayRecord("error")

\* Mutant: an expired lease is recovered as a new operation.
StartRoundFresh(expired) ==
  /\ pc = "idle" /\ binding.state # "blocked"
  /\ head' = [e \in Entity |-> IF e \in expired
                 THEN [head[e] EXCEPT !.status = "pending", !.op = nextOp] ELSE head[e]]
  /\ nextOp' = nextOp + 1
  /\ pc' = "pull1"
  /\ UNCHANGED <<doc, rev, attempts, st, cursor, binding, batch, pinned, pushed,
                 resolver, server, net, reply, spent>>

\* Mutant: expired leases are not recovered.
StartRoundForgets(expired) ==
  /\ pc = "idle" /\ binding.state # "blocked"
  /\ pc' = "pull1"
  /\ UNCHANGED <<device, batch, pinned, pushed, resolver, server, net, reply, spent>>

\* Leases that have expired return their rows to pending under the same id.
StartRound(expired) ==
  /\ pc = "idle" /\ binding.state # "blocked"
  /\ head' = [e \in Entity |-> IF e \in expired
                 THEN [head[e] EXCEPT !.status = "pending", !.later = FALSE] ELSE head[e]]
  /\ pc' = "pull1"
  /\ UNCHANGED <<doc, rev, attempts, st, cursor, binding, nextOp, batch, pinned, pushed,
                 resolver, server, net, reply, spent>>

\* The process dies, taking the flight and the resolver with it.
Crash ==
  /\ pc # "idle" \/ \E e \in Entity : resolver[e] # NoChoice
  /\ Fault
  /\ Rest
  /\ resolver' = [e \in Entity |-> NoChoice]
  /\ UNCHANGED <<device, server, net>>

-----------------------------------------------------------------------------
(* Pull: one page, one transaction.  Pages may be any length; one change is   *)
(* the finest, and whatever a longer page does shorter ones can do.           *)

Next1(p) == IF p = "pull1" THEN "check" ELSE "close"

\* Mutant: ownership looked up by entity instead of operation id.
OwnByEntity(c) == \E a \in attempts : a.e = c.e

Own(c) == c.op # OtherDevice /\ c.op \in OwnOps

\* Our own operation comes back: acknowledged, never applied.
AckOwn(c) ==
  /\ Own(c)
  /\ head' = [head EXCEPT ![c.e] = IF @.op = c.op THEN NoHead ELSE Raise(@, c.ver)]
  /\ st' = [st EXCEPT ![c.e] = Synced(c.ver)]
  /\ UNCHANGED <<doc, rev, binding>>

\* Local intent is never overwritten: the change becomes a conflict shadow.
ShadowRemote(c) ==
  /\ ~Own(c)
  /\ Queued(c.e) \/ st[c.e].conflict
  /\ st' = [st EXCEPT ![c.e] = [ver |-> c.ver, conflict |-> TRUE, shadow |-> c.val]]
  /\ binding' = [binding EXCEPT !.state = "conflict"]
  /\ UNCHANGED <<doc, rev, head>>

ApplyRemote(c) ==
  /\ ~Own(c)
  /\ ~Queued(c.e) /\ ~st[c.e].conflict
  /\ doc' = [doc EXCEPT ![c.e] = c.val]
  /\ rev' = [rev EXCEPT ![c.e] = @ + 1]
  /\ st' = [st EXCEPT ![c.e] = Synced(c.ver)]
  /\ UNCHANGED <<head, binding>>

PullPage(c) ==
  /\ pc \in {"pull1", "pull2"}
  /\ c.cur = cursor + 1 /\ pinned \in {0, top}
  /\ AckOwn(c) \/ ShadowRemote(c) \/ ApplyRemote(c)
  /\ cursor' = c.cur
  /\ IF c.cur = top THEN pc' = Next1(pc) /\ pinned' = 0 ELSE pc' = pc /\ pinned' = top
  /\ UNCHANGED <<attempts, nextOp, batch, pushed, resolver, server, net, reply, spent>>

PullNothing ==
  /\ pc \in {"pull1", "pull2"}
  /\ pinned = 0 /\ cursor = top
  /\ pc' = Next1(pc)
  /\ UNCHANGED <<device, batch, pinned, pushed, resolver, server, net, reply, spent>>

\* The transport fails, or the stream grew under the pinned cursor.
PullFails ==
  /\ pc \in {"pull1", "pull2"}
  /\ \/ pinned # 0 /\ pinned # top /\ UNCHANGED spent
     \/ Fault
  /\ Fail
  /\ UNCHANGED <<doc, rev, head, attempts, st, cursor, nextOp, resolver, server, net>>

-----------------------------------------------------------------------------
(* Push. *)

CheckBeforePush ==
  /\ pc = "check"
  /\ \/ /\ binding.state = "conflict"
        /\ Rest /\ UNCHANGED binding
     \/ /\ binding.state # "conflict" /\ Dead # {} /\ NoneDue
        /\ Rest /\ binding' = [binding EXCEPT !.state = "error"]
     \/ /\ binding.state # "conflict" /\ (Dead = {} \/ Eligible # {})
        /\ pc' = "push"
        /\ UNCHANGED <<binding, batch, pinned, pushed, reply>>
  /\ UNCHANGED <<doc, rev, head, attempts, st, cursor, nextOp, resolver, server, net, spent>>

\* due_outbox, cut at the batch limits.
SelectBatch(S) ==
  /\ pc = "push"
  /\ S # {} /\ S \subseteq Eligible /\ Cardinality(S) <= BatchLimit
  /\ batch' = {[op |-> head[e].op, e |-> e, val |-> head[e].val,
                base |-> head[e].base, rev |-> head[e].rev] : e \in S}
  /\ pc' = "build"
  /\ UNCHANGED <<device, pinned, pushed, resolver, server, net, reply, spent>>

NothingDue ==
  /\ pc = "push" /\ NoneDue
  /\ pc' = "drained"
  /\ UNCHANGED <<device, batch, pinned, pushed, resolver, server, net, reply, spent>>

\* materialize_outbox_entry finds the row and the snapshot unchanged.
CanMaterialize(o) ==
  /\ head[o.e].op = o.op /\ head[o.e].status \in {"pending", "uncertain"}
  /\ rev[o.e] = o.rev

\* Deferred payloads are read now, once; an entry whose row moved is skipped,
\* one that can never be sent (too large, sensitive) is parked as dead.
BuildBatch ==
  /\ pc = "build"
  /\ LET kept == {o \in batch : o.val # Deferred \/ CanMaterialize(o)}
         filled == {IF o.val = Deferred THEN [o EXCEPT !.val = doc[o.e]] ELSE o : o \in kept}
         row(e) == IF \E o \in kept : o.e = e /\ o.val = Deferred
                   THEN [head[e] EXCEPT !.val = doc[e]] ELSE head[e]
     IN  \E parked \in SUBSET filled :
           /\ IF parked = {} THEN UNCHANGED spent ELSE Fault
           /\ head' = [e \in Entity |->
                         IF \E o \in parked : o.e = e /\ o.op = head[e].op
                         THEN [row(e) EXCEPT !.status = "dead", !.later = FALSE]
                         ELSE row(e)]
           /\ batch' = filled \ parked
           /\ pc' = IF filled # parked THEN "mark" ELSE IF parked # {} THEN "push" ELSE "drained"
           /\ pushed' = (pushed \/ (filled = parked /\ parked # {}))
  /\ UNCHANGED <<doc, rev, attempts, st, cursor, binding, nextOp, pinned, resolver, server,
                 net, reply>>

\* mark_in_flight commits for the whole batch or not at all; then the request
\* leaves with no await in between.
AllStillCurrent ==
  \A o \in batch : head[o.e].op = o.op /\ head[o.e].status \in {"pending", "uncertain"}

SendBatch ==
  /\ pc = "mark" /\ AllStillCurrent
  /\ attempts' = attempts \cup {[op |-> o.op, e |-> o.e, val |-> o.val] : o \in batch}
  /\ head' = [e \in Entity |-> IF Mine(e) THEN [head[e] EXCEPT !.status = "in_flight"]
                               ELSE head[e]]
  /\ net' = net \cup {batch}
  /\ pc' = "await"
  /\ UNCHANGED <<doc, rev, st, cursor, binding, nextOp, batch, pinned, pushed, resolver,
                 server, reply, spent>>

MarkFails ==
  /\ pc = "mark" /\ ~AllStillCurrent
  /\ Fail
  /\ UNCHANGED <<doc, rev, head, attempts, st, cursor, nextOp, resolver, server, net, spent>>

-----------------------------------------------------------------------------
(* The server (external): a batch commits whole or not at all, an operation   *)
(* id it has committed is answered again without effect, any other operation  *)
(* must name the entity's current version.  A request it has not processed    *)
(* may still be processed long after the client gave up on it.                *)

Committed(o) == \E c \in log : c.op = o.op
Version(o) == IF Committed(o) THEN (CHOOSE c \in log : c.op = o.op).ver ELSE sver[o.e] + 1
Acceptable(o) == Committed(o) \/ o.base = sver[o.e]
Answer(req, r) == reply' = IF pc = "await" /\ batch = req THEN r ELSE reply

ServerCommits(req) ==
  /\ \A o \in req : Acceptable(o)
  /\ LET fresh == {o \in req : ~Committed(o)}
     IN  /\ \E n \in 0..BatchLimit : \E pos \in Bijection(fresh, 1..n) :
              /\ log' = log \cup {[cur |-> top + pos[o], op |-> o.op, e |-> o.e,
                                   ver |-> sver[o.e] + 1, val |-> o.val] : o \in fresh}
              /\ top' = top + n
         /\ sver' = [e \in Entity |-> IF \E o \in fresh : o.e = e THEN sver[e] + 1 ELSE sver[e]]
  /\ net' = net \ {req}
  /\ Answer(req, Applied([e \in Entity |->
                IF \E o \in req : o.e = e THEN Version(CHOOSE o \in req : o.e = e) ELSE 0]))
  /\ UNCHANGED <<device, flight, resolver, spent>>

ServerRejects(req, o) ==
  /\ ~Acceptable(o)
  /\ net' = net \ {req}
  /\ \E x \in {c.val : c \in {d \in log : d.e = o.e /\ d.ver = sver[o.e]}} :
        Answer(req, Conflict(o.e, sver[o.e], x))
  /\ UNCHANGED <<device, server, flight, resolver, spent>>

-----------------------------------------------------------------------------
(* The outcomes of push_one_batch. *)

\* apply_push_results and record_success_on, entities outside the batch having
\* result version 0.  initial_confirmed counts every operation pushed.
PushApplied ==
  /\ pc = "await" /\ reply.kind = "applied"
  /\ head' = [e \in Entity |-> IF Mine(e) THEN NoHead ELSE Raise(head[e], reply.ver[e])]
  /\ st' = [e \in Entity |-> [st[e] EXCEPT !.ver = MaxOf(@, reply.ver[e])]]
  /\ binding' = [binding EXCEPT !.confirmed = MinOf(Total, @ + Cardinality(batch))]
  /\ pc' = "push" /\ pushed' = TRUE /\ batch' = {} /\ reply' = NoReply
  /\ UNCHANGED <<doc, rev, attempts, cursor, nextOp, pinned, resolver, server, net, spent>>

\* A base version conflict: rows return to pending, the named entity keeps the
\* server's row as its shadow.
PushConflicts ==
  /\ pc = "await" /\ reply.kind = "conflict"
  /\ head' = Settled("pending", TRUE)
  /\ st' = [st EXCEPT ![reply.e] = [ver |-> MaxOf(1, reply.ver), conflict |-> TRUE,
                                    shadow |-> reply.val]]
  /\ binding' = [binding EXCEPT !.state = "conflict"]
  /\ Rest
  /\ UNCHANGED <<doc, rev, attempts, cursor, nextOp, resolver, server, net, spent>>

\* No answer, or one that cannot be trusted: only rows still in flight.
PushUnknown ==
  /\ pc = "await" /\ Fault
  /\ head' = [e \in Entity |->
                IF Mine(e) /\ head[e].status = "in_flight"
                THEN [head[e] EXCEPT !.status = "uncertain", !.later = TRUE] ELSE head[e]]
  /\ Fail
  /\ UNCHANGED <<doc, rev, attempts, st, cursor, nextOp, resolver, server, net>>

\* An answer taken to mean "not applied" (overload, authentication, a gateway
\* error even after the commit): pending again under the same id.  The whole
\* batch waits, or only the operation an incompatible server names.
PushNotSent(waiting) ==
  /\ pc = "await" /\ Fault
  /\ head' = [e \in Entity |->
                IF Mine(e) THEN [head[e] EXCEPT !.status = "pending",
                                   !.later = \E o \in waiting : o.e = e]
                ELSE head[e]]
  /\ Fail
  /\ UNCHANGED <<doc, rev, attempts, st, cursor, nextOp, resolver, server, net>>

\* The server rolls the batch back and blames one operation: it is dead, its
\* peers are pending again.
PushPermanent(o) ==
  /\ pc = "await" /\ reply = NoReply /\ batch \in net /\ Fault
  /\ net' = net \ {batch}
  /\ head' = [e \in Entity |->
                IF ~Mine(e) THEN head[e]
                ELSE [head[e] EXCEPT !.status = IF e = o.e THEN "dead" ELSE "pending",
                                     !.later = FALSE]]
  /\ Fail
  /\ UNCHANGED <<doc, rev, attempts, st, cursor, nextOp, resolver, server>>

\* It refuses the request or the workspace: every row is released, and the
\* binding is blocked unless a dead letter already explains the error.
PushReleased ==
  /\ pc = "await" /\ reply = NoReply /\ batch \in net /\ Fault
  /\ net' = net \ {batch}
  /\ head' = Settled("pending", FALSE)
  /\ Rest /\ MayRecord(IF Dead = {} THEN "blocked" ELSE "error")
  /\ UNCHANGED <<doc, rev, attempts, st, cursor, nextOp, resolver, server>>

-----------------------------------------------------------------------------
(* The end of a round. *)

FinishPush ==
  /\ pc = "drained"
  /\ \/ /\ Dead # {}
        /\ Rest /\ binding' = [binding EXCEPT !.state = "error"]
     \/ /\ Dead = {}
        /\ binding' = IF /\ binding.confirmed >= Total /\ Conflicts = {}
                         /\ binding.state \notin {"active", "conflict"}
                      THEN [binding EXCEPT !.state = "reconciling"] ELSE binding
        /\ pc' = IF pushed THEN "pull2" ELSE "close"
        /\ UNCHANGED <<batch, pinned, pushed, reply>>
  /\ UNCHANGED <<doc, rev, head, attempts, st, cursor, nextOp, resolver, server, net, spent>>

CanActivate ==
  /\ binding.confirmed >= Total
  /\ \A e \in Entity : ~Queued(e) /\ ~st[e].conflict
  /\ binding.state \notin {"error", "conflict"}

CloseRound ==
  /\ pc = "close"
  /\ Rest
  /\ \/ Dead # {} /\ binding' = [binding EXCEPT !.state = "error"]
     \/ Dead = {} /\ Conflicts # {} /\ MayRecord("error")
     \/ /\ Dead = {} /\ Conflicts = {}
        /\ binding' = IF CanActivate THEN [binding EXCEPT !.state = "active"] ELSE binding
  /\ UNCHANGED <<doc, rev, head, attempts, st, cursor, nextOp, resolver, server, net, spent>>

-----------------------------------------------------------------------------
(* The user's repairs.  A conflict choice reads first and commits later; what *)
(* keep-local reads matters only for entities captured by snapshot.           *)

KeepLocalReads(e) ==
  /\ "keep" \in Resolutions /\ st[e].conflict /\ resolver[e] = NoChoice
  /\ resolver' = [resolver EXCEPT ![e] = [mode |-> "keep", val |-> doc[e], rev |-> rev[e]]]
  /\ UNCHANGED <<device, flight, server, net, reply, spent>>

\* Re-enqueue the local content against the remote version and clear.
KeepLocalCommits(e) ==
  /\ resolver[e].mode = "keep"
  /\ resolver' = [resolver EXCEPT ![e] = NoChoice]
  /\ IF ~st[e].conflict
     THEN UNCHANGED <<head, st, binding, nextOp>>
     ELSE LET row == CASE Capture[e] = "eager" -> Enqueued(e, nextOp, doc[e], rev[e])
                       [] Capture[e] = "deferred" -> Enqueued(e, nextOp, Deferred, rev[e])
                       [] OTHER -> Enqueued(e, nextOp, resolver[e].val, resolver[e].rev)
          IN  /\ head' = [head EXCEPT ![e] = [row EXCEPT !.base = st[e].ver]]
              /\ st' = [st EXCEPT ![e] = Synced(st[e].ver)]
              /\ binding' = [binding EXCEPT !.state = StateAfterClearing(e)]
              /\ nextOp' = nextOp + 1
  /\ UNCHANGED <<doc, rev, attempts, cursor, flight, server, net, reply, spent>>

UseRemoteReads(e) ==
  /\ "remote" \in Resolutions /\ st[e].conflict /\ resolver[e] = NoChoice
  /\ resolver' = [resolver EXCEPT ![e] = [mode |-> "remote", val |-> st[e].shadow, rev |-> 0]]
  /\ UNCHANGED <<device, flight, server, net, reply, spent>>

\* Abandon the intent, apply the document read before, clear.
UseRemoteCommits(e) ==
  /\ resolver[e].mode = "remote"
  /\ resolver' = [resolver EXCEPT ![e] = NoChoice]
  /\ doc' = [doc EXCEPT ![e] = resolver[e].val]
  /\ rev' = [rev EXCEPT ![e] = @ + 1]
  /\ head' = [head EXCEPT ![e] = NoHead]
  /\ IF ~st[e].conflict
     THEN UNCHANGED <<st, binding>>
     ELSE /\ st' = [st EXCEPT ![e] = Synced(st[e].ver)]
          /\ binding' = [binding EXCEPT !.state =
                           IF Conflicts \ {e} # {} THEN @
                           ELSE IF Dead \ {e} # {} THEN "error" ELSE "reconciling"]
  /\ UNCHANGED <<attempts, cursor, nextOp, flight, server, net, reply, spent>>

\* A dead letter is retried with the current content under a fresh id.
RetryDeadLetter(e) ==
  /\ Repairs /\ head[e].status = "dead"
  /\ head' = [head EXCEPT ![e] = [op |-> nextOp, val |-> doc[e], rev |-> rev[e],
                                  base |-> MaxOf(head[e].base, st[e].ver),
                                  status |-> "pending", later |-> FALSE]]
  /\ nextOp' = nextOp + 1
  /\ st' = [st EXCEPT ![e] = Synced(st[e].ver)]
  /\ binding' = [binding EXCEPT !.state =
                   CASE Conflicts \ {e} # {} -> "conflict"
                     [] Conflicts \ {e} = {} /\ Dead \ {e} # {} -> "error"
                     [] OTHER -> IF binding.confirmed < Total THEN "uploading"
                                 ELSE "reconciling"]
  /\ UNCHANGED <<doc, rev, attempts, cursor, flight, resolver, server, net, reply, spent>>

\* Pausing and enabling again clears an error that blocks the rounds.
Reenable ==
  /\ pc = "idle"
  /\ binding' = [binding EXCEPT !.state =
                   IF binding.confirmed >= Total THEN "reconciling" ELSE "uploading"]
  /\ UNCHANGED <<doc, rev, head, attempts, st, cursor, nextOp, flight, resolver, server,
                 net, reply, spent>>

-----------------------------------------------------------------------------
User == \E e \in Entity :
  \/ Edit(e) \/ KeepLocalReads(e) \/ KeepLocalCommits(e)
  \/ UseRemoteReads(e) \/ UseRemoteCommits(e) \/ RetryDeadLetter(e)

Pull == PullNothing \/ PullFails \/ \E c \in log : PullPage(c)

Push ==
  \/ CheckBeforePush \/ NothingDue \/ BuildBatch \/ SendBatch \/ MarkFails
  \/ \E S \in SUBSET Entity : SelectBatch(S)
  \/ PushApplied \/ PushConflicts \/ PushUnknown \/ PushNotSent(batch) \/ PushReleased
  \/ \E o \in batch : PushPermanent(o) \/ PushNotSent({o})

ServerAnswers(req) == ServerCommits(req) \/ \E o \in req : ServerRejects(req, o)
Awaited(req) == pc = "await" /\ reply = NoReply /\ batch = req

Cloud == (\E e \in Entity : CloudWrite(e)) \/ \E req \in net : ServerAnswers(req)

InFlight == {e \in Entity : head[e].status = "in_flight"}

Next == User \/ Pull \/ Push \/ FinishPush \/ CloseRound \/ Crash \/ Reenable \/ Cloud
        \/ \E expired \in SUBSET InFlight : StartRound(expired)

Spec == Init /\ [][Next]_vars

\* A round keeps running; the worker starts rounds for ever, so some find every
\* lease expired and some find a given retry due; a request is answered.
Fairness ==
  /\ WF_vars(Pull \/ Push \/ FinishPush \/ CloseRound)
  /\ SF_vars(StartRound(InFlight))
  /\ \A e \in Entity : SF_vars(\E S \in SUBSET Entity : e \in S /\ SelectBatch(S))
  /\ WF_vars(\E req \in net : Awaited(req) /\ ServerAnswers(req))

FairSpec == Spec /\ Fairness

-----------------------------------------------------------------------------
(* Properties. *)

\* Every variable keeps its type.
TypeOK ==
  /\ doc \in [Entity -> Value] /\ rev \in [Entity -> Nat]
  /\ head \in [Entity -> Head] /\ attempts \subseteq Attempt
  /\ st \in [Entity -> EntityState] /\ cursor \in Nat
  /\ binding \in [state : BindingState, confirmed : Nat] /\ nextOp \in Nat
  /\ pc \in Pc /\ batch \subseteq Operation /\ pinned \in Nat /\ pushed \in BOOLEAN
  /\ resolver \in [Entity -> [mode : {"none", "keep", "remote"}, val : Value, rev : Nat]]
  /\ log \subseteq Change /\ sver \in [Entity -> Nat] /\ top \in Nat
  /\ net \subseteq SUBSET Operation /\ reply \in Reply
  /\ spent \in [edits : Nat, writes : Nat, faults : Nat]

\* An edit shown on this device is still queued or the server has it: no lost
\* answer, crash, retry, conflict or acknowledgement makes it vanish silently.
NoLostEdit ==
  \A e \in Entity : doc[e].by = "device" =>
     Queued(e) \/ \E c \in log : c.e = e /\ c.val = doc[e]

\* With the whole stream pulled, an entity with nothing queued and no conflict
\* shows exactly the server's current document.
CaughtUpAgrees ==
  cursor = top => \A e \in Entity : ~Queued(e) /\ ~st[e].conflict =>
     \E c \in log : c.e = e /\ c.ver = sver[e] /\ c.val = doc[e]

\* A scheduling assumption, not a property: while what use-remote has read
\* waits for its transaction, only conflict choices (or a crash) take steps.
\* Without it CaughtUpAgrees is false.
PromptResolver ==
  (\E e \in Entity : resolver[e].mode = "remote") => resolver' # resolver

\* An operation id is only ever sent with one entity and one payload.
OperationImmutable ==
  \A a, b \in attempts : a.op = b.op => a = b

\* No edit is committed twice, under one operation id or two.
CommittedOnce ==
  \A c, d \in log : c.e = d.e /\ c.val = d.val => c = d

\* Neither the version the device believes in nor the base it will push with
\* is ahead of the server: such a row could never be accepted again.
NeverAhead ==
  \A e \in Entity : st[e].ver <= sver[e] /\ head[e].base <= sver[e]

\* A queued row leaves the outbox only when the server has its operation or
\* the user takes the remote side.
IntentSurvives ==
  [][\A e \in Entity : Queued(e) /\ head'[e].status = "none" =>
       \/ \E c \in log : c.op = head[e].op
       \/ resolver[e].mode = "remote" /\ resolver'[e] = NoChoice]_vars

\* A queued intent leaves the outbox, or the state shown to the user says what
\* keeps it there: no row waits for ever on a lease, a retry or a lost answer.
NeedsUser == Conflicts # {} \/ Dead # {} \/ binding.state \in {"blocked", "conflict"}
EventuallySettled == \A e \in Entity : Queued(e) ~> (~Queued(e) \/ NeedsUser)
=============================================================================
