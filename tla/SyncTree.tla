------------------------------ MODULE SyncTree ------------------------------
(***************************************************************************)
(* Synchronisation of a hierarchy: one API collection with its folders and  *)
(* saved requests.  A folder deleted on one device takes what it holds with *)
(* it, so an intent, a conflict or a tombstone of one entity concerns those *)
(* above and below it.  The module follows pages of the change stream       *)
(* through the intent check of unfour-cloud-sync and the external apply of  *)
(* http-engine, the replay of retained envelopes, the order of the push and *)
(* both choices of a conflict.                                              *)
(*                                                                          *)
(* One request pushes one operation and its answer is never lost: batching, *)
(* leases and retries are SyncOutbox's subject.                             *)
(***************************************************************************)
EXTENDS Integers, Sequences, FiniteSets, Functions

CONSTANTS
  Collection, Folder, Request,   \* the entities
  LocalNew, CloudNew,            \* those only this device, only others may create
  Name,                          \* what a rename may choose
  Topology,                      \* the entities as remote_entities_on lists them:
                                 \* by topology, then by type and id
  Start,                         \* trees both sides may start from
  PageLimit,                     \* most changes of one page
  SharedCascade,                 \* whether the server's cascade of a pushed delete
                                 \* carries the operation id of that delete
  Resolutions,                   \* the conflict choices the user takes
  Restores,                      \* whether others may recreate what was deleted
  MaxEdits, MaxWrites            \* bounds: local commands, foreign operations

Holder == {Collection} \cup Folder
Node == Holder \cup Request
Top == "top"                     \* the parent of the collection
Parents(n) == IF n = Collection THEN {Top} ELSE Holder
Row == [state : {"absent", "live", "dead"}, parent : Holder \cup {Top}, name : Name]
Tree == {t \in [Node -> Row] : \A n \in Node : t[n].parent \in Parents(n)}
Rank(n) == IF n = Collection THEN 1 ELSE IF n \in Folder THEN 2 ELSE 3

ASSUME IdsAssumption ==
  /\ IsFiniteSet(Node) /\ Top \notin Node
  /\ Collection \notin Folder \cup Request /\ Folder \cap Request = {}
ASSUME TopologyAssumption ==
  /\ Topology \in Seq(Node) /\ \A n \in Node : \E i \in 1..Len(Topology) : Topology[i] = n
  /\ \A i, j \in 1..Len(Topology) : i < j => /\ Topology[i] # Topology[j]
                                             /\ Rank(Topology[i]) <= Rank(Topology[j])
ASSUME LimitAssumption == PageLimit \in Nat \ {0} /\ MaxEdits \in Nat /\ MaxWrites \in Nat
ASSUME ChoiceAssumption == SharedCascade \in BOOLEAN /\ Restores \in BOOLEAN
                            /\ Resolutions \subseteq {"keep", "remote"}

VARIABLES
  row,        \* api_collections, api_collection_folders, api_requests of the device
  head,       \* cloud_sync_outbox, per entity: its status and base version
  st,         \* cloud_sync_entity_state: version, status, conflict shadow
  blocked,    \* whether the binding's state is "conflict"
  kept,       \* cloud_sync_remote_entity: the newest envelope received
  srv,        \* the server's rows with their versions
  log,        \* the part of the change stream beyond the device's cursor
  pc,         \* the round: "pull", "replay", "push"
  spent       \* local commands, foreign operations, whether use-remote was chosen

vars == <<row, head, st, blocked, kept, srv, log, pc, spent>>

Change == {c \in [n : Node, op : {"upsert", "delete"}, parent : Holder \cup {Top}, name : Name,
                 ver : Nat, own : BOOLEAN] : c.parent \in Parents(c.n)}
NoChange == [op |-> "none"]
NoHead == [status |-> "none", base |-> 0]
Synced(v) == [ver |-> v, status |-> "synced", shadow |-> NoChange]
\* Mutant: the state keeps no shadow of what the user is asked about.
ConflictBare(c) == [ver |-> c.ver, status |-> "conflict", shadow |-> NoChange]
Conflict(c) == [ver |-> c.ver, status |-> "conflict", shadow |-> c]

Conflicts == {n \in Node : st[n].status = "conflict"}
Queued == {n \in Node : head[n].status # "none"}

-----------------------------------------------------------------------------
(* The hierarchy.  t maps nodes to rows. *)

Live(t) == {n \in Node : t[n].state = "live"}
Present(t) == {n \in Node : t[n].state # "absent"}

\* The holders a walk from n along parent edges meets, each step from a node of
\* via.  No walk is longer than there are holders.
Above(t, n, via) ==
  LET Up(S) == {t[m].parent : m \in S \cap via}
      walk[k \in 0..Cardinality(Holder)] ==
        IF k = 0 THEN Up({n}) ELSE LET S == walk[k - 1] IN S \cup Up(S)
  IN  walk[Cardinality(Holder)] \ {Top}

\* api_descendant_ids: over every row, tombstones included.
Descendants(t, n) == {m \in Present(t) \ {n} : n \in Above(t, m, Present(t))}

\* folder_tree_for_delete_on and collection_folders_for_delete_on reach folders
\* through live rows; the requests of a folder, deleted or not, go with it.
Doomed(t, n) ==
  {n} \cup {f \in Folder : n \in Above(t, f, Live(t))}
      \cup {r \in Request \cap Live(t) : n = Collection \/ n \in Above(t, r, Present(t))}

Bury(t, dead) == [n \in Node |-> IF n \in dead THEN [t[n] EXCEPT !.state = "dead"] ELSE t[n]]
Put(t, n, p, name) == [t EXCEPT ![n] = [state |-> "live", parent |-> p, name |-> name]]

Depth(t, n) == Cardinality(Above(t, n, Present(t)))
Place(n) == CHOOSE i \in 1..Len(Topology) : Topology[i] = n

\* Whether n may be put under p: p holds nodes, lives, and is not inside n.
CanHold(t, p, n) ==
  IF n = Collection THEN p = Top
  ELSE /\ p \in Holder \cap Live(t)
       /\ p # n /\ n \notin Above(t, p, Live(t))

\* A tree without orphans: what lives is held by what lives, and the parent
\* edges, followed through tombstones too, end at the collection.
Whole(t) ==
  \A n \in Present(t) \ {Collection} :
    /\ n \in Live(t) => t[n].parent \in Live(t)
    /\ Collection \in Above(t, n, Present(t))
ASSUME StartAssumption == Start \subseteq Tree /\ \A t \in Start : Whole(t)

-----------------------------------------------------------------------------
Init ==
  /\ row \in Start
  /\ head = [n \in Node |-> NoHead]
  /\ srv = [n \in Node |-> [row |-> row[n], ver |-> IF row[n].state = "absent" THEN 0 ELSE 1]]
  /\ st = [n \in Node |-> IF row[n].state = "absent"
                           THEN [ver |-> 0, status |-> "none", shadow |-> NoChange]
                           ELSE Synced(1)]
  /\ blocked = FALSE
  /\ kept = [n \in Node |-> NoChange]
  /\ log = <<>>
  /\ pc = "pull"
  /\ spent = [edits |-> 0, writes |-> 0, remote |-> FALSE]

-----------------------------------------------------------------------------
(* Commands of this device.  Each commits its rows and its intents together. *)

\* enqueue_intent_on for each entity of a command.
Enqueue(h, s, S) ==
  [n \in Node |-> IF n \notin S THEN h[n]
                  ELSE [status |-> "pending",
                        base |-> IF h[n].status # "none" /\ h[n].base > s[n].ver
                                 THEN h[n].base ELSE s[n].ver]]

MayEdit == spent.edits < MaxEdits
Command(t, S) ==
  /\ spent' = [spent EXCEPT !.edits = @ + 1]
  /\ row' = t
  /\ head' = Enqueue(head, st, S)
  /\ UNCHANGED <<st, blocked, kept, srv, log, pc>>

Create(n, p, name) ==
  /\ MayEdit /\ n \in LocalNew /\ CanHold(row, p, n)
  /\ row[n].state = "absent" /\ srv[n].row.state = "absent"   \* a fresh id
  /\ Command(Put(row, n, p, name), {n})

Rename(n, name) ==
  /\ MayEdit /\ n \in Live(row) /\ row[n].name # name
  /\ Command(Put(row, n, row[n].parent, name), {n})

Move(n, p) ==
  /\ MayEdit /\ n \in Live(row) /\ row[n].parent # p /\ n # Collection /\ CanHold(row, p, n)
  /\ Command(Put(row, n, p, row[n].name), {n})

Delete(n) ==
  /\ MayEdit /\ n \in Live(row)
  /\ Command(Bury(row, Doomed(row, n)), Doomed(row, n))

-----------------------------------------------------------------------------
(* The server and the other devices. *)

SrvRows == [n \in Node |-> srv[n].row]

ChangeOf(s, n, own) ==
  [n |-> n, op |-> IF s[n].row.state = "dead" THEN "delete" ELSE "upsert",
   parent |-> s[n].row.parent, name |-> s[n].row.name, ver |-> s[n].ver, own |-> own]

\* The server's rows after it set the nodes of S to their rows in t.
Written(t, S) ==
  [n \in Node |-> IF n \in S THEN [row |-> t[n], ver |-> srv[n].ver + 1] ELSE srv[n]]

\* A cascade reaches the stream children first.
ChildrenFirst(S) ==
  LET Level(n) == <<Rank(n), Depth(SrvRows, n)>>
      Sooner(m, n) == \/ Level(m)[1] > Level(n)[1]
                      \/ Level(m)[1] = Level(n)[1] /\ Level(m)[2] > Level(n)[2]
                      \/ Level(m) = Level(n) /\ Place(m) < Place(n)
  IN  [i \in 1..Cardinality(S) |-> CHOOSE n \in S : Cardinality({m \in S : Sooner(m, n)}) = i - 1]

MayWrite == spent.writes < MaxWrites
Foreign(t, S) ==
  LET s == Written(t, S)
      seq == ChildrenFirst(S)
  IN  /\ spent' = [spent EXCEPT !.writes = @ + 1]
      /\ srv' = s
      /\ log' = log \o [i \in 1..Len(seq) |-> ChangeOf(s, seq[i], FALSE)]
      /\ UNCHANGED <<row, head, st, blocked, kept, pc>>

CloudUpsert(n, p, name) ==
  /\ MayWrite
  /\ srv[n].row.state = "absent" => n \in CloudNew /\ row[n].state = "absent"
  /\ srv[n].row.state = "dead" => Restores
  /\ CanHold(SrvRows, p, n)
  /\ srv[n].row # [state |-> "live", parent |-> p, name |-> name]
  /\ Foreign(Put(SrvRows, n, p, name), {n})

CloudDelete(n) ==
  /\ MayWrite /\ n \in Live(SrvRows)
  /\ Foreign(Bury(SrvRows, Doomed(SrvRows, n)), Doomed(SrvRows, n))

-----------------------------------------------------------------------------
(* apply_external_page_on: x.rows grows by one change at a time, x.done are   *)
(* the entities materialised, x.wait the folders still to be placed, x.ok     *)
(* falls at the first hard error.  A page is a set of positions of a sequence *)
(* of changes.                                                                *)

Applied(x, t, S) == [x EXCEPT !.rows = t, !.done = @ \cup S]
Failed(x) == [x EXCEPT !.ok = FALSE]

\* upsert_collection, upsert_folder, upsert_request: under a parent that is
\* absent or deleted nothing is written; a folder moved into itself fails.
ApplyUpsert(x, c) ==
  IF c.n # Collection /\ ({Collection, c.parent} \ Live(x.rows)) # {} THEN x
  ELSE IF c.n \in Folder /\ (c.n = c.parent \/ c.n \in Above(x.rows, c.parent, Live(x.rows)))
  THEN Failed(x)
  ELSE Applied(x, Put(x.rows, c.n, c.parent, c.name), {c.n})

\* Mutant: a deleted folder leaves what it holds.
ApplyShallowDelete(x, c) ==
  IF x.rows[c.n].state # "live" THEN Applied(x, x.rows, {c.n})
  ELSE Applied(x, Bury(x.rows, {c.n}), {c.n})

\* apply_request_delete, apply_folder_delete, apply_collection_delete.
ApplyDelete(x, c) ==
  IF x.rows[c.n].state # "live" THEN Applied(x, x.rows, {c.n})
  ELSE IF c.parent # x.rows[c.n].parent THEN Failed(x)
  ELSE LET gone == IF c.n \in Request THEN {c.n} ELSE Doomed(x.rows, c.n)
       IN  Applied(x, Bury(x.rows, gone), gone)

ApplyOne(x, c) == IF c.op = "upsert" THEN ApplyUpsert(x, c) ELSE ApplyDelete(x, c)

Pass(x, seq, take) ==
  LET Step(y, i) == IF i \in take THEN ApplyOne(y, seq[i]) ELSE y
      done[i \in 0..Len(seq)] == IF i = 0 THEN x ELSE Step(done[i - 1], i)
  IN  done[Len(seq)]

\* apply_folder_upserts: a folder whose parent is still pending waits for the
\* next pass; a pass that applies nothing is an error.
TryFolder(y, c, i, pending) ==
  IF c.parent \in pending \ Live(y.rows) THEN y
  ELSE [ApplyUpsert(y, c) EXCEPT !.wait = @ \ {i}]
FolderPass(x, seq) ==
  LET pending == {seq[i].n : i \in x.wait}
      Step(y, i) == IF i \in x.wait THEN TryFolder(y, seq[i], i, pending) ELSE y
      done[i \in 0..Len(seq)] == IF i = 0 THEN x ELSE Step(done[i - 1], i)
      z == done[Len(seq)]
  IN  IF x.wait = {} THEN x ELSE IF z.wait = x.wait THEN Failed(z) ELSE z
FolderPasses(x, seq) ==
  LET done[k \in 0..Len(seq)] == IF k = 0 THEN x ELSE FolderPass(done[k - 1], seq)
  IN  done[Len(seq)]

Apply(t, seq, page) ==
  LET Of(op, S) == {i \in page : seq[i].op = op /\ seq[i].n \in S}
      start == [rows |-> t, done |-> {}, ok |-> TRUE, wait |-> Of("upsert", Folder)]
      folders == FolderPasses(Pass(start, seq, Of("upsert", {Collection})), seq)
      requests == Pass(folders, seq, Of("upsert", Request))
  IN  Pass(Pass(Pass(requests, seq, Of("delete", Request)),
                seq, Of("delete", Folder)), seq, Of("delete", {Collection}))

\* Mutant: of several changes of an entity the first one stays.
FirstOfEach(seq, page) == {i \in page : \A j \in page : j < i => seq[j].n # seq[i].n}
\* merge_external_pages: of several changes of an entity the last one stays.
LastOfEach(seq, page) == {i \in page : \A j \in page : j > i => seq[j].n # seq[i].n}

-----------------------------------------------------------------------------
(* Pull. *)

\* Mutant: only the entity itself is looked at.
OwnIntent(s, c) == head[c.n].status # "none" \/ s[c.n].status = "conflict"

\* has_local_intent_on: a delete also meets what it would take with it.
HasIntent(s, c) ==
  \E m \in {c.n} \cup (IF c.op = "delete" THEN Descendants(row, c.n) ELSE {}) :
    head[m].status # "none" \/ s[m].status = "conflict"

\* prepare_remote_change_with_aggregate_root_on, in the order of the page, with
\* the envelope recorded first; an envelope not newer than the kept one is skipped.
Prepare(x, i) ==
  LET c == log[i]
  IN  IF x.kept[c.n] # NoChange /\ c.ver <= x.kept[c.n].ver THEN x
  ELSE LET y == [x EXCEPT !.kept[c.n] = c]
       IN  IF c.own
           THEN [y EXCEPT !.st[c.n] = Synced(c.ver),
                          !.head[c.n].base = IF y.head[c.n].status = "none" \/ @ >= c.ver
                                             THEN @ ELSE c.ver]
           ELSE IF HasIntent(y.st, c)
           THEN [y EXCEPT !.st[c.n] = Conflict(c), !.blocked = TRUE]
           ELSE [y EXCEPT !.safe = @ \cup {i}]

\* record_applied_remote_on, change by change, for what the apply materialised.
Recorded(s, seq, safe, done) ==
  [n \in Node |-> LET last == {i \in safe : seq[i].n = n /\ \A j \in safe : j > i => seq[j].n # n}
                  IN  IF n \in done /\ last # {} THEN Synced(seq[CHOOSE i \in last : TRUE].ver) ELSE s[n]]

Received(k) ==
  LET start == [head |-> head, st |-> st, blocked |-> blocked, kept |-> kept, safe |-> {}]
      read[i \in 0..k] == IF i = 0 THEN start ELSE Prepare(read[i - 1], i)
  IN  read[k]

\* One page of k changes; a hard error rolls the whole page back, and the round
\* fails with nothing changed.
PullPage(k) ==
  /\ pc = "pull"
  /\ IF log = <<>> THEN k = 0 ELSE k \in 1..PageLimit /\ k <= Len(log)
  /\ LET x == Received(k)
         y == Apply(row, log, LastOfEach(log, x.safe))
     IN  /\ y.ok
         /\ row' = y.rows
         /\ head' = x.head
         /\ st' = Recorded(x.st, log, x.safe, y.done)
         /\ kept' = x.kept
         /\ blocked' = x.blocked
  /\ log' = SubSeq(log, k + 1, Len(log))
  /\ pc' = IF k = Len(log) THEN "replay" ELSE "pull"
  /\ UNCHANGED <<srv, spent>>

\* reapply_retained_remote: the envelopes not applied yet, parents first; what
\* is under a blocked or deleted one waits.
Consider(x, i) ==
  LET n == Topology[i]
      c == kept[n]
  IN  IF c = NoChange \/ (x.st[n].ver = c.ver /\ x.st[n].status = "synced") THEN x
      ELSE IF c.op = "upsert" /\ c.parent \in x.waits THEN [x EXCEPT !.waits = @ \cup {n}]
      ELSE IF x.st[n].status # "none" /\ x.st[n].ver > c.ver THEN x
      ELSE IF HasIntent(x.st, c)
      THEN [x EXCEPT !.waits = @ \cup {n}, !.blocked = TRUE,
                     !.st[n] = IF @.status = "conflict" THEN @ ELSE Conflict(c)]
      ELSE [x EXCEPT !.waits = IF c.op = "delete" THEN @ \cup {n} ELSE @,
                     !.page = @ \cup {i}]
Retained == [i \in 1..Len(Topology) |-> kept[Topology[i]]]
Reconsidered ==
  LET start == [st |-> st, blocked |-> blocked, waits |-> {}, page |-> {}]
      read[i \in 0..Len(Topology)] == IF i = 0 THEN start ELSE Consider(read[i - 1], i)
  IN  read[Len(Topology)]

Replay ==
  /\ pc = "replay"
  /\ LET x == Reconsidered
         y == Apply(row, Retained, x.page)
     IN  /\ y.ok
         /\ row' = y.rows
         /\ st' = Recorded(x.st, Retained, x.page, y.done)
         /\ blocked' = x.blocked
  /\ pc' = "push"
  /\ UNCHANGED <<head, kept, srv, log, spent>>

-----------------------------------------------------------------------------
(* Push. *)

\* due_outbox: not in conflict, not under a conflict over a remote delete, not
\* under a dead letter.
Due ==
  {n \in Node :
    /\ head[n].status = "pending" /\ n \notin Conflicts
    /\ \A c \in Conflicts : st[c].shadow.op = "delete" => c \notin Above(row, n, Present(row))
    /\ \A d \in Node : head[d].status = "dead" => d \notin Above(row, n, Present(row))}

\* Its order: deletes from the leaves, upserts from the root.
Key(n) ==
  IF row[n].state = "dead"
  THEN <<3 - Rank(n), IF n \in Folder THEN -Depth(row, n) ELSE 0>>
  ELSE <<Rank(n), IF n \in Folder THEN Depth(row, n) ELSE 0>>
Before(m, n) ==
  Key(m)[1] < Key(n)[1] \/ (Key(m)[1] = Key(n)[1] /\ Key(m)[2] < Key(n)[2])

\* The server's answer to the operation of n: a stale base or an impossible
\* parent ends the round; a delete takes with it what the server still holds.
Push(n) ==
  /\ pc = "push" /\ ~blocked
  /\ n \in Due /\ \A m \in Due : ~Before(m, n)
  /\ IF head[n].base # srv[n].ver
     THEN /\ st' = [st EXCEPT ![n] = Conflict(ChangeOf(srv, n, FALSE))]
          /\ blocked' = TRUE /\ pc' = "pull"
          /\ UNCHANGED <<head, srv, log>>
     ELSE IF row[n].state = "live" /\ ~CanHold(SrvRows, row[n].parent, n)
     THEN /\ head' = [head EXCEPT ![n].status = "dead"]
          /\ pc' = "pull"
          /\ UNCHANGED <<st, blocked, srv, log>>
     ELSE LET below == IF row[n].state = "dead" /\ n \in Live(SrvRows)
                       THEN Doomed(SrvRows, n) \ {n} ELSE {}
              s == Written([Bury(SrvRows, below) EXCEPT ![n] = row[n]], below \cup {n})
              seq == Append(ChildrenFirst(below), n)
          IN  /\ srv' = s
              /\ log' = log \o [i \in 1..Len(seq) |->
                                 ChangeOf(s, seq[i], seq[i] = n \/ SharedCascade)]
              /\ st' = [st EXCEPT ![n] = Synced(s[n].ver)]
              /\ head' = [head EXCEPT ![n] = NoHead]
              /\ UNCHANGED <<blocked, pc>>
  /\ UNCHANGED <<row, kept, spent>>

\* A round ends with its pushes, early when a request fails; the next one pulls.
NextRound ==
  /\ pc = "push" /\ pc' = "pull"
  /\ UNCHANGED <<row, head, st, blocked, kept, srv, log, spent>>

-----------------------------------------------------------------------------
(* The user settles a conflict, with those under it if it is over a delete. *)

Scope(n) == {n} \cup (IF st[n].shadow.op = "delete" THEN Descendants(row, n) ELSE {})

\* clear_conflict_on; the binding leaves "conflict" with the last one.
Clear(S) ==
  /\ st' = [m \in Node |-> IF m \in S THEN Synced(st[m].ver) ELSE st[m]]
  /\ blocked' = (blocked /\ Conflicts \ S # {})

KeepLocal(n) ==
  /\ "keep" \in Resolutions /\ n \in Conflicts
  /\ LET S == Scope(n) \cap Conflicts
     IN  /\ S \subseteq Present(row)
         /\ head' = [m \in Node |-> IF m \in S THEN [status |-> "pending", base |-> st[m].ver]
                                    ELSE head[m]]
         /\ Clear(S)
  /\ UNCHANGED <<row, kept, srv, log, pc, spent>>

\* Every conflict of the scope must be settled by applying this one change.
UseRemote(n) ==
  /\ "remote" \in Resolutions /\ n \in Conflicts
  /\ LET S == Scope(n)
         y == Apply(row, <<st[n].shadow>>, {1})
     IN  /\ y.ok
         /\ \A m \in S \cap Conflicts :
              m \in y.done \/ (st[m].shadow.op = "delete" /\ m \notin Live(y.rows))
         /\ row' = y.rows
         /\ head' = [m \in Node |-> IF m \in S THEN NoHead ELSE head[m]]
         /\ Clear(S \cap Conflicts)
  /\ spent' = [spent EXCEPT !.remote = TRUE]
  /\ UNCHANGED <<kept, srv, log, pc>>

Next ==
  \/ \E n \in Node, p \in Node \cup {Top}, name \in Name :
       Create(n, p, name) \/ CloudUpsert(n, p, name)
  \/ \E n \in Node, name \in Name : Rename(n, name)
  \/ \E n, p \in Node : Move(n, p)
  \/ \E n \in Node : Delete(n) \/ CloudDelete(n) \/ Push(n) \/ KeepLocal(n) \/ UseRemote(n)
  \/ \E k \in 0..PageLimit : PullPage(k)
  \/ Replay \/ NextRound

Spec == Init /\ [][Next]_vars

-----------------------------------------------------------------------------
(* Properties. *)

\* Rows, heads, states and the stream stay within their types: a folder or request
\* is in a holder, and a conflict always carries the remote change the user is
\* asked about.
TypeOK ==
  /\ row \in Tree
  /\ head \in [Node -> [status : {"none", "pending", "dead"}, base : Nat]]
  /\ st \in [Node -> [ver : Nat, status : {"none", "synced", "conflict"},
                      shadow : Change \cup {NoChange}]]
  /\ \A n \in Conflicts : st[n].shadow \in Change
  /\ blocked \in BOOLEAN
  /\ kept \in [Node -> Change \cup {NoChange}]
  /\ srv \in [Node -> [row : Row, ver : Nat]] /\ SrvRows \in Tree
  /\ log \in Seq(Change)
  /\ pc \in {"pull", "replay", "push"}
  /\ spent \in [edits : 0..MaxEdits, writes : 0..MaxWrites, remote : BOOLEAN]

\* On the device a live folder or request is always in a live parent, and the
\* parent edges end at the collection: whatever the interleaving of commands,
\* pages and choices, no entity is lost to the tree views, and the recursive
\* queries of delete and push end.
WellFormed == Whole(row)

\* Only a command of the user changes a row whose local edit stays queued:
\* neither a page, nor retained envelopes, nor a conflict choice that does not
\* give that edit up, however the change reaches the row through the hierarchy.
IntentUntouched ==
  [][spent'.edits = spent.edits => \A n \in Queued \cap Queued' : row'[n] = row[n]]_vars

\* Once nothing is queued, nothing is in conflict and the stream is consumed
\* and replayed, the device shows the server's tree.  (A use-remote of a folder's
\* delete also buries what was moved out of the folder at the server.  What is in a
\* folder moved twice elsewhere, in between into one deleted here, may stay buried.)
Settled == Queued = {} /\ Conflicts = {} /\ log = <<>> /\ pc = "push" /\ ~spent.remote
Shown(t) == [n \in Node |-> IF n \in Live(t) THEN t[n] ELSE NoChange]
Converges == Settled => Shown(row) = Shown(SrvRows)
=============================================================================
