--------------------------- MODULE WorkspaceStore ---------------------------
(***************************************************************************)
(* The store of workspace-engine: workspaces with their environments and    *)
(* variables, what this device alone keeps about them (the default, the     *)
(* active workspace, the environment selected in each), the commands that   *)
(* edit them and the external apply through which pulled pages reach them.  *)
(* One workspace is synchronised; another device, running the same program, *)
(* edits it too.  What becomes of a conflict is SyncTree's subject: here it  *)
(* stays, and so does an intent the server would refuse.                     *)
(***************************************************************************)
EXTENDS Integers, Sequences, FiniteSets, Functions

CONSTANTS
  Workspace, Environment, Variable, EnvVariable,   \* ids, those not created yet too
  Home,           \* the workspace of an environment or variable, the
                  \* environment of an environment variable
  Shared,         \* the workspace that is synchronised
  Name,           \* names of workspaces and environments, keys of variables
  Rank,           \* which of equal candidates a query puts first (sort_order, updated_at)
  Start,          \* stores the device may start from
  PageLimit,      \* most changes of one page
  MaxEdits, MaxWrites   \* bounds: commands here, commands of the other device

Entity == Workspace \cup Environment \cup Variable \cup EnvVariable
Row == [state : {"absent", "live", "dead"}, name : Name]
None == "none"
Store == [row : [Entity -> Row], default : SUBSET Workspace, active : Workspace,
          selected : [Workspace -> Environment \cup {None}]]

ASSUME IdsAssumption ==
  /\ IsFiniteSet(Entity) /\ None \notin Entity
  /\ Workspace \cap (Environment \cup Variable \cup EnvVariable) = {}
  /\ Environment \cap (Variable \cup EnvVariable) = {} /\ Variable \cap EnvVariable = {}
  /\ Shared \in Workspace
  /\ \A n \in Environment \cup Variable : Home[n] \in Workspace
  /\ \A n \in EnvVariable : Home[n] \in Environment
ASSUME RankAssumption == Rank \in [Entity -> Nat] /\ IsInjective(Rank)
ASSUME LimitsAssumption == PageLimit \in Nat /\ MaxEdits \in Nat /\ MaxWrites \in Nat

VARIABLES
  store,      \* the tables of the device and its settings
  queued,     \* entities with a row in cloud_sync_outbox
  conflict,   \* entities whose remote change waits for the user
  cloud,      \* the rows of the shared workspace at the server
  log,        \* the part of its change stream beyond the device's cursor
  spent       \* commands here and there so far, whether one restored a parent

vars == <<store, queued, conflict, cloud, log, spent>>

Live(t) == {n \in Entity : t[n].state = "live"}
Rooted(n) == n \in Workspace
Below(n) == {m \in Entity \ Workspace : Home[m] = n \/ (m \in EnvVariable /\ Home[Home[m]] = n)}
Synced == {Shared} \cup Below(Shared)

\* Those a unique index compares n with.
Siblings(n) ==
  IF Rooted(n) THEN Workspace \ {n}
  ELSE {m \in Entity \ (Workspace \cup {n}) :
          Home[m] = Home[n] /\ (m \in Environment <=> n \in Environment)}
Taken(t, n, name) == \E m \in Siblings(n) \cap Live(t) : t[m].name = name

\* What the unique indexes, the cascades and the fallbacks are to keep.
NamesDiffer(t) == \A n \in Live(t) : ~Taken(t, n, t[n].name)
NoOrphan(t) == \A n \in Live(t) \ Workspace : Home[n] \in Live(t)
AtHome(s) ==
  /\ s.active \in Live(s.row)
  /\ \A w \in Workspace : LET e == s.selected[w]
                          IN  e # None => e \in Live(s.row) /\ Home[e] = w
ASSUME StartAssumption ==
  \A s \in Start : s \in Store /\ NamesDiffer(s.row) /\ NoOrphan(s.row) /\ AtHome(s)

First(S) == CHOOSE n \in S : \A m \in S : Rank[n] <= Rank[m]
Put(t, n, name) == [t EXCEPT ![n] = [state |-> "live", name |-> name]]
Bury(t, S) == [n \in Entity |-> IF n \in S THEN [t[n] EXCEPT !.state = "dead"] ELSE t[n]]
\* A delete with its cascade.
Deleted(t, n) == Bury(t, ({n} \cup Below(n)) \cap Live(t))

Init ==
  /\ store \in Start
  /\ cloud = [n \in Entity |-> IF n \in Synced THEN store.row[n]
                               ELSE [store.row[n] EXCEPT !.state = "absent"]]
  /\ queued = {} /\ conflict = {} /\ log = <<>>
  /\ spent = [edits |-> 0, writes |-> 0, restored |-> FALSE]

-----------------------------------------------------------------------------
(* What a command makes of the rows: the same on either device. *)

MayCreate(t, n, name) ==
  /\ t[n].state = "absent" /\ ~Taken(t, n, name)
  /\ ~Rooted(n) => Home[n] \in Live(t)
MayRename(t, n, name) == n \in Live(t) /\ t[n].name # name /\ ~Taken(t, n, name)
MayDelete(t, n) == n \in Live(t) /\ (Rooted(n) => Cardinality(Live(t) \cap Workspace) > 1)

\* replace_workspace_variables_exact, replace_environment_variables_exact: of the
\* variables of p, those listed are written, tombstones included, and the other
\* live ones deleted; keys are set aside first, so that two rows may swap them.
Listed(p) == {n \in Variable \cup EnvVariable : Home[n] = p}
Replaced(t, p, keys) ==
  [n \in Entity |-> IF n \notin Listed(p) THEN t[n]
                    ELSE IF n \in DOMAIN keys THEN [state |-> "live", name |-> keys[n]]
                    ELSE IF n \in Live(t) THEN [t[n] EXCEPT !.state = "dead"] ELSE t[n]]
Lists(p) == UNION {{f \in [S -> Name] : IsInjective(f)} : S \in SUBSET Listed(p)}

Changed(s, t) == {n \in Entity : s[n] # t[n]}

-----------------------------------------------------------------------------
(* Commands of this device. *)

Command(s) ==
  /\ spent.edits < MaxEdits /\ s # store
  /\ spent' = [spent EXCEPT !.edits = @ + 1]
  /\ store' = s
  /\ queued' = queued \cup (Changed(store.row, s.row) \cap Synced)
  /\ UNCHANGED <<conflict, cloud, log>>

CreateWorkspace(w, name) ==
  /\ MayCreate(store.row, w, name)
  /\ Command([store EXCEPT !.row = Put(@, w, name), !.active = w])

\* The first environment of a workspace becomes the selected one.
CreateEnvironment(e, name) ==
  /\ MayCreate(store.row, e, name) /\ cloud[e].state = "absent"   \* a fresh id
  /\ LET w == Home[e]
         first == \A m \in Live(store.row) \cap Environment : Home[m] # w
     IN  Command([store EXCEPT !.row = Put(@, e, name),
                               !.selected[w] = IF first THEN e ELSE @])

CreateVariable(v, name) ==
  /\ v \in Variable \cup EnvVariable
  /\ MayCreate(store.row, v, name) /\ cloud[v].state = "absent"
  /\ Command([store EXCEPT !.row = Put(@, v, name)])

Rename(n, name) ==
  /\ MayRename(store.row, n, name)
  /\ Command([store EXCEPT !.row = Put(@, n, name)])

ReplaceVariables(w, keys) ==
  /\ w \in Live(store.row)
  /\ \A n \in DOMAIN keys : store.row[n].state = "absent" => cloud[n].state = "absent"
  /\ Command([store EXCEPT !.row = Replaced(@, w, keys)])

\* update_environment_on: the name and the variables together.
UpdateEnvironment(e, name, keys) ==
  /\ e \in Live(store.row) /\ ~Taken(store.row, e, name)
  /\ \A n \in DOMAIN keys : store.row[n].state = "absent" => cloud[n].state = "absent"
  /\ Command([store EXCEPT !.row = Replaced(Put(@, e, name), e, keys)])

SetDefault(w) ==
  /\ w \in Live(store.row)
  /\ Command([store EXCEPT !.default = (@ \ Live(store.row)) \cup {w}])

SetActive(w) == w \in Live(store.row) /\ Command([store EXCEPT !.active = w])

SelectEnvironment(w, e) ==
  /\ w \in Live(store.row)
  /\ e # None => e \in Live(store.row) /\ Home[e] = w
  /\ Command([store EXCEPT !.selected[w] = e])

\* Mutant: a deleted workspace hands over whether it was active or not.
AlwaysNext(s, t, w) ==
  LET live == Live(t) \cap Workspace
  IN  First(IF live \cap s.default # {} THEN live \cap s.default ELSE live)
\* The active workspace after w is gone from t: a default one, or the latest.
NextActive(s, t, w) ==
  LET live == Live(t) \cap Workspace
      best == IF live \cap s.default # {} THEN live \cap s.default ELSE live
  IN  IF s.active = w THEN First(best) ELSE s.active

DeleteWorkspace(w) ==
  /\ MayDelete(store.row, w)
  /\ LET t == Deleted(store.row, w)
     IN  Command([store EXCEPT !.row = t, !.active = NextActive(store, t, w),
                               !.selected[w] = None])

\* update_active_environment_after_delete_on.
NextSelected(s, t, e) ==
  LET left == {m \in Live(t) \cap Environment : Home[m] = Home[e]}
  IN  [s.selected EXCEPT ![Home[e]] = IF @ # e THEN @ ELSE IF left = {} THEN None ELSE First(left)]

DeleteEnvironment(e) ==
  /\ MayDelete(store.row, e)
  /\ LET t == Deleted(store.row, e)
     IN  Command([store EXCEPT !.row = t, !.selected = NextSelected(store, t, e)])

DeleteVariable(v) ==
  /\ MayDelete(store.row, v)
  /\ Command([store EXCEPT !.row = Deleted(@, v)])

-----------------------------------------------------------------------------
(* The other device and the server. *)

\* due_outbox: deletes from the leaves, upserts from the root.
Depth(n) == IF Rooted(n) THEN 0 ELSE IF n \in EnvVariable THEN 2 ELSE 1
Key(t, n) == IF t[n].state = "dead" THEN 3 - Depth(n) ELSE Depth(n)
InOrder(t, S) ==
  LET Before(m, n) == Key(t, m) < Key(t, n) \/ (Key(t, m) = Key(t, n) /\ Rank[m] < Rank[n])
  IN  [i \in 1..Cardinality(S) |-> CHOOSE n \in S : Cardinality({m \in S : Before(m, n)}) = i - 1]
Change(t, n) == [n |-> n, op |-> IF t[n].state = "dead" THEN "delete" ELSE "upsert",
                 name |-> t[n].name]

\* A deleted environment or workspace comes back without what it held.
Restores(t) == \E n \in Workspace \cup Environment : cloud[n].state = "dead" /\ n \in Live(t)

Foreign(t) ==
  /\ spent.writes < MaxWrites /\ t # cloud
  /\ spent' = [spent EXCEPT !.writes = @ + 1, !.restored = @ \/ Restores(t)]
  /\ cloud' = t
  /\ LET seq == InOrder(t, Changed(cloud, t))
     IN  log' = log \o [i \in 1..Len(seq) |-> Change(t, seq[i])]
  /\ UNCHANGED <<store, queued, conflict>>

CloudCreate(n, name) ==
  n \in Synced /\ MayCreate(cloud, n, name) /\ store.row[n].state = "absent"
  /\ Foreign(Put(cloud, n, name))
CloudRename(n, name) == MayRename(cloud, n, name) /\ Foreign(Put(cloud, n, name))
\* The other device has a workspace of its own to fall back to.
CloudDelete(n) == n \in Live(cloud) /\ Foreign(Deleted(cloud, n))
CloudReplace(p, keys) ==
  /\ p \in Live(cloud)
  /\ \A n \in DOMAIN keys : cloud[n].state = "absent" => store.row[n].state = "absent"
  /\ Foreign(Replaced(cloud, p, keys))
\* A conflict over a delete, kept by its user: the entity comes back.
CloudRestore(n) ==
  /\ n \in Synced /\ cloud[n].state = "dead" /\ (~Rooted(n) => Home[n] \in Live(cloud))
  /\ ~Taken(cloud, n, cloud[n].name)
  /\ Foreign(Put(cloud, n, cloud[n].name))

\* The server takes an operation whose base is current and whose parent lives;
\* it deletes what it still holds under a deleted entity.
Push(n) ==
  /\ n \in queued /\ conflict = {}
  /\ \A i \in 1..Len(log) : log[i].n # n
  /\ n \in Live(store.row) /\ ~Rooted(n) => Home[n] \in Live(cloud)
  /\ LET gone == IF n \in Live(store.row) THEN {} ELSE Below(n) \cap Live(cloud)
         t == [Bury(cloud, gone) EXCEPT ![n] = store.row[n]]
         seq == InOrder(t, gone)
     IN  /\ cloud' = t
         /\ log' = log \o [i \in 1..Len(seq) |-> Change(t, seq[i])]
  /\ queued' = queued \ {n}
  /\ UNCHANGED <<store, conflict, spent>>

-----------------------------------------------------------------------------
(* apply_external_page_on: x.s is the store, x.ok falls at the first hard error. *)

Failed(x) == [s |-> x.s, ok |-> FALSE]

\* Mutant: an orphan is written under its deleted parent.
ApplyOrphan(x, c) ==
  IF Taken(x.s.row, c.n, c.name) THEN Failed(x)
  ELSE [x EXCEPT !.s.row = Put(@, c.n, c.name)]
\* Mutant: no unique index stands behind the apply.
ApplyUnindexed(x, c) ==
  IF ~Rooted(c.n) /\ Home[c.n] \notin Live(x.s.row) THEN x
  ELSE [x EXCEPT !.s.row = Put(@, c.n, c.name)]
\* upsert_workspace, upsert_environment, upsert_workspace_variable and
\* upsert_environment_variable: under a parent that is absent or deleted nothing
\* is written; a name in use violates its unique index.
ApplyUpsert(x, c) ==
  IF ~Rooted(c.n) /\ Home[c.n] \notin Live(x.s.row) THEN x
  ELSE IF Taken(x.s.row, c.n, c.name) THEN Failed(x)
  ELSE [x EXCEPT !.s.row = Put(@, c.n, c.name)]

\* create_external_fallback_workspace: a new default workspace with a free name.
Unused(t) == {v \in Workspace : t[v].state = "absent"}
WithFallback(x) ==
  LET w == First(Unused(x.s.row))
      name == CHOOSE a \in Name : ~Taken(x.s.row, w, a)
  IN  [x EXCEPT !.s = [x.s EXCEPT !.row = Put(@, w, name), !.default = @ \cup {w}, !.active = w]]

\* Mutant: the last workspace is deleted like any other.
ApplyWorkspaceDeleteBare(x, c) ==
  LET t == Deleted(x.s.row, c.n)
      s == [x.s EXCEPT !.row = t, !.selected[c.n] = None]
  IN  [x EXCEPT !.s = IF c.n \notin Live(x.s.row) THEN s
                      ELSE IF Live(t) \cap Workspace = {} THEN s
                      ELSE [s EXCEPT !.active = NextActive(x.s, t, c.n)]]
\* apply_workspace, Delete: the cascade runs again on a deleted workspace.
\* (Bound: the page fails if the ids have run out.)
ApplyWorkspaceDelete(x, c) ==
  LET t == Deleted(x.s.row, c.n)
      gone == [x EXCEPT !.s = [x.s EXCEPT !.row = t, !.selected[c.n] = None]]
  IN  IF c.n \notin Live(x.s.row) THEN gone
      ELSE IF Live(t) \cap Workspace # {} THEN [gone EXCEPT !.s.active = NextActive(x.s, t, c.n)]
      ELSE IF Unused(t) # {} THEN WithFallback(gone) ELSE Failed(x)

\* apply_environment and the variables' apply, Delete.
ApplyDelete(x, c) ==
  IF c.n \notin Live(x.s.row) THEN x
  ELSE LET t == Deleted(x.s.row, c.n)
           sel == IF c.n \in Environment THEN NextSelected(x.s, t, c.n) ELSE x.s.selected
       IN  [x EXCEPT !.s = [x.s EXCEPT !.row = t, !.selected = sel]]

ApplyOne(x, c) ==
  IF c.op = "upsert" THEN ApplyUpsert(x, c)
  ELSE IF Rooted(c.n) THEN ApplyWorkspaceDelete(x, c) ELSE ApplyDelete(x, c)

\* A page is a set of positions of the stream; a pass takes the changes of one kind.
Pass(x, page, kind) ==
  LET done[i \in 0..Len(log)] ==
        IF i = 0 THEN x
        ELSE IF i \in page /\ log[i].n \in kind THEN ApplyOne(done[i - 1], log[i])
        ELSE done[i - 1]
  IN  done[Len(log)]
Apply(s, page) ==
  Pass(Pass(Pass(Pass([s |-> s, ok |-> TRUE], page, Workspace),
                 page, Environment), page, Variable), page, EnvVariable)

\* Mutant: of several changes of an entity the first one stays.
FirstOfEach(page) == {i \in page : \A j \in page : j < i => log[j].n # log[i].n}
\* Of several changes of an entity the last one stays.
LastOfEach(page) == {i \in page : \A j \in page : j > i => log[j].n # log[i].n}

\* Mutant: a delete looks at the entity alone.
OwnIntent(bad, c) == c.n \in queued \cup bad
\* has_local_intent_on: the delete of a workspace meets every intent of its
\* binding, that of an environment those of its variables.
Scope(c) == {c.n} \cup (IF c.op = "delete" THEN Below(c.n) ELSE {})
HasIntent(bad, c) == Scope(c) \cap (queued \cup bad) # {}

\* prepare_remote_change_on: what meets an intent waits for the user.
Prepared(k) ==
  LET read[i \in 0..k] ==
        IF i = 0 THEN [bad |-> conflict, safe |-> {}]
        ELSE IF HasIntent(read[i - 1].bad, log[i])
             THEN [read[i - 1] EXCEPT !.bad = @ \cup {log[i].n}]
             ELSE [read[i - 1] EXCEPT !.safe = @ \cup {i}]
  IN  read[k]
Page(k) == Apply(store, LastOfEach(Prepared(k).safe))

\* A page is applied in one transaction; a hard error rolls it back.
PullPage(k) ==
  /\ k \in 1..PageLimit /\ k <= Len(log) /\ Page(k).ok
  /\ store' = Page(k).s
  /\ conflict' = Prepared(k).bad
  /\ log' = SubSeq(log, k + 1, Len(log))
  /\ UNCHANGED <<queued, cloud, spent>>

Next ==
  \/ \E w \in Workspace : SetDefault(w) \/ SetActive(w) \/ DeleteWorkspace(w)
  \/ \E w \in Workspace, name \in Name : CreateWorkspace(w, name)
  \/ \E w \in Workspace : \E keys \in Lists(w) : ReplaceVariables(w, keys)
  \/ \E w \in Workspace, e \in Environment \cup {None} : SelectEnvironment(w, e)
  \/ \E e \in Environment, name \in Name :
       \/ CreateEnvironment(e, name)
       \/ \E keys \in Lists(e) : UpdateEnvironment(e, name, keys)
  \/ \E e \in Environment : DeleteEnvironment(e)
  \/ \E v \in Variable \cup EnvVariable : DeleteVariable(v)
  \/ \E v \in Variable \cup EnvVariable, name \in Name : CreateVariable(v, name)
  \/ \E n \in Entity, name \in Name : Rename(n, name) \/ CloudRename(n, name) \/ CloudCreate(n, name)
  \/ \E n \in Entity : CloudDelete(n) \/ CloudRestore(n) \/ Push(n)
  \/ \E p \in Workspace \cup Environment : \E keys \in Lists(p) : CloudReplace(p, keys)
  \/ \E k \in 1..PageLimit : PullPage(k)

Spec == Init /\ [][Next]_vars

-----------------------------------------------------------------------------
(* Properties. *)

\* The tables, the settings, the sets of intents and the stream keep their types, and
\* no two live rows share a name where an index forbids it.
TypeOK ==
  /\ store \in Store /\ cloud \in [Entity -> Row]
  /\ queued \subseteq Synced /\ conflict \subseteq Synced
  /\ log \in Seq([n : Synced, op : {"upsert", "delete"}, name : Name])
  /\ spent \in [edits : 0..MaxEdits, writes : 0..MaxWrites, restored : BOOLEAN]
  /\ NamesDiffer(store.row)

\* No live row sits under a deleted one, whichever of the other device's deletes,
\* restores and creations, and of this device's cascades and stale lists, meet.
Closed == NoOrphan(store.row)

\* There is always a workspace to work in: the active one lives, whoever deleted
\* which, and a selected environment is a live one of its workspace.
Anchored == AtHome(store)

\* Remote changes preserve what this device alone decides: the active workspace
\* and the selected environment change only when they are gone, the default
\* only for a fallback that is new.
LocalFieldsKept ==
  [][spent'.edits = spent.edits =>
       /\ store'.active # store.active => store.active \notin Live(store'.row)
       /\ \A w \in Workspace : store'.selected[w] # store.selected[w] =>
            store.selected[w] \notin Live(store'.row)
       /\ store.default \subseteq store'.default
       /\ \A w \in store'.default \ store.default : store.row[w].state = "absent"]_vars

\* Only a command of the user changes a row whose local edit stays queued.
IntentUntouched ==
  [][spent'.edits = spent.edits =>
       \A n \in queued \cap queued' : store'.row[n] = store.row[n]]_vars

\* Once nothing is queued, nothing waits for the user and the stream is consumed,
\* the device shows of the shared workspace what the server holds.  (Of a parent
\* restored between a pull and a push, what was pushed under it stays buried.)
Shown(t) == [n \in Synced |-> IF n \in Live(t) THEN t[n].name ELSE None]
Converges ==
  queued = {} /\ conflict = {} /\ log = <<>> /\ ~spent.restored
    => Shown(store.row) = Shown(cloud)
=============================================================================
