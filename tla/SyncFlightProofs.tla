-------------------------- MODULE SyncFlightProofs --------------------------
(***************************************************************************)
(* SyncFlight for any workspaces, tasks and bounds: one flight per           *)
(* workspace, the balance of the permits, and that a flight does not swallow *)
(* the failure it ends on.                                                  *)
(*                                                                         *)
(* The invariant says that a task which owns a guard owns the entry of its    *)
(* workspace, that it is the only one to, that the permits given out are      *)
(* those of the tasks in a round, and what terminal_error and the shown error *)
(* say at each point of a flight.  Once a flight has claimed its row, the     *)
(* row's generation only rises: if it is still the flight's own at the end,    *)
(* it was at the record too.                                               *)
(***************************************************************************)
EXTENDS SyncFlight, FiniteSetTheorems, TLAPS

\* A guard is only handed out with the running mark, and only its owner clears it.
Owned == \A t \in Flying : flights[task[t].ws].running

\* A task's failure is over and done with: neither running nor to be recorded.
Done(r) == r.pc = "leaving" \/ (r.pc = "ended" /\ r.error = "none")

\* What a task's record says of the generation g of its row and the error x shown.
Honest(r, g, x) ==
  /\ r.pc = "ended" /\ r.error = "account" => r.last = "account"
  /\ r.pc \in {"triggered", "waiting", "round", "claim", "syncing"} => r.error = "none"
  /\ r.pc \in {"idle", "triggered"} => ~r.claimed
  /\ r.claimed => g >= r.session
  /\ Done(r) /\ r.last = "failed" /\ r.claimed /\ g = r.session => x # "none"

Reported ==
  \A t \in Task : Honest(task[t], row[task[t].ws].generation, shown[task[t].ws])

Inv == TypeOK /\ Owned /\ OneFlight /\ Reported /\ PermitsBalance

\* Permits: a set of tasks has finitely many members, and one task's step adds
\* or removes one.
LEMMA HoldingFinite == IsFiniteSet(Holding) /\ IsFiniteSet(Holding')
BY TaskAssumption, FS_Subset DEF Holding, Flying

LEMMA PermitsKept ==
  ASSUME PermitsBalance, free' = free, Holding' = Holding
  PROVE  PermitsBalance'
BY DEF PermitsBalance

LEMMA PermitTaken ==
  ASSUME TypeOK, PermitsBalance, NEW t \in Task, t \notin Holding,
         Holding' = Holding \cup {t}, free' = free - 1
  PROVE  PermitsBalance'
<1>1. Cardinality(Holding') = Cardinality(Holding) + 1 /\ Cardinality(Holding) \in Nat
  BY HoldingFinite, FS_AddElement, FS_CardinalityType
<1>2. QED
  BY <1>1, LimitAssumption DEF PermitsBalance, TypeOK

LEMMA PermitReturned ==
  ASSUME TypeOK, PermitsBalance, NEW t \in Task, t \in Holding,
         Holding' = Holding \ {t}, free' = free + 1
  PROVE  PermitsBalance' /\ free' \in 0..Limit
<1>1. Cardinality(Holding') = Cardinality(Holding) - 1
  BY HoldingFinite, FS_RemoveElement
<1>2. Cardinality(Holding') \in Nat /\ Cardinality(Holding) \in Nat
  BY HoldingFinite, FS_CardinalityType
<1>3. QED
  BY <1>1, <1>2, LimitAssumption DEF PermitsBalance, TypeOK

\* Where a task that flies for nobody is.
LEMMA ParkedType ==
  ASSUME NEW t \in Task
  PROVE  /\ Parked(t) \in TaskState /\ Parked(t).pc = "idle" /\ ~Parked(t).claimed
         /\ Parked(t).error = "none" /\ Parked(t).last = "ok" /\ Parked(t).session = 0
<1>1. Home \in Workspace
  BY TaskAssumption DEF Home
<1>2. QED
  BY <1>1 DEF Parked, At, TaskState, Pc

LEMMA InitInv == Init => Inv
<1> SUFFICES ASSUME Init PROVE Inv
  OBVIOUS
<1>1. task \in [Task -> TaskState] /\ \A t \in Task : task[t] = Parked(t)
  BY ParkedType DEF Init
<1>2. \A t \in Task : task[t].pc = "idle" /\ ~task[t].claimed
  BY <1>1, ParkedType
<1>3. TypeOK
  BY <1>1, LimitAssumption DEF Init, TypeOK, NoEntry
<1>4. Flying = {} /\ Holding = {}
  BY <1>2 DEF Flying, Holding
<1>5. PermitsBalance
  BY <1>4, FS_EmptySet, LimitAssumption DEF PermitsBalance, Init
<1>6. Owned /\ OneFlight /\ Reported
  BY <1>2, <1>4 DEF Owned, OneFlight, Reported, Honest, Done
<1>7. QED
  BY <1>3, <1>5, <1>6 DEF Inv

\* Dismissing an error leaves a trace of it.
LEMMA Dismissed ==
  ASSUME TypeOK, NEW S \in SUBSET Workspace, Dismissing(S)
  PROVE  /\ shown' \in [Workspace -> {"none", "shown", "dismissed"}]
         /\ \A w \in Workspace : shown[w] # "none" => shown'[w] # "none"
BY DEF Dismissing, TypeOK

\* A step of one task that keeps its workspace: the invariant's other parts
\* follow from what the task owns before and after it.
LEMMA TaskStep ==
  ASSUME Inv, TypeOK', NEW t \in Task,
         \A u \in Task \ {t} : task'[u] = task[u],
         t \in Flying' => t \in Flying /\ task'[t].ws = task[t].ws,
         \A w \in Workspace : w # task[t].ws => flights'[w] = flights[w],
         t \in Flying' => flights'[task[t].ws].running,
         t \in Flying \/ flights' = flights,
         Reported', PermitsBalance'
  PROVE  Inv'
<1>1. \A u \in Flying' : u \in Flying
  BY DEF Flying
<1>2. \A u \in Flying' : task'[u].ws = task[u].ws
  BY DEF Flying
<1>3. OneFlight'
  BY <1>1, <1>2 DEF Inv, OneFlight
<1>4. Owned'
  <2> SUFFICES ASSUME NEW u \in Flying' PROVE flights'[task'[u].ws].running
    BY DEF Owned
  <2>1. u \in Flying /\ u \in Task /\ task[u].ws \in Workspace
    BY <1>1 DEF Flying, Inv, TypeOK, TaskState
  <2>2. CASE u = t
    BY <2>2, <1>2
  <2>3. CASE u # t /\ t \in Flying
    BY <1>2, <2>1, <2>3 DEF Inv, OneFlight, Owned
  <2>4. CASE t \notin Flying
    BY <1>2, <2>1, <2>4 DEF Inv, Owned
  <2>5. QED
    BY <2>2, <2>3, <2>4
<1>5. QED
  BY <1>3, <1>4 DEF Inv

\* The quiet steps around the gate: rows rise, errors are at most dismissed.
LEMMA QuietReported ==
  ASSUME Inv, TypeOK',
         \A w \in Workspace : /\ row'[w].generation >= row[w].generation
                              /\ shown[w] # "none" => shown'[w] # "none",
         \A t \in Task : \/ task'[t] = task[t]
                         \/ /\ task'[t].pc = "triggered" /\ task'[t].error = "none"
                            /\ ~task'[t].claimed
  PROVE  Reported'
<1> SUFFICES ASSUME NEW t \in Task
             PROVE  Honest(task'[t], row'[task'[t].ws].generation, shown'[task'[t].ws])
  BY DEF Reported
<1>1. CASE task'[t] = task[t]
  <2>1. /\ task[t] \in TaskState /\ task[t].ws \in Workspace /\ task[t].session \in Nat
        /\ row[task[t].ws].generation \in Nat /\ row'[task[t].ws].generation \in Nat
    BY DEF Inv, TypeOK, TaskState
  <2>2. Honest(task[t], row[task[t].ws].generation, shown[task[t].ws])
    BY DEF Inv, Reported
  <2>3. /\ row'[task[t].ws].generation >= row[task[t].ws].generation
        /\ shown[task[t].ws] # "none" => shown'[task[t].ws] # "none"
    BY <2>1
  <2>4. task[t].claimed => row[task[t].ws].generation >= task[t].session
    BY <2>2 DEF Honest
  <2>5. task[t].claimed => /\ row'[task[t].ws].generation >= task[t].session
                           /\ row'[task[t].ws].generation = task[t].session
                              => row[task[t].ws].generation = task[t].session
    BY <2>1, <2>3, <2>4
  <2>6. QED
    BY <1>1, <2>2, <2>3, <2>5, Zenon DEF Honest
<1>2. CASE task'[t].pc = "triggered" /\ task'[t].error = "none" /\ ~task'[t].claimed
  BY <1>2 DEF Honest, Done
<1>3. QED
  BY <1>1, <1>2

\* A task that is triggered flies no more than it did.
LEMMA TriggerGate ==
  ASSUME Inv, UNCHANGED <<flights, free>>,
         \A t \in Task : \/ task'[t] = task[t]
                         \/ task'[t].pc = "triggered" /\ task[t].pc = "idle"
  PROVE  Owned' /\ OneFlight' /\ PermitsBalance'
<1>1. Flying' = Flying /\ Holding' = Holding /\ \A t \in Flying : task'[t] = task[t]
  BY DEF Flying, Holding
<1>2. QED
  BY <1>1, PermitsKept DEF Inv, Owned, OneFlight, Flying

LEMMA AroundInv ==
  ASSUME Inv,
         \/ \E w \in Workspace : Edit(w) \/ \E on \in BOOLEAN : SetEnabled(w, on)
         \/ NewSession \/ Tick
         \/ \E t \in Command, w \in Workspace : Trigger(t, w)
  PROVE  Inv'
<1>0. /\ TypeOK /\ session \in Nat /\ task \in [Task -> TaskState]
      /\ row \in [Workspace -> [enabled : BOOLEAN, generation : Nat]]
      /\ spent \in [triggers : Nat, faults : Nat, moves : Nat]
  BY DEF Inv, TypeOK
<1>1. ASSUME NEW w \in Workspace, Edit(w) PROVE Inv'
  BY <1>1 DEF Inv, Edit, gate, TypeOK, Owned, OneFlight, Reported, Honest, Done,
              PermitsBalance, Holding, Flying
<1>2. CASE NewSession
  BY <1>2 DEF Inv, NewSession, gate, Move, Spend, TypeOK, Owned, OneFlight, Reported, Honest,
              Done, PermitsBalance, Holding, Flying
<1>3. ASSUME NEW w \in Workspace, NEW on \in BOOLEAN, SetEnabled(w, on) PROVE Inv'
  <2>1. shown' \in [Workspace -> {"none", "shown", "dismissed"}]
        /\ \A x \in Workspace : shown[x] # "none" => shown'[x] # "none"
    BY <1>0, <1>3, Dismissed DEF SetEnabled, TypeOK
  <2>2. spent' \in [triggers : Nat, faults : Nat, moves : Nat]
    BY <1>0, <1>3 DEF SetEnabled, Move, Spend
  <2>3. row' \in [Workspace -> [enabled : BOOLEAN, generation : Nat]]
        /\ \A x \in Workspace : row'[x].generation >= row[x].generation
    BY <1>0, <1>3 DEF SetEnabled
  <2>4. TypeOK'
    BY <1>3, <2>1, <2>2, <2>3 DEF SetEnabled, gate, around, Inv, TypeOK
  <2>5. Reported'
    BY <1>3, <2>1, <2>3, <2>4, QuietReported DEF SetEnabled
  <2>6. Owned' /\ OneFlight' /\ PermitsBalance'
    BY <1>3, TriggerGate DEF SetEnabled, gate
  <2>7. QED
    BY <2>4, <2>5, <2>6 DEF Inv
<1>4. CASE Tick
  <2>1. \A t \in Task : \/ task'[t] = At("triggered", t, session) /\ t \in Workspace /\ task[t].pc = "idle"
                        \/ task'[t] = task[t]
    BY <1>4 DEF Tick
  <2>2. \A t \in Workspace : /\ At("triggered", t, session) \in TaskState
                             /\ At("triggered", t, session).pc = "triggered"
                             /\ At("triggered", t, session).error = "none"
                             /\ ~At("triggered", t, session).claimed
    BY <1>0 DEF At, TaskState, Pc
  <2>3. task' \in [Task -> TaskState]
    BY <1>0, <1>4, <2>2 DEF Tick
  <2>4. shown' \in [Workspace -> {"none", "shown", "dismissed"}]
        /\ \A x \in Workspace : shown[x] # "none" => shown'[x] # "none"
    BY <1>0, <1>4, Dismissed DEF Tick
  <2>5. TypeOK'
    BY <1>4, <2>3, <2>4 DEF Tick, gate, around, Inv, TypeOK
  <2>6. Reported'
    <3>1. \A w \in Workspace : row'[w].generation >= row[w].generation
      BY <1>0, <1>4 DEF Tick
    <3>2. QED
      BY <2>1, <2>2, <2>4, <2>5, <3>1, QuietReported
  <2>7. Owned' /\ OneFlight' /\ PermitsBalance'
    BY <1>4, <2>1, <2>2, TriggerGate DEF Tick, gate
  <2>8. QED
    BY <2>5, <2>6, <2>7 DEF Inv
<1>5. ASSUME NEW t \in Command, NEW w \in Workspace, Trigger(t, w) PROVE Inv'
  <2> DEFINE r == At("triggered", w, session)
  <2>1. t \in Task /\ task[t].pc = "idle" /\ task' = [task EXCEPT ![t] = r]
    BY <1>5 DEF Trigger, Task
  <2>2. r \in TaskState /\ r.pc = "triggered" /\ r.error = "none" /\ ~r.claimed
    BY <1>0 DEF At, TaskState, Pc
  <2>3. shown' \in [Workspace -> {"none", "shown", "dismissed"}]
        /\ \A x \in Workspace : shown[x] # "none" => shown'[x] # "none"
    BY <1>0, <1>5, Dismissed DEF Trigger
  <2>4. spent' \in [triggers : Nat, faults : Nat, moves : Nat]
    BY <1>0, <1>5 DEF Trigger, Spend
  <2>5. TypeOK'
    BY <1>0, <1>5, <2>1, <2>2, <2>3, <2>4 DEF Trigger, gate, around, Inv, TypeOK
  <2>6. \A u \in Task : task'[u] = task[u] \/ (u = t /\ task'[u] = r)
    BY <1>0, <2>1
  <2>7. Reported'
    <3>1. \A x \in Workspace : row'[x].generation >= row[x].generation
      BY <1>0, <1>5 DEF Trigger
    <3>2. QED
      BY <2>2, <2>3, <2>5, <2>6, <3>1, QuietReported
  <2>8. Owned' /\ OneFlight' /\ PermitsBalance'
    BY <1>5, <2>1, <2>2, <2>6, TriggerGate DEF Trigger, gate
  <2>9. QED
    BY <2>5, <2>7, <2>8 DEF Inv
<1>6. QED
  BY <1>1, <1>2, <1>3, <1>4, <1>5

\* The steps of a flight, one by one.
LEMMA EnterInv ==
  ASSUME Inv, NEW t \in Task, EnterFlight(t)
  PROVE  Inv'
<1>0. task[t] \in TaskState /\ task[t].ws \in Workspace /\ task \in [Task -> TaskState]
  BY DEF Inv, TypeOK, TaskState
<1>1. CASE flights[task[t].ws].running
  <2>1. /\ task' = [task EXCEPT ![t] = Parked(t)]
        /\ flights' = [flights EXCEPT ![task[t].ws].dirty = TRUE]
        /\ task[t].pc = "triggered"
    BY <1>1 DEF EnterFlight
  <2>2. TypeOK'
    BY <2>1, <1>0, ParkedType DEF Inv, TypeOK, EnterFlight, around
  <2>3. task'[t].pc = "idle" /\ ~task'[t].claimed /\ \A u \in Task \ {t} : task'[u] = task[u]
    BY <1>0, <2>1, ParkedType
  <2>4. Flying' = Flying /\ Holding' = Holding
    BY <2>1, <2>3 DEF Flying, Holding
  <2>5. \A w \in Workspace : flights'[w].running = flights[w].running
    BY <2>1, <1>0 DEF Inv, TypeOK
  <2>6. \A u \in Flying : task'[u] = task[u]
    BY <2>1, <2>3 DEF Flying
  <2>7. Owned' /\ OneFlight'
    BY <2>4, <2>5, <2>6 DEF Inv, Owned, OneFlight, Flying, TypeOK, TaskState
  <2>8. Reported'
    <3>1. row' = row /\ shown' = shown
      BY DEF EnterFlight
    <3>2. \A u \in Task \ {t} : Honest(task'[u], row'[task'[u].ws].generation, shown'[task'[u].ws])
      BY <2>3, <3>1 DEF Inv, Reported
    <3>3. Honest(task'[t], row'[task'[t].ws].generation, shown'[task'[t].ws])
      BY <2>3 DEF Honest, Done
    <3>4. QED
      BY <3>2, <3>3 DEF Reported
  <2>9. QED
    BY <2>2, <2>4, <2>7, <2>8, PermitsKept DEF EnterFlight, Inv
<1>2. CASE ~flights[task[t].ws].running
  <2>1. /\ task' = [task EXCEPT ![t].pc = "waiting"]
        /\ flights' = [flights EXCEPT ![task[t].ws].running = TRUE]
        /\ task[t].pc = "triggered"
    BY <1>2 DEF EnterFlight
  <2>2. TypeOK'
    <3>1. [task[t] EXCEPT !.pc = "waiting"] \in TaskState
      BY <1>0 DEF TaskState, Pc
    <3>2. task' \in [Task -> TaskState]
      BY <1>0, <2>1, <3>1
    <3>3. flights' \in [Workspace -> [running : BOOLEAN, dirty : BOOLEAN]]
      BY <1>0, <2>1 DEF Inv, TypeOK
    <3>4. UNCHANGED <<free, session, edited, synced, row, shown, spent>>
      BY DEF EnterFlight, around
    <3>5. QED
      BY <3>2, <3>3, <3>4 DEF Inv, TypeOK
  <2>3. Flying' = Flying \cup {t} /\ Holding' = Holding
    BY <2>1 DEF Flying, Holding, Inv, TypeOK, TaskState
  <2>4. \A u \in Flying : task[u].ws # task[t].ws /\ task[u].ws \in Workspace
    BY <1>2 DEF Inv, Owned, Flying, TypeOK, TaskState
  <2>5. task'[t].ws = task[t].ws /\ \A u \in Flying : u # t /\ task'[u] = task[u]
    BY <2>1, <2>4 DEF Flying, Inv, TypeOK
  <2>6. OneFlight'
    BY <2>3, <2>4, <2>5 DEF Inv, OneFlight
  <2>7. Owned'
    BY <2>1, <2>3, <2>4, <2>5, <1>0 DEF Inv, Owned, TypeOK
  <2>8. Reported'
    BY <2>1, <1>0 DEF EnterFlight, Inv, Reported, Honest, Done, TaskState
  <2>9. QED
    BY <2>2, <2>3, <2>6, <2>7, <2>8, PermitsKept DEF EnterFlight, Inv
<1>3. QED
  BY <1>1, <1>2

\* A step inside a flight, from one point of its round to another: nothing it
\* owns changes hands, and only its own row and error have to be looked at.
InRound(p) == p \in Pc \ {"idle", "triggered", "waiting", "unlock"}

LEMMA RoundStep ==
  ASSUME Inv, NEW t \in Task, NEW r \in TaskState,
         task' = [task EXCEPT ![t] = r],
         r.ws = task[t].ws,
         InRound(task[t].pc), InRound(r.pc),
         UNCHANGED <<free, session, edited>>,
         flights' \in [Workspace -> [running : BOOLEAN, dirty : BOOLEAN]],
         \A w \in Workspace : flights'[w].running = flights[w].running,
         synced' \in [Workspace -> Nat],
         spent' \in [triggers : Nat, faults : Nat, moves : Nat],
         row' \in [Workspace -> [enabled : BOOLEAN, generation : Nat]],
         \A w \in Workspace : w # task[t].ws => row'[w] = row[w],
         shown' \in [Workspace -> {"none", "shown", "dismissed"}],
         \A w \in Workspace : w # task[t].ws /\ shown[w] # "none" => shown'[w] # "none",
         Honest(r, row'[task[t].ws].generation, shown'[task[t].ws])
  PROVE  Inv'
<1>1. task \in [Task -> TaskState] /\ task'[t] = r /\ \A u \in Task \ {t} : task'[u] = task[u]
  BY DEF Inv, TypeOK
<1>2. TypeOK'
  BY <1>1 DEF Inv, TypeOK
<1>3. Flying' = Flying /\ t \in Flying
  BY <1>1 DEF Flying, InRound
<1>4. Holding' = Holding
  BY <1>1, <1>3 DEF Holding, InRound
<1>5. \A u \in Task : task'[u].ws = task[u].ws
  BY <1>1
<1>6. \A u \in Task : task[u].ws \in Workspace
  BY <1>1 DEF TaskState
<1>7. OneFlight'
  BY <1>3, <1>5 DEF Inv, OneFlight, Flying
<1>8. Owned'
  BY <1>3, <1>5, <1>6 DEF Inv, Owned, Flying
<1>9. Reported'
  <2> SUFFICES ASSUME NEW u \in Task
               PROVE  Honest(task'[u], row'[task'[u].ws].generation, shown'[task'[u].ws])
    BY DEF Reported
  <2>1. CASE u = t
    BY <1>1, <1>5, <2>1
  <2>2. CASE u # t
    <3>1. task'[u] = task[u] /\ Honest(task[u], row[task[u].ws].generation, shown[task[u].ws])
      BY <1>1, <2>2 DEF Inv, Reported
    <3>2. CASE u \in Flying
      <4>1. task[u].ws # task[t].ws
        BY <1>3, <2>2, <3>2 DEF Inv, OneFlight
      <4>2. row'[task[u].ws] = row[task[u].ws]
            /\ (shown[task[u].ws] # "none" => shown'[task[u].ws] # "none")
        BY <1>6, <4>1
      <4>3. QED
        BY <3>1, <4>2 DEF Honest
    <3>3. CASE u \notin Flying
      BY <3>1, <3>3 DEF Flying, Honest, Done
    <3>4. QED
      BY <3>2, <3>3
  <2>3. QED
    BY <2>1, <2>2
<1>10. QED
  BY <1>2, <1>4, <1>7, <1>8, <1>9, PermitsKept DEF Inv

LEMMA AcquireInv ==
  ASSUME Inv, NEW t \in Task, Acquire(t)
  PROVE  Inv'
<1>1. task \in [Task -> TaskState] /\ [task[t] EXCEPT !.pc = "round"] \in TaskState
  BY DEF Inv, TypeOK, TaskState, Pc
<1>2. /\ task' = [task EXCEPT ![t] = [task[t] EXCEPT !.pc = "round"]]
      /\ task[t].pc = "waiting" /\ free > 0 /\ free' = free - 1
      /\ UNCHANGED <<flights, session, edited, synced, row, shown, spent>>
  BY DEF Acquire, Goto, around
<1>3. /\ task'[t].pc = "round" /\ task'[t].ws = task[t].ws /\ task'[t].session = task[t].session
      /\ task'[t].error = task[t].error /\ task'[t].claimed = task[t].claimed
  BY <1>1, <1>2 DEF TaskState, Inv, TypeOK
<1>4. free \in 0..Limit /\ Limit \in Nat
  BY LimitAssumption DEF Inv, TypeOK
<1>5. TypeOK'
  BY <1>1, <1>2, <1>4 DEF Inv, TypeOK
<1>6. Flying' = Flying /\ Holding' = Holding \cup {t} /\ t \notin Holding /\ t \in Flying
  BY <1>1, <1>2, <1>3 DEF Flying, Holding
<1>7. PermitsBalance'
  BY <1>2, <1>6, PermitTaken DEF Inv
<1>8. Reported'
  BY <1>1, <1>2, <1>3 DEF Inv, Reported, Honest, Done
<1>9. QED
  BY <1>1, <1>2, <1>3, <1>5, <1>6, <1>7, <1>8, TaskStep DEF Inv, Owned

\* The end of a round, a lookup or a record.
LEMMA EndsStep ==
  ASSUME Inv, NEW t \in Task, InRound(task[t].pc),
         NEW e \in {"none", "failed", "account"},
         NEW x \in {"ok", "failed", "account", "dropped"},
         Ends(t, e, x),
         UNCHANGED <<gate, around, row>>,
         synced' \in [Workspace -> Nat],
         spent' \in [triggers : Nat, faults : Nat, moves : Nat],
         shown' \in [Workspace -> {"none", "shown", "dismissed"}],
         \A w \in Workspace : w # task[t].ws /\ shown[w] # "none" => shown'[w] # "none",
         e = "account" => x = "account",
         /\ e = "none" /\ x = "failed" /\ task[t].claimed
         /\ row[task[t].ws].generation = task[t].session
         => shown'[task[t].ws] # "none"
  PROVE  Inv'
<1> DEFINE r == [task[t] EXCEPT !.pc = "ended", !.seen = 0, !.error = e, !.last = x]
<1>1. task[t] \in TaskState /\ task[t].ws \in Workspace
      /\ UNCHANGED <<flights, free, session, edited, row>>
      /\ row \in [Workspace -> [enabled : BOOLEAN, generation : Nat]]
      /\ flights \in [Workspace -> [running : BOOLEAN, dirty : BOOLEAN]]
  BY DEF Inv, TypeOK, TaskState, gate, around
<1>2. /\ r \in TaskState /\ r.ws = task[t].ws /\ r.session = task[t].session
      /\ r.pc = "ended" /\ r.error = e /\ r.last = x /\ r.claimed = task[t].claimed /\ InRound(r.pc)
  BY <1>1 DEF TaskState, Pc, InRound
<1>3. task[t].claimed => row[task[t].ws].generation >= task[t].session
  BY DEF Inv, Reported, Honest
<1>4. Honest(r, row'[task[t].ws].generation, shown'[task[t].ws])
  BY <1>1, <1>2, <1>3 DEF Honest, Done
<1>5. task' = [task EXCEPT ![t] = r]
  BY DEF Ends
<1>6. QED
  BY <1>1, <1>2, <1>4, <1>5, RoundStep

LEMMA FlightInv ==
  ASSUME Inv, NEW t \in Task,
         RoundStarts(t) \/ Claim(t) \/ RoundSucceeds(t) \/ RoundSkips(t) \/ RoundFails(t)
           \/ TakeDirty(t) \/ Refresh(t) \/ Finish(t) \/ Record(t)
  PROVE  Inv'
<1>0. /\ task[t] \in TaskState /\ task[t].ws \in Workspace /\ task[t].seen \in Nat
      /\ task[t].session \in Nat /\ task[t].last \in {"ok", "failed", "account", "dropped"}
      /\ flights \in [Workspace -> [running : BOOLEAN, dirty : BOOLEAN]]
      /\ synced \in [Workspace -> Nat] /\ edited \in [Workspace -> Nat]
      /\ row \in [Workspace -> [enabled : BOOLEAN, generation : Nat]]
      /\ shown \in [Workspace -> {"none", "shown", "dismissed"}]
      /\ spent \in [triggers : Nat, faults : Nat, moves : Nat]
  BY DEF Inv, TypeOK, TaskState
<1>1. Fault => spent' \in [triggers : Nat, faults : Nat, moves : Nat]
  BY <1>0 DEF Fault, Spend
<1>2. Honest(task[t], row[task[t].ws].generation, shown[task[t].ws])
  BY DEF Inv, Reported
<1>3. CASE RoundStarts(t)
  <2> DEFINE r == [task[t] EXCEPT !.pc = "claim"]
  <2>1. /\ r \in TaskState /\ r.ws = task[t].ws /\ r.session = task[t].session /\ r.pc = "claim"
        /\ r.error = task[t].error /\ r.claimed = task[t].claimed
    BY <1>0 DEF TaskState, Pc
  <2>2. InRound(task[t].pc) /\ InRound(r.pc)
    BY <1>3, <2>1 DEF RoundStarts, InRound, Pc
  <2>3. Honest(r, row[task[t].ws].generation, shown[task[t].ws])
    BY <1>2, <1>3, <2>1 DEF RoundStarts, Honest, Done
  <2>4. QED
    BY <1>0, <1>3, <2>1, <2>2, <2>3, RoundStep DEF RoundStarts, Goto, gate, around
<1>4. CASE Claim(t)
  <2> DEFINE r == [task[t] EXCEPT !.pc = "syncing", !.claimed = TRUE, !.seen = edited[task[t].ws]]
  <2>1. /\ r \in TaskState /\ r.ws = task[t].ws /\ r.session = task[t].session /\ r.pc = "syncing"
        /\ r.error = task[t].error
    BY <1>0 DEF TaskState, Pc
  <2>2. InRound(task[t].pc) /\ InRound(r.pc)
    BY <1>4, <2>1 DEF Claim, InRound, Pc
  <2>3. /\ row' \in [Workspace -> [enabled : BOOLEAN, generation : Nat]]
        /\ row'[task[t].ws].generation = task[t].session
        /\ \A w \in Workspace : w # task[t].ws => row'[w] = row[w]
    BY <1>0, <1>4 DEF Claim
  <2>4. /\ shown' \in [Workspace -> {"none", "shown", "dismissed"}]
        /\ \A w \in Workspace : w # task[t].ws => shown'[w] = shown[w]
    BY <1>0, <1>4 DEF Claim
  <2>5. Honest(r, row'[task[t].ws].generation, shown'[task[t].ws])
    BY <1>0, <1>2, <1>4, <2>1, <2>3 DEF Claim, Honest, Done
  <2>6. QED
    BY <1>0, <1>4, <2>1, <2>2, <2>3, <2>4, <2>5, RoundStep DEF Claim, gate, around
<1>5. CASE RoundSucceeds(t)
  <2>1. InRound(task[t].pc)
    BY <1>5 DEF RoundSucceeds, InRound, Pc
  <2>2. synced' \in [Workspace -> Nat] /\ shown' \in [Workspace -> {"none", "shown", "dismissed"}]
        /\ \A w \in Workspace : w # task[t].ws => shown'[w] = shown[w]
    BY <1>0, <1>5 DEF RoundSucceeds
  <2>3. QED
    BY <1>0, <1>5, <2>1, <2>2, EndsStep DEF RoundSucceeds
<1>6. CASE RoundSkips(t)
  <2>1. InRound(task[t].pc)
    BY <1>6 DEF RoundSkips, InRound, Pc
  <2>2. QED
    BY <1>0, <1>6, <2>1, EndsStep DEF RoundSkips
<1>7. CASE RoundFails(t)
  <2>1. InRound(task[t].pc)
    BY <1>7 DEF RoundFails, InRound, Pc
  <2>2. spent' \in [triggers : Nat, faults : Nat, moves : Nat]
    BY <1>0, <1>1, <1>7 DEF RoundFails
  <2>3. Ends(t, "failed", "failed") \/ Ends(t, "account", "account")
    BY <1>7 DEF RoundFails
  <2>4. QED
    BY <1>0, <1>7, <2>1, <2>2, <2>3, EndsStep DEF RoundFails
<1>8. CASE TakeDirty(t)
  <2> DEFINE r == [task[t] EXCEPT !.pc = "refresh"]
  <2>1. /\ r \in TaskState /\ r.ws = task[t].ws /\ r.session = task[t].session /\ r.pc = "refresh"
        /\ r.claimed = task[t].claimed
    BY <1>0 DEF TaskState, Pc
  <2>2. InRound(task[t].pc) /\ InRound(r.pc)
    BY <1>8, <2>1 DEF TakeDirty, InRound, Pc
  <2>3. /\ flights' \in [Workspace -> [running : BOOLEAN, dirty : BOOLEAN]]
        /\ \A w \in Workspace : flights'[w].running = flights[w].running
    BY <1>0, <1>8 DEF TakeDirty
  <2>4. Honest(r, row[task[t].ws].generation, shown[task[t].ws])
    BY <1>2, <2>1 DEF Honest, Done
  <2>5. QED
    BY <1>0, <1>8, <2>1, <2>2, <2>3, <2>4, RoundStep DEF TakeDirty, Goto, around
<1>9. CASE Refresh(t)
  <2>1. InRound(task[t].pc)
    BY <1>9 DEF Refresh, InRound, Pc
  <2>2. /\ shown' \in [Workspace -> {"none", "shown", "dismissed"}]
        /\ \A w \in Workspace : shown[w] # "none" => shown'[w] # "none"
    BY <1>0, <1>9, Dismissed DEF Refresh, Inv
  <2>3. spent' \in [triggers : Nat, faults : Nat, moves : Nat]
    BY <1>0, <1>1, <1>9 DEF Refresh
  <2>4. ASSUME NEW p \in {"round", "record"}, NEW e \in {"none", "failed"},
               NEW x \in {task[t].last, "failed"},
               p = "round" => e = "none",
               task' = [task EXCEPT ![t] = [@ EXCEPT !.pc = p, !.error = e, !.last = x]]
        PROVE  Inv'
    <3> DEFINE r == [task[t] EXCEPT !.pc = p, !.error = e, !.last = x]
    <3>1. /\ r \in TaskState /\ r.ws = task[t].ws /\ r.session = task[t].session /\ r.pc = p
          /\ r.error = e /\ r.claimed = task[t].claimed /\ InRound(r.pc)
      BY <1>0 DEF TaskState, Pc, InRound
    <3>2. Honest(r, row[task[t].ws].generation, shown'[task[t].ws])
      BY <1>2, <2>4, <3>1 DEF Honest, Done
    <3>3. QED
      BY <1>0, <1>9, <2>1, <2>2, <2>3, <2>4, <3>1, <3>2, RoundStep DEF Refresh, gate, around
  <2>5. CASE task' = [task EXCEPT ![t] = [@ EXCEPT !.pc = "round", !.error = "none"]]
    <3>1. [task[t] EXCEPT !.pc = "round", !.error = "none"]
            = [task[t] EXCEPT !.pc = "round", !.error = "none", !.last = task[t].last]
      BY <1>0 DEF TaskState
    <3>2. QED
      BY <2>4, <2>5, <3>1
  <2>6. CASE task' = [task EXCEPT ![t] = [@ EXCEPT !.pc = "record", !.error = "failed", !.last = "failed"]]
    BY <2>4, <2>6
  <2>7. CASE Ends(t, "none", "account")
    BY <1>0, <1>9, <2>1, <2>2, <2>3, <2>7, EndsStep DEF Refresh
  <2>8. QED
    BY <1>9, <2>5, <2>6, <2>7 DEF Refresh
<1>10. CASE Finish(t)
  <2>1. InRound(task[t].pc) /\ task[t].pc = "ended"
    BY <1>10 DEF Finish, InRound, Pc
  <2>2. PICK p \in {"record", "ended", "leaving"}, e \in {task[t].error, "none"} :
          /\ task' = [task EXCEPT ![t] = [task[t] EXCEPT !.pc = p, !.error = e]]
          /\ p = "ended" => task[t].error = "account"
          /\ p = "leaving" => task[t].error = "none"
    <3>1. CASE task[t].error = "failed" /\ Goto(t, "record")
      <4>1. [task[t] EXCEPT !.pc = "record"]
              = [task[t] EXCEPT !.pc = "record", !.error = task[t].error]
        BY <1>0 DEF TaskState
      <4>2. QED
        BY <3>1, <4>1 DEF Goto
    <3>2. CASE task[t].error = "account" /\ task' = [task EXCEPT ![t].error = "none"]
      <4>1. [task[t] EXCEPT !.error = "none"] = [task[t] EXCEPT !.pc = "ended", !.error = "none"]
        BY <1>0, <2>1 DEF TaskState
      <4>2. QED
        BY <3>2, <4>1
    <3>3. CASE task[t].error = "none" /\ Goto(t, "leaving")
      <4>1. [task[t] EXCEPT !.pc = "leaving"]
              = [task[t] EXCEPT !.pc = "leaving", !.error = task[t].error]
        BY <1>0 DEF TaskState
      <4>2. QED
        BY <3>3, <4>1 DEF Goto
    <3>4. QED
      BY <1>10, <3>1, <3>2, <3>3 DEF Finish
  <2> DEFINE r == [task[t] EXCEPT !.pc = p, !.error = e]
  <2>3. /\ r \in TaskState /\ r.ws = task[t].ws /\ r.session = task[t].session /\ r.pc = p
        /\ r.error = e /\ r.claimed = task[t].claimed /\ r.last = task[t].last /\ InRound(r.pc)
    BY <1>0 DEF TaskState, Pc, InRound
  <2>4. Honest(r, row[task[t].ws].generation, shown[task[t].ws])
    BY <1>2, <2>1, <2>2, <2>3 DEF Honest, Done
  <2>5. QED
    BY <1>0, <1>10, <2>1, <2>2, <2>3, <2>4, RoundStep DEF Finish, gate, around
<1>11. CASE Record(t)
  <2>1. InRound(task[t].pc)
    BY <1>11 DEF Record, InRound, Pc
  <2>2. CASE /\ Ends(t, "none", task[t].last) /\ UNCHANGED spent
             /\ shown' = IF Own(t) THEN [shown EXCEPT ![task[t].ws] = "shown"] ELSE shown
    <3>1. /\ shown' \in [Workspace -> {"none", "shown", "dismissed"}]
          /\ \A w \in Workspace : shown[w] # "none" => shown'[w] # "none"
          /\ row[task[t].ws].generation = task[t].session => shown'[task[t].ws] # "none"
      BY <1>0, <2>2 DEF Own
    <3>2. QED
      BY <1>0, <1>11, <2>1, <2>2, <3>1, EndsStep DEF Record
  <2>3. CASE Fault /\ Ends(t, "none", "dropped") /\ UNCHANGED shown
    BY <1>0, <1>1, <1>11, <2>1, <2>3, EndsStep DEF Record
  <2>4. QED
    BY <1>11, <2>2, <2>3 DEF Record
<1>12. QED
  BY <1>3, <1>4, <1>5, <1>6, <1>7, <1>8, <1>9, <1>10, <1>11

LEMMA DropInv ==
  ASSUME Inv, NEW t \in Task, Leave(t) \/ Unlock(t) \/ Panic(t)
  PROVE  Inv'
<1>0. task[t] \in TaskState /\ task[t].ws \in Workspace /\ task \in [Task -> TaskState]
      /\ spent \in [triggers : Nat, faults : Nat, moves : Nat]
  BY DEF Inv, TypeOK, TaskState
<1> DEFINE r == At("unlock", task[t].ws, task[t].session)
<1>1. r \in TaskState /\ r.pc = "unlock" /\ r.ws = task[t].ws /\ ~r.claimed
  BY <1>0 DEF At, TaskState, Pc
<1>2. ASSUME task' = [task EXCEPT ![t] = r], t \in Flying,
             UNCHANGED <<flights, around, synced, row, shown>>,
             spent' \in [triggers : Nat, faults : Nat, moves : Nat],
             PermitsBalance' /\ free' \in 0..Limit
      PROVE  Inv'
  <2>1. task'[t] = r /\ \A u \in Task \ {t} : task'[u] = task[u]
    BY <1>0, <1>2
  <2>2. TypeOK'
    BY <1>0, <1>1, <1>2 DEF Inv, TypeOK, around
  <2>3. Reported'
    BY <1>1, <1>2, <2>1 DEF Inv, Reported, Honest, Done
  <2>4. flights[task[t].ws].running
    BY <1>2 DEF Inv, Owned
  <2>5. QED
    BY <1>1, <1>2, <2>1, <2>2, <2>3, <2>4, TaskStep
<1>3. CASE Leave(t) \/ (Panic(t) /\ t \in Holding)
  <2>1. /\ task' = [task EXCEPT ![t] = r] /\ free' = free + 1
        /\ t \in Holding /\ t \in Flying
    BY <1>3 DEF Leave, Panic, Holding, Flying
  <2>2. Holding' = Holding \ {t}
    BY <1>0, <1>1, <2>1 DEF Flying, Holding
  <2>3. PermitsBalance' /\ free' \in 0..Limit
    BY <2>1, <2>2, PermitReturned DEF Inv
  <2>4. spent' \in [triggers : Nat, faults : Nat, moves : Nat]
    BY <1>0, <1>3 DEF Leave, Panic, Fault, Spend
  <2>5. QED
    BY <1>2, <1>3, <2>1, <2>3, <2>4 DEF Leave, Panic
<1>4. CASE Panic(t) /\ t \notin Holding
  <2>1. /\ task' = [task EXCEPT ![t] = r] /\ free' = free /\ t \in Flying
        /\ task[t].pc = "waiting"
    BY <1>4 DEF Panic, Holding, Flying
  <2>2. Holding' = Holding
    BY <1>0, <1>1, <2>1 DEF Flying, Holding
  <2>3. PermitsBalance' /\ free' \in 0..Limit
    BY <2>1, <2>2, PermitsKept DEF Inv, TypeOK
  <2>4. spent' \in [triggers : Nat, faults : Nat, moves : Nat]
    BY <1>0, <1>4 DEF Panic, Fault, Spend
  <2>5. QED
    BY <1>2, <1>4, <2>1, <2>3, <2>4 DEF Panic
<1>5. CASE Unlock(t)
  <2>1. /\ task' = [task EXCEPT ![t] = Parked(t)]
        /\ flights' = [flights EXCEPT ![task[t].ws] = NoEntry]
        /\ task[t].pc = "unlock"
    BY <1>5 DEF Unlock
  <2>2. task'[t].pc = "idle" /\ ~task'[t].claimed /\ \A u \in Task \ {t} : task'[u] = task[u]
    BY <1>0, <2>1, ParkedType
  <2>3. TypeOK'
    BY <1>0, <1>5, <2>1, ParkedType DEF Unlock, around, Inv, TypeOK, NoEntry
  <2>4. t \in Flying /\ t \notin Flying' /\ Holding' = Holding
    BY <2>1, <2>2 DEF Flying, Holding
  <2>5. Reported'
    BY <1>5, <2>2 DEF Unlock, Inv, Reported, Honest, Done
  <2>6. \A w \in Workspace : w # task[t].ws => flights'[w] = flights[w]
    BY <1>0, <2>1 DEF Inv, TypeOK
  <2>7. PermitsBalance'
    BY <1>5, <2>4, PermitsKept DEF Unlock, Inv
  <2>8. QED
    BY <2>2, <2>3, <2>4, <2>5, <2>6, <2>7, TaskStep
<1>6. QED
  BY <1>3, <1>4, <1>5

LEMMA StepInv == Inv /\ [Next]_vars => Inv'
<1> SUFFICES ASSUME Inv, [Next]_vars PROVE Inv'
  OBVIOUS
<1>1. CASE UNCHANGED vars
  BY <1>1 DEF vars, gate, around, Inv, TypeOK, Owned, OneFlight, Reported, Honest, Done,
              PermitsBalance, Holding, Flying
<1>2. CASE \/ \E w \in Workspace : Edit(w) \/ \E on \in BOOLEAN : SetEnabled(w, on)
           \/ NewSession \/ Tick
           \/ \E t \in Command, w \in Workspace : Trigger(t, w)
  BY <1>2, AroundInv
<1>3. ASSUME NEW t \in Task, Advance(t) \/ Acquire(t) \/ Panic(t) PROVE Inv'
  BY <1>3, EnterInv, AcquireInv, FlightInv, DropInv DEF Advance
<1>4. QED
  BY <1>1, <1>2, <1>3 DEF Next

LEMMA Invariance == Spec => []Inv
BY InitInv, StepInv, PTL DEF Spec

\* The entries of worker.rs and the permits of global_limit keep their types;
\* permits are never returned beyond the limit.
THEOREM FlightTypes == Spec => []TypeOK
<1>1. Inv => TypeOK
  BY DEF Inv
<1>2. QED
  BY <1>1, Invariance, PTL

\* enter_flight and FlightGuard exclude each other's rounds: whatever triggers,
\* panics and sessions come, a workspace has at most one flight.
THEOREM FlightsExclude == Spec => []OneFlight
<1>1. Inv => OneFlight
  BY DEF Inv
<1>2. QED
  BY <1>1, Invariance, PTL

\* global_limit never leaks a permit and never hands out more than it has.
THEOREM PermitsAreConserved == Spec => []PermitsBalance
<1>1. Inv => PermitsBalance
  BY DEF Inv
<1>2. QED
  BY <1>1, Invariance, PTL

\* sync_workspace_for does not swallow the failure it ends on: whatever was
\* merged, retried, paused or signed in meanwhile, if the row it claimed is
\* still its own, record_error has reached it.
THEOREM FailuresAreShown == Spec => []FailureShown
<1>1. Inv => FailureShown
  BY DEF Inv, Reported, Honest, Done, FailureShown, Own
<1>2. QED
  BY <1>1, Invariance, PTL
=============================================================================
