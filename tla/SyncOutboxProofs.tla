-------------------------- MODULE SyncOutboxProofs --------------------------
(***************************************************************************)
(* Theorems about SyncOutbox, for every set of entities, every capture mode *)
(* and every bound.  First its types, that no edit is lost, that an          *)
(* operation id stands for one payload, and that an intent leaves the outbox *)
(* only when the server has it.  Then what rests on the order of the change  *)
(* stream: that the device never names a version the server has not reached, *)
(* that an entity at rest shows the server's document once the stream is     *)
(* pulled, and that no edit is committed twice.                              *)
(***************************************************************************)
EXTENDS SyncOutbox, FiniteSetTheorems, TLAPS

(* The inductive invariant. *)

\* Content somebody wrote, as opposed to the placeholders.
Real(v) == v.by \in {"device", "cloud"}

\* A value that, if it is this device's, the server has.
Recorded(e, v) == v.by = "device" => \E c \in log : c.e = e /\ c.val = v

SentAs(o) == [op |-> o.op, e |-> o.e, val |-> o.val]

\* A row carries the current revision and, once captured, its content.
RowOK(e) ==
  IF Queued(e) THEN /\ head[e].op \in 1..(nextOp - 1) /\ head[e].rev = rev[e]
                    /\ head[e].val \in {Deferred, doc[e]}
  ELSE head[e] = NoHead

\* Two rows never share an operation id.
RowsDiffer ==
  \A e, f \in Entity : head[e].op = head[f].op /\ head[e].op # 0 => e = f

\* An attempt whose operation is still queued was sent with the row's content.
AttemptOK(a) ==
  /\ a.op \in 1..(nextOp - 1) /\ Real(a.val)
  /\ \A e \in Entity : head[e].op = a.op => a.e = e /\ a.val = head[e].val

\* The flight's copy of a row agrees with it until the row is replaced; its
\* entity is in no conflict, and keep-local finds the row still there.
BatchOK(o) ==
  /\ pc \in {"build", "mark", "await"}
  /\ o.op \in 1..(nextOp - 1)
  /\ head[o.e].op = o.op => head[o.e].val = o.val
  /\ ~st[o.e].conflict
  /\ Real(o.val) \/ (pc = "build" /\ o.val = Deferred)
  /\ pc = "await" => SentAs(o) \in attempts
  /\ pc = "await" /\ resolver[o.e].mode = "keep" => Queued(o.e)

LogOK(c) == Real(c.val) /\ (c.op # OtherDevice => SentAs(c) \in attempts)

ReplyOK ==
  CASE reply.kind = "none" -> TRUE
    [] reply.kind = "applied" -> pc = "await" /\ \A o \in batch : Committed(o)
    [] OTHER -> /\ pc = "await" /\ \E o \in batch : o.e = reply.e
                /\ Real(reply.val) /\ Recorded(reply.e, reply.val)

ConflictOK(e) == st[e].conflict => Real(st[e].shadow) /\ Recorded(e, st[e].shadow)

\* What a conflict choice read is old only if the row has since moved on.
ChoiceOK(e) ==
  CASE resolver[e].mode = "none" -> TRUE
    [] resolver[e].mode = "remote" -> Real(resolver[e].val) /\ Recorded(e, resolver[e].val)
    [] OTHER -> /\ Real(resolver[e].val) /\ resolver[e].rev <= rev[e]
                /\ resolver[e].rev = rev[e] => resolver[e].val = doc[e]
                /\ st[e].conflict /\ ~Queued(e) => resolver[e].rev = rev[e]

TypeInv == TypeOK /\ IsFiniteSet(batch)

Safe ==
  /\ \A e \in Entity : RowOK(e) /\ ConflictOK(e) /\ ChoiceOK(e) /\ Real(doc[e])
  /\ RowsDiffer
  /\ \A a \in attempts : AttemptOK(a)
  /\ \A o \in batch : BatchOK(o)
  /\ \A c \in log : LogOK(c)
  /\ \A req \in net : \A o \in req : SentAs(o) \in attempts
  /\ ReplyOK
  /\ nextOp > 0
  /\ NoLostEdit /\ OperationImmutable

Inv == TypeInv /\ Safe

-----------------------------------------------------------------------------
(* Types. *)

LEMMA ValueTypes ==
  /\ NoValue \in Value /\ Deferred \in Value
  /\ \A n \in Nat : EditOf(n) \in Value /\ WriteOf(n) \in Value
BY DEF Value, NoValue, Deferred, EditOf, WriteOf

LEMMA RowTypes ==
  /\ NoHead \in Head /\ NoReply \in Reply
  /\ \A h \in Head, v \in Nat : Raise(h, v) \in Head
  /\ \A v \in Nat : Synced(v) \in EntityState
BY DEF NoHead, Head, NoValue, Value, Status, Raise, MaxOf, Synced, EntityState, NoReply, Reply

LEMMA TotalType == Total \in Nat
BY EntityAssumption, FS_CardinalityType DEF Total

LEMMA SpendType ==
  ASSUME spent \in [edits : Nat, writes : Nat, faults : Nat], NEW k \in {"edits", "writes", "faults"},
         Spend(k)
  PROVE  spent' \in [edits : Nat, writes : Nat, faults : Nat]
BY DEF Spend

LEMMA EnqueuedType ==
  ASSUME TypeOK, NEW e \in Entity, NEW op \in Nat, NEW val \in Value, NEW r \in Nat
  PROVE  Enqueued(e, op, val, r) \in Head
BY DEF TypeOK, Enqueued, Head, Status, EntityState, MaxOf

LEMMA ErrorType ==
  ASSUME NEW b \in [state : BindingState, confirmed : Nat], NEW s \in BindingState
  PROVE  RecordError(b, s) \in [state : BindingState, confirmed : Nat]
BY DEF RecordError, BindingState

LEMMA InitType == Init => TypeInv
<1> SUFFICES ASSUME Init PROVE TypeInv
  OBVIOUS
<1>1. head \in [Entity -> Head]
  <2>1. PICK order \in Bijection(Entity, 1..Total) :
          head = [e \in Entity |-> [op |-> order[e], val |-> EditOf(1), base |-> 0,
                                    rev |-> 1, status |-> "pending", later |-> FALSE]]
    BY DEF Init
  <2>2. order \in [Entity -> 1..Total]
    BY <2>1 DEF Bijection, Injection
  <2>3. \A e \in Entity : order[e] \in Nat
    BY <2>2, TotalType
  <2>4. EditOf(1) \in Value
    BY ValueTypes
  <2>5. QED
    BY <2>1, <2>3, <2>4 DEF Head, Status
<1>2. st \in [Entity -> EntityState] /\ doc \in [Entity -> Value] /\ reply \in Reply
  BY ValueTypes, RowTypes DEF Init
<1>3. resolver \in [Entity -> [mode : {"none", "keep", "remote"}, val : Value, rev : Nat]]
  BY ValueTypes DEF Init, NoChoice
<1>4. IsFiniteSet(batch)
  BY FS_EmptySet DEF Init
<1>5. binding \in [state : BindingState, confirmed : Nat] /\ pc \in Pc
  BY DEF Init, BindingState, Pc
<1>6. spent \in [edits : Nat, writes : Nat, faults : Nat]
  BY DEF Init
<1>7. /\ rev \in [Entity -> Nat] /\ sver \in [Entity -> Nat] /\ nextOp \in Nat /\ top \in Nat
      /\ cursor \in Nat /\ pinned \in Nat
      /\ attempts = {} /\ batch = {} /\ log = {} /\ net = {}
  BY TotalType DEF Init
<1>8. pushed \in BOOLEAN
  BY Zenon DEF Init
<1>9. QED
  BY <1>1, <1>2, <1>3, <1>4, <1>5, <1>6, <1>7, <1>8 DEF TypeInv, TypeOK

LEMMA ImageFinite ==
  ASSUME NEW S, IsFiniteSet(S), NEW f, f = [x \in S |-> f[x]]
  PROVE  IsFiniteSet({f[x] : x \in S})
<1>1. f \in Surjection(S, {f[x] : x \in S})
  BY DEF Surjection
<1>2. QED
  BY <1>1, FS_Surjection

LEMMA SettledType ==
  ASSUME TypeOK, NEW h \in Head, NEW s \in Status, NEW l \in BOOLEAN
  PROVE  [h EXCEPT !.status = s, !.later = l] \in Head
BY DEF Head

\* The rounds' own bookkeeping: Rest and the two ways of failing.
LEMMA RestType ==
  ASSUME TypeInv, Rest
  PROVE  pc' \in Pc /\ batch' = {} /\ IsFiniteSet(batch') /\ pinned' \in Nat
         /\ pushed' \in BOOLEAN /\ reply' \in Reply
<1>1. pc' \in Pc /\ batch' = {} /\ pinned' \in Nat /\ reply' \in Reply
  BY RowTypes DEF Rest, Pc
<1>2. IsFiniteSet(batch')
  BY <1>1, FS_EmptySet
<1>3. pushed' \in BOOLEAN
  BY Zenon DEF Rest
<1>4. QED
  BY <1>1, <1>2, <1>3

LEMMA RecordType ==
  ASSUME TypeInv, NEW s \in BindingState, MayRecord(s)
  PROVE  binding' \in [state : BindingState, confirmed : Nat]
<1>1. binding \in [state : BindingState, confirmed : Nat]
  BY DEF TypeInv, TypeOK
<1>2. QED
  BY <1>1, ErrorType DEF MayRecord

LEMMA FailType ==
  ASSUME TypeInv, Fail
  PROVE  binding' \in [state : BindingState, confirmed : Nat]
<1>1. "error" \in BindingState
  BY DEF BindingState
<1>2. QED
  BY <1>1, RecordType DEF Fail

LEMMA FaultType ==
  ASSUME TypeInv, Fault
  PROVE  spent' \in [edits : Nat, writes : Nat, faults : Nat]
BY SpendType DEF Fault, TypeInv, TypeOK

LEMMA UserType ==
  ASSUME TypeInv, NEW e \in Entity,
         Edit(e) \/ KeepLocalReads(e) \/ KeepLocalCommits(e) \/ UseRemoteReads(e)
           \/ UseRemoteCommits(e) \/ RetryDeadLetter(e)
  PROVE  TypeInv'
<1>0. /\ doc[e] \in Value /\ rev[e] \in Nat /\ head[e] \in Head /\ st[e] \in EntityState
      /\ nextOp \in Nat /\ resolver[e] \in [mode : {"none", "keep", "remote"}, val : Value, rev : Nat]
      /\ head \in [Entity -> Head] /\ doc \in [Entity -> Value] /\ rev \in [Entity -> Nat]
      /\ resolver \in [Entity -> [mode : {"none", "keep", "remote"}, val : Value, rev : Nat]]
      /\ st \in [Entity -> EntityState] /\ TypeOK
      /\ binding \in [state : BindingState, confirmed : Nat]
  BY DEF TypeInv, TypeOK
<1>1. CASE Edit(e)
  <2>1. EditOf(rev[e] + 1) \in Value /\ rev[e] + 1 \in Nat
    BY <1>0, ValueTypes
  <2>2. IntentPayload(e, EditOf(rev[e] + 1)) \in Value
    BY <2>1, ValueTypes DEF IntentPayload
  <2>3. head' \in [Entity -> Head]
    BY <1>0, <1>1, <2>1, <2>2, EnqueuedType DEF Edit
  <2>4. doc' \in [Entity -> Value] /\ rev' \in [Entity -> Nat] /\ nextOp' \in Nat
    BY <1>0, <1>1, <2>1 DEF Edit
  <2>5. spent' \in [edits : Nat, writes : Nat, faults : Nat]
    BY <1>1, SpendType DEF Edit, TypeInv, TypeOK
  <2>6. QED
    BY <1>1, <2>3, <2>4, <2>5 DEF Edit, TypeInv, TypeOK, flight, server
<1>2. CASE KeepLocalReads(e)
  <2>1. resolver' \in [Entity -> [mode : {"none", "keep", "remote"}, val : Value, rev : Nat]]
    BY <1>0, <1>2 DEF KeepLocalReads
  <2>2. QED
    BY <1>2, <2>1 DEF KeepLocalReads, TypeInv, TypeOK, device, flight, server
<1>3. CASE KeepLocalCommits(e)
  <2>1. NoChoice \in [mode : {"none", "keep", "remote"}, val : Value, rev : Nat]
    BY ValueTypes DEF NoChoice
  <2>2. resolver' \in [Entity -> [mode : {"none", "keep", "remote"}, val : Value, rev : Nat]]
    BY <1>0, <1>3, <2>1 DEF KeepLocalCommits
  <2>3. CASE ~st[e].conflict
    BY <1>3, <2>2, <2>3 DEF KeepLocalCommits, TypeInv, TypeOK, flight, server
  <2>4. CASE st[e].conflict
    <3>1. /\ Enqueued(e, nextOp, doc[e], rev[e]) \in Head
          /\ Enqueued(e, nextOp, Deferred, rev[e]) \in Head
          /\ Enqueued(e, nextOp, resolver[e].val, resolver[e].rev) \in Head
      BY <1>0, ValueTypes, EnqueuedType
    <3>2. st[e].ver \in Nat /\ Synced(st[e].ver) \in EntityState
      BY <1>0, RowTypes DEF EntityState
    <3>3. \A h \in Head : [h EXCEPT !.base = st[e].ver] \in Head
      BY <3>2 DEF Head
    <3>4. head' \in [Entity -> Head]
      BY <1>0, <1>3, <2>4, <3>1, <3>3, CaptureAssumption DEF KeepLocalCommits
    <3>5. st' \in [Entity -> EntityState] /\ nextOp' \in Nat
      BY <1>0, <1>3, <2>4, <3>2 DEF KeepLocalCommits
    <3>6. StateAfterClearing(e) \in BindingState
      BY <1>0 DEF StateAfterClearing, BindingState
    <3>7. binding' \in [state : BindingState, confirmed : Nat]
      BY <1>0, <1>3, <2>4, <3>6 DEF KeepLocalCommits
    <3>8. QED
      BY <1>3, <2>2, <3>4, <3>5, <3>7 DEF KeepLocalCommits, TypeInv, TypeOK, flight, server
  <2>5. QED
    BY <2>3, <2>4
<1>4. CASE UseRemoteReads(e)
  <2>1. resolver' \in [Entity -> [mode : {"none", "keep", "remote"}, val : Value, rev : Nat]]
    BY <1>0, <1>4 DEF UseRemoteReads, EntityState
  <2>2. QED
    BY <1>4, <2>1 DEF UseRemoteReads, TypeInv, TypeOK, device, flight, server
<1>5. CASE UseRemoteCommits(e)
  <2>1. NoChoice \in [mode : {"none", "keep", "remote"}, val : Value, rev : Nat]
    BY ValueTypes DEF NoChoice
  <2>2. resolver' \in [Entity -> [mode : {"none", "keep", "remote"}, val : Value, rev : Nat]]
    BY <1>0, <1>5, <2>1 DEF UseRemoteCommits
  <2>3. doc' \in [Entity -> Value] /\ rev' \in [Entity -> Nat] /\ head' \in [Entity -> Head]
    BY <1>0, <1>5, RowTypes DEF UseRemoteCommits
  <2>4. st' \in [Entity -> EntityState]
    <3>1. st[e].ver \in Nat /\ Synced(st[e].ver) \in EntityState
      BY <1>0, RowTypes DEF EntityState
    <3>2. QED
      BY <1>0, <1>5, <3>1 DEF UseRemoteCommits
  <2>5. binding' \in [state : BindingState, confirmed : Nat]
    BY <1>0, <1>5 DEF UseRemoteCommits, BindingState
  <2>6. QED
    BY <1>5, <2>2, <2>3, <2>4, <2>5 DEF UseRemoteCommits, TypeInv, TypeOK, flight, server
<1>6. CASE RetryDeadLetter(e)
  <2>1. MaxOf(head[e].base, st[e].ver) \in Nat /\ st[e].ver \in Nat
        /\ Synced(st[e].ver) \in EntityState
    BY <1>0, RowTypes DEF Head, EntityState, MaxOf
  <2>2. [op |-> nextOp, val |-> doc[e], rev |-> rev[e], base |-> MaxOf(head[e].base, st[e].ver),
         status |-> "pending", later |-> FALSE] \in Head
    BY <1>0, <2>1 DEF Head, Status
  <2>3. head' \in [Entity -> Head] /\ nextOp' \in Nat /\ st' \in [Entity -> EntityState]
    BY <1>0, <1>6, <2>1, <2>2 DEF RetryDeadLetter
  <2>4. binding' \in [state : BindingState, confirmed : Nat]
    BY <1>0, <1>6 DEF RetryDeadLetter, BindingState
  <2>5. QED
    BY <1>6, <2>3, <2>4 DEF RetryDeadLetter, TypeInv, TypeOK, flight, server
<1>7. QED
  BY <1>1, <1>2, <1>3, <1>4, <1>5, <1>6

LEMMA RoundType ==
  ASSUME TypeInv,
         (\E expired \in SUBSET InFlight : StartRound(expired)) \/ Crash \/ PullNothing
           \/ PullFails \/ CheckBeforePush \/ NothingDue \/ MarkFails \/ FinishPush
           \/ CloseRound \/ Reenable
  PROVE  TypeInv'
<1>0. /\ TypeOK /\ head \in [Entity -> Head]
      /\ binding \in [state : BindingState, confirmed : Nat]
  BY DEF TypeInv, TypeOK
<1>1. CASE \E expired \in SUBSET InFlight : StartRound(expired)
  <2>1. PICK expired \in SUBSET InFlight : StartRound(expired)
    BY <1>1
  <2>2. "pending" \in Status /\ FALSE \in BOOLEAN
    BY DEF Status
  <2>3. head' \in [Entity -> Head]
    BY <1>0, <2>1, <2>2, SettledType DEF StartRound
  <2>4. QED
    BY <2>1, <2>3 DEF StartRound, TypeInv, TypeOK, server, Pc
<1>2. CASE Crash
  <2>1. NoChoice \in [mode : {"none", "keep", "remote"}, val : Value, rev : Nat]
    BY ValueTypes DEF NoChoice
  <2>2. resolver' \in [Entity -> [mode : {"none", "keep", "remote"}, val : Value, rev : Nat]]
    BY <1>2, <2>1 DEF Crash
  <2>3. spent' \in [edits : Nat, writes : Nat, faults : Nat]
    BY <1>2, FaultType DEF Crash
  <2>4. QED
    BY <1>2, <2>2, <2>3, RestType DEF Crash, TypeInv, TypeOK, device, server
<1>3. CASE PullNothing
  BY <1>3 DEF PullNothing, TypeInv, TypeOK, device, server, Next1, Pc
<1>4. CASE PullFails
  <2>1. spent' \in [edits : Nat, writes : Nat, faults : Nat]
    BY <1>4, FaultType DEF PullFails, TypeInv, TypeOK
  <2>2. binding' \in [state : BindingState, confirmed : Nat] /\ Rest
    BY <1>4, FailType DEF PullFails, Fail
  <2>3. QED
    BY <1>4, <2>1, <2>2, RestType DEF PullFails, TypeInv, TypeOK, server
<1>5. CASE CheckBeforePush
  <2>1. CASE Rest
    <3>1. binding' \in [state : BindingState, confirmed : Nat]
      BY <1>0, <1>5 DEF CheckBeforePush, BindingState
    <3>2. QED
      BY <1>5, <2>1, <3>1, RestType DEF CheckBeforePush, TypeInv, TypeOK, server
  <2>2. CASE pc' = "push" /\ UNCHANGED <<binding, batch, pinned, pushed, reply>>
    BY <1>5, <2>2 DEF CheckBeforePush, TypeInv, TypeOK, server, Pc
  <2>3. QED
    BY <1>5, <2>1, <2>2 DEF CheckBeforePush
<1>6. CASE NothingDue
  BY <1>6 DEF NothingDue, TypeInv, TypeOK, device, server, Pc
<1>7. CASE MarkFails
  <2>1. binding' \in [state : BindingState, confirmed : Nat] /\ Rest
    BY <1>7, FailType DEF MarkFails, Fail
  <2>2. QED
    BY <1>7, <2>1, RestType DEF MarkFails, TypeInv, TypeOK, server
<1>8. CASE FinishPush
  <2>1. binding' \in [state : BindingState, confirmed : Nat]
    BY <1>0, <1>8 DEF FinishPush, BindingState
  <2>2. CASE Rest
    BY <1>8, <2>1, <2>2, RestType DEF FinishPush, TypeInv, TypeOK, server
  <2>3. CASE ~Rest
    BY <1>8, <2>1, <2>3 DEF FinishPush, TypeInv, TypeOK, server, Pc
  <2>4. QED
    BY <2>2, <2>3
<1>9. CASE CloseRound
  <2>1. "error" \in BindingState /\ "active" \in BindingState
    BY DEF BindingState
  <2>2. binding' \in [state : BindingState, confirmed : Nat]
    BY <1>0, <1>9, <2>1, RecordType DEF CloseRound
  <2>3. QED
    BY <1>9, <2>2, RestType DEF CloseRound, TypeInv, TypeOK, server
<1>10. CASE Reenable
  <2>1. binding' \in [state : BindingState, confirmed : Nat]
    BY <1>0, <1>10 DEF Reenable, BindingState
  <2>2. QED
    BY <1>10, <2>1 DEF Reenable, TypeInv, TypeOK, flight, server
<1>11. QED
  BY <1>1, <1>2, <1>3, <1>4, <1>5, <1>6, <1>7, <1>8, <1>9, <1>10

LEMMA PullType ==
  ASSUME TypeInv, NEW c \in log, PullPage(c)
  PROVE  TypeInv'
<1>0. /\ c.cur \in Nat /\ c.e \in Entity /\ c.ver \in Nat /\ c.val \in Value
      /\ head \in [Entity -> Head] /\ st \in [Entity -> EntityState]
      /\ doc \in [Entity -> Value] /\ rev \in [Entity -> Nat]
      /\ binding \in [state : BindingState, confirmed : Nat]
  BY DEF TypeInv, TypeOK, Change
<1>1. Synced(c.ver) \in EntityState
      /\ [ver |-> c.ver, conflict |-> TRUE, shadow |-> c.val] \in EntityState
  BY <1>0, RowTypes DEF EntityState
<1>2. /\ head' \in [Entity -> Head] /\ st' \in [Entity -> EntityState]
      /\ doc' \in [Entity -> Value] /\ rev' \in [Entity -> Nat]
      /\ binding' \in [state : BindingState, confirmed : Nat]
  <2>1. CASE AckOwn(c)
    BY <1>0, <1>1, <2>1, RowTypes DEF AckOwn
  <2>2. CASE ShadowRemote(c)
    BY <1>0, <1>1, <2>2 DEF ShadowRemote, BindingState
  <2>3. CASE ApplyRemote(c)
    BY <1>0, <1>1, <2>3 DEF ApplyRemote
  <2>4. QED
    BY <2>1, <2>2, <2>3 DEF PullPage
<1>3. pc' \in Pc /\ pinned' \in Nat /\ cursor' \in Nat
  BY <1>0 DEF PullPage, TypeInv, TypeOK, Pc, Next1
<1>4. QED
  BY <1>2, <1>3 DEF PullPage, TypeInv, TypeOK, server

LEMMA PushType ==
  ASSUME TypeInv,
         (\E S \in SUBSET Entity : SelectBatch(S)) \/ BuildBatch \/ SendBatch
  PROVE  TypeInv'
<1>0. /\ head \in [Entity -> Head] /\ doc \in [Entity -> Value] /\ TypeOK
      /\ batch \subseteq Operation /\ IsFiniteSet(batch)
  BY DEF TypeInv, TypeOK
<1>1. CASE \E S \in SUBSET Entity : SelectBatch(S)
  <2>1. PICK S \in SUBSET Entity : SelectBatch(S)
    BY <1>1
  <2> DEFINE copy(e) == [op |-> head[e].op, e |-> e, val |-> head[e].val,
                         base |-> head[e].base, rev |-> head[e].rev]
  <2>2. \A e \in Entity : copy(e) \in Operation
    BY <1>0 DEF Head, Operation
  <2>3. batch' = {copy(e) : e \in S}
    BY <2>1 DEF SelectBatch
  <2>4. batch' \subseteq Operation
    BY <2>2, <2>3
  <2>5. IsFiniteSet(S)
    BY EntityAssumption, FS_Subset
  <2>6. IsFiniteSet(batch')
    <3> DEFINE f == [e \in S |-> copy(e)]
    <3>1. IsFiniteSet({f[e] : e \in S})
      BY <2>5, ImageFinite
    <3>2. {f[e] : e \in S} = batch'
      BY <2>3
    <3>3. QED
      BY <3>1, <3>2
  <2>7. QED
    BY <2>1, <2>4, <2>6 DEF SelectBatch, TypeInv, TypeOK, device, server, Pc
<1>2. CASE BuildBatch
  <2> DEFINE kept == {o \in batch : o.val # Deferred \/ CanMaterialize(o)}
             fill(o) == IF o.val = Deferred THEN [o EXCEPT !.val = doc[o.e]] ELSE o
             filled == {fill(o) : o \in kept}
             row(e) == IF \E o \in kept : o.e = e /\ o.val = Deferred
                       THEN [head[e] EXCEPT !.val = doc[e]] ELSE head[e]
  <2>1. PICK parked \in SUBSET filled :
          /\ IF parked = {} THEN UNCHANGED spent ELSE Fault
          /\ head' = [e \in Entity |->
                        IF \E o \in parked : o.e = e /\ o.op = head[e].op
                        THEN [row(e) EXCEPT !.status = "dead", !.later = FALSE]
                        ELSE row(e)]
          /\ batch' = filled \ parked
          /\ pc' = IF filled # parked THEN "mark" ELSE IF parked # {} THEN "push" ELSE "drained"
          /\ pushed' = (pushed \/ (filled = parked /\ parked # {}))
    BY <1>2 DEF BuildBatch
  <2>2. \A o \in kept : fill(o) \in Operation
    BY <1>0 DEF Operation
  <2>3. \A e \in Entity : row(e) \in Head
    BY <1>0 DEF Head
  <2>4. "dead" \in Status /\ FALSE \in BOOLEAN
    BY DEF Status
  <2> HIDE DEF row
  <2>5. head' \in [Entity -> Head]
    BY <1>0, <2>1, <2>3, <2>4, SettledType
  <2>6. IsFiniteSet(kept)
    BY <1>0, FS_Subset
  <2>7. IsFiniteSet(filled)
    <3> DEFINE f == [o \in kept |-> fill(o)]
    <3> HIDE DEF kept
    <3>1. f = [o \in kept |-> f[o]] /\ {f[o] : o \in kept} = filled
      OBVIOUS
    <3> HIDE DEF f
    <3>2. QED
      BY <2>6, <3>1, ImageFinite
  <2>8. IsFiniteSet(batch') /\ batch' \subseteq Operation
    BY <2>1, <2>2, <2>7, FS_Difference, FS_Subset
  <2>9. pushed' \in BOOLEAN
    BY <1>0, <2>1, Zenon DEF TypeOK
  <2>10. spent' \in [edits : Nat, writes : Nat, faults : Nat]
    BY <2>1, FaultType DEF TypeInv, TypeOK
  <2>11. pc' \in Pc
    BY <2>1 DEF Pc
  <2>12. QED
    BY <1>2, <2>5, <2>8, <2>9, <2>10, <2>11 DEF BuildBatch, TypeInv, TypeOK, server
<1>3. CASE SendBatch
  <2>1. attempts' \subseteq Attempt
    BY <1>0, <1>3 DEF SendBatch, TypeOK, Attempt, Operation
  <2>2. head' \in [Entity -> Head]
    BY <1>0, <1>3 DEF SendBatch, Head, Status
  <2>3. QED
    BY <1>3, <2>1, <2>2 DEF SendBatch, TypeInv, TypeOK, server, Pc
<1>4. QED
  BY <1>1, <1>2, <1>3

LEMMA OutcomeType ==
  ASSUME TypeInv,
         PushApplied \/ PushConflicts \/ PushUnknown \/ PushNotSent(batch) \/ PushReleased
           \/ \E o \in batch : PushPermanent(o) \/ PushNotSent({o})
  PROVE  TypeInv'
<1>0. /\ head \in [Entity -> Head] /\ st \in [Entity -> EntityState] /\ TypeOK
      /\ binding \in [state : BindingState, confirmed : Nat]
      /\ reply \in Reply /\ IsFiniteSet(batch)
  BY DEF TypeInv, TypeOK
<1>1. CASE PushApplied
  <2>1. reply.ver \in [Entity -> Nat]
    BY <1>0, <1>1 DEF PushApplied, Reply, NoReply
  <2>2. head' \in [Entity -> Head]
    BY <1>0, <1>1, <2>1, RowTypes DEF PushApplied
  <2>3. st' \in [Entity -> EntityState]
    BY <1>0, <1>1, <2>1 DEF PushApplied, EntityState, MaxOf
  <2>4. binding' \in [state : BindingState, confirmed : Nat]
    <3>1. Cardinality(batch) \in Nat
      BY <1>0, FS_CardinalityType
    <3>2. MinOf(Total, binding.confirmed + Cardinality(batch)) \in Nat
      BY <1>0, <3>1, TotalType DEF MinOf
    <3>3. QED
      BY <1>0, <1>1, <3>2 DEF PushApplied
  <2>5. batch' = {} /\ IsFiniteSet(batch') /\ reply' \in Reply /\ pc' \in Pc /\ pushed' \in BOOLEAN
    BY <1>1, FS_EmptySet, RowTypes DEF PushApplied, Pc
  <2>6. QED
    BY <1>1, <2>2, <2>3, <2>4, <2>5 DEF PushApplied, TypeInv, TypeOK, server
<1>2. CASE PushConflicts
  <2>1. reply.e \in Entity /\ reply.ver \in Nat /\ reply.val \in Value
    BY <1>0, <1>2 DEF PushConflicts, Reply, NoReply
  <2>2. "pending" \in Status /\ TRUE \in BOOLEAN
    BY DEF Status
  <2>3. head' \in [Entity -> Head]
    BY <1>0, <1>2, <2>2, SettledType DEF PushConflicts, Settled
  <2>4. st' \in [Entity -> EntityState]
    BY <1>0, <1>2, <2>1 DEF PushConflicts, EntityState, MaxOf
  <2>5. binding' \in [state : BindingState, confirmed : Nat] /\ Rest
    BY <1>0, <1>2 DEF PushConflicts, BindingState
  <2>6. QED
    BY <1>2, <2>3, <2>4, <2>5, RestType DEF PushConflicts, TypeInv, TypeOK, server
<1>3. CASE PushUnknown
  <2>1. "uncertain" \in Status /\ TRUE \in BOOLEAN
    BY DEF Status
  <2>2. head' \in [Entity -> Head]
    BY <1>0, <1>3, <2>1, SettledType DEF PushUnknown
  <2>3. binding' \in [state : BindingState, confirmed : Nat] /\ Rest
    BY <1>3, FailType DEF PushUnknown, Fail
  <2>4. spent' \in [edits : Nat, writes : Nat, faults : Nat]
    BY <1>3, FaultType DEF PushUnknown
  <2>5. QED
    BY <1>3, <2>2, <2>3, <2>4, RestType DEF PushUnknown, TypeInv, TypeOK, server
<1>4. ASSUME NEW waiting \in SUBSET batch, PushNotSent(waiting) PROVE TypeInv'
  <2>1. "pending" \in Status /\ \A e \in Entity : (\E o \in waiting : o.e = e) \in BOOLEAN
    BY SMTT(60) DEF Status
  <2>2. head' \in [Entity -> Head]
    BY <1>0, <1>4, <2>1, SettledType DEF PushNotSent
  <2>3. binding' \in [state : BindingState, confirmed : Nat] /\ Rest
    BY <1>4, FailType DEF PushNotSent, Fail
  <2>4. spent' \in [edits : Nat, writes : Nat, faults : Nat]
    BY <1>4, FaultType DEF PushNotSent
  <2>5. QED
    BY <1>4, <2>2, <2>3, <2>4, RestType DEF PushNotSent, TypeInv, TypeOK, server
<1>5. CASE PushReleased
  <2>1. "pending" \in Status /\ FALSE \in BOOLEAN
    BY DEF Status
  <2>2. head' \in [Entity -> Head]
    BY <1>0, <1>5, <2>1, SettledType DEF PushReleased, Settled
  <2>3. "blocked" \in BindingState /\ "error" \in BindingState
    BY DEF BindingState
  <2>4. binding' \in [state : BindingState, confirmed : Nat] /\ Rest
    BY <1>5, <2>3, RecordType DEF PushReleased
  <2>5. spent' \in [edits : Nat, writes : Nat, faults : Nat]
    BY <1>5, FaultType DEF PushReleased
  <2>6. QED
    BY <1>5, <2>2, <2>4, <2>5, RestType DEF PushReleased, TypeInv, TypeOK, server
<1>6. ASSUME NEW o \in batch, PushPermanent(o) PROVE TypeInv'
  <2>1. {"pending", "dead"} \subseteq Status /\ FALSE \in BOOLEAN
    BY SMTT(60) DEF Status
  <2>2. head' \in [Entity -> Head]
    BY <1>0, <1>6, <2>1, SettledType DEF PushPermanent
  <2>3. binding' \in [state : BindingState, confirmed : Nat] /\ Rest
    BY <1>6, FailType DEF PushPermanent, Fail
  <2>4. spent' \in [edits : Nat, writes : Nat, faults : Nat]
    BY <1>6, FaultType DEF PushPermanent
  <2>5. QED
    BY <1>6, <2>2, <2>3, <2>4, RestType DEF PushPermanent, TypeInv, TypeOK, server
<1>7. QED
  BY <1>1, <1>2, <1>3, <1>4, <1>5, <1>6

LEMMA AnswerType ==
  ASSUME TypeInv, NEW req, NEW r \in Reply, Answer(req, r)
  PROVE  reply' \in Reply
BY DEF Answer, TypeInv, TypeOK

LEMMA CloudType ==
  ASSUME TypeInv, Cloud
  PROVE  TypeInv'
<1>0. /\ log \subseteq Change /\ sver \in [Entity -> Nat] /\ top \in Nat
      /\ net \subseteq SUBSET Operation
  BY DEF TypeInv, TypeOK
<1>1. ASSUME NEW e \in Entity, CloudWrite(e) PROVE TypeInv'
  <2>1. WriteOf(sver[e] + 1) \in Value /\ sver[e] + 1 \in Nat /\ OtherDevice \in Nat
    BY <1>0, ValueTypes DEF OtherDevice
  <2>2. log' \subseteq Change /\ sver' \in [Entity -> Nat] /\ top' \in Nat
    BY <1>0, <1>1, <2>1 DEF CloudWrite, Change
  <2>3. spent' \in [edits : Nat, writes : Nat, faults : Nat]
    BY <1>1, SpendType DEF CloudWrite, TypeInv, TypeOK
  <2>4. QED
    BY <1>1, <2>2, <2>3 DEF CloudWrite, TypeInv, TypeOK, device, flight
<1>2. ASSUME NEW req \in net, ServerCommits(req) PROVE TypeInv'
  <2> DEFINE fresh == {o \in req : ~Committed(o)}
             answer == [e \in Entity |->
               IF \E o \in req : o.e = e THEN Version(CHOOSE o \in req : o.e = e) ELSE 0]
  <2>1. req \subseteq Operation
    BY <1>0
  <2>2. PICK n \in 0..BatchLimit : \E pos \in Bijection(fresh, 1..n) :
              /\ log' = log \cup {[cur |-> top + pos[o], op |-> o.op, e |-> o.e,
                                   ver |-> sver[o.e] + 1, val |-> o.val] : o \in fresh}
              /\ top' = top + n
    BY <1>2 DEF ServerCommits
  <2>3. PICK pos \in Bijection(fresh, 1..n) :
              /\ log' = log \cup {[cur |-> top + pos[o], op |-> o.op, e |-> o.e,
                                   ver |-> sver[o.e] + 1, val |-> o.val] : o \in fresh}
              /\ top' = top + n
    BY <2>2
  <2>4. pos \in [fresh -> 1..n] /\ n \in Nat
    BY <2>3, BatchLimitAssumption DEF Bijection, Injection
  <2>5. \A o \in fresh : [cur |-> top + pos[o], op |-> o.op, e |-> o.e,
                          ver |-> sver[o.e] + 1, val |-> o.val] \in Change
    BY <1>0, <2>1, <2>4 DEF Operation, Change
  <2>6. log' \subseteq Change /\ top' \in Nat
    BY <1>0, <2>3, <2>4, <2>5
  <2>7. sver' \in [Entity -> Nat]
    BY <1>0, <1>2 DEF ServerCommits
  <2>8. \A o \in req : Version(o) \in Nat
    <3> SUFFICES ASSUME NEW o \in req PROVE Version(o) \in Nat
      OBVIOUS
    <3>1. CASE Committed(o)
      <4>1. (CHOOSE c \in log : c.op = o.op) \in log
        BY <3>1 DEF Committed
      <4>2. QED
        BY <1>0, <3>1, <4>1 DEF Version, Change
    <3>2. CASE ~Committed(o)
      BY <1>0, <2>1, <3>2 DEF Version, Operation
    <3>3. QED
      BY <3>1, <3>2
  <2>9. answer \in [Entity -> Nat]
    BY <2>8
  <2>10. Applied(answer) \in Reply
    BY <2>9 DEF Applied, Reply
  <2>11. reply' \in Reply
    BY <1>2, <2>10, AnswerType DEF ServerCommits
  <2>12. QED
    BY <1>2, <2>6, <2>7, <2>11 DEF ServerCommits, TypeInv, TypeOK, device, flight
<1>3. ASSUME NEW req \in net, NEW o \in req, ServerRejects(req, o) PROVE TypeInv'
  <2>1. o \in Operation
    BY <1>0
  <2>2. PICK x \in {c.val : c \in {d \in log : d.e = o.e /\ d.ver = sver[o.e]}} :
          Answer(req, Conflict(o.e, sver[o.e], x))
    BY <1>3 DEF ServerRejects
  <2>3. x \in Value /\ o.e \in Entity /\ sver[o.e] \in Nat
    BY <1>0, <2>1, <2>2 DEF Change, Operation
  <2>4. Conflict(o.e, sver[o.e], x) \in Reply
    BY <2>3 DEF Conflict, Reply
  <2>5. reply' \in Reply
    BY <2>2, <2>4, AnswerType
  <2>6. QED
    BY <1>3, <2>5 DEF ServerRejects, TypeInv, TypeOK, device, flight, server
<1>4. QED
  BY <1>1, <1>2, <1>3 DEF Cloud, ServerAnswers

LEMMA NextType == TypeInv /\ [Next]_vars => TypeInv'
<1> SUFFICES ASSUME TypeInv, [Next]_vars PROVE TypeInv'
  OBVIOUS
<1>1. CASE User
  BY <1>1, UserType DEF User
<1>2. CASE Pull
  BY <1>2, RoundType, PullType DEF Pull
<1>3. CASE Push
  BY <1>3, RoundType, PushType, OutcomeType DEF Push
<1>4. CASE Cloud
  BY <1>4, CloudType
<1>5. CASE UNCHANGED vars
  BY <1>5 DEF vars, TypeInv, TypeOK
<1>6. QED
  BY <1>1, <1>2, <1>3, <1>4, <1>5, RoundType DEF Next

\* Every variable keeps its type in every behaviour of the replication loop.
THEOREM TypeCorrect == Spec => []TypeOK
<1>1. Spec => []TypeInv
  BY InitType, NextType, PTL DEF Spec
<1>2. TypeInv => TypeOK
  BY DEF TypeInv
<1>3. QED
  BY <1>1, <1>2, PTL

-----------------------------------------------------------------------------
(* Safety.  Most steps leave the content of every row alone; a few replace    *)
(* one row by a fresh one; the rest are taken one by one.                     *)

\* The step formula of IntentSurvives.
Survives ==
  \A e \in Entity : Queued(e) /\ head'[e].status = "none" =>
       \/ \E c \in log : c.op = head[e].op
       \/ resolver[e].mode = "remote" /\ resolver'[e] = NoChoice

\* What an entity has, unfolded once for the steps below.
LEMMA EntityFacts ==
  ASSUME Inv, NEW e \in Entity
  PROVE  /\ RowOK(e) /\ ConflictOK(e) /\ ChoiceOK(e) /\ Real(doc[e])
         /\ head[e] \in Head /\ head[e].op \in Nat /\ rev[e] \in Nat /\ nextOp \in Nat
         /\ st[e] \in EntityState
         /\ resolver[e].mode \in {"none", "keep", "remote"} /\ resolver[e].rev \in Nat
BY DEF Inv, Safe, TypeInv, TypeOK, Head

LEMMA MineIsQueued ==
  ASSUME Inv, NEW e \in Entity, Mine(e)
  PROVE  /\ Queued(e) /\ ~st[e].conflict
         /\ \E o \in batch : o.e = e /\ o.op = head[e].op /\ o.val = head[e].val
<1>1. PICK o \in batch : o.e = e /\ o.op = head[e].op
  BY DEF Mine
<1>2. BatchOK(o)
  BY DEF Inv, Safe
<1>3. o.op # 0
  BY <1>2 DEF BatchOK
<1>4. QED
  BY <1>1, <1>2, <1>3, EntityFacts DEF BatchOK, RowOK, NoHead

LEMMA QuietStep ==
  ASSUME Inv, TypeInv',
         \A e \in Entity : /\ head'[e].op = head[e].op /\ head'[e].val = head[e].val
                           /\ head'[e].rev = head[e].rev
                           /\ Queued(e)' <=> Queued(e)
                           /\ ~Queued(e) => head'[e] = head[e],
         UNCHANGED <<doc, rev, attempts>>,
         \A e \in Entity : st'[e].conflict => st'[e] = st[e],
         nextOp' \in {nextOp, nextOp + 1},
         \A e \in Entity : resolver'[e] \in {resolver[e], NoChoice},
         batch' = {} \/ UNCHANGED <<batch, pc>>,
         log \subseteq log', \A c \in log' : LogOK(c),
         \A req \in net' : \A o \in req : SentAs(o) \in attempts,
         ReplyOK'
  PROVE  Inv' /\ Survives
<1>1. ASSUME NEW e \in Entity PROVE (RowOK(e) /\ ConflictOK(e) /\ ChoiceOK(e) /\ Real(doc[e]))'
  <2>1. RowOK(e)'
    BY EntityFacts DEF RowOK, TypeInv, TypeOK
  <2>2. ConflictOK(e)'
    BY EntityFacts DEF ConflictOK, Real, Recorded
  <2>3. ChoiceOK(e)'
    BY EntityFacts DEF ChoiceOK, Real, Recorded, NoChoice
  <2>4. Real(doc[e])'
    BY EntityFacts DEF Real
  <2>5. QED
    BY <2>1, <2>2, <2>3, <2>4
<1>2. RowsDiffer'
  BY DEF Inv, Safe, RowsDiffer
<1>3. \A a \in attempts' : AttemptOK(a)'
  BY DEF Inv, Safe, AttemptOK, TypeInv, TypeOK, Real
<1>4. ASSUME NEW o \in batch' PROVE BatchOK(o)'
  <2>1. o \in batch /\ BatchOK(o) /\ o.e \in Entity /\ pc' = pc
    BY DEF Inv, Safe, TypeInv, TypeOK, Operation
  <2>2. o.op \in 1..(nextOp' - 1)
    BY <2>1 DEF BatchOK, Inv, TypeInv, TypeOK
  <2>3. resolver'[o.e].mode = "keep" => resolver[o.e].mode = "keep"
    BY <2>1 DEF NoChoice
  <2>4. QED
    BY <2>1, <2>2, <2>3 DEF BatchOK, SentAs, Real
<1>5. NoLostEdit' /\ OperationImmutable'
  BY DEF Inv, Safe, NoLostEdit, OperationImmutable
<1>6. \A c \in log' : LogOK(c)'
  BY DEF LogOK, SentAs, Real
<1>7. \A req \in net' : \A o \in req : SentAs(o)' \in attempts'
  BY DEF SentAs
<1>8. Inv'
  BY <1>1, <1>2, <1>3, <1>4, <1>5, <1>6, <1>7 DEF Inv, Safe, TypeInv, TypeOK
<1>9. Survives
  BY DEF Survives, Queued
<1>10. QED
  BY <1>8, <1>9

\* An edit, keep-local and a dead-letter retry put a fresh row in e's place.
LEMMA FreshRow ==
  ASSUME Inv, TypeInv', NEW e \in Entity, NEW row \in Head,
         head' = [head EXCEPT ![e] = row],
         row.op = nextOp, row.status # "none", row.rev = rev'[e],
         row.val \in {Deferred, doc'[e]}, Real(doc'[e]),
         nextOp' = nextOp + 1,
         \A f \in Entity \ {e} : doc'[f] = doc[f] /\ rev'[f] = rev[f],
         \A f \in Entity : st'[f].conflict => st'[f] = st[f],
         \A f \in Entity : resolver'[f] \in {resolver[f], NoChoice},
         (doc'[e] = doc[e] /\ rev'[e] = rev[e]) \/ resolver'[e].mode # "keep"
            \/ (rev'[e] = rev[e] + 1),
         UNCHANGED <<attempts, batch, pc, log, net, reply>>
  PROVE  Inv' /\ Survives
<1>0. nextOp \in Nat /\ nextOp > 0 /\ head'[e] = row /\ Queued(e)'
      /\ \A f \in Entity \ {e} : head'[f] = head[f]
  BY DEF Inv, Safe, TypeInv, TypeOK, Queued
<1>1. ASSUME NEW f \in Entity PROVE (RowOK(f) /\ ConflictOK(f) /\ ChoiceOK(f) /\ Real(doc[f]))'
  <2>1. RowOK(f)'
    BY <1>0, EntityFacts DEF RowOK, Queued
  <2>2. ConflictOK(f)'
    BY EntityFacts DEF ConflictOK, Real, Recorded
  <2>3. ChoiceOK(f)'
    BY <1>0, EntityFacts DEF ChoiceOK, Real, Recorded, NoChoice, Queued
  <2>4. Real(doc[f])'
    BY EntityFacts DEF Real
  <2>5. QED
    BY <2>1, <2>2, <2>3, <2>4
<1>2. RowsDiffer'
  BY <1>0, EntityFacts DEF Inv, Safe, RowsDiffer, RowOK, NoHead
<1>3. \A a \in attempts' : AttemptOK(a)'
  BY <1>0 DEF Inv, Safe, AttemptOK, Real
<1>4. ASSUME NEW o \in batch' PROVE BatchOK(o)'
  <2>1. o \in batch /\ BatchOK(o) /\ o.e \in Entity
    BY DEF Inv, Safe, TypeInv, TypeOK, Operation
  <2>2. resolver'[o.e].mode = "keep" => resolver[o.e].mode = "keep"
    BY <2>1 DEF NoChoice
  <2>3. QED
    BY <1>0, <2>1, <2>2 DEF BatchOK, SentAs, Real, Queued
<1>5. NoLostEdit' /\ OperationImmutable'
  BY <1>0 DEF Inv, Safe, NoLostEdit, OperationImmutable, Queued
<1>6. \A c \in log' : LogOK(c)'
  BY DEF Inv, Safe, LogOK, SentAs, Real
<1>7. \A req \in net' : \A o \in req : SentAs(o)' \in attempts'
  BY DEF Inv, Safe, SentAs
<1>8. ReplyOK'
  BY DEF Inv, Safe, ReplyOK, Committed, Recorded, Real
<1>9. Inv'
  BY <1>0, <1>1, <1>2, <1>3, <1>4, <1>5, <1>6, <1>7, <1>8 DEF Inv, Safe
<1>10. Survives
  BY <1>0 DEF Survives, Queued
<1>11. QED
  BY <1>9, <1>10

LEMMA EmptyBatch ==
  ASSUME Inv, pc \notin {"build", "mark", "await"}
  PROVE  batch = {} /\ reply.kind = "none"
<1>1. batch = {}
  BY DEF Inv, Safe, BatchOK
<1>2. reply.kind \in {"none", "applied", "conflict"}
  BY DEF Inv, TypeInv, TypeOK, Reply, NoReply
<1>3. QED
  BY <1>1, <1>2 DEF Inv, Safe, ReplyOK

LEMMA Acknowledged ==
  ASSUME Inv, NEW e \in Entity, Queued(e), NEW c \in log, c.op = head[e].op
  PROVE  c.e = e /\ c.val = doc[e]
<1>1. RowOK(e) /\ nextOp \in Nat
  BY EntityFacts
<1>2. SentAs(c) \in attempts
  BY <1>1 DEF Inv, Safe, LogOK, RowOK, OtherDevice
<1>3. AttemptOK(SentAs(c))
  BY <1>2 DEF Inv, Safe
<1>4. c.e = e /\ c.val = head[e].val /\ Real(c.val)
  BY <1>3 DEF AttemptOK, SentAs
<1>5. QED
  BY <1>1, <1>4 DEF RowOK, Real, Deferred

\* A step that settles rows of the batch and ends or continues the round.
LEMMA SettleStep ==
  ASSUME Inv, TypeInv',
         \A e \in Entity : \/ head'[e] = head[e]
                           \/ /\ Mine(e) \/ Queued(e)
                              /\ \E s \in Status \ {"none"}, l \in BOOLEAN :
                                   head'[e] = [head[e] EXCEPT !.status = s, !.later = l],
         UNCHANGED <<doc, rev, attempts, st, nextOp, log>>,
         \A e \in Entity : resolver'[e] \in {resolver[e], NoChoice},
         batch' = {} \/ UNCHANGED <<batch, pc>>,
         net' \subseteq net,
         ReplyOK'
  PROVE  Inv' /\ Survives
<1>1. ASSUME NEW e \in Entity
      PROVE  /\ head'[e].op = head[e].op /\ head'[e].val = head[e].val
             /\ head'[e].rev = head[e].rev
             /\ Queued(e)' <=> Queued(e)
             /\ ~Queued(e) => head'[e] = head[e]
  <2>1. Mine(e) => Queued(e)
    BY MineIsQueued
  <2>2. head[e] \in Head
    BY EntityFacts
  <2>3. QED
    BY <2>1, <2>2 DEF Queued, Head
<1>2. nextOp' \in {nextOp, nextOp + 1}
  OBVIOUS
<1>3. \A c \in log' : LogOK(c)
  BY DEF Inv, Safe
<1>4. \A req \in net' : \A o \in req : SentAs(o) \in attempts
  BY DEF Inv, Safe
<1>5. QED
  BY <1>1, <1>2, <1>3, <1>4, QuietStep

LEMMA NoReplyOK == ASSUME reply' = NoReply PROVE ReplyOK'
BY DEF ReplyOK, NoReply

LEMMA RoundSafe ==
  ASSUME Inv, TypeInv',
         (\E expired \in SUBSET InFlight : StartRound(expired)) \/ Crash \/ PullNothing
           \/ PullFails \/ CheckBeforePush \/ NothingDue \/ MarkFails \/ FinishPush
           \/ CloseRound \/ Reenable
  PROVE  Inv' /\ Survives
<1>1. CASE \E expired \in SUBSET InFlight : StartRound(expired)
  <2>1. PICK expired \in SUBSET InFlight : StartRound(expired)
    BY <1>1
  <2>2. batch = {} /\ reply.kind = "none"
    BY <2>1, EmptyBatch DEF StartRound
  <2>3. ASSUME NEW e \in Entity
        PROVE  \/ head'[e] = head[e]
               \/ /\ Queued(e)
                  /\ head'[e] = [head[e] EXCEPT !.status = "pending", !.later = FALSE]
    BY <2>1 DEF StartRound, InFlight, Queued
  <2>4. ReplyOK' /\ "pending" \in Status \ {"none"} /\ FALSE \in BOOLEAN
    BY <2>1, <2>2 DEF StartRound, ReplyOK, Status
  <2>5. QED
    BY <2>1, <2>2, <2>3, <2>4, SettleStep DEF StartRound, server
<1>2. CASE Crash
  BY <1>2, SettleStep, NoReplyOK DEF Crash, Rest, device, server
<1>3. CASE PullNothing \/ NothingDue
  <2>1. batch = {} /\ reply.kind = "none"
    BY <1>3, EmptyBatch DEF PullNothing, NothingDue
  <2>2. ReplyOK'
    BY <1>3, <2>1 DEF PullNothing, NothingDue, ReplyOK
  <2>3. QED
    BY <1>3, <2>1, <2>2, SettleStep DEF PullNothing, NothingDue, device, server
<1>4. CASE PullFails \/ MarkFails
  BY <1>4, SettleStep, NoReplyOK DEF PullFails, MarkFails, Fail, Rest, server
<1>5. CASE CheckBeforePush
  <2>1. batch = {} /\ reply.kind = "none"
    BY <1>5, EmptyBatch DEF CheckBeforePush
  <2>2. ReplyOK' /\ batch' = {}
    BY <1>5, <2>1, NoReplyOK DEF CheckBeforePush, ReplyOK, Rest
  <2>3. QED
    BY <1>5, <2>1, <2>2, SettleStep DEF CheckBeforePush, server
<1>6. CASE FinishPush
  <2>1. batch = {} /\ reply.kind = "none"
    BY <1>6, EmptyBatch DEF FinishPush
  <2>2. ReplyOK' /\ batch' = {}
    BY <1>6, <2>1, NoReplyOK DEF FinishPush, ReplyOK, Rest
  <2>3. QED
    BY <1>6, <2>1, <2>2, SettleStep DEF FinishPush, server
<1>7. CASE CloseRound
  BY <1>7, SettleStep, NoReplyOK DEF CloseRound, Rest, server
<1>8. CASE Reenable
  <2>1. ReplyOK'
    BY <1>8 DEF Reenable, flight, server, Inv, Safe, ReplyOK, Committed, Recorded, Real
  <2>2. QED
    BY <1>8, <2>1, SettleStep DEF Reenable, flight, server
<1>9. QED
  BY <1>1, <1>2, <1>3, <1>4, <1>5, <1>6, <1>7, <1>8

LEMMA PullSafe ==
  ASSUME Inv, TypeInv', NEW c \in log, PullPage(c)
  PROVE  Inv' /\ Survives
<1>0. /\ batch = {} /\ batch' = {} /\ reply.kind = "none" /\ reply' = reply
      /\ UNCHANGED <<attempts, nextOp, resolver, log, net>>
      /\ c.e \in Entity /\ LogOK(c) /\ nextOp \in Nat
      /\ head \in [Entity -> Head] /\ st \in [Entity -> EntityState] /\ doc \in [Entity -> Value]
      /\ rev \in [Entity -> Nat]
  BY EmptyBatch DEF PullPage, server, Inv, Safe, TypeInv, TypeOK, Change
<1>1. /\ \A a \in attempts' : a \in attempts
      /\ \A o \in batch' : BatchOK(o)'
      /\ \A d \in log' : LogOK(d)'
      /\ \A req \in net' : \A o \in req : SentAs(o)' \in attempts'
      /\ ReplyOK' /\ nextOp' > 0 /\ OperationImmutable'
  BY <1>0 DEF Inv, Safe, LogOK, SentAs, Real, ReplyOK, OperationImmutable
<1>2. CASE AckOwn(c)
  <2>1. /\ UNCHANGED <<doc, rev>> /\ c.op # 0
        /\ \A e \in Entity \ {c.e} : head'[e] = head[e] /\ st'[e] = st[e]
        /\ ~st'[c.e].conflict
        /\ head'[c.e] = IF head[c.e].op = c.op THEN NoHead ELSE Raise(head[c.e], c.ver)
    BY <1>0, <1>2 DEF AckOwn, Own, OtherDevice, Synced
  <2>2. head[c.e].op = c.op => Queued(c.e) /\ c.val = doc[c.e]
    BY <1>0, <2>1, EntityFacts, Acknowledged DEF RowOK, NoHead
  <2>3. ASSUME NEW e \in Entity
        PROVE  \/ e = c.e /\ head[e].op = c.op /\ head'[e] = NoHead
               \/ /\ head'[e].op = head[e].op /\ head'[e].val = head[e].val
                  /\ head'[e].rev = head[e].rev /\ (Queued(e)' <=> Queued(e))
                  /\ ~Queued(e) => head'[e] = head[e]
    BY <1>0, <2>1 DEF Raise, Queued, Head
  <2>4. ASSUME NEW e \in Entity PROVE (RowOK(e) /\ ConflictOK(e) /\ ChoiceOK(e) /\ Real(doc[e]))'
    <3>1. RowOK(e)'
      <4>1. CASE head'[e] = NoHead
        BY <4>1 DEF RowOK, Queued, NoHead
      <4>2. CASE head'[e] # NoHead
        BY <1>0, <2>1, <2>3, <4>2, EntityFacts DEF RowOK
      <4>3. QED
        BY <4>1, <4>2
    <3>2. Real(doc[e])'
      BY <2>1, EntityFacts DEF Real
    <3>3. ConflictOK(e)'
      BY <1>0, <2>1, EntityFacts DEF ConflictOK, Recorded, Real
    <3>4. ChoiceOK(e)'
      BY <1>0, <2>1, <2>3, EntityFacts DEF ChoiceOK, Recorded, Real
    <3>5. QED
      BY <3>1, <3>2, <3>3, <3>4
  <2>5. RowsDiffer'
    BY <2>3 DEF Inv, Safe, RowsDiffer, NoHead
  <2>6. \A a \in attempts' : AttemptOK(a)'
    BY <1>0, <2>3 DEF Inv, Safe, AttemptOK, NoHead, Real
  <2>7. NoLostEdit'
    BY <1>0, <2>1, <2>2, <2>3 DEF Inv, Safe, NoLostEdit
  <2>8. Survives
    BY <2>3 DEF Survives, Queued
  <2>9. QED
    BY <1>1, <2>4, <2>5, <2>6, <2>7, <2>8 DEF Inv, Safe
<1>3. CASE ShadowRemote(c)
  <2>1. /\ UNCHANGED <<doc, rev, head>>
        /\ \A e \in Entity \ {c.e} : st'[e] = st[e]
        /\ st'[c.e].conflict /\ st'[c.e].shadow = c.val
        /\ Queued(c.e) \/ st[c.e].conflict
    BY <1>0, <1>3 DEF ShadowRemote
  <2>2. ASSUME NEW e \in Entity PROVE (RowOK(e) /\ ConflictOK(e) /\ ChoiceOK(e) /\ Real(doc[e]))'
    <3>1. RowOK(e)' /\ Real(doc[e])'
      BY <1>0, <2>1, EntityFacts DEF RowOK, Queued, Real
    <3>2. ConflictOK(e)'
      BY <1>0, <2>1, EntityFacts DEF ConflictOK, Recorded, Real, LogOK
    <3>3. ChoiceOK(e)'
      BY <1>0, <2>1, EntityFacts DEF ChoiceOK, Recorded, Real, Queued
    <3>4. QED
      BY <3>1, <3>2, <3>3
  <2>3. RowsDiffer' /\ (\A a \in attempts' : AttemptOK(a)') /\ NoLostEdit'
    BY <1>0, <2>1 DEF Inv, Safe, RowsDiffer, AttemptOK, NoLostEdit, Queued, Real
  <2>4. Survives
    BY <2>1 DEF Survives, Queued
  <2>5. QED
    BY <1>1, <2>2, <2>3, <2>4 DEF Inv, Safe
<1>4. CASE ApplyRemote(c)
  <2>1. /\ UNCHANGED head /\ ~Queued(c.e)
        /\ \A e \in Entity \ {c.e} : doc'[e] = doc[e] /\ rev'[e] = rev[e] /\ st'[e] = st[e]
        /\ ~st'[c.e].conflict /\ doc'[c.e] = c.val /\ rev'[c.e] = rev[c.e] + 1
    BY <1>0, <1>4 DEF ApplyRemote, Synced
  <2>2. ASSUME NEW e \in Entity PROVE (RowOK(e) /\ ConflictOK(e) /\ ChoiceOK(e) /\ Real(doc[e]))'
    <3>1. RowOK(e)' /\ Real(doc[e])'
      BY <1>0, <2>1, EntityFacts DEF RowOK, Queued, Real, LogOK
    <3>2. ConflictOK(e)'
      BY <1>0, <2>1, EntityFacts DEF ConflictOK, Recorded, Real
    <3>3. ChoiceOK(e)'
      BY <1>0, <2>1, EntityFacts DEF ChoiceOK, Recorded, Real, Queued
    <3>4. QED
      BY <3>1, <3>2, <3>3
  <2>3. RowsDiffer' /\ (\A a \in attempts' : AttemptOK(a)')
    BY <1>0, <2>1 DEF Inv, Safe, RowsDiffer, AttemptOK, Real
  <2>4. NoLostEdit'
    BY <1>0, <2>1 DEF Inv, Safe, NoLostEdit, Queued
  <2>5. Survives
    BY <2>1 DEF Survives, Queued
  <2>6. QED
    BY <1>1, <2>2, <2>3, <2>4, <2>5 DEF Inv, Safe
<1>5. QED
  BY <1>2, <1>3, <1>4 DEF PullPage

LEMMA SelectSafe ==
  ASSUME Inv, TypeInv', NEW S \in SUBSET Entity, SelectBatch(S)
  PROVE  Inv' /\ Survives
<1>0. /\ UNCHANGED <<doc, rev, head, attempts, st, nextOp, resolver, log, net, reply>>
      /\ reply.kind = "none" /\ pc' = "build" /\ nextOp \in Nat
  BY EmptyBatch DEF SelectBatch, device, server, Inv, TypeInv, TypeOK
<1>1. ASSUME NEW o \in batch' PROVE BatchOK(o)'
  <2>1. PICK e \in S : o = [op |-> head[e].op, e |-> e, val |-> head[e].val,
                            base |-> head[e].base, rev |-> head[e].rev]
    BY DEF SelectBatch
  <2>2. e \in Entity /\ Queued(e) /\ ~st[e].conflict
    BY DEF SelectBatch, Eligible, Queued
  <2>3. RowOK(e) /\ Real(doc[e])
    BY <2>2, EntityFacts
  <2>4. QED
    BY <1>0, <2>1, <2>2, <2>3 DEF BatchOK, RowOK
<1>2. ASSUME NEW e \in Entity PROVE (RowOK(e) /\ ConflictOK(e) /\ ChoiceOK(e) /\ Real(doc[e]))'
  BY <1>0, EntityFacts DEF RowOK, ConflictOK, ChoiceOK, Real, Recorded, Queued
<1>3. /\ RowsDiffer' /\ (\A a \in attempts' : AttemptOK(a)') /\ (\A c \in log' : LogOK(c)')
      /\ (\A req \in net' : \A o \in req : SentAs(o)' \in attempts')
      /\ ReplyOK' /\ nextOp' > 0 /\ NoLostEdit' /\ OperationImmutable'
  BY <1>0 DEF Inv, Safe, RowsDiffer, AttemptOK, LogOK, SentAs, Real, ReplyOK, NoLostEdit,
              OperationImmutable, Queued
<1>4. Survives
  BY <1>0 DEF Survives, Queued
<1>5. QED
  BY <1>1, <1>2, <1>3, <1>4 DEF Inv, Safe

LEMMA BuildSafe ==
  ASSUME Inv, TypeInv', BuildBatch
  PROVE  Inv' /\ Survives
<1> DEFINE kept == {o \in batch : o.val # Deferred \/ CanMaterialize(o)}
           fill(o) == IF o.val = Deferred THEN [o EXCEPT !.val = doc[o.e]] ELSE o
           filled == {fill(o) : o \in kept}
           row(e) == IF \E o \in kept : o.e = e /\ o.val = Deferred
                     THEN [head[e] EXCEPT !.val = doc[e]] ELSE head[e]
<1>0. /\ UNCHANGED <<doc, rev, attempts, st, nextOp, resolver, log, net, reply>>
      /\ pc = "build" /\ reply.kind \notin {"applied", "conflict"}
      /\ reply.kind \in {"none", "applied", "conflict"}
      /\ head \in [Entity -> Head] /\ doc \in [Entity -> Value] /\ batch \subseteq Operation
      /\ nextOp \in Nat /\ \A o \in batch : BatchOK(o)
  BY DEF BuildBatch, server, Inv, Safe, TypeInv, TypeOK, ReplyOK, Reply, NoReply
<1>1. PICK parked \in SUBSET filled :
          /\ IF parked = {} THEN UNCHANGED spent ELSE Fault
          /\ head' = [e \in Entity |->
                        IF \E o \in parked : o.e = e /\ o.op = head[e].op
                        THEN [row(e) EXCEPT !.status = "dead", !.later = FALSE]
                        ELSE row(e)]
          /\ batch' = filled \ parked
          /\ pc' = IF filled # parked THEN "mark" ELSE IF parked # {} THEN "push" ELSE "drained"
          /\ pushed' = (pushed \/ (filled = parked /\ parked # {}))
  BY DEF BuildBatch
<1>2. \A o \in kept : /\ fill(o).op = o.op /\ fill(o).e = o.e /\ o \in batch
                      /\ o.e \in Entity /\ fill(o) \in Operation
                      /\ fill(o).val = IF o.val = Deferred THEN doc[o.e] ELSE o.val
  BY <1>0 DEF Operation
<1>3. ASSUME NEW o \in filled
      PROVE  o.op \in 1..(nextOp - 1) /\ o.e \in Entity
  <2>1. PICK p \in kept : o = fill(p)
    OBVIOUS
  <2>2. BatchOK(p) /\ o.op = p.op /\ o.e = p.e /\ p.e \in Entity
    BY <1>0, <1>2, <2>1
  <2>3. QED
    BY <2>2 DEF BatchOK
<1>4. ASSUME NEW e \in Entity
      PROVE  /\ row(e) \in Head /\ row(e).op = head[e].op /\ row(e).rev = head[e].rev
             /\ row(e).status = head[e].status
             /\ row(e) = head[e] \/ (Queued(e) /\ row(e).val = doc[e])
  <2>1. (\E o \in kept : o.e = e /\ o.val = Deferred) => Queued(e)
    BY DEF CanMaterialize, Queued
  <2>2. QED
    BY <1>0, <2>1 DEF Head
<1> HIDE DEF row
<1>5. ASSUME NEW e \in Entity
      PROVE  /\ head'[e].op = head[e].op /\ head'[e].rev = head[e].rev
             /\ head'[e].val = row(e).val
             /\ Queued(e)' <=> Queued(e)
             /\ ~Queued(e) => head'[e] = head[e]
  <2>1. (\E o \in parked : o.e = e /\ o.op = head[e].op) => Queued(e)
    BY <1>3, EntityFacts DEF RowOK, NoHead
  <2>2. head'[e] = IF \E o \in parked : o.e = e /\ o.op = head[e].op
                   THEN [row(e) EXCEPT !.status = "dead", !.later = FALSE] ELSE row(e)
    BY <1>1
  <2>3. QED
    BY <1>4, <2>1, <2>2 DEF Queued, Head
<1>6. ASSUME NEW e \in Entity
      PROVE  /\ head'[e].val \in {head[e].val, doc[e]}
             /\ head'[e].val # head[e].val => head[e].val = Deferred
  BY <1>4, <1>5, EntityFacts DEF RowOK
<1>7. ASSUME NEW e \in Entity PROVE (RowOK(e) /\ ConflictOK(e) /\ ChoiceOK(e) /\ Real(doc[e]))'
  <2>1. RowOK(e)'
    BY <1>0, <1>5, <1>6, EntityFacts DEF RowOK
  <2>2. (ConflictOK(e) /\ ChoiceOK(e) /\ Real(doc[e]))'
    BY <1>0, <1>5, EntityFacts DEF ConflictOK, ChoiceOK, Real, Recorded
  <2>3. QED
    BY <2>1, <2>2
<1>8. RowsDiffer' /\ NoLostEdit' /\ OperationImmutable' /\ nextOp' > 0
  BY <1>0, <1>5 DEF Inv, Safe, RowsDiffer, NoLostEdit, OperationImmutable
<1>9. ASSUME NEW a \in attempts' PROVE AttemptOK(a)'
  <2>1. AttemptOK(a)
    BY <1>0 DEF Inv, Safe
  <2>2. ASSUME NEW e \in Entity, head'[e].op = a.op PROVE a.e = e /\ a.val = head'[e].val
    BY <1>5, <1>6, <2>1, <2>2 DEF AttemptOK, Real, Deferred
  <2>3. QED
    BY <1>0, <2>1, <2>2 DEF AttemptOK, Real
<1>10. ASSUME NEW o \in batch' PROVE BatchOK(o)'
  <2>1. PICK p \in kept : o = fill(p)
    BY <1>1
  <2>2. /\ BatchOK(p) /\ p \in batch /\ o.op = p.op /\ o.e = p.e /\ p.e \in Entity
        /\ o.val = IF p.val = Deferred THEN doc[p.e] ELSE p.val
    BY <1>0, <1>2, <2>1
  <2>3. pc' = "mark"
    BY <1>1
  <2>4. Real(o.val)
    BY <2>2, EntityFacts DEF BatchOK
  <2>5. head'[o.e].op = o.op => head'[o.e].val = o.val
    <3>1. CASE p.val = Deferred
      <4>1. row(o.e).val = doc[o.e]
        BY <1>0, <2>2, <3>1 DEF row, Head
      <4>2. QED
        BY <1>5, <2>2, <3>1, <4>1
    <3>2. CASE p.val # Deferred
      BY <1>5, <1>6, <2>2, <3>2 DEF BatchOK
    <3>3. QED
      BY <3>1, <3>2
  <2>6. QED
    BY <1>0, <2>2, <2>3, <2>4, <2>5 DEF BatchOK, Real
<1>11. /\ (\A c \in log' : LogOK(c)')
       /\ (\A req \in net' : \A o \in req : SentAs(o)' \in attempts')
       /\ ReplyOK'
  BY <1>0 DEF Inv, Safe, LogOK, SentAs, Real, ReplyOK
<1>12. Survives
  BY <1>5 DEF Survives, Queued
<1>13. QED
  BY <1>7, <1>8, <1>9, <1>10, <1>11, <1>12 DEF Inv, Safe

LEMMA SendSafe ==
  ASSUME Inv, TypeInv', SendBatch
  PROVE  Inv' /\ Survives
<1>0. /\ UNCHANGED <<doc, rev, st, nextOp, resolver, log, reply, batch>>
      /\ attempts' = attempts \cup {SentAs(o) : o \in batch}
      /\ net' = net \cup {batch} /\ pc = "mark" /\ pc' = "await"
      /\ reply.kind = "none"
      /\ head \in [Entity -> Head] /\ batch \subseteq Operation /\ attempts \subseteq Attempt
      /\ nextOp \in Nat /\ \A a \in attempts : AttemptOK(a)
  <2>1. attempts' = attempts \cup {SentAs(o) : o \in batch}
    BY DEF SendBatch, SentAs
  <2>2. pc = "mark" /\ reply \in Reply /\ ReplyOK
    BY DEF SendBatch, Inv, Safe, TypeInv, TypeOK
  <2>3. reply.kind = "none"
    BY <2>2 DEF ReplyOK, Reply, NoReply
  <2>4. QED
    BY <2>1, <2>2, <2>3 DEF SendBatch, server, Inv, Safe, TypeInv, TypeOK
<1>1. ASSUME NEW e \in Entity
      PROVE  /\ head'[e].op = head[e].op /\ head'[e].rev = head[e].rev
             /\ head'[e].val = head[e].val
             /\ Queued(e)' <=> Queued(e)
             /\ ~Queued(e) => head'[e] = head[e]
  <2>1. Mine(e) => Queued(e)
    BY MineIsQueued
  <2>2. QED
    BY <1>0, <2>1 DEF SendBatch, Queued, Head
<1>2. ASSUME NEW o \in batch
      PROVE  /\ BatchOK(o) /\ Real(o.val) /\ o.e \in Entity /\ Queued(o.e)
             /\ head[o.e].op = o.op /\ head[o.e].val = o.val
  <2>1. BatchOK(o) /\ o.e \in Entity
    BY <1>0 DEF Inv, Safe, Operation
  <2>2. head[o.e].op = o.op /\ Queued(o.e)
    BY DEF SendBatch, AllStillCurrent, Queued
  <2>3. QED
    BY <1>0, <2>1, <2>2 DEF BatchOK
<1>3. ASSUME NEW e \in Entity PROVE (RowOK(e) /\ ConflictOK(e) /\ ChoiceOK(e) /\ Real(doc[e]))'
  BY <1>0, <1>1, EntityFacts DEF RowOK, ConflictOK, ChoiceOK, Real, Recorded
<1>4. RowsDiffer' /\ NoLostEdit' /\ nextOp' > 0
  BY <1>0, <1>1 DEF Inv, Safe, RowsDiffer, NoLostEdit
<1>5. ASSUME NEW a \in attempts', NEW o \in batch, a.op = o.op
      PROVE  a = SentAs(o)
  <2>1. CASE a \in attempts
    <3>1. AttemptOK(a) /\ a \in Attempt
      BY <1>0, <2>1
    <3>2. a.e = o.e /\ a.val = o.val
      BY <1>2, <1>5, <3>1 DEF AttemptOK
    <3>3. QED
      BY <1>5, <3>1, <3>2 DEF Attempt, SentAs
  <2>2. CASE a \in {SentAs(p) : p \in batch}
    <3>1. PICK p \in batch : a = SentAs(p)
      BY <2>2
    <3>2. p.op = o.op /\ p.op # 0
      BY <1>2, <1>5, <3>1 DEF SentAs, BatchOK
    <3>3. p.e = o.e
      BY <1>2, <3>2 DEF Inv, Safe, RowsDiffer
    <3>4. QED
      BY <1>2, <3>1, <3>2, <3>3 DEF SentAs
  <2>3. QED
    BY <1>0, <2>1, <2>2
<1>6. OperationImmutable'
  <2> SUFFICES ASSUME NEW a \in attempts', NEW b \in attempts', a.op = b.op PROVE a = b
    BY DEF OperationImmutable
  <2>1. CASE a \in attempts /\ b \in attempts
    BY <2>1 DEF Inv, Safe, OperationImmutable
  <2>2. ASSUME NEW o \in batch, a = SentAs(o) PROVE a = b
    BY <1>5, <2>2 DEF SentAs
  <2>3. ASSUME NEW o \in batch, b = SentAs(o) PROVE a = b
    BY <1>5, <2>3 DEF SentAs
  <2>4. QED
    BY <1>0, <2>1, <2>2, <2>3
<1>7. ASSUME NEW a \in attempts' PROVE AttemptOK(a)'
  <2>1. CASE a \in attempts
    BY <1>0, <1>1, <2>1 DEF AttemptOK, Real
  <2>2. ASSUME NEW o \in batch, a = SentAs(o) PROVE AttemptOK(a)'
    <3>1. a.op = o.op /\ a.e = o.e /\ a.val = o.val
      BY <2>2 DEF SentAs
    <3>2. \A e \in Entity : head[e].op = a.op => e = o.e
      BY <1>2, <3>1 DEF Inv, Safe, RowsDiffer, BatchOK
    <3>3. QED
      BY <1>0, <1>1, <1>2, <3>1, <3>2 DEF AttemptOK, BatchOK, Real
  <2>3. QED
    BY <1>0, <2>1, <2>2
<1>8. ASSUME NEW o \in batch' PROVE BatchOK(o)'
  <2>1. SentAs(o) \in attempts' /\ SentAs(o)' = SentAs(o)
    BY <1>0 DEF SentAs
  <2>2. QED
    BY <1>0, <1>1, <1>2, <2>1 DEF BatchOK, Real
<1>9. /\ (\A c \in log' : LogOK(c)')
      /\ (\A req \in net' : \A o \in req : SentAs(o)' \in attempts')
      /\ ReplyOK'
  BY <1>0 DEF Inv, Safe, LogOK, SentAs, Real, ReplyOK
<1>10. Survives
  BY <1>1 DEF Survives, Queued
<1>11. QED
  BY <1>3, <1>4, <1>6, <1>7, <1>8, <1>9, <1>10 DEF Inv, Safe

LEMMA AppliedSafe ==
  ASSUME Inv, TypeInv', PushApplied
  PROVE  Inv' /\ Survives
<1>0. /\ UNCHANGED <<doc, rev, attempts, nextOp, resolver, log, net>>
      /\ batch' = {} /\ reply' = NoReply /\ pc = "await"
      /\ \A o \in batch : Committed(o)
      /\ head \in [Entity -> Head] /\ nextOp \in Nat
  BY DEF PushApplied, server, Inv, Safe, TypeInv, TypeOK, ReplyOK
<1>1. ASSUME NEW e \in Entity
      PROVE  \/ Mine(e) /\ head'[e] = NoHead
             \/ /\ ~Mine(e)
                /\ head'[e].op = head[e].op /\ head'[e].val = head[e].val
                /\ head'[e].rev = head[e].rev /\ (Queued(e)' <=> Queued(e))
                /\ ~Queued(e) => head'[e] = head[e]
  BY <1>0 DEF PushApplied, Raise, Queued, Head
<1>2. ASSUME NEW e \in Entity, Mine(e)
      PROVE  /\ Queued(e) /\ ~st[e].conflict
             /\ \E c \in log : c.op = head[e].op /\ c.e = e /\ c.val = doc[e]
  <2>1. PICK o \in batch : o.e = e /\ o.op = head[e].op
    BY <1>2 DEF Mine
  <2>2. PICK c \in log : c.op = head[e].op
    BY <1>0, <2>1 DEF Committed
  <2>3. QED
    BY <1>2, <2>2, MineIsQueued, Acknowledged
<1>3. \A e \in Entity : st'[e].conflict = st[e].conflict /\ st'[e].shadow = st[e].shadow
  BY DEF PushApplied, Inv, TypeInv, TypeOK, EntityState
<1>4. ASSUME NEW e \in Entity PROVE (RowOK(e) /\ ConflictOK(e) /\ ChoiceOK(e) /\ Real(doc[e]))'
  <2>1. CASE Mine(e)
    <3>1. RowOK(e)'
      <4>1. head'[e] = NoHead
        BY <1>1, <2>1
      <4>2. QED
        BY <4>1 DEF RowOK, Queued, NoHead
    <3>2. (ConflictOK(e) /\ ChoiceOK(e) /\ Real(doc[e]))'
      BY <1>0, <1>2, <1>3, <2>1, EntityFacts DEF ConflictOK, ChoiceOK, Real, Recorded
    <3>3. QED
      BY <3>1, <3>2
  <2>2. CASE ~Mine(e)
    <3>1. RowOK(e)'
      BY <1>0, <1>1, <2>2, EntityFacts DEF RowOK
    <3>2. (ConflictOK(e) /\ ChoiceOK(e) /\ Real(doc[e]))'
      BY <1>0, <1>1, <1>3, <2>2, EntityFacts DEF ConflictOK, ChoiceOK, Real, Recorded
    <3>3. QED
      BY <3>1, <3>2
  <2>3. QED
    BY <2>1, <2>2
<1>5. RowsDiffer'
  BY <1>1 DEF Inv, Safe, RowsDiffer, NoHead
<1>6. \A a \in attempts' : AttemptOK(a)'
  BY <1>0, <1>1 DEF Inv, Safe, AttemptOK, NoHead, Real
<1>7. NoLostEdit'
  BY <1>0, <1>1, <1>2 DEF Inv, Safe, NoLostEdit
<1>8. /\ \A o \in batch' : BatchOK(o)'
      /\ \A c \in log' : LogOK(c)'
      /\ \A req \in net' : \A o \in req : SentAs(o)' \in attempts'
      /\ ReplyOK' /\ nextOp' > 0 /\ OperationImmutable'
  BY <1>0, NoReplyOK DEF Inv, Safe, LogOK, SentAs, Real, OperationImmutable
<1>9. Survives
  BY <1>1, <1>2 DEF Survives, Queued
<1>10. QED
  BY <1>4, <1>5, <1>6, <1>7, <1>8, <1>9 DEF Inv, Safe

LEMMA ConflictSafe ==
  ASSUME Inv, TypeInv', PushConflicts
  PROVE  Inv' /\ Survives
<1>0. /\ UNCHANGED <<doc, rev, attempts, nextOp, resolver, log, net>>
      /\ batch' = {} /\ reply' = NoReply /\ pc = "await"
      /\ (\E o \in batch : o.e = reply.e) /\ Real(reply.val) /\ Recorded(reply.e, reply.val)
      /\ reply.e \in Entity
      /\ head \in [Entity -> Head] /\ st \in [Entity -> EntityState] /\ nextOp \in Nat
  BY DEF PushConflicts, Rest, server, Inv, Safe, TypeInv, TypeOK, ReplyOK, Reply, NoReply
<1>1. ASSUME NEW e \in Entity
      PROVE  /\ head'[e].op = head[e].op /\ head'[e].val = head[e].val
             /\ head'[e].rev = head[e].rev /\ (Queued(e)' <=> Queued(e))
             /\ ~Queued(e) => head'[e] = head[e]
  <2>1. Mine(e) => Queued(e)
    BY MineIsQueued
  <2>2. QED
    BY <1>0, <2>1 DEF PushConflicts, Settled, Queued, Head
<1>2. /\ \A e \in Entity \ {reply.e} : st'[e] = st[e]
      /\ st'[reply.e].conflict /\ st'[reply.e].shadow = reply.val
  BY <1>0 DEF PushConflicts
<1>3. resolver[reply.e].mode = "keep" => Queued(reply.e)
  BY <1>0 DEF Inv, Safe, BatchOK
<1>4. ASSUME NEW e \in Entity PROVE (RowOK(e) /\ ConflictOK(e) /\ ChoiceOK(e) /\ Real(doc[e]))'
  <2>1. RowOK(e)' /\ Real(doc[e])'
    BY <1>0, <1>1, EntityFacts DEF RowOK, Real
  <2>2. ConflictOK(e)'
    BY <1>0, <1>2, EntityFacts DEF ConflictOK, Real, Recorded
  <2>3. ChoiceOK(e)'
    BY <1>0, <1>1, <1>2, <1>3, EntityFacts DEF ChoiceOK, Real, Recorded
  <2>4. QED
    BY <2>1, <2>2, <2>3
<1>5. RowsDiffer' /\ NoLostEdit'
  BY <1>0, <1>1 DEF Inv, Safe, RowsDiffer, NoLostEdit
<1>6. \A a \in attempts' : AttemptOK(a)'
  BY <1>0, <1>1 DEF Inv, Safe, AttemptOK, Real
<1>7. /\ \A o \in batch' : BatchOK(o)'
      /\ \A c \in log' : LogOK(c)'
      /\ \A req \in net' : \A o \in req : SentAs(o)' \in attempts'
      /\ ReplyOK' /\ nextOp' > 0 /\ OperationImmutable'
  BY <1>0, NoReplyOK DEF Inv, Safe, LogOK, SentAs, Real, OperationImmutable
<1>8. Survives
  BY <1>1 DEF Survives, Queued
<1>9. QED
  BY <1>4, <1>5, <1>6, <1>7, <1>8 DEF Inv, Safe

LEMMA FailedPushSafe ==
  ASSUME Inv, TypeInv',
         PushUnknown \/ PushNotSent(batch) \/ PushReleased
           \/ \E o \in batch : PushPermanent(o) \/ PushNotSent({o})
  PROVE  Inv' /\ Survives
<1>0. {"pending", "uncertain", "dead"} \subseteq Status \ {"none"} /\ {TRUE, FALSE} = BOOLEAN
  BY DEF Status
<1>1. CASE PushUnknown
  BY <1>0, <1>1, SettleStep, NoReplyOK, ZenonT(60) DEF PushUnknown, Fail, Rest, server
<1>2. ASSUME NEW waiting, PushNotSent(waiting) PROVE Inv' /\ Survives
  <2>1. \A e \in Entity : (\E o \in waiting : o.e = e) \in BOOLEAN
    OBVIOUS
  <2>2. QED
    BY <1>0, <1>2, <2>1, SettleStep, NoReplyOK DEF PushNotSent, Fail, Rest, server
<1>3. CASE PushReleased
  BY <1>0, <1>3, SettleStep, NoReplyOK DEF PushReleased, Settled, Rest, server
<1>4. ASSUME NEW o \in batch, PushPermanent(o) PROVE Inv' /\ Survives
  <2>1. \A e \in Entity : (IF e = o.e THEN "dead" ELSE "pending") \in Status \ {"none"}
    BY <1>0
  <2>2. QED
    BY <1>0, <1>4, <2>1, SettleStep, NoReplyOK DEF PushPermanent, Fail, Rest, server
<1>5. QED
  BY <1>1, <1>2, <1>3, <1>4

LEMMA CloudSafe ==
  ASSUME Inv, TypeInv', Cloud
  PROVE  Inv' /\ Survives
<1>0. /\ \A c \in log : LogOK(c)
      /\ \A req \in net : \A o \in req : SentAs(o) \in attempts
      /\ ReplyOK /\ reply \in Reply
  BY DEF Inv, Safe, TypeInv, TypeOK
<1>1. ASSUME NEW e \in Entity, CloudWrite(e) PROVE Inv' /\ Survives
  <2>1. log \subseteq log' /\ \A c \in log' : LogOK(c)
    BY <1>0, <1>1 DEF CloudWrite, LogOK, Real, WriteOf
  <2>2. ReplyOK'
    BY <1>0, <1>1, <2>1 DEF CloudWrite, flight, ReplyOK, Committed, Recorded, Real
  <2>3. QED
    BY <1>0, <1>1, <2>1, <2>2, QuietStep DEF CloudWrite, device, flight, Queued
<1>2. ASSUME NEW req \in net, ServerCommits(req) PROVE Inv' /\ Survives
  <2> DEFINE fresh == {o \in req : ~Committed(o)}
             answer == Applied([e \in Entity |->
               IF \E o \in req : o.e = e THEN Version(CHOOSE o \in req : o.e = e) ELSE 0])
  <2>1. PICK n \in 0..BatchLimit : \E pos \in Bijection(fresh, 1..n) :
              log' = log \cup {[cur |-> top + pos[o], op |-> o.op, e |-> o.e,
                                ver |-> sver[o.e] + 1, val |-> o.val] : o \in fresh}
    BY <1>2 DEF ServerCommits
  <2>2. PICK pos \in Bijection(fresh, 1..n) :
              log' = log \cup {[cur |-> top + pos[o], op |-> o.op, e |-> o.e,
                                ver |-> sver[o.e] + 1, val |-> o.val] : o \in fresh}
    BY <2>1
  <2>3. ASSUME NEW o \in fresh
        PROVE  SentAs(o) \in attempts /\ Real(o.val)
    <3>1. AttemptOK(SentAs(o)) /\ SentAs(o) \in attempts
      BY <1>0 DEF Inv, Safe
    <3>2. QED
      BY <3>1 DEF AttemptOK, SentAs, Real
  <2>4. ASSUME NEW c \in log' PROVE LogOK(c)
    <3>1. CASE c \in log
      BY <1>0, <3>1
    <3>2. ASSUME NEW o \in fresh, c = [cur |-> top + pos[o], op |-> o.op, e |-> o.e,
                                       ver |-> sver[o.e] + 1, val |-> o.val]
          PROVE  LogOK(c)
      BY <2>3, <3>2 DEF LogOK, SentAs, Real
    <3>3. QED
      BY <2>2, <3>1, <3>2
  <2>5. log \subseteq log' /\ \A o \in req : Committed(o)'
    <3>1. ASSUME NEW o \in fresh PROVE \E c \in log' : c.op = o.op
      <4> DEFINE c == [cur |-> top + pos[o], op |-> o.op, e |-> o.e,
                       ver |-> sver[o.e] + 1, val |-> o.val]
      <4>1. c \in log' /\ c.op = o.op
        BY <2>2
      <4>2. QED
        BY <4>1
    <3>2. QED
      BY <2>2, <3>1 DEF Committed
  <2>6. ReplyOK'
    <3>1. UNCHANGED <<pc, batch>> /\ Answer(req, answer)
      BY <1>2 DEF ServerCommits, flight
    <3>2. CASE pc = "await" /\ batch = req
      <4>1. reply' = answer
        BY <3>1, <3>2 DEF Answer
      <4>2. reply'.kind = "applied"
        BY <4>1 DEF Applied
      <4>3. QED
        BY <2>5, <3>1, <3>2, <4>2 DEF ReplyOK
    <3>3. CASE ~(pc = "await" /\ batch = req)
      <4>1. reply' = reply
        BY <3>1, <3>3 DEF Answer
      <4>2. QED
        BY <1>0, <2>5, <3>1, <4>1 DEF ReplyOK, Committed, Recorded, Real
    <3>4. QED
      BY <3>2, <3>3
  <2>7. QED
    BY <1>0, <1>2, <2>4, <2>5, <2>6, QuietStep DEF ServerCommits, device, flight, Queued
<1>3. ASSUME NEW req \in net, NEW o \in req, ServerRejects(req, o) PROVE Inv' /\ Survives
  <2>1. PICK x \in {c.val : c \in {d \in log : d.e = o.e /\ d.ver = sver[o.e]}} :
          Answer(req, Conflict(o.e, sver[o.e], x))
    BY <1>3 DEF ServerRejects
  <2>2. Real(x) /\ \E c \in log : c.e = o.e /\ c.val = x
    BY <1>0, <2>1 DEF LogOK
  <2>3. UNCHANGED <<pc, batch, log>>
    BY <1>3 DEF ServerRejects, flight, server
  <2>4. ReplyOK'
    <3>1. CASE pc = "await" /\ batch = req
      <4>1. reply' = Conflict(o.e, sver[o.e], x)
        BY <2>1, <3>1 DEF Answer
      <4>2. reply'.kind = "conflict" /\ reply'.e = o.e /\ reply'.val = x
        BY <4>1 DEF Conflict
      <4>3. QED
        BY <2>2, <2>3, <3>1, <4>2 DEF ReplyOK, Recorded, Real
    <3>2. CASE ~(pc = "await" /\ batch = req)
      <4>1. reply' = reply
        BY <2>1, <3>2 DEF Answer
      <4>2. QED
        BY <1>0, <2>3, <4>1 DEF ReplyOK, Committed, Recorded, Real
    <3>3. QED
      BY <3>1, <3>2
  <2>5. QED
    BY <1>0, <1>3, <2>3, <2>4, QuietStep DEF ServerRejects, device, flight, server, Queued
<1>4. QED
  BY <1>1, <1>2, <1>3 DEF Cloud, ServerAnswers

LEMMA EditSafe ==
  ASSUME Inv, TypeInv', NEW e \in Entity, Edit(e)
  PROVE  Inv' /\ Survives
<1> DEFINE row == Enqueued(e, nextOp, IntentPayload(e, EditOf(rev[e] + 1)), rev[e] + 1)
<1>0. /\ head \in [Entity -> Head] /\ doc \in [Entity -> Value] /\ rev \in [Entity -> Nat]
      /\ RowOK(e) /\ rev[e] \in Nat /\ nextOp \in Nat /\ TypeOK
  BY EntityFacts DEF Inv, TypeInv, TypeOK
<1>1. row = head'[e] /\ row \in Head /\ head' = [head EXCEPT ![e] = row]
  BY <1>0 DEF Edit, TypeInv, TypeOK
<1>2. /\ row.op = nextOp /\ row.status # "none" /\ row.rev = rev[e] + 1
      /\ row.val \in {Deferred, EditOf(rev[e] + 1)}
  BY <1>0 DEF Enqueued, RowOK, IntentPayload
<1>3. /\ doc'[e] = EditOf(rev[e] + 1) /\ rev'[e] = rev[e] + 1 /\ nextOp' = nextOp + 1
      /\ \A f \in Entity \ {e} : doc'[f] = doc[f] /\ rev'[f] = rev[f]
      /\ UNCHANGED <<attempts, st, batch, pc, log, net, reply, resolver>>
  BY <1>0 DEF Edit, flight, server
<1>4. Real(doc'[e])
  BY <1>3 DEF Real, EditOf
<1> HIDE DEF row
<1>5. QED
  BY <1>1, <1>2, <1>3, <1>4, FreshRow

LEMMA RetrySafe ==
  ASSUME Inv, TypeInv', NEW e \in Entity, RetryDeadLetter(e)
  PROVE  Inv' /\ Survives
<1>0. /\ head \in [Entity -> Head] /\ st \in [Entity -> EntityState] /\ nextOp \in Nat
      /\ Real(doc[e])
  BY EntityFacts DEF Inv, TypeInv, TypeOK
<1> DEFINE row == [op |-> nextOp, val |-> doc[e], rev |-> rev[e],
                   base |-> MaxOf(head[e].base, st[e].ver),
                   status |-> "pending", later |-> FALSE]
<1>1. /\ head' = [head EXCEPT ![e] = row] /\ row.op = nextOp
      /\ row.status = "pending" /\ row.rev = rev[e] /\ row.val = doc[e]
  BY DEF RetryDeadLetter
<1>2. head'[e] = row /\ head' \in [Entity -> Head]
  BY <1>0, <1>1 DEF TypeInv, TypeOK
<1>3. row \in Head
  BY <1>2
<1> HIDE DEF row
<1>4. /\ \A f \in Entity : st'[f].conflict => st'[f] = st[f]
      /\ UNCHANGED <<doc, rev, attempts, batch, pc, log, net, reply, resolver>>
      /\ nextOp' = nextOp + 1
  BY <1>0 DEF RetryDeadLetter, Synced, flight, server
<1>5. QED
  BY <1>0, <1>1, <1>3, <1>4, FreshRow

\* A choice that reads touches no row; e is in conflict, so not in the batch.
LEMMA ReadsSafe ==
  ASSUME Inv, TypeInv', NEW e \in Entity, KeepLocalReads(e) \/ UseRemoteReads(e)
  PROVE  Inv' /\ Survives
<1>0. /\ UNCHANGED <<doc, rev, head, attempts, st, nextOp, log, net, reply, batch, pc>>
      /\ st[e].conflict
      /\ \A f \in Entity \ {e} : resolver'[f] = resolver[f]
      /\ \/ resolver'[e] = [mode |-> "keep", val |-> doc[e], rev |-> rev[e]]
         \/ resolver'[e] = [mode |-> "remote", val |-> st[e].shadow, rev |-> 0]
  BY DEF KeepLocalReads, UseRemoteReads, device, flight, server, Inv, TypeInv, TypeOK
<1>1. ASSUME NEW f \in Entity PROVE (RowOK(f) /\ ConflictOK(f) /\ ChoiceOK(f) /\ Real(doc[f]))'
  <2>1. (RowOK(f) /\ ConflictOK(f) /\ Real(doc[f]))'
    BY <1>0, EntityFacts DEF RowOK, ConflictOK, Real, Recorded, Queued
  <2>2. ChoiceOK(f)'
    BY <1>0, EntityFacts DEF ChoiceOK, ConflictOK, Real, Recorded, Queued
  <2>3. QED
    BY <2>1, <2>2
<1>2. ASSUME NEW o \in batch' PROVE BatchOK(o)'
  <2>1. BatchOK(o) /\ o.e \in Entity
    BY <1>0 DEF Inv, Safe, TypeInv, TypeOK, Operation
  <2>2. o.e # e
    BY <1>0, <2>1 DEF BatchOK
  <2>3. QED
    BY <1>0, <2>1, <2>2 DEF BatchOK, SentAs, Real, Queued
<1>3. /\ RowsDiffer' /\ (\A a \in attempts' : AttemptOK(a)') /\ (\A c \in log' : LogOK(c)')
      /\ (\A req \in net' : \A o \in req : SentAs(o)' \in attempts')
      /\ ReplyOK' /\ nextOp' > 0 /\ NoLostEdit' /\ OperationImmutable'
  BY <1>0 DEF Inv, Safe, RowsDiffer, AttemptOK, LogOK, SentAs, Real, ReplyOK, NoLostEdit,
              OperationImmutable, Queued, Committed, Recorded
<1>4. Survives
  BY <1>0 DEF Survives, Queued
<1>5. QED
  BY <1>1, <1>2, <1>3, <1>4 DEF Inv, Safe

\* Keep-local enqueues the current content, or finds a newer row and leaves it:
\* in conflict, what it read is current unless a later edit is already queued.
LEMMA KeepSafe ==
  ASSUME Inv, TypeInv', NEW e \in Entity, KeepLocalCommits(e)
  PROVE  Inv' /\ Survives
<1>0. /\ head \in [Entity -> Head] /\ st \in [Entity -> EntityState] /\ nextOp \in Nat
      /\ resolver[e].mode = "keep" /\ resolver'[e] = NoChoice
      /\ UNCHANGED <<doc, rev, attempts, batch, pc, log, net, reply>>
      /\ RowOK(e) /\ ChoiceOK(e) /\ Real(doc[e])
      /\ rev[e] \in Nat /\ resolver[e].rev \in Nat
      /\ \A f \in Entity : resolver'[f] \in {resolver[f], NoChoice}
      /\ \A c \in log : LogOK(c)
      /\ \A req \in net : \A o \in req : SentAs(o) \in attempts
  BY EntityFacts DEF KeepLocalCommits, flight, server, Inv, Safe, TypeInv, TypeOK
<1>1. ReplyOK'
  BY <1>0 DEF Inv, Safe, ReplyOK, Committed, Recorded, Real
<1>2. CASE ~st[e].conflict
  BY <1>0, <1>1, <1>2, QuietStep DEF KeepLocalCommits, Queued
<1>3. CASE st[e].conflict
  <2> DEFINE row == CASE Capture[e] = "eager" -> Enqueued(e, nextOp, doc[e], rev[e])
                      [] Capture[e] = "deferred" -> Enqueued(e, nextOp, Deferred, rev[e])
                      [] OTHER -> Enqueued(e, nextOp, resolver[e].val, resolver[e].rev)
             based == [row EXCEPT !.base = st[e].ver]
  <2>1. /\ head' = [head EXCEPT ![e] = based] /\ nextOp' = nextOp + 1
        /\ \A f \in Entity : st'[f].conflict => st'[f] = st[f]
    BY <1>0, <1>3 DEF KeepLocalCommits, Synced
  <2>2. head'[e] = based /\ based \in Head
    BY <1>0, <2>1 DEF TypeInv, TypeOK
  <2>3. Capture[e] \in {"eager", "deferred", "snapshot"}
    BY CaptureAssumption
  <2>4. \/ row = head[e] /\ Queued(e)
        \/ /\ row.op = nextOp /\ row.status = "pending" /\ row.rev = rev[e]
           /\ row.val \in {Deferred, doc[e]}
    <3>1. CASE Capture[e] = "eager"
      BY <1>0, <3>1 DEF Enqueued, RowOK
    <3>2. CASE Capture[e] = "deferred"
      BY <1>0, <3>2 DEF Enqueued, RowOK
    <3>3. CASE Capture[e] = "snapshot"
      <4>1. resolver[e].rev <= rev[e] /\ (resolver[e].rev = rev[e] => resolver[e].val = doc[e])
            /\ (~Queued(e) => resolver[e].rev = rev[e])
        BY <1>0, <1>3 DEF ChoiceOK
      <4>2. row = Enqueued(e, nextOp, resolver[e].val, resolver[e].rev)
        BY <3>3
      <4> HIDE DEF row
      <4>3. CASE ~Queued(e)
        BY <4>1, <4>2, <4>3 DEF Enqueued
      <4>4. CASE Queued(e) /\ resolver[e].rev >= head[e].rev
        <5>1. resolver[e].rev = rev[e]
          BY <1>0, <4>1, <4>4 DEF RowOK
        <5>2. QED
          BY <4>1, <4>2, <4>4, <5>1 DEF Enqueued
      <4>5. CASE Queued(e) /\ ~(resolver[e].rev >= head[e].rev)
        BY <4>2, <4>5 DEF Enqueued
      <4>6. QED
        BY <4>3, <4>4, <4>5
    <3>4. QED
      BY <2>3, <3>1, <3>2, <3>3
  <2> HIDE DEF row
  <2>5. CASE row = head[e] /\ Queued(e)
    <3>1. based = [head[e] EXCEPT !.base = st[e].ver] /\ head[e] \in Head
      BY <1>0, <2>5
    <3>2. ASSUME NEW f \in Entity
          PROVE  /\ head'[f].op = head[f].op /\ head'[f].val = head[f].val
                 /\ head'[f].rev = head[f].rev /\ (Queued(f)' <=> Queued(f))
                 /\ ~Queued(f) => head'[f] = head[f]
      BY <1>0, <2>1, <2>2, <2>5, <3>1 DEF Queued, Head
    <3>3. QED
      BY <1>0, <1>1, <2>1, <3>2, QuietStep
  <2>6. CASE row.op = nextOp /\ row.status = "pending" /\ row.rev = rev[e]
             /\ row.val \in {Deferred, doc[e]}
    <3>1. row \in Head
      BY <1>0, <2>3, EnqueuedType, ValueTypes DEF row, Inv, TypeInv, TypeOK
    <3>2. /\ based.op = nextOp /\ based.status = "pending" /\ based.rev = rev[e]
          /\ based.val \in {Deferred, doc[e]}
      BY <2>6, <3>1 DEF Head
    <3>3. QED
      BY <1>0, <2>1, <2>2, <3>2, FreshRow
  <2>7. QED
    BY <2>4, <2>5, <2>6
<1>4. QED
  BY <1>2, <1>3

\* Use-remote empties the row; what it applies is the server's.
LEMMA RemoteSafe ==
  ASSUME Inv, TypeInv', NEW e \in Entity, UseRemoteCommits(e)
  PROVE  Inv' /\ Survives
<1>0. /\ UNCHANGED <<attempts, nextOp, batch, pc, log, net, reply>>
      /\ resolver[e].mode = "remote" /\ resolver'[e] = NoChoice
      /\ doc'[e] = resolver[e].val /\ head'[e] = NoHead /\ ~st'[e].conflict
      /\ \A f \in Entity \ {e} : /\ doc'[f] = doc[f] /\ rev'[f] = rev[f] /\ head'[f] = head[f]
                                 /\ st'[f] = st[f] /\ resolver'[f] = resolver[f]
      /\ Real(resolver[e].val) /\ Recorded(e, resolver[e].val)
  BY EntityFacts DEF UseRemoteCommits, flight, server, Inv, TypeInv, TypeOK, Synced, ChoiceOK
<1>1. ASSUME NEW f \in Entity PROVE (RowOK(f) /\ ConflictOK(f) /\ ChoiceOK(f) /\ Real(doc[f]))'
  <2>1. CASE f = e
    BY <1>0, <2>1 DEF RowOK, ConflictOK, ChoiceOK, Real, Queued, NoHead, NoChoice
  <2>2. CASE f # e
    <3>1. (RowOK(f) /\ Real(doc[f]))'
      BY <1>0, <2>2, EntityFacts DEF RowOK, Real, Queued
    <3>2. (ConflictOK(f) /\ ChoiceOK(f))'
      BY <1>0, <2>2, EntityFacts DEF ConflictOK, ChoiceOK, Real, Recorded, Queued
    <3>3. QED
      BY <3>1, <3>2
  <2>3. QED
    BY <2>1, <2>2
<1>2. RowsDiffer'
  BY <1>0 DEF Inv, Safe, RowsDiffer, NoHead
<1>3. \A a \in attempts' : AttemptOK(a)'
  BY <1>0 DEF Inv, Safe, AttemptOK, NoHead, Real
<1>4. ASSUME NEW o \in batch' PROVE BatchOK(o)'
  <2>1. BatchOK(o) /\ o.e \in Entity
    BY <1>0 DEF Inv, Safe, TypeInv, TypeOK, Operation
  <2>2. CASE o.e = e
    BY <1>0, <2>1, <2>2 DEF BatchOK, SentAs, Real, NoHead, NoChoice
  <2>3. CASE o.e # e
    BY <1>0, <2>1, <2>3 DEF BatchOK, SentAs, Real, Queued
  <2>4. QED
    BY <2>2, <2>3
<1>5. NoLostEdit'
  BY <1>0 DEF Inv, Safe, NoLostEdit, Recorded, Queued
<1>6. /\ (\A c \in log' : LogOK(c)')
      /\ (\A req \in net' : \A o \in req : SentAs(o)' \in attempts')
      /\ ReplyOK' /\ nextOp' > 0 /\ OperationImmutable'
  BY <1>0 DEF Inv, Safe, LogOK, SentAs, Real, ReplyOK, OperationImmutable, Committed, Recorded
<1>7. Survives
  BY <1>0 DEF Survives, Queued
<1>8. QED
  BY <1>1, <1>2, <1>3, <1>4, <1>5, <1>6, <1>7 DEF Inv, Safe

LEMMA InitSafe == Init => Inv
<1> SUFFICES ASSUME Init PROVE Inv
  OBVIOUS
<1>1. TypeInv
  BY InitType
<1>2. PICK order \in Bijection(Entity, 1..Total) :
        head = [e \in Entity |-> [op |-> order[e], val |-> EditOf(1), base |-> 0,
                                  rev |-> 1, status |-> "pending", later |-> FALSE]]
  BY DEF Init
<1>3. /\ order \in [Entity -> 1..Total]
      /\ \A e, f \in Entity : order[e] = order[f] => e = f
  BY <1>2 DEF Bijection, Injection, IsInjective
<1>4. nextOp = Total + 1 /\ Total \in Nat
  BY TotalType DEF Init
<1>5. ASSUME NEW e \in Entity
      PROVE  RowOK(e) /\ ConflictOK(e) /\ ChoiceOK(e) /\ Real(doc[e])
  <2>1. head[e].op \in 1..Total /\ head[e].val = EditOf(1) /\ head[e].rev = 1
        /\ head[e].status = "pending" /\ doc[e] = EditOf(1) /\ rev[e] = 1
    BY <1>2, <1>3 DEF Init
  <2>2. RowOK(e)
    BY <1>4, <2>1 DEF RowOK, Queued
  <2>3. ConflictOK(e) /\ ChoiceOK(e)
    BY DEF Init, ConflictOK, ChoiceOK, Synced, NoChoice
  <2>4. Real(doc[e])
    BY <2>1 DEF Real, EditOf
  <2>5. QED
    BY <2>2, <2>3, <2>4
<1>6. RowsDiffer
  BY <1>2, <1>3 DEF RowsDiffer
<1>7. NoLostEdit
  BY <1>2 DEF NoLostEdit, Queued
<1>8. attempts = {} /\ batch = {} /\ log = {} /\ net = {} /\ reply.kind = "none"
  BY DEF Init, NoReply
<1>9. QED
  BY <1>1, <1>4, <1>5, <1>6, <1>7, <1>8 DEF Inv, Safe, ReplyOK, OperationImmutable

LEMMA StepSafe == Inv /\ [Next]_vars => Inv' /\ [Survives]_vars
<1> SUFFICES ASSUME Inv, [Next]_vars PROVE Inv' /\ (Survives \/ UNCHANGED vars)
  OBVIOUS
<1>0. TypeInv'
  BY NextType DEF Inv
<1>1. CASE User
  BY <1>0, <1>1, EditSafe, ReadsSafe, KeepSafe, RemoteSafe, RetrySafe DEF User
<1>2. CASE Pull
  BY <1>0, <1>2, RoundSafe, PullSafe DEF Pull
<1>3. CASE Push
  BY <1>0, <1>3, RoundSafe, SelectSafe, BuildSafe, SendSafe, AppliedSafe, ConflictSafe,
     FailedPushSafe DEF Push
<1>4. CASE Cloud
  BY <1>0, <1>4, CloudSafe
<1>5. CASE UNCHANGED vars
  BY <1>0, <1>5 DEF vars, Inv, Safe, RowOK, ConflictOK, ChoiceOK, RowsDiffer, AttemptOK, BatchOK,
     LogOK, ReplyOK, NoLostEdit, OperationImmutable, Real, Recorded, Queued, Committed, SentAs
<1>6. QED
  BY <1>0, <1>1, <1>2, <1>3, <1>4, <1>5, RoundSafe DEF Next

LEMMA Invariance == Spec => []Inv
BY InitSafe, StepSafe, PTL DEF Spec

\* An edit shown on this device is queued or the server has it, in every
\* behaviour: whatever is lost, answered late, retried, resolved or restarted.
THEOREM NoEditIsLost == Spec => []NoLostEdit
<1>1. Inv => NoLostEdit
  BY DEF Inv, Safe
<1>2. QED
  BY <1>1, Invariance, PTL

\* An operation id is only ever sent with one entity and one payload, so the
\* server may answer a repeated id without looking at what it carries.
THEOREM OperationsAreImmutable == Spec => []OperationImmutable
<1>1. Inv => OperationImmutable
  BY DEF Inv, Safe
<1>2. QED
  BY <1>1, Invariance, PTL

\* A queued row leaves the outbox only when the server has its operation or
\* the user takes the remote side.
THEOREM IntentsSurvive == Spec => IntentSurvives
<1>1. Survives <=> (\A e \in Entity : Queued(e) /\ head'[e].status = "none" =>
       \/ \E c \in log : c.op = head[e].op
       \/ resolver[e].mode = "remote" /\ resolver'[e] = NoChoice)
  BY DEF Survives
<1>2. [Survives]_vars => [\A e \in Entity : Queued(e) /\ head'[e].status = "none" =>
       \/ \E c \in log : c.op = head[e].op
       \/ resolver[e].mode = "remote" /\ resolver'[e] = NoChoice]_vars
  BY <1>1
<1>3. Inv /\ [Next]_vars => [Survives]_vars
  BY StepSafe
<1>4. QED
  BY <1>2, <1>3, Invariance, PTL DEF Spec, IntentSurvives

-----------------------------------------------------------------------------
(* What rests on the order of the change stream. *)

(* The invariants. *)

Foreign(c) == c.op = OtherDevice
Pulled(c) == c.cur <= cursor

\* The change stream: cursors and versions count up, an operation is committed once.
Stream ==
  /\ cursor <= top
  /\ \A c \in log : c.cur \in 1..top /\ c.ver \in 1..sver[c.e]
  /\ \A c, d \in log : /\ c.cur = d.cur => c = d
                       /\ c.e = d.e => (c.cur < d.cur <=> c.ver < d.ver)
                       /\ c.op = d.op /\ ~Foreign(c) => c = d
  /\ \A e \in Entity : sver[e] > 0 => \E c \in log : c.e = e /\ c.ver = sver[e]

\* No version that the device or a request names is ahead of the server.
Behind ==
  /\ NeverAhead
  /\ \A o \in batch : o.base <= sver[o.e]
  /\ \A req \in net : \A o \in req : o.base <= sver[o.e]
  /\ reply.kind = "applied" => \A e \in Entity : reply.ver[e] <= sver[e]
  /\ reply.kind = "conflict" => reply.ver \in 1..sver[reply.e]

\* A request carries an entity once.
Single(req) == \A o, p \in req : o.e = p.e => o = p

Ordered == Stream /\ Behind /\ Single(batch) /\ \A req \in net : Single(req)

\* Every foreign change of e up to version v has been pulled.
KnownIn(changes, pulled, e, v) ==
  \A c \in changes : Foreign(c) /\ c.e = e /\ c.ver <= v => c.cur <= pulled
Known(e, v) == KnownIn(log, cursor, e, v)

Pushing == {"check", "push", "build", "mark", "await"}

\* The device pulls before it pushes: what it pushes on top of, it has seen.
Seen ==
  /\ pc \in Pushing =>
       \A e \in Entity : Known(e, st[e].ver) /\ Known(e, head[e].base)
  /\ \A o \in batch : Known(o.e, o.base)
  /\ \A req \in net : \A o \in req : Known(o.e, o.base)
  /\ \A d \in log : ~Foreign(d) => Known(d.e, d.ver)
  /\ reply.kind = "applied" => \A e \in Entity : reply.ver[e] > 0 =>
       \E o \in batch, d \in log : o.e = e /\ d.op = o.op /\ d.e = e /\ d.ver = reply.ver[e]

\* A request that the server would still take.
Live(o) == ~Committed(o) /\ o.base = sver[o.e]

LiveOK(o) == Live(o) => Queued(o.e) /\ head[o.e].base = o.base /\ ~st[o.e].conflict

SelectedOK(o) ==
  /\ Queued(o.e) /\ head[o.e].base = o.base
  /\ head[o.e].op # o.op => \A a \in attempts : a.op # head[o.e].op
  /\ reply.kind = "conflict" /\ o.e = reply.e => ~Committed(o) /\ o.base < reply.ver

\* What is committed under the id of a row is the last of this device, and not pulled.
AckedOK(e) ==
  \A c \in log : Queued(e) /\ c.op = head[e].op =>
    /\ head[e].base < c.ver /\ ~Pulled(c) /\ ~st[e].conflict
    /\ \A d \in log : d.e = e /\ ~Foreign(d) => d.ver <= c.ver

\* Whatever follows version v of e is another device's and will be pulled.
LatestIn(changes, pulled, e, v, x) ==
  /\ \E c \in changes : c.e = e /\ c.ver = v /\ c.val = x
  /\ \A d \in changes : d.e = e /\ d.ver > v => Foreign(d) /\ ~(d.cur <= pulled)
Latest(e, v, x) == LatestIn(log, cursor, e, v, x)

ShowsOK(e) ==
  /\ st[e].conflict => Queued(e) /\ Latest(e, st[e].ver, st[e].shadow)
  /\ ~Queued(e) => \E c \in log : Latest(e, c.ver, doc[e])
  /\ Queued(e) /\ ~st[e].conflict => st[e].ver <= head[e].base
  /\ resolver[e].mode = "remote" => st[e].conflict /\ resolver[e].val = st[e].shadow

Rows ==
  /\ \A req \in net : \A o \in req : LiveOK(o)
  /\ \A o \in batch : SelectedOK(o)
  /\ \A e \in Entity : AckedOK(e) /\ ShowsOK(e)
  /\ reply.kind = "conflict" => Latest(reply.e, reply.ver, reply.val)

\* A queued row holds the newest content, which is committed, if at all, under its id.
RowIsNew(e) ==
  Queued(e) => /\ doc[e] = EditOf(rev[e])
               /\ \A c \in log : c.e = e /\ c.val = doc[e] => c.op = head[e].op

\* What the server would still take of a request is new to it.
RequestIsNew(o) ==
  Live(o) => /\ ~\E c \in log : c.e = o.e /\ c.val = o.val
             /\ o.val = doc[o.e] => o.op = head[o.e].op

Fresh ==
  /\ \A e \in Entity : RowIsNew(e)
  /\ \A a \in attempts : a.val.by = "device" /\ a.val.n <= rev[a.e]
  /\ \A c \in log : Foreign(c) => c.val = WriteOf(c.ver)
  /\ \A req \in net : \A o \in req : RequestIsNew(o)

-----------------------------------------------------------------------------
(* What the earlier invariant says of rows, changes and requests. *)

LEMMA RowFacts ==
  ASSUME Inv, NEW e \in Entity
  PROVE  /\ head[e] \in Head /\ head[e].op \in Nat /\ head[e].base \in Nat
         /\ st[e] \in EntityState /\ st[e].ver \in Nat /\ sver[e] \in Nat
         /\ st[e].conflict \in BOOLEAN
         /\ Queued(e) => head[e].op \in 1..(nextOp - 1) /\ head[e].rev = rev[e]
         /\ ~Queued(e) => head[e] = NoHead /\ head[e].op = 0 /\ head[e].base = 0
<1>1. RowOK(e) /\ head[e] \in Head /\ st[e] \in EntityState /\ sver[e] \in Nat
  BY EntityFacts DEF Inv, TypeInv, TypeOK
<1>2. QED
  BY <1>1 DEF RowOK, NoHead, Head, EntityState

LEMMA StreamFacts ==
  ASSUME Inv
  PROVE  /\ cursor \in Nat /\ top \in Nat /\ nextOp \in Nat
         /\ \A c \in log : /\ c \in Change /\ c.e \in Entity /\ c.op \in Nat /\ c.cur \in Nat
                           /\ c.ver \in Nat
                           /\ ~Foreign(c) => SentAs(c) \in attempts /\ c.op \in 1..(nextOp - 1)
                           /\ Foreign(c) => c.op = 0
<1>1. /\ cursor \in Nat /\ top \in Nat /\ nextOp \in Nat /\ log \subseteq Change
      /\ \A c \in log : LogOK(c) /\ \A a \in attempts : AttemptOK(a)
  BY DEF Inv, Safe, TypeInv, TypeOK
<1>2. ASSUME NEW c \in log
      PROVE  /\ c \in Change /\ c.e \in Entity /\ c.op \in Nat /\ c.cur \in Nat /\ c.ver \in Nat
             /\ ~Foreign(c) => SentAs(c) \in attempts /\ c.op \in 1..(nextOp - 1)
  <2>1. c \in Change /\ LogOK(c)
    BY <1>1
  <2>2. ASSUME SentAs(c) \in attempts PROVE c.op \in 1..(nextOp - 1)
    BY <1>1, <2>2 DEF AttemptOK, SentAs
  <2>3. QED
    BY <2>1, <2>2 DEF Change, LogOK, Foreign
<1>3. QED
  BY <1>1, <1>2 DEF Foreign, OtherDevice

LEMMA BatchFacts ==
  ASSUME Inv, NEW o \in batch
  PROVE  /\ o \in Operation /\ o.e \in Entity /\ o.base \in Nat /\ o.op \in 1..(nextOp - 1)
         /\ ~st[o.e].conflict /\ pc \in {"build", "mark", "await"}
         /\ pc = "await" => SentAs(o) \in attempts
<1>1. o \in Operation /\ BatchOK(o)
  BY DEF Inv, Safe, TypeInv, TypeOK
<1>2. QED
  BY <1>1 DEF Operation, BatchOK

LEMMA RequestFacts ==
  ASSUME Inv, NEW req \in net, NEW o \in req
  PROVE  /\ o \in Operation /\ o.e \in Entity /\ o.base \in Nat /\ o.op \in 1..(nextOp - 1)
         /\ SentAs(o) \in attempts
<1>1. o \in Operation /\ SentAs(o) \in attempts /\ AttemptOK(SentAs(o))
  BY DEF Inv, Safe, TypeInv, TypeOK
<1>2. QED
  BY <1>1 DEF Operation, AttemptOK, SentAs

\* A change under the id of an operation that was sent is that operation's.
LEMMA SameOperation ==
  ASSUME Inv, NEW o, SentAs(o) \in attempts, NEW c \in log, c.op = o.op
  PROVE  c.e = o.e /\ c.val = o.val /\ ~Foreign(c)
<1>1. AttemptOK(SentAs(o)) /\ OperationImmutable
  BY DEF Inv, Safe
<1>2. o.op # 0
  BY <1>1 DEF AttemptOK, SentAs
<1>3. ~Foreign(c)
  BY <1>2 DEF Foreign, OtherDevice
<1>7. SentAs(c) \in attempts
  BY <1>3, StreamFacts
<1>4. SentAs(c).op = SentAs(o).op
  BY DEF SentAs
<1>5. SentAs(c) = SentAs(o)
  BY <1>1, <1>7, <1>4 DEF OperationImmutable
<1>6. QED
  BY <1>3, <1>5 DEF SentAs

\* The id the generator gives next was never sent, nor committed.
LEMMA FreshId ==
  ASSUME Inv
  PROVE  (\A a \in attempts : a.op # nextOp /\ a.op # 0) /\ (\A c \in log : c.op # nextOp)
<1>1. nextOp > 0 /\ \A a \in attempts : AttemptOK(a)
  BY DEF Inv, Safe
<1>2. \A a \in attempts : a.op # nextOp /\ a.op # 0
  BY <1>1, StreamFacts DEF AttemptOK
<1>3. \A c \in log : c.op # nextOp
  BY <1>1, StreamFacts
<1>4. QED
  BY <1>2, <1>3

\* Without an answer being awaited the flight holds none.
LEMMA NoAnswer ==
  ASSUME Inv, pc # "await"
  PROVE  reply.kind = "none" /\ reply = NoReply
BY DEF Inv, Safe, ReplyOK, TypeInv, TypeOK, Reply, NoReply

LEMMA ReplyFacts ==
  ASSUME Inv
  PROVE  /\ reply.kind \in {"none", "applied", "conflict"}
         /\ reply.kind = "applied" =>
              /\ pc = "await" /\ \A o \in batch : Committed(o)
              /\ \A e \in Entity : reply.ver[e] \in Nat
         /\ reply.kind = "conflict" =>
              /\ pc = "await" /\ reply.e \in Entity /\ reply.ver \in Nat
              /\ \E o \in batch : o.e = reply.e
BY DEF Inv, Safe, ReplyOK, TypeInv, TypeOK, Reply, NoReply

-----------------------------------------------------------------------------
(* Steps that move no version, no row and no document. *)

\* The user's reads, the beginnings and ends of rounds, and whatever leaves
\* each row its operation id and base.
Calm ==
  /\ UNCHANGED <<doc, rev, st, cursor, log, sver, top>>
  /\ \A e \in Entity : /\ head'[e].op = head[e].op /\ head'[e].base = head[e].base
                       /\ Queued(e)' <=> Queued(e)
  /\ \A o \in batch' : \E p \in batch : o.op = p.op /\ o.e = p.e /\ o.base = p.base
  /\ Single(batch) => Single(batch')
  /\ \A req \in net' : req \in net \/ req = batch
  /\ attempts' = attempts \/ AllStillCurrent
  /\ reply' = NoReply \/ (reply' = reply /\ batch' = batch)
  /\ pc' \in Pushing => pc \in Pushing \/ cursor = top
  /\ \A e \in Entity : resolver'[e].mode = "remote" =>
       resolver'[e] = resolver[e] \/ (st[e].conflict /\ resolver'[e].val = st[e].shadow)

LEMMA StillCalm ==
  ASSUME Inv,
         UNCHANGED <<doc, rev, st, cursor, log, sver, top, attempts, net>>,
         \A e \in Entity : /\ head'[e].op = head[e].op /\ head'[e].base = head[e].base
                           /\ Queued(e)' <=> Queued(e),
         (batch' = {} /\ reply' = NoReply) \/ UNCHANGED <<batch, reply>>,
         pc' \in Pushing => pc \in Pushing \/ cursor = top,
         \A e \in Entity : resolver'[e] \in {resolver[e], NoChoice}
  PROVE  Calm
<1>1. Single({}) /\ NoChoice.mode # "remote"
  BY DEF Single, NoChoice
<1>2. \A e \in Entity : resolver'[e].mode = "remote" => resolver'[e] = resolver[e]
  BY <1>1
<1>3. \A o \in batch' : \E p \in batch : o.op = p.op /\ o.e = p.e /\ o.base = p.base
  OBVIOUS
<1>4. reply' = NoReply \/ (reply' = reply /\ batch' = batch)
  OBVIOUS
<1>5. Single(batch) => Single(batch')
  BY <1>1
<1>6. QED
  BY <1>2, <1>3, <1>4, <1>5 DEF Calm

\* The beginning of a round, its ends, and the steps that only find nothing.
LEMMA IdleCalm ==
  ASSUME Inv,
         (\E expired \in SUBSET InFlight : StartRound(expired)) \/ Crash \/ PullNothing
           \/ PullFails \/ CheckBeforePush \/ NothingDue \/ MarkFails \/ FinishPush
           \/ CloseRound \/ Reenable
  PROVE  Calm
<1>0. /\ head \in [Entity -> Head]
      /\ resolver \in [Entity -> [mode : {"none", "keep", "remote"}, val : Value, rev : Nat]]
  BY DEF Inv, TypeInv, TypeOK
<1>1. CASE \E expired \in SUBSET InFlight : StartRound(expired)
  <2>1. PICK expired \in SUBSET InFlight : StartRound(expired)
    BY <1>1
  <2>2. ASSUME NEW e \in Entity
        PROVE  /\ head'[e].op = head[e].op /\ head'[e].base = head[e].base
               /\ Queued(e)' <=> Queued(e)
    <3>1. head'[e] = IF e \in expired
                     THEN [head[e] EXCEPT !.status = "pending", !.later = FALSE] ELSE head[e]
      BY <2>1, Zenon DEF StartRound
    <3>2. e \in expired => Queued(e)
      BY DEF InFlight, Queued
    <3>3. QED
      BY <1>0, <3>1, <3>2 DEF Queued, Head
  <2>3. /\ UNCHANGED <<doc, rev, st, cursor, log, sver, top, attempts, net, batch, reply, resolver>>
        /\ pc' \notin Pushing
    BY <2>1 DEF StartRound, server, Pushing
  <2>4. QED
    BY <2>2, <2>3, StillCalm
<1>2. CASE ~\E expired \in SUBSET InFlight : StartRound(expired)
  <2>1. head' = head
    BY <1>2 DEF Crash, PullNothing, PullFails, CheckBeforePush, NothingDue, MarkFails,
       FinishPush, CloseRound, Reenable, device
  <2>2. \A e \in Entity : /\ head'[e].op = head[e].op /\ head'[e].base = head[e].base
                          /\ Queued(e)' <=> Queued(e)
    BY <2>1 DEF Queued
  <2>3. CASE Crash
    BY <2>2, <2>3, StillCalm DEF Crash, Rest, device, server, Pushing
  <2>4. CASE PullNothing
    BY <2>2, <2>4, StillCalm DEF PullNothing, Next1, device, server, Pushing
  <2>5. CASE PullFails
    BY <2>2, <2>5, StillCalm DEF PullFails, Fail, Rest, server, Pushing
  <2>6. CASE CheckBeforePush
    BY <2>2, <2>6, StillCalm DEF CheckBeforePush, Rest, server, Pushing
  <2>7. CASE NothingDue
    BY <2>2, <2>7, StillCalm DEF NothingDue, device, server, Pushing
  <2>8. CASE MarkFails
    BY <2>2, <2>8, StillCalm DEF MarkFails, Fail, Rest, server, Pushing
  <2>9. CASE FinishPush
    <3>1. /\ UNCHANGED <<doc, rev, st, cursor, log, sver, top, attempts, net, resolver>>
          /\ (batch' = {} /\ reply' = NoReply) \/ UNCHANGED <<batch, reply>>
          /\ pc' \in {"idle", "pull2", "close"}
      BY <2>9 DEF FinishPush, Rest, server
    <3>2. QED
      BY <2>2, <3>1, StillCalm DEF Pushing
  <2>10. CASE CloseRound
    BY <2>2, <2>10, StillCalm DEF CloseRound, Rest, server, Pushing
  <2>11. CASE Reenable
    BY <2>2, <2>11, StillCalm DEF Reenable, flight, server, Pushing
  <2>12. QED
    BY <1>2, <2>3, <2>4, <2>5, <2>6, <2>7, <2>8, <2>9, <2>10, <2>11
<1>3. QED
  BY <1>1, <1>2

LEMMA ReadsCalm ==
  ASSUME Inv, NEW e \in Entity, KeepLocalReads(e) \/ UseRemoteReads(e)
  PROVE  Calm
<1>1. /\ UNCHANGED <<device, flight, server, net, reply>>
      /\ resolver \in [Entity -> [mode : {"none", "keep", "remote"}, val : Value, rev : Nat]]
  BY DEF KeepLocalReads, UseRemoteReads, Inv, TypeInv, TypeOK
<1>2. UNCHANGED <<doc, rev, head, attempts, st, cursor, log, sver, top, pc, batch, net, reply>>
  BY <1>1 DEF device, flight, server
<1>3. ASSUME NEW f \in Entity, resolver'[f].mode = "remote"
      PROVE  resolver'[f] = resolver[f] \/ (st[f].conflict /\ resolver'[f].val = st[f].shadow)
  BY <1>1, <1>3 DEF KeepLocalReads, UseRemoteReads
<1>4. QED
  BY <1>2, <1>3 DEF Calm, Queued

\* Rows change only their status; an empty answer and an empty batch.
LEMMA FailedPushCalm ==
  ASSUME Inv,
         PushUnknown \/ PushNotSent(batch) \/ PushReleased
           \/ \E o \in batch : PushPermanent(o) \/ PushNotSent({o})
  PROVE  Calm
<1>0. head \in [Entity -> Head]
  BY DEF Inv, TypeInv, TypeOK
<1>1. PICK waiting, o : PushUnknown \/ PushNotSent(waiting) \/ PushReleased \/ PushPermanent(o)
  OBVIOUS
<1>2. /\ UNCHANGED <<doc, rev, st, cursor, log, sver, top, attempts, resolver>>
      /\ batch' = {} /\ reply' = NoReply /\ pc' = "idle"
  <2>1. CASE PushUnknown
    BY <2>1 DEF PushUnknown, server, Fail, Rest
  <2>2. CASE PushNotSent(waiting)
    BY <2>2 DEF PushNotSent, server, Fail, Rest
  <2>3. CASE PushReleased
    BY <2>3 DEF PushReleased, server, Rest
  <2>4. CASE PushPermanent(o)
    BY <2>4 DEF PushPermanent, server, Fail, Rest
  <2>5. QED
    BY <1>1, <2>1, <2>2, <2>3, <2>4
<1>3. net' \subseteq net
  BY <1>1 DEF PushUnknown, PushNotSent, PushReleased, PushPermanent
<1>4. ASSUME NEW e \in Entity
      PROVE  /\ head'[e].op = head[e].op /\ head'[e].base = head[e].base
             /\ Queued(e)' <=> Queued(e)
  <2>1. Mine(e) => Queued(e)
    BY MineIsQueued
  <2>2. CASE PushUnknown
    <3>1. head'[e] = IF Mine(e) /\ head[e].status = "in_flight"
                     THEN [head[e] EXCEPT !.status = "uncertain", !.later = TRUE] ELSE head[e]
      BY <2>2, Zenon DEF PushUnknown
    <3>2. QED
      BY <1>0, <2>1, <3>1 DEF Queued, Head
  <2>3. CASE PushNotSent(waiting)
    <3> DEFINE l == \E p \in waiting : p.e = e
    <3>1. head'[e] = IF Mine(e) THEN [head[e] EXCEPT !.status = "pending", !.later = l]
                     ELSE head[e]
      BY <2>3, Zenon DEF PushNotSent
    <3> HIDE DEF l
    <3>2. QED
      BY <1>0, <2>1, <3>1 DEF Queued, Head
  <2>4. CASE PushReleased
    <3>1. head'[e] = IF Mine(e) THEN [head[e] EXCEPT !.status = "pending", !.later = FALSE]
                     ELSE head[e]
      BY <2>4, Zenon DEF PushReleased, Settled
    <3>2. QED
      BY <1>0, <2>1, <3>1 DEF Queued, Head
  <2>5. CASE PushPermanent(o)
    <3> DEFINE s == IF e = o.e THEN "dead" ELSE "pending"
    <3>1. head'[e] = IF Mine(e) THEN [head[e] EXCEPT !.status = s, !.later = FALSE]
                     ELSE head[e]
      BY <2>5, Zenon DEF PushPermanent
    <3>2. s # "none"
      OBVIOUS
    <3> HIDE DEF s
    <3>3. QED
      BY <1>0, <2>1, <3>1, <3>2 DEF Queued, Head
  <2>6. QED
    BY <1>1, <2>2, <2>3, <2>4, <2>5
<1>5. Single({}) /\ "idle" \notin Pushing
  BY DEF Single, Pushing
<1>6. QED
  BY <1>2, <1>3, <1>4, <1>5 DEF Calm

\* A payload is captured or a row parked: ids and bases stay.
LEMMA BuildCalm ==
  ASSUME Inv, BuildBatch
  PROVE  Calm
<1> DEFINE kept == {o \in batch : o.val # Deferred \/ CanMaterialize(o)}
           fill(o) == IF o.val = Deferred THEN [o EXCEPT !.val = doc[o.e]] ELSE o
           filled == {fill(o) : o \in kept}
           row(e) == IF \E o \in kept : o.e = e /\ o.val = Deferred
                     THEN [head[e] EXCEPT !.val = doc[e]] ELSE head[e]
<1>0. /\ UNCHANGED <<doc, rev, attempts, st, cursor, resolver, log, sver, top, net, reply>>
      /\ pc = "build" /\ head \in [Entity -> Head] /\ batch \subseteq Operation
  BY DEF BuildBatch, server, Inv, TypeInv, TypeOK
<1>9. pc \in Pushing /\ reply = NoReply
  BY <1>0, NoAnswer DEF Pushing
<1>1. PICK parked \in SUBSET filled :
          /\ IF parked = {} THEN UNCHANGED spent ELSE Fault
          /\ head' = [e \in Entity |->
                        IF \E o \in parked : o.e = e /\ o.op = head[e].op
                        THEN [row(e) EXCEPT !.status = "dead", !.later = FALSE]
                        ELSE row(e)]
          /\ batch' = filled \ parked
          /\ pc' = IF filled # parked THEN "mark" ELSE IF parked # {} THEN "push" ELSE "drained"
          /\ pushed' = (pushed \/ (filled = parked /\ parked # {}))
  BY DEF BuildBatch
<1>2. \A o \in kept : /\ fill(o).op = o.op /\ fill(o).e = o.e /\ fill(o).base = o.base
                      /\ o \in batch
  BY <1>0 DEF Operation
<1>3. ASSUME NEW o \in filled
      PROVE  \E p \in batch : o = fill(p) /\ o.op = p.op /\ o.e = p.e /\ o.base = p.base
  <2>1. PICK p \in kept : o = fill(p)
    OBVIOUS
  <2>2. QED
    BY <1>2, <2>1
<1>4. ASSUME NEW e \in Entity
      PROVE  /\ row(e) \in Head \/ row(e) = [head[e] EXCEPT !.val = doc[e]]
             /\ row(e).op = head[e].op /\ row(e).base = head[e].base
             /\ row(e).status = head[e].status
  BY <1>0 DEF Head
<1>5. ASSUME NEW e \in Entity
      PROVE  /\ head'[e].op = head[e].op /\ head'[e].base = head[e].base
             /\ Queued(e)' <=> Queued(e)
  <2>1. ASSUME NEW o \in parked, o.e = e /\ o.op = head[e].op PROVE Queued(e)
    <3>1. PICK p \in batch : o.op = p.op
      BY <1>3
    <3>2. p.op # 0
      BY BatchFacts
    <3>3. QED
      BY <2>1, <3>1, <3>2, RowFacts
  <2>2. head'[e] = IF \E o \in parked : o.e = e /\ o.op = head[e].op
                   THEN [row(e) EXCEPT !.status = "dead", !.later = FALSE] ELSE row(e)
    BY <1>1
  <2>3. row(e) = IF \E o \in kept : o.e = e /\ o.val = Deferred
                 THEN [head[e] EXCEPT !.val = doc[e]] ELSE head[e]
    OBVIOUS
  <2> HIDE DEF row
  <2>4. QED
    BY <1>0, <1>4, <2>1, <2>2, <2>3 DEF Queued, Head
<1>6. \A o \in batch' : \E p \in batch : o.op = p.op /\ o.e = p.e /\ o.base = p.base
  BY <1>1, <1>3
<1>7. Single(batch) => Single(batch')
  <2>1. SUFFICES ASSUME Single(batch), NEW o \in batch', NEW p \in batch', o.e = p.e
                 PROVE  o = p
    BY DEF Single
  <2>2. PICK q \in batch : o = fill(q) /\ o.e = q.e
    BY <1>1, <1>3
  <2>3. PICK r \in batch : p = fill(r) /\ p.e = r.e
    BY <1>1, <1>3
  <2>4. QED
    BY <2>1, <2>2, <2>3 DEF Single
<1>8. QED
  BY <1>0, <1>5, <1>6, <1>7, <1>9 DEF Calm

LEMMA SendCalm ==
  ASSUME Inv, SendBatch
  PROVE  Calm
<1>0. /\ head \in [Entity -> Head] /\ pc = "mark" /\ AllStillCurrent /\ "mark" \in Pushing
      /\ net' = net \cup {batch}
      /\ UNCHANGED <<doc, rev, st, cursor, log, sver, top, batch, reply, resolver>>
  BY DEF SendBatch, server, Inv, TypeInv, TypeOK, Pushing
<1>1. ASSUME NEW e \in Entity
      PROVE  /\ head'[e].op = head[e].op /\ head'[e].base = head[e].base
             /\ Queued(e)' <=> Queued(e)
  <2>1. Mine(e) => Queued(e)
    BY MineIsQueued
  <2>2. head'[e] = IF Mine(e) THEN [head[e] EXCEPT !.status = "in_flight"] ELSE head[e]
    BY DEF SendBatch
  <2>3. QED
    BY <1>0, <2>1, <2>2 DEF Queued, Head
<1>2. QED
  BY <1>0, <1>1 DEF Calm

-----------------------------------------------------------------------------
(* What the steps that replace one row make of it. *)

\* The step is about the row, the state, the document and the choice of e.
OneRow(e) ==
  /\ \A f \in Entity \ {e} : /\ head'[f] = head[f] /\ st'[f] = st[f] /\ doc'[f] = doc[f]
                             /\ resolver'[f] = resolver[f]
  /\ UNCHANGED <<attempts, cursor, pc, batch, net, reply, log, sver, top>>
  /\ st'[e].ver = st[e].ver

LEMMA EditRow ==
  ASSUME Inv, NEW e \in Entity, Edit(e)
  PROVE  /\ OneRow(e) /\ UNCHANGED <<st, resolver>>
         /\ Queued(e)' /\ head'[e].op = nextOp
         /\ head'[e].base = IF Queued(e) THEN MaxOf(st[e].ver, head[e].base) ELSE st[e].ver
<1>0. /\ head \in [Entity -> Head] /\ doc \in [Entity -> Value] /\ rev[e] \in Nat
      /\ UNCHANGED <<st, resolver, attempts, cursor, pc, batch, net, reply, log, sver, top>>
      /\ Queued(e) => head[e].rev = rev[e]
  BY RowFacts DEF Edit, Inv, TypeInv, TypeOK, flight, server
<1>1. head' = [head EXCEPT ![e] =
                 Enqueued(e, nextOp, IntentPayload(e, EditOf(rev[e] + 1)), rev[e] + 1)]
  BY DEF Edit
<1>2. doc' = [doc EXCEPT ![e] = EditOf(rev[e] + 1)]
  BY DEF Edit
<1>3. OneRow(e)
  BY <1>0, <1>1, <1>2 DEF OneRow
<1>4. Queued(e) => rev[e] + 1 >= head[e].rev
  BY <1>0
<1>5. head'[e] = Enqueued(e, nextOp, IntentPayload(e, EditOf(rev[e] + 1)), rev[e] + 1)
  BY <1>0, <1>1
<1>6. /\ Queued(e)' /\ head'[e].op = nextOp
      /\ head'[e].base = IF Queued(e) THEN MaxOf(st[e].ver, head[e].base) ELSE st[e].ver
  BY <1>4, <1>5 DEF Enqueued, Queued
<1>7. QED
  BY <1>0, <1>3, <1>6

LEMMA KeepRow ==
  ASSUME Inv, NEW e \in Entity, KeepLocalCommits(e)
  PROVE  /\ OneRow(e) /\ doc' = doc /\ resolver'[e] = NoChoice
         /\ ~st[e].conflict => head'[e] = head[e] /\ st'[e] = st[e]
         /\ st[e].conflict =>
              /\ Queued(e)' /\ ~st'[e].conflict /\ head'[e].base = st[e].ver
              /\ head'[e].op = nextOp \/ (Queued(e) /\ head'[e].op = head[e].op)
<1>0. /\ head \in [Entity -> Head] /\ st \in [Entity -> EntityState]
      /\ resolver \in [Entity -> [mode : {"none", "keep", "remote"}, val : Value, rev : Nat]]
      /\ UNCHANGED <<doc, attempts, cursor, pc, batch, net, reply, log, sver, top>>
      /\ resolver' = [resolver EXCEPT ![e] = NoChoice]
  BY DEF KeepLocalCommits, Inv, TypeInv, TypeOK, flight, server
<1>1. CASE ~st[e].conflict
  BY <1>0, <1>1 DEF KeepLocalCommits, OneRow
<1>2. CASE st[e].conflict
  <2>1. PICK val, r : /\ head' = [head EXCEPT ![e] = [Enqueued(e, nextOp, val, r) EXCEPT !.base = st[e].ver]]
                      /\ st' = [st EXCEPT ![e] = Synced(st[e].ver)]
    BY <1>2, CaptureAssumption DEF KeepLocalCommits
  <2>2. head'[e] = [Enqueued(e, nextOp, val, r) EXCEPT !.base = st[e].ver]
    BY <1>0, <2>1
  <2>3. /\ Queued(e)' /\ head'[e].base = st[e].ver
        /\ head'[e].op = nextOp \/ (Queued(e) /\ head'[e].op = head[e].op)
    BY <1>0, <2>2 DEF Enqueued, Queued, Head
  <2>4. st'[e].ver = st[e].ver /\ ~st'[e].conflict
    BY <1>0, <2>1 DEF Synced
  <2>5. OneRow(e)
    BY <1>0, <2>1, <2>4 DEF OneRow
  <2>6. QED
    BY <1>0, <1>2, <2>3, <2>4, <2>5
<1>3. QED
  BY <1>1, <1>2

LEMMA RemoteRow ==
  ASSUME Inv, NEW e \in Entity, UseRemoteCommits(e)
  PROVE  /\ OneRow(e) /\ resolver'[e] = NoChoice
         /\ head'[e] = NoHead /\ ~Queued(e)' /\ head'[e].base = 0 /\ doc'[e] = resolver[e].val
         /\ resolver[e].mode = "remote"
         /\ ~st'[e].conflict
<1>0. /\ head \in [Entity -> Head] /\ st \in [Entity -> EntityState] /\ doc \in [Entity -> Value]
      /\ resolver \in [Entity -> [mode : {"none", "keep", "remote"}, val : Value, rev : Nat]]
      /\ UNCHANGED <<attempts, cursor, pc, batch, net, reply, log, sver, top>>
      /\ resolver' = [resolver EXCEPT ![e] = NoChoice] /\ resolver[e].mode = "remote"
      /\ head' = [head EXCEPT ![e] = NoHead] /\ doc' = [doc EXCEPT ![e] = resolver[e].val]
      /\ st' = IF ~st[e].conflict THEN st ELSE [st EXCEPT ![e] = Synced(st[e].ver)]
  BY DEF UseRemoteCommits, Inv, TypeInv, TypeOK, flight, server
<1>1. st'[e].ver = st[e].ver /\ ~st'[e].conflict /\ \A f \in Entity \ {e} : st'[f] = st[f]
  BY <1>0 DEF Synced
<1>2. QED
  BY <1>0, <1>1 DEF OneRow, Queued, NoHead

LEMMA RetryRow ==
  ASSUME Inv, NEW e \in Entity, RetryDeadLetter(e)
  PROVE  /\ OneRow(e) /\ UNCHANGED <<doc, resolver>>
         /\ Queued(e) /\ Queued(e)' /\ head'[e].op = nextOp /\ ~st'[e].conflict
         /\ head'[e].base = MaxOf(head[e].base, st[e].ver)
<1>0. /\ head \in [Entity -> Head] /\ st \in [Entity -> EntityState]
      /\ UNCHANGED <<doc, resolver, attempts, cursor, pc, batch, net, reply, log, sver, top>>
      /\ head' = [head EXCEPT ![e] = [op |-> nextOp, val |-> doc[e], rev |-> rev[e],
                                      base |-> MaxOf(head[e].base, st[e].ver),
                                      status |-> "pending", later |-> FALSE]]
      /\ st' = [st EXCEPT ![e] = Synced(st[e].ver)] /\ head[e].status = "dead"
  BY DEF RetryDeadLetter, Inv, TypeInv, TypeOK, flight, server
<1>1. QED
  BY <1>0 DEF OneRow, Queued, Synced

-----------------------------------------------------------------------------
(* A pulled change, and the two answers that move versions. *)

LEMMA PageFacts ==
  ASSUME Inv, NEW c \in log, PullPage(c)
  PROVE  /\ c.cur = cursor + 1 /\ cursor' = c.cur /\ pc \in {"pull1", "pull2"}
         /\ batch = {} /\ reply = NoReply
         /\ UNCHANGED <<attempts, batch, resolver, log, sver, top, net, reply>>
         /\ pc' \in Pushing => cursor' = top
         /\ AckOwn(c) \/ ShadowRemote(c) \/ ApplyRemote(c)
         /\ Own(c) <=> ~Foreign(c)
         /\ c.e \in Entity /\ c.ver \in Nat
         /\ \A f \in Entity \ {c.e} : head'[f] = head[f] /\ st'[f] = st[f] /\ doc'[f] = doc[f]
<1>1. /\ c.cur = cursor + 1 /\ cursor' = c.cur /\ pc \in {"pull1", "pull2"}
      /\ UNCHANGED <<attempts, batch, resolver, log, sver, top, net, reply>>
      /\ AckOwn(c) \/ ShadowRemote(c) \/ ApplyRemote(c)
      /\ (pc' \in {"check", "close"} /\ c.cur = top) \/ pc' = pc
  BY DEF PullPage, server, Next1
<1>2. batch = {} /\ reply = NoReply
  BY <1>1, EmptyBatch, NoAnswer
<1>3. ~Foreign(c) => c.op \in OwnOps
  <2>1. ASSUME ~Foreign(c) PROVE c.op \in OwnOps
    <3>1. SentAs(c) \in attempts /\ SentAs(c).op = c.op
      BY <2>1, StreamFacts DEF SentAs
    <3>2. QED
      BY <3>1 DEF OwnOps
  <2>2. QED
    BY <2>1
<1>4. Own(c) <=> ~Foreign(c)
  BY <1>3 DEF Own, Foreign
<1>5. c.e \in Entity /\ c.ver \in Nat
  BY StreamFacts
<1>6. \A f \in Entity \ {c.e} : head'[f] = head[f] /\ st'[f] = st[f] /\ doc'[f] = doc[f]
  <2>1. head \in [Entity -> Head] /\ st \in [Entity -> EntityState] /\ doc \in [Entity -> Value]
    BY DEF Inv, TypeInv, TypeOK
  <2>2. QED
    BY <1>1, <2>1 DEF AckOwn, ShadowRemote, ApplyRemote
<1>7. QED
  BY <1>1, <1>2, <1>4, <1>5, <1>6 DEF Pushing

LEMMA AckRow ==
  ASSUME Inv, NEW c \in log, PullPage(c), AckOwn(c)
  PROVE  /\ doc' = doc /\ st'[c.e] = Synced(c.ver) /\ st'[c.e].ver = c.ver /\ ~st'[c.e].conflict
         /\ head[c.e].op = c.op => head'[c.e] = NoHead /\ ~Queued(c.e)' /\ head'[c.e].base = 0
         /\ head[c.e].op # c.op =>
              /\ Queued(c.e)' <=> Queued(c.e)
              /\ head'[c.e].op = head[c.e].op
              /\ head'[c.e].base = IF Queued(c.e) THEN MaxOf(head[c.e].base, c.ver) ELSE 0
<1>0. /\ head \in [Entity -> Head] /\ st \in [Entity -> EntityState] /\ c.e \in Entity
      /\ doc' = doc /\ st' = [st EXCEPT ![c.e] = Synced(c.ver)]
      /\ head' = [head EXCEPT ![c.e] = IF @.op = c.op THEN NoHead ELSE Raise(@, c.ver)]
  BY PageFacts DEF AckOwn, Inv, TypeInv, TypeOK
<1>1. head'[c.e] = IF head[c.e].op = c.op THEN NoHead ELSE Raise(head[c.e], c.ver)
  BY <1>0
<1>2. st'[c.e] = Synced(c.ver) /\ st'[c.e].ver = c.ver /\ ~st'[c.e].conflict
  BY <1>0 DEF Synced
<1>3. CASE head[c.e].op = c.op
  BY <1>0, <1>1, <1>2, <1>3 DEF NoHead, Queued
<1>4. CASE head[c.e].op # c.op
  <2>1. head'[c.e] = Raise(head[c.e], c.ver)
    BY <1>1, <1>4
  <2>2. ~Queued(c.e) => head[c.e].base = 0
    BY <1>0, RowFacts
  <2>3. QED
    BY <1>0, <1>2, <1>4, <2>1, <2>2 DEF Raise, Queued, Head
<1>5. QED
  BY <1>3, <1>4

LEMMA ShadowRow ==
  ASSUME Inv, NEW c \in log, PullPage(c), ShadowRemote(c)
  PROVE  /\ UNCHANGED <<doc, head>> /\ st'[c.e].ver = c.ver /\ st'[c.e].conflict
         /\ st'[c.e].shadow = c.val /\ (Queued(c.e) \/ st[c.e].conflict)
<1>0. st \in [Entity -> EntityState] /\ c.e \in Entity
  BY PageFacts DEF Inv, TypeInv, TypeOK
<1>1. QED
  BY <1>0 DEF ShadowRemote

LEMMA ApplyRow ==
  ASSUME Inv, NEW c \in log, PullPage(c), ApplyRemote(c)
  PROVE  /\ head' = head /\ st'[c.e].ver = c.ver /\ ~st'[c.e].conflict
         /\ doc'[c.e] = c.val /\ ~Queued(c.e) /\ ~st[c.e].conflict
<1>0. st \in [Entity -> EntityState] /\ doc \in [Entity -> Value] /\ c.e \in Entity
  BY PageFacts DEF Inv, TypeInv, TypeOK
<1>1. QED
  BY <1>0 DEF ApplyRemote, Synced

LEMMA AppliedRow ==
  ASSUME Inv, PushApplied
  PROVE  /\ reply.kind = "applied" /\ pc = "await" /\ pc' = "push" /\ batch' = {} /\ reply' = NoReply
         /\ UNCHANGED <<doc, attempts, cursor, resolver, log, sver, top, net>>
         /\ \A e \in Entity :
              /\ reply.ver[e] \in Nat
              /\ st'[e].ver = MaxOf(st[e].ver, reply.ver[e])
              /\ st'[e].conflict = st[e].conflict /\ st'[e].shadow = st[e].shadow
              /\ Mine(e) => head'[e] = NoHead /\ ~Queued(e)' /\ head'[e].base = 0
              /\ ~Mine(e) =>
                   /\ Queued(e)' <=> Queued(e)
                   /\ head'[e].op = head[e].op
                   /\ head'[e].base = IF Queued(e) THEN MaxOf(head[e].base, reply.ver[e]) ELSE 0
<1>0. /\ head \in [Entity -> Head] /\ st \in [Entity -> EntityState]
      /\ reply.kind = "applied" /\ pc = "await" /\ pc' = "push" /\ batch' = {} /\ reply' = NoReply
      /\ UNCHANGED <<doc, attempts, cursor, resolver, log, sver, top, net>>
      /\ head' = [e \in Entity |-> IF Mine(e) THEN NoHead ELSE Raise(head[e], reply.ver[e])]
      /\ st' = [e \in Entity |-> [st[e] EXCEPT !.ver = MaxOf(@, reply.ver[e])]]
  BY DEF PushApplied, server, Inv, TypeInv, TypeOK
<1>1. ASSUME NEW e \in Entity
      PROVE  /\ reply.ver[e] \in Nat
             /\ st'[e].ver = MaxOf(st[e].ver, reply.ver[e])
             /\ st'[e].conflict = st[e].conflict /\ st'[e].shadow = st[e].shadow
             /\ Mine(e) => head'[e] = NoHead /\ ~Queued(e)' /\ head'[e].base = 0
             /\ ~Mine(e) =>
                  /\ Queued(e)' <=> Queued(e)
                  /\ head'[e].op = head[e].op
                  /\ head'[e].base = IF Queued(e) THEN MaxOf(head[e].base, reply.ver[e]) ELSE 0
  <2>1. reply.ver[e] \in Nat
    BY <1>0, ReplyFacts
  <2>2. st'[e] = [st[e] EXCEPT !.ver = MaxOf(@, reply.ver[e])] /\ st[e] \in EntityState
    BY <1>0
  <2>3. head'[e] = IF Mine(e) THEN NoHead ELSE Raise(head[e], reply.ver[e])
    BY <1>0
  <2>4. /\ st'[e].ver = MaxOf(st[e].ver, reply.ver[e])
        /\ st'[e].conflict = st[e].conflict /\ st'[e].shadow = st[e].shadow
    BY <2>2 DEF EntityState
  <2>5. Mine(e) => head'[e] = NoHead /\ ~Queued(e)' /\ head'[e].base = 0
    BY <2>3 DEF NoHead, Queued
  <2>6. ASSUME ~Mine(e)
        PROVE  /\ Queued(e)' <=> Queued(e)
               /\ head'[e].op = head[e].op
               /\ head'[e].base = IF Queued(e) THEN MaxOf(head[e].base, reply.ver[e]) ELSE 0
    <3>1. ~Queued(e) => head[e].base = 0
      BY RowFacts
    <3>2. head'[e] = Raise(head[e], reply.ver[e]) /\ head[e] \in Head
      BY <1>0, <2>3, <2>6
    <3>3. QED
      BY <3>1, <3>2 DEF Raise, Queued, Head
  <2>7. QED
    BY <2>1, <2>4, <2>5, <2>6
<1>2. QED
  BY <1>0, <1>1

LEMMA ConflictRow ==
  ASSUME Inv, PushConflicts
  PROVE  /\ reply.kind = "conflict" /\ pc = "await" /\ pc' = "idle" /\ batch' = {}
         /\ reply' = NoReply /\ reply.e \in Entity /\ reply.ver \in Nat
         /\ UNCHANGED <<doc, attempts, cursor, resolver, log, sver, top, net>>
         /\ \A e \in Entity : /\ head'[e].op = head[e].op /\ head'[e].base = head[e].base
                              /\ Queued(e)' <=> Queued(e)
                              /\ e # reply.e => st'[e] = st[e]
         /\ st'[reply.e].ver = MaxOf(1, reply.ver) /\ st'[reply.e].conflict
         /\ st'[reply.e].shadow = reply.val
<1>0. /\ head \in [Entity -> Head] /\ st \in [Entity -> EntityState]
      /\ reply.kind = "conflict" /\ pc = "await" /\ pc' = "idle" /\ batch' = {}
      /\ reply' = NoReply /\ reply.e \in Entity /\ reply.ver \in Nat
      /\ UNCHANGED <<doc, attempts, cursor, resolver, log, sver, top, net>>
      /\ head' = Settled("pending", TRUE)
      /\ st' = [st EXCEPT ![reply.e] = [ver |-> MaxOf(1, reply.ver), conflict |-> TRUE,
                                        shadow |-> reply.val]]
  BY ReplyFacts DEF PushConflicts, Rest, server, Inv, TypeInv, TypeOK
<1>1. ASSUME NEW e \in Entity
      PROVE  /\ head'[e].op = head[e].op /\ head'[e].base = head[e].base
             /\ Queued(e)' <=> Queued(e)
  <2>1. Mine(e) => Queued(e)
    BY MineIsQueued
  <2>2. head'[e] = IF Mine(e) THEN [head[e] EXCEPT !.status = "pending", !.later = TRUE]
                   ELSE head[e]
    BY <1>0, Zenon DEF Settled
  <2>3. QED
    BY <1>0, <2>1, <2>2 DEF Queued, Head
<1>2. QED
  BY <1>0, <1>1

-----------------------------------------------------------------------------
(* The server's steps. *)

LEMMA WriteRow ==
  ASSUME Inv, NEW e \in Entity, CloudWrite(e)
  PROVE  /\ UNCHANGED <<doc, head, attempts, st, cursor, pc, batch, resolver, net, reply>>
         /\ sver[e] > 0 /\ top' = top + 1 /\ sver'[e] = sver[e] + 1
         /\ \A f \in Entity \ {e} : sver'[f] = sver[f]
         /\ log' = log \cup {[cur |-> top + 1, op |-> OtherDevice, e |-> e,
                              ver |-> sver[e] + 1, val |-> WriteOf(sver[e] + 1)]}
<1>1. sver \in [Entity -> Nat]
  BY DEF Inv, TypeInv, TypeOK
<1>2. QED
  BY <1>1 DEF CloudWrite, device, flight

\* What a commit appends: a change for each operation it had not yet.
New(o, k) == [cur |-> top + k, op |-> o.op, e |-> o.e, ver |-> sver[o.e] + 1, val |-> o.val]
Fresh1(req) == {o \in req : ~Committed(o)}

LEMMA CommitRow ==
  ASSUME Inv, NEW req \in net, ServerCommits(req), Single(req)
  PROVE  /\ UNCHANGED <<doc, head, attempts, st, cursor, pc, batch, resolver>>
         /\ net' = net \ {req} /\ log \subseteq log' /\ top' \in Nat /\ top <= top'
         /\ \A o \in Fresh1(req) : o.base = sver[o.e] /\ ~Committed(o)
         /\ \A c \in log' : c \in log \/ \E o \in Fresh1(req) :
              /\ c = New(o, c.cur - top) /\ c.cur \in (top + 1)..top'
              /\ c.op = o.op /\ c.e = o.e /\ c.ver = sver[o.e] + 1 /\ c.val = o.val
         /\ \A o \in Fresh1(req) : \E c \in log' :
              c.op = o.op /\ c.e = o.e /\ c.ver = sver[o.e] + 1 /\ c.val = o.val
         /\ \A c, d \in log' \ log : c.cur = d.cur \/ c.op = d.op \/ c.e = d.e => c = d
         /\ \A e \in Entity : \/ sver'[e] = sver[e] /\ ~\E o \in Fresh1(req) : o.e = e
                              \/ sver'[e] = sver[e] + 1 /\ \E o \in Fresh1(req) : o.e = e
         /\ Answer(req, Applied([e \in Entity |->
              IF \E o \in req : o.e = e THEN Version(CHOOSE o \in req : o.e = e) ELSE 0]))
<1> DEFINE fresh == {o \in req : ~Committed(o)}
<1>0. /\ UNCHANGED <<doc, head, attempts, st, cursor, pc, batch, resolver>>
      /\ net' = net \ {req}
      /\ \A o \in fresh : o.base = sver[o.e] /\ ~Committed(o)
      /\ sver' = [e \in Entity |-> IF \E o \in fresh : o.e = e THEN sver[e] + 1 ELSE sver[e]]
      /\ Answer(req, Applied([e \in Entity |->
              IF \E o \in req : o.e = e THEN Version(CHOOSE o \in req : o.e = e) ELSE 0]))
      /\ top \in Nat
  BY DEF ServerCommits, Acceptable, device, flight, Inv, TypeInv, TypeOK
<1>1. PICK n \in 0..BatchLimit :
        /\ top' = top + n
        /\ \E pos \in Bijection(fresh, 1..n) :
              log' = log \cup {[cur |-> top + pos[o], op |-> o.op, e |-> o.e,
                                ver |-> sver[o.e] + 1, val |-> o.val] : o \in fresh}
  BY DEF ServerCommits
<1>2. PICK pos \in Bijection(fresh, 1..n) :
              log' = log \cup {[cur |-> top + pos[o], op |-> o.op, e |-> o.e,
                                ver |-> sver[o.e] + 1, val |-> o.val] : o \in fresh}
  BY <1>1
<1>3. /\ pos \in [fresh -> 1..n]
      /\ \A o, p \in fresh : pos[o] = pos[p] => o = p
  <2>1. pos \in Injection(fresh, 1..n)
    BY <1>2 DEF Bijection
  <2> HIDE DEF fresh
  <2>2. QED
    BY <2>1 DEF Injection, IsInjective
<1>4. top' \in Nat /\ top <= top' /\ n \in Nat
  BY <1>0, <1>1, BatchLimitAssumption
<1>5. log \subseteq log'
  BY <1>2
<1>6. ASSUME NEW c \in log', c \notin log
      PROVE  \E o \in fresh : c = New(o, pos[o])
  BY <1>2, <1>6 DEF New
<1>7. ASSUME NEW o \in fresh
      PROVE  /\ New(o, pos[o]) \in log' /\ New(o, pos[o]).cur \in (top + 1)..top'
             /\ New(o, pos[o]).cur - top = pos[o]
  <2>1. pos[o] \in 1..n
    BY <1>3
  <2>2. New(o, pos[o]) \in log'
    BY <1>2 DEF New
  <2>3. New(o, pos[o]).cur = top + pos[o]
    BY DEF New
  <2>4. QED
    BY <1>0, <1>1, <1>4, <2>1, <2>2, <2>3
<1>8. ASSUME NEW c \in log', c \notin log
      PROVE  \E o \in fresh : /\ c = New(o, c.cur - top) /\ c.cur \in (top + 1)..top'
                              /\ c.op = o.op /\ c.e = o.e /\ c.ver = sver[o.e] + 1 /\ c.val = o.val
  <2>1. PICK o \in fresh : c = New(o, pos[o])
    BY <1>6, <1>8
  <2>2. c.op = o.op /\ c.e = o.e /\ c.ver = sver[o.e] + 1 /\ c.val = o.val
    BY <2>1 DEF New
  <2>3. QED
    BY <1>7, <2>1, <2>2
<1>9. ASSUME NEW o \in fresh
      PROVE  \E c \in log' : c.op = o.op /\ c.e = o.e /\ c.ver = sver[o.e] + 1 /\ c.val = o.val
  <2>1. New(o, pos[o]) \in log'
    BY <1>7
  <2>2. QED
    BY <2>1 DEF New
<1>10. ASSUME NEW c \in log' \ log, NEW d \in log' \ log,
              c.cur = d.cur \/ c.op = d.op \/ c.e = d.e
       PROVE  c = d
  <2>1. PICK o \in fresh : c = New(o, pos[o])
    BY <1>6
  <2>2. PICK p \in fresh : d = New(p, pos[p])
    BY <1>6
  <2>3. CASE c.cur = d.cur
    BY <1>3, <1>7, <2>1, <2>2, <2>3
  <2>4. CASE c.op = d.op
    <3>1. o.op = p.op
      BY <2>1, <2>2, <2>4 DEF New
    <3>2. SentAs(o) \in attempts /\ SentAs(p) \in attempts /\ OperationImmutable
      BY RequestFacts DEF Inv, Safe
    <3>3. SentAs(o) = SentAs(p)
      BY <3>1, <3>2 DEF OperationImmutable, SentAs
    <3>4. o = p
      BY <3>3 DEF SentAs, Single
    <3>5. QED
      BY <2>1, <2>2, <3>4
  <2>5. CASE c.e = d.e
    <3>1. o.e = p.e
      BY <2>1, <2>2, <2>5 DEF New
    <3>2. o = p
      BY <3>1 DEF Single
    <3>3. QED
      BY <2>1, <2>2, <3>2
  <2>6. QED
    BY <1>10, <2>3, <2>4, <2>5
<1>11. \A e \in Entity : \/ sver'[e] = sver[e] /\ ~\E o \in fresh : o.e = e
                         \/ sver'[e] = sver[e] + 1 /\ \E o \in fresh : o.e = e
  BY <1>0
<1>12. fresh = Fresh1(req)
  BY DEF Fresh1
<1> HIDE DEF fresh
<1>13. QED
  BY <1>0, <1>4, <1>5, <1>8, <1>9, <1>10, <1>11, <1>12

LEMMA RejectRow ==
  ASSUME Inv, NEW req \in net, NEW o \in req, ServerRejects(req, o)
  PROVE  /\ UNCHANGED <<doc, head, attempts, st, cursor, pc, batch, resolver, log, sver, top>>
         /\ net' = net \ {req} /\ ~Committed(o) /\ o.base # sver[o.e]
         /\ \/ reply' = reply
            \/ \E c \in log : /\ pc = "await" /\ batch = req /\ c.e = o.e /\ c.ver = sver[o.e]
                              /\ reply' = Conflict(o.e, sver[o.e], c.val)
<1>1. PICK x \in {c.val : c \in {d \in log : d.e = o.e /\ d.ver = sver[o.e]}} :
        Answer(req, Conflict(o.e, sver[o.e], x))
  BY DEF ServerRejects
<1>2. QED
  BY <1>1 DEF ServerRejects, Acceptable, Answer, device, flight, server

-----------------------------------------------------------------------------
(* The change stream. *)

LEMMA StreamInit == Init => Stream /\ Behind
<1> SUFFICES ASSUME Init PROVE Stream /\ Behind
  OBVIOUS
<1>1. /\ log = {} /\ net = {} /\ batch = {} /\ reply = NoReply /\ cursor = 0 /\ top = 0
      /\ \A e \in Entity : sver[e] = 0 /\ st[e] = Synced(0)
  BY DEF Init
<1>2. \A e \in Entity : head[e].base = 0
  BY DEF Init
<1>3. NeverAhead
  BY <1>1, <1>2 DEF NeverAhead, Synced
<1>4. reply.kind # "applied" /\ reply.kind # "conflict"
  BY <1>1 DEF NoReply
<1>5. Behind
  BY <1>1, <1>3, <1>4 DEF Behind
<1>6. Stream
  BY <1>1 DEF Stream
<1>7. QED
  BY <1>5, <1>6

LEMMA StreamKept ==
  ASSUME Stream, UNCHANGED <<log, sver, top>>, cursor' \in {cursor} \cup 0..top
  PROVE  Stream'
<1>1. cursor' <= top
  BY DEF Stream
<1>2. QED
  BY <1>1 DEF Stream, Foreign

LEMMA BehindKept ==
  ASSUME Inv, Behind, UNCHANGED sver,
         \A e \in Entity : head'[e].base <= sver[e] /\ st'[e].ver <= sver[e],
         \A o \in batch' : o.base <= sver[o.e],
         \A req \in net' : req \in net \/ req = batch,
         reply' \in {NoReply, reply}
  PROVE  Behind'
<1>1. NeverAhead'
  BY DEF NeverAhead
<1>2. \A req \in net' : \A o \in req : o.base <= sver'[o.e]
  BY DEF Behind
<1>3. reply'.kind \in {"applied", "conflict"} => reply' = reply
  BY DEF NoReply
<1>4. QED
  BY <1>1, <1>2, <1>3 DEF Behind

\* What the server appends keeps the order of the stream.
LEMMA StreamWrite ==
  ASSUME Inv, Stream, Behind, NEW e \in Entity, CloudWrite(e)
  PROVE  Stream' /\ Behind'
<1> DEFINE n == [cur |-> top + 1, op |-> OtherDevice, e |-> e,
                 ver |-> sver[e] + 1, val |-> WriteOf(sver[e] + 1)]
<1>0. /\ UNCHANGED <<head, st, cursor, batch, net, reply>>
      /\ top' = top + 1 /\ sver'[e] = sver[e] + 1 /\ \A f \in Entity \ {e} : sver'[f] = sver[f]
      /\ log' = log \cup {n}
  BY WriteRow
<1>1. n.cur = top + 1 /\ n.op = 0 /\ n.e = e /\ n.ver = sver[e] + 1
  BY DEF OtherDevice
<1> HIDE DEF n
<1>2. \A f \in Entity : sver[f] \in Nat /\ sver'[f] \in Nat /\ sver[f] <= sver'[f]
  BY <1>0, RowFacts
<1>3. /\ cursor \in Nat /\ top \in Nat /\ cursor <= top
      /\ \A c \in log : /\ c.e \in Entity /\ c.cur \in Nat /\ c.ver \in Nat
                        /\ c.cur <= top /\ c.cur >= 1 /\ c.ver >= 1 /\ c.ver <= sver[c.e]
  BY StreamFacts, RowFacts DEF Stream
<1>4. \A c \in log' : c.cur \in 1..top' /\ c.ver \in 1..sver'[c.e]
  <2>1. ASSUME NEW c \in log PROVE c.cur \in 1..top' /\ c.ver \in 1..sver'[c.e]
    <3>1. sver[c.e] <= sver'[c.e] /\ sver[c.e] \in Nat /\ sver'[c.e] \in Nat
      BY <1>2, <1>3
    <3>2. QED
      BY <1>0, <1>3, <3>1
  <2>2. n.cur \in 1..top' /\ n.ver \in 1..sver'[n.e]
    BY <1>0, <1>1, <1>2, <1>3
  <2>3. QED
    BY <1>0, <2>1, <2>2
<1>5. ASSUME NEW c \in log', NEW d \in log'
      PROVE  /\ c.cur = d.cur => c = d
             /\ c.e = d.e => (c.cur < d.cur <=> c.ver < d.ver)
             /\ c.op = d.op /\ ~Foreign(c) => c = d
  <2>1. CASE c \in log /\ d \in log
    BY <2>1 DEF Stream
  <2>2. CASE c = n /\ d \in log
    BY <1>1, <1>3, <1>2, <2>2 DEF Foreign, OtherDevice
  <2>3. CASE c \in log /\ d = n
    BY <1>1, <1>3, <1>2, <2>3 DEF Foreign, OtherDevice
  <2>4. CASE c = n /\ d = n
    BY <1>1, <1>3, <1>2, <2>4
  <2>5. QED
    BY <1>0, <2>1, <2>2, <2>3, <2>4
<1>6. ASSUME NEW f \in Entity, sver'[f] > 0
      PROVE  \E c \in log' : c.e = f /\ c.ver = sver'[f]
  <2>1. CASE f = e
    BY <1>0, <1>1, <2>1
  <2>2. CASE f # e
    BY <1>0, <1>6, <2>2 DEF Stream
  <2>3. QED
    BY <2>1, <2>2
<1>7. Stream'
  BY <1>0, <1>3, <1>4, <1>5, <1>6 DEF Stream, Foreign
<1>8. NeverAhead'
  <2>1. ASSUME NEW f \in Entity PROVE st[f].ver <= sver'[f] /\ head[f].base <= sver'[f]
    BY <1>2, RowFacts DEF Behind, NeverAhead
  <2>2. QED
    BY <1>0, <2>1 DEF NeverAhead
<1>9. \A o \in batch : o.base <= sver'[o.e]
  BY <1>2, BatchFacts DEF Behind
<1>10. \A req \in net : \A o \in req : o.base <= sver'[o.e]
  BY <1>2, RequestFacts DEF Behind
<1>11. reply.kind = "applied" => \A f \in Entity : reply.ver[f] <= sver'[f]
  BY <1>2, ReplyFacts DEF Behind
<1>12. reply.kind = "conflict" => reply.ver \in 1..sver'[reply.e]
  <2>1. ASSUME reply.kind = "conflict" PROVE reply.ver \in 1..sver'[reply.e]
    <3>1. reply.e \in Entity /\ reply.ver \in 1..sver[reply.e]
      BY <2>1, ReplyFacts DEF Behind
    <3>2. QED
      BY <1>2, <3>1
  <2>2. QED
    BY <2>1
<1>13. QED
  BY <1>0, <1>7, <1>8, <1>9, <1>10, <1>11, <1>12 DEF Behind

\* The version a committed operation is answered with.
LEMMA AnsweredVersion ==
  ASSUME Inv, Stream, NEW req \in net, NEW o \in req
  PROVE  \/ ~Committed(o) /\ Version(o) = sver[o.e] + 1
         \/ \E c \in log : c.op = o.op /\ c.e = o.e /\ ~Foreign(c) /\ Version(o) = c.ver
<1>1. CASE Committed(o)
  <2> DEFINE c == CHOOSE d \in log : d.op = o.op
  <2>1. c \in log /\ c.op = o.op
    BY <1>1 DEF Committed
  <2>2. Version(o) = c.ver
    BY <1>1 DEF Version
  <2>3. SentAs(o) \in attempts
    BY RequestFacts
  <2> HIDE DEF c
  <2>4. c.e = o.e /\ ~Foreign(c)
    BY <2>1, <2>3, SameOperation
  <2>5. QED
    BY <2>1, <2>2, <2>4
<1>2. CASE ~Committed(o)
  BY <1>2 DEF Version
<1>3. QED
  BY <1>1, <1>2

\* The stream after a commit, and the version it is answered with.
LEMMA StreamCommits ==
  ASSUME Inv, Stream, Behind, NEW req \in net, ServerCommits(req), Single(req)
  PROVE  Stream' /\ Behind'
<1> DEFINE fresh == Fresh1(req)
<1>0. /\ UNCHANGED <<head, st, cursor, batch, pc>>
      /\ net' = net \ {req} /\ log \subseteq log' /\ top' \in Nat /\ top <= top'
      /\ \A o \in fresh : o.base = sver[o.e] /\ ~Committed(o)
      /\ \A e \in Entity : \/ sver'[e] = sver[e] /\ ~\E o \in fresh : o.e = e
                           \/ sver'[e] = sver[e] + 1 /\ \E o \in fresh : o.e = e
      /\ \A c \in log' : c \in log \/ \E o \in fresh :
              /\ c.cur \in (top + 1)..top'
              /\ c.op = o.op /\ c.e = o.e /\ c.ver = sver[o.e] + 1
      /\ \A o \in fresh : \E c \in log' :
              c.op = o.op /\ c.e = o.e /\ c.ver = sver[o.e] + 1 /\ c.val = o.val
      /\ \A c, d \in log' \ log : c.cur = d.cur \/ c.op = d.op \/ c.e = d.e => c = d
  BY CommitRow
<1>1. \A o \in fresh : o \in req /\ o.e \in Entity /\ o.op # 0
  BY RequestFacts DEF Fresh1
<1> HIDE DEF fresh
<1>2. \A f \in Entity : sver[f] \in Nat /\ sver'[f] \in Nat /\ sver[f] <= sver'[f]
  BY <1>0, RowFacts
<1>3. /\ cursor \in Nat /\ top \in Nat /\ cursor <= top
      /\ \A c \in log : /\ c.e \in Entity /\ c.cur \in Nat /\ c.ver \in Nat
                        /\ c.cur <= top /\ c.cur >= 1 /\ c.ver >= 1 /\ c.ver <= sver[c.e]
  BY StreamFacts, RowFacts DEF Stream
<1>4. ASSUME NEW c \in log', c \notin log
      PROVE  /\ c.cur \in (top + 1)..top' /\ c.ver = sver[c.e] + 1 /\ sver'[c.e] = sver[c.e] + 1
             /\ c.e \in Entity /\ \E o \in fresh : c.op = o.op /\ c.e = o.e
  BY <1>0, <1>1, <1>4
<1>5. \A c \in log' : c.cur \in 1..top' /\ c.ver \in 1..sver'[c.e]
  <2>1. ASSUME NEW c \in log PROVE c.cur \in 1..top' /\ c.ver \in 1..sver'[c.e]
    <3>1. sver[c.e] <= sver'[c.e] /\ sver[c.e] \in Nat /\ sver'[c.e] \in Nat
      BY <1>2, <1>3
    <3>2. QED
      BY <1>0, <1>3, <3>1
  <2>2. ASSUME NEW c \in log', c \notin log PROVE c.cur \in 1..top' /\ c.ver \in 1..sver'[c.e]
    <3>1. sver[c.e] \in Nat
      BY <1>2, <1>4, <2>2
    <3>2. QED
      BY <1>0, <1>3, <1>4, <2>2, <3>1
  <2>3. QED
    BY <2>1, <2>2
<1>6. ASSUME NEW c \in log', NEW d \in log'
      PROVE  /\ c.cur = d.cur => c = d
             /\ c.e = d.e => (c.cur < d.cur <=> c.ver < d.ver)
             /\ c.op = d.op /\ ~Foreign(c) => c = d
  <2>1. CASE c \in log /\ d \in log
    BY <2>1 DEF Stream
  <2>2. CASE c \in log /\ d \notin log
    <3>1. sver[d.e] \in Nat /\ d.ver = sver[d.e] + 1 /\ d.cur > top /\ d.cur \in Nat
      BY <1>0, <1>2, <1>3, <1>4, <2>2
    <3>2. c.cur <= top /\ c.ver <= sver[c.e] /\ c.cur \in Nat /\ c.ver \in Nat
      BY <1>3, <2>2
    <3>3. c.op # d.op
      BY <1>0, <1>4, <2>2 DEF Committed
    <3>4. QED
      BY <1>3, <3>1, <3>2, <3>3
  <2>3. CASE c \notin log /\ d \in log
    <3>1. sver[c.e] \in Nat /\ c.ver = sver[c.e] + 1 /\ c.cur > top /\ c.cur \in Nat
      BY <1>0, <1>2, <1>3, <1>4, <2>3
    <3>2. d.cur <= top /\ d.ver <= sver[d.e] /\ d.cur \in Nat /\ d.ver \in Nat
      BY <1>3, <2>3
    <3>3. c.op # d.op
      BY <1>0, <1>4, <2>3 DEF Committed
    <3>4. QED
      BY <1>3, <3>1, <3>2, <3>3
  <2>4. CASE c \notin log /\ d \notin log
    <3>1. c.cur \in Nat /\ c.ver \in Nat
      BY <1>0, <1>2, <1>3, <1>4, <2>4
    <3>2. c.cur = d.cur \/ c.op = d.op \/ c.e = d.e => c = d
      BY <1>0, <2>4
    <3>3. c = d => ~(c.cur < d.cur) /\ ~(c.ver < d.ver)
      BY <3>1
    <3>4. c.e # d.e \/ c = d
      BY <3>2
    <3>5. QED
      BY <3>2, <3>3, <3>4
  <2>5. QED
    BY <2>1, <2>2, <2>3, <2>4
<1>7. ASSUME NEW f \in Entity, sver'[f] > 0
      PROVE  \E c \in log' : c.e = f /\ c.ver = sver'[f]
  <2>1. CASE sver'[f] = sver[f]
    BY <1>0, <1>7, <2>1 DEF Stream
  <2>2. CASE sver'[f] = sver[f] + 1 /\ \E o \in fresh : o.e = f
    BY <1>0, <2>2
  <2>3. QED
    BY <1>0, <2>1, <2>2
<1>8. Stream'
  BY <1>0, <1>3, <1>5, <1>6, <1>7 DEF Stream, Foreign
<1>9. NeverAhead'
  <2>1. ASSUME NEW f \in Entity PROVE st[f].ver <= sver'[f] /\ head[f].base <= sver'[f]
    BY <1>2, RowFacts DEF Behind, NeverAhead
  <2>2. QED
    BY <1>0, <2>1 DEF NeverAhead
<1>10. \A o \in batch : o.base <= sver'[o.e]
  BY <1>2, BatchFacts DEF Behind
<1>11. \A r \in net : \A o \in r : o.base <= sver'[o.e]
  BY <1>2, RequestFacts DEF Behind
<1>12. /\ reply'.kind = "applied" => \A f \in Entity : reply'.ver[f] <= sver'[f]
       /\ reply'.kind = "conflict" => reply'.ver \in 1..sver'[reply'.e]
  <2>1. CASE reply' = reply
    <3>1. reply.kind = "applied" => \A f \in Entity : reply.ver[f] <= sver'[f]
      BY <1>2, ReplyFacts DEF Behind
    <3>2. ASSUME reply.kind = "conflict" PROVE reply.ver \in 1..sver'[reply.e]
      <4>1. reply.e \in Entity /\ reply.ver \in 1..sver[reply.e]
        BY <3>2, ReplyFacts DEF Behind
      <4>2. QED
        BY <1>2, <4>1
    <3>3. QED
      BY <2>1, <3>1, <3>2
  <2>2. CASE reply' = Applied([e \in Entity |->
              IF \E o \in req : o.e = e THEN Version(CHOOSE o \in req : o.e = e) ELSE 0])
    <3>1. reply'.kind = "applied" /\ \A f \in Entity : reply'.ver[f] =
            IF \E o \in req : o.e = f THEN Version(CHOOSE o \in req : o.e = f) ELSE 0
      BY <2>2 DEF Applied
    <3>2. ASSUME NEW f \in Entity PROVE reply'.ver[f] <= sver'[f]
      <4>1. CASE \E o \in req : o.e = f
        <5> DEFINE o == CHOOSE p \in req : p.e = f
        <5>1. o \in req /\ o.e = f
          BY <4>1
        <5>2. reply'.ver[f] = Version(o)
          BY <3>1, <4>1
        <5> HIDE DEF o
        <5>3. CASE ~Committed(o) /\ Version(o) = sver[f] + 1
          <6>1. o \in fresh
            BY <5>1, <5>3 DEF fresh, Fresh1
          <6>2. sver'[f] = sver[f] + 1
            BY <1>0, <5>1, <6>1
          <6>3. QED
            BY <1>2, <5>2, <5>3, <6>2
        <5>4. CASE \E c \in log : c.op = o.op /\ c.e = o.e /\ ~Foreign(c) /\ Version(o) = c.ver
          BY <1>2, <1>3, <5>1, <5>2, <5>4
        <5>5. QED
          BY <5>1, <5>3, <5>4, AnsweredVersion
      <4>2. CASE ~\E o \in req : o.e = f
        BY <1>2, <3>1, <4>2
      <4>3. QED
        BY <4>1, <4>2
    <3>3. QED
      BY <3>1, <3>2
  <2>3. QED
    BY <2>1, <2>2, CommitRow DEF Answer
<1>13. QED
  BY <1>0, <1>8, <1>9, <1>10, <1>11, <1>12 DEF Behind


\* No version is named before the server reaches it.
LEMMA OrderedStep ==
  ASSUME Inv, Ordered, [Next]_vars
  PROVE  Ordered'
<1>0. /\ Stream /\ Behind /\ NeverAhead /\ cursor \in Nat /\ top \in Nat /\ cursor <= top
      /\ \A e \in Entity : /\ head[e].base \in Nat /\ st[e].ver \in Nat /\ sver[e] \in Nat
                           /\ head[e].base <= sver[e] /\ st[e].ver <= sver[e]
  BY RowFacts, StreamFacts DEF Ordered, Stream, Behind, NeverAhead
<1>1. CASE Calm
  <2>1. Stream'
    BY <1>0, <1>1, StreamKept DEF Calm
  <2>2. \A e \in Entity : head'[e].base <= sver[e] /\ st'[e].ver <= sver[e]
    BY <1>0, <1>1 DEF Calm
  <2>3. \A o \in batch' : o.base <= sver[o.e]
    BY <1>0, <1>1 DEF Calm, Behind
  <2>4. Behind'
    BY <1>0, <1>1, <2>2, <2>3, BehindKept DEF Calm
  <2>5. Single(batch') /\ \A req \in net' : Single(req)
    BY <1>1 DEF Ordered, Calm
  <2>6. QED
    BY <2>1, <2>4, <2>5 DEF Ordered, Single
<1>2. ASSUME NEW e \in Entity, OneRow(e),
             head'[e].base \in {0, head[e].base, st[e].ver, MaxOf(st[e].ver, head[e].base),
                                MaxOf(head[e].base, st[e].ver)}
      PROVE  Ordered'
  <2>1. Stream'
    BY <1>0, <1>2, StreamKept DEF OneRow
  <2>2. head'[e].base <= sver[e] /\ st'[e].ver <= sver[e]
    BY <1>0, <1>2 DEF OneRow, MaxOf
  <2>3. \A f \in Entity : head'[f].base <= sver[f] /\ st'[f].ver <= sver[f]
    BY <1>0, <1>2, <2>2 DEF OneRow
  <2>4. Behind'
    BY <1>0, <1>2, <2>3, BehindKept DEF OneRow, Behind
  <2>5. QED
    BY <1>2, <2>1, <2>4 DEF OneRow, Ordered, Single
<1>3. CASE User
  <2>1. PICK e \in Entity : \/ Edit(e) \/ KeepLocalReads(e) \/ KeepLocalCommits(e)
                            \/ UseRemoteReads(e) \/ UseRemoteCommits(e) \/ RetryDeadLetter(e)
    BY <1>3 DEF User
  <2>2. CASE Edit(e)
    BY <1>2, <2>2, EditRow
  <2>3. CASE KeepLocalReads(e) \/ UseRemoteReads(e)
    BY <1>1, <2>3, ReadsCalm
  <2>4. CASE KeepLocalCommits(e)
    BY <1>2, <2>4, KeepRow
  <2>5. CASE UseRemoteCommits(e)
    BY <1>2, <2>5, RemoteRow
  <2>6. CASE RetryDeadLetter(e)
    BY <1>2, <2>6, RetryRow
  <2>7. QED
    BY <2>1, <2>2, <2>3, <2>4, <2>5, <2>6
<1>4. ASSUME NEW c \in log, PullPage(c)
      PROVE  Ordered'
  <2>0. /\ c.cur = cursor + 1 /\ cursor' = c.cur /\ batch = {}
        /\ UNCHANGED <<batch, log, sver, top, net, reply>>
        /\ AckOwn(c) \/ ShadowRemote(c) \/ ApplyRemote(c)
        /\ c.e \in Entity /\ c.ver \in Nat
        /\ \A f \in Entity \ {c.e} : head'[f] = head[f] /\ st'[f] = st[f]
    BY <1>4, PageFacts
  <2>1. c.cur <= top /\ c.ver <= sver[c.e]
    BY <1>0, <1>4 DEF Stream
  <2>2. Stream'
    BY <1>0, <2>0, <2>1, StreamKept
  <2>3. head'[c.e].base <= sver[c.e] /\ st'[c.e].ver <= sver[c.e]
    <3>1. CASE AckOwn(c)
      <4>1. st'[c.e].ver = c.ver /\ head'[c.e].base \in {0, MaxOf(head[c.e].base, c.ver)}
        BY <1>4, <3>1, AckRow
      <4>2. QED
        BY <1>0, <2>0, <2>1, <4>1 DEF MaxOf
    <3>2. CASE ShadowRemote(c)
      BY <1>0, <1>4, <2>0, <2>1, <3>2, ShadowRow
    <3>3. CASE ApplyRemote(c)
      BY <1>0, <1>4, <2>0, <2>1, <3>3, ApplyRow
    <3>4. QED
      BY <2>0, <3>1, <3>2, <3>3
  <2>4. \A f \in Entity : head'[f].base <= sver[f] /\ st'[f].ver <= sver[f]
    BY <1>0, <2>0, <2>3
  <2>5. Behind'
    BY <1>0, <2>0, <2>4, BehindKept
  <2>6. QED
    BY <2>0, <2>2, <2>5 DEF Ordered, Single
<1>5. ASSUME NEW S \in SUBSET Entity, SelectBatch(S)
      PROVE  Ordered'
  <2>1. /\ batch' = {[op |-> head[e].op, e |-> e, val |-> head[e].val,
                      base |-> head[e].base, rev |-> head[e].rev] : e \in S}
        /\ UNCHANGED <<head, st, cursor, log, sver, top, net, reply>>
    BY <1>5 DEF SelectBatch, device, server
  <2>2. \A o \in batch' : o.base <= sver[o.e]
    BY <1>0, <2>1
  <2>3. Single(batch')
    BY <2>1 DEF Single
  <2>4. Stream' /\ Behind'
    BY <1>0, <2>1, <2>2, StreamKept, BehindKept
  <2>5. QED
    BY <2>1, <2>3, <2>4 DEF Ordered, Single
<1>6. CASE PushApplied
  <2>1. /\ reply.kind = "applied" /\ batch' = {} /\ reply' = NoReply
        /\ UNCHANGED <<cursor, log, sver, top, net>>
    BY <1>6, AppliedRow
  <2>2. ASSUME NEW e \in Entity PROVE head'[e].base <= sver[e] /\ st'[e].ver <= sver[e]
    <3>1. /\ st'[e].ver = MaxOf(st[e].ver, reply.ver[e])
          /\ head'[e].base \in {0, MaxOf(head[e].base, reply.ver[e])}
          /\ reply.ver[e] \in Nat
      BY <1>6, AppliedRow
    <3>2. reply.ver[e] <= sver[e]
      BY <1>0, <2>1 DEF Behind
    <3>3. QED
      BY <1>0, <3>1, <3>2 DEF MaxOf
  <2>3. Stream' /\ Behind'
    BY <1>0, <2>1, <2>2, StreamKept, BehindKept
  <2>4. QED
    BY <2>1, <2>3 DEF Ordered, Single
<1>7. CASE PushConflicts
  <2>1. /\ reply.kind = "conflict" /\ batch' = {} /\ reply' = NoReply /\ reply.e \in Entity
        /\ UNCHANGED <<cursor, log, sver, top, net>> /\ reply.ver \in Nat
    BY <1>7, ConflictRow
  <2>2. ASSUME NEW e \in Entity PROVE head'[e].base <= sver[e] /\ st'[e].ver <= sver[e]
    <3>1. reply.ver \in 1..sver[reply.e]
      BY <1>0, <2>1 DEF Behind
    <3>2. CASE e = reply.e
      BY <1>0, <1>7, <2>1, <3>1, <3>2, ConflictRow DEF MaxOf
    <3>3. CASE e # reply.e
      BY <1>0, <1>7, <3>3, ConflictRow
    <3>4. QED
      BY <3>2, <3>3
  <2>3. Stream' /\ Behind'
    BY <1>0, <2>1, <2>2, StreamKept, BehindKept
  <2>4. QED
    BY <2>1, <2>3 DEF Ordered, Single
<1>8. CASE Cloud
  <2>1. ASSUME NEW e \in Entity, CloudWrite(e) PROVE Ordered'
    <3>1. UNCHANGED <<batch, net>>
      BY <2>1, WriteRow
    <3>2. QED
      BY <1>0, <2>1, <3>1, StreamWrite DEF Ordered, Single
  <2>2. ASSUME NEW req \in net, ServerCommits(req) PROVE Ordered'
    <3>1. Single(req)
      BY DEF Ordered
    <3>2. batch' = batch /\ net' \subseteq net
      BY <2>2, <3>1, CommitRow
    <3>3. QED
      BY <1>0, <2>2, <3>1, <3>2, StreamCommits DEF Ordered, Single
  <2>3. ASSUME NEW req \in net, NEW o \in req, ServerRejects(req, o) PROVE Ordered'
    <3>1. /\ UNCHANGED <<head, st, cursor, batch, log, sver, top>> /\ net' = net \ {req}
          /\ o.base # sver[o.e]
          /\ \/ reply' = reply
             \/ \E x : reply' = Conflict(o.e, sver[o.e], x)
      BY <2>3, RejectRow
    <3>2. Stream'
      BY <1>0, <3>1, StreamKept
    <3>3. o.e \in Entity /\ o.base \in Nat /\ o.base <= sver[o.e]
      BY <1>0, RequestFacts DEF Behind
    <3>4. sver[o.e] \in 1..sver[o.e]
      BY <1>0, <3>1, <3>3
    <3>5. NeverAhead' /\ \A r \in net' : \A p \in r : p.base <= sver'[p.e]
      BY <1>0, <3>1 DEF Behind, NeverAhead
    <3>6. Behind'
      <4>1. CASE reply' = reply
        BY <1>0, <3>1, <3>5, <4>1 DEF Behind
      <4>2. ASSUME NEW x, reply' = Conflict(o.e, sver[o.e], x) PROVE Behind'
        <5>1. reply'.kind = "conflict" /\ reply'.e = o.e /\ reply'.ver = sver[o.e]
          BY <4>2 DEF Conflict
        <5>2. QED
          BY <1>0, <3>1, <3>4, <3>5, <5>1 DEF Behind
      <4>3. QED
        BY <3>1, <4>1, <4>2
    <3>7. QED
      BY <3>1, <3>2, <3>6 DEF Ordered, Single
  <2>4. QED
    BY <1>8, <2>1, <2>2, <2>3 DEF Cloud, ServerAnswers
<1>9. CASE UNCHANGED vars
  BY <1>9 DEF vars, Ordered, Stream, Behind, NeverAhead, Single, Foreign
<1>10. CASE Pull
  BY <1>1, <1>4, <1>10, IdleCalm DEF Pull
<1>11. CASE Push
  BY <1>1, <1>5, <1>6, <1>7, <1>11, IdleCalm, BuildCalm, SendCalm, FailedPushCalm DEF Push
<1>12. QED
  BY <1>1, <1>3, <1>8, <1>9, <1>10, <1>11, IdleCalm DEF Next

LEMMA OrderedAlways == Spec => [](Inv /\ Ordered)
<1>1. Init => Inv /\ Ordered
  <2>1. Init => Single(batch) /\ \A req \in net : Single(req)
    BY DEF Init, Single
  <2>2. QED
    BY <2>1, InitSafe, StreamInit DEF Ordered
<1>2. (Inv /\ Ordered) /\ [Next]_vars => (Inv /\ Ordered)'
  BY StepSafe, OrderedStep
<1>3. QED
  BY <1>1, <1>2, PTL DEF Spec

\* Neither the version the device holds nor the base of a queued row is ever
\* ahead of the server, so no row is beyond acceptance for good.
THEOREM VersionsNeverAhead == Spec => []NeverAhead
<1>1. Inv /\ Ordered => NeverAhead
  BY DEF Ordered, Behind
<1>2. QED
  BY <1>1, OrderedAlways, PTL

-----------------------------------------------------------------------------
(* What the device has pulled. *)

Agreed == Inv /\ Ordered /\ Seen /\ Rows

LEMMA VersionFacts ==
  ASSUME Inv, Ordered
  PROVE  /\ cursor \in Nat /\ top \in Nat /\ cursor <= top
         /\ \A e \in Entity : /\ head[e].base \in Nat /\ st[e].ver \in Nat /\ sver[e] \in Nat
                              /\ head[e].base <= sver[e] /\ st[e].ver <= sver[e]
         /\ \A c \in log : /\ c.e \in Entity /\ c.cur \in Nat /\ c.ver \in Nat
                           /\ c.cur <= top /\ c.cur >= 1 /\ c.ver >= 1 /\ c.ver <= sver[c.e]
         /\ \A c, d \in log : /\ c.cur = d.cur => c = d
                              /\ c.e = d.e => (c.cur < d.cur <=> c.ver < d.ver)
                              /\ c.op = d.op /\ ~Foreign(c) => c = d
BY RowFacts, StreamFacts DEF Ordered, Stream, Behind, NeverAhead

LEMMA KnownLater ==
  ASSUME Inv, NEW p \in Nat, NEW q \in Nat, p <= q, NEW e, NEW v, KnownIn(log, p, e, v)
  PROVE  KnownIn(log, q, e, v)
BY StreamFacts DEF KnownIn

\* With the whole stream pulled everything is known.
LEMMA KnownAll ==
  ASSUME Inv, Ordered, NEW e, NEW v
  PROVE  KnownIn(log, top, e, v)
BY VersionFacts DEF KnownIn

LEMMA KnownNothing ==
  ASSUME Inv, Ordered, NEW p, NEW e
  PROVE  KnownIn(log, p, e, 0)
BY VersionFacts DEF KnownIn

\* A step that adds no change keeps Seen when what it puts in the rows and the
\* batch is known.
LEMMA SeenStep ==
  ASSUME Inv, Ordered, Seen, log' = log, cursor' \in Nat, cursor <= cursor',
         pc' \in Pushing => \A e \in Entity : /\ KnownIn(log, cursor', e, st'[e].ver)
                                              /\ KnownIn(log, cursor', e, head'[e].base),
         \A o \in batch' : KnownIn(log, cursor', o.e, o.base),
         \A req \in net' : req \in net \/ req = batch,
         \/ reply' = NoReply
         \/ reply' = reply /\ batch' = batch
         \/ reply'.kind = "conflict"
  PROVE  Seen'
<1>0. cursor \in Nat
  BY VersionFacts
<1>1. \A req \in net' : \A o \in req : KnownIn(log, cursor', o.e, o.base)
  BY <1>0, KnownLater DEF Seen, Known
<1>2. \A d \in log : ~Foreign(d) => KnownIn(log, cursor', d.e, d.ver)
  BY <1>0, KnownLater DEF Seen, Known
<1>3. reply'.kind = "applied" => reply' = reply /\ batch' = batch
  BY DEF NoReply
<1>4. reply'.kind = "applied" => \A e \in Entity : reply'.ver[e] > 0 =>
        \E o \in batch', d \in log' : o.e = e /\ d.op = o.op /\ d.e = e /\ d.ver = reply'.ver[e]
  BY <1>3 DEF Seen
<1>5. QED
  BY <1>1, <1>2, <1>4 DEF Seen, Known, Foreign

\* The rows of a step that adds no change: an entity it leaves alone keeps what
\* was true of it.
Untouched(e) ==
  /\ head'[e].op = head[e].op /\ head'[e].base = head[e].base /\ (Queued(e)' <=> Queued(e))
  /\ st'[e] = st[e] /\ doc'[e] = doc[e]
  /\ \A c \in log : c.e = e /\ c.cur <= cursor' => c.cur <= cursor
  /\ resolver'[e].mode = "remote" =>
       resolver'[e] = resolver[e] \/ (st[e].conflict /\ resolver'[e].val = st[e].shadow)

\* The row of a request that the server would still take stays as it is.
StaysLive(e) ==
  (\E req \in net \cup {batch} : \E o \in req : o.e = e /\ Live(o))
    /\ Queued(e) /\ head[e].base = sver[e] /\ ~st[e].conflict
  => Queued(e)' /\ head'[e].base = sver[e] /\ ~st'[e].conflict

LEMMA UntouchedRow ==
  ASSUME Agreed, NEW e \in Entity, Untouched(e), log' = log,
         cursor' \in Nat, cursor <= cursor'
  PROVE  AckedOK(e)' /\ ShowsOK(e)' /\ StaysLive(e)
<1>0. /\ AckedOK(e) /\ ShowsOK(e)
      /\ \A c \in log : c.e \in Entity /\ c.cur \in Nat /\ cursor \in Nat
  BY VersionFacts DEF Agreed, Rows
<1>1. \A v, x : LatestIn(log, cursor, e, v, x) => LatestIn(log, cursor', e, v, x)
  BY <1>0 DEF LatestIn, Untouched
<1>2. ASSUME NEW c \in log, Queued(e), c.op = head[e].op PROVE c.e = e
  BY <1>2, Acknowledged DEF Agreed
<1>3. AckedOK(e)'
  <2>1. SUFFICES ASSUME NEW c \in log, Queued(e), c.op = head[e].op
                 PROVE  /\ head[e].base < c.ver /\ ~(c.cur <= cursor') /\ ~st[e].conflict
                        /\ \A d \in log : d.e = e /\ ~Foreign(d) => d.ver <= c.ver
    BY DEF AckedOK, Untouched, Pulled, Foreign
  <2>2. c.e = e
    BY <1>2, <2>1
  <2>3. QED
    BY <1>0, <2>1, <2>2 DEF AckedOK, Untouched, Pulled
<1>4. ShowsOK(e)'
  BY <1>0, <1>1 DEF ShowsOK, Untouched, Latest
<1>5. StaysLive(e)
  BY DEF StaysLive, Untouched
<1>6. QED
  BY <1>3, <1>4, <1>5

LEMMA RowsStep ==
  ASSUME Agreed, UNCHANGED <<log, sver>>,
         \A e \in Entity : AckedOK(e)' /\ ShowsOK(e)' /\ StaysLive(e),
         \A o \in batch' : SelectedOK(o)',
         \A req \in net' : req \in net \/ req = batch,
         reply'.kind = "conflict" => LatestIn(log, cursor', reply'.e, reply'.ver, reply'.val)
  PROVE  Rows'
<1>1. ASSUME NEW req \in net', NEW o \in req PROVE LiveOK(o)'
  <2>1. SUFFICES ASSUME Live(o) PROVE Queued(o.e)' /\ head'[o.e].base = o.base /\ ~st'[o.e].conflict
    BY DEF LiveOK, Live, Committed
  <2>2. o.e \in Entity /\ o.base = sver[o.e]
    BY <1>1, <2>1, RequestFacts, BatchFacts DEF Live, Agreed
  <2>3. Queued(o.e) /\ head[o.e].base = o.base /\ ~st[o.e].conflict
    <3>1. CASE req \in net
      BY <2>1, <3>1 DEF Agreed, Rows, LiveOK
    <3>2. CASE req = batch
      BY <3>2, BatchFacts DEF Agreed, Rows, SelectedOK
    <3>3. QED
      BY <3>1, <3>2
  <2>4. \E r \in net \cup {batch} : \E p \in r : p.e = o.e /\ Live(p)
    BY <1>1, <2>1
  <2>5. QED
    BY <2>2, <2>3, <2>4 DEF StaysLive
<1>2. QED
  BY <1>1 DEF Rows, Latest

\* A batch that only loses operations keeps what is selected.
LEMMA SelectedKept ==
  ASSUME Agreed, log' = log,
         NEW o, NEW p \in batch, o.op = p.op, o.e = p.e, o.base = p.base,
         Queued(o.e)' /\ head'[o.e].base = head[o.e].base,
         \/ head'[o.e].op = head[o.e].op /\ (attempts' = attempts \/ AllStillCurrent)
         \/ \A a \in attempts' : a.op # head'[o.e].op,
         reply'.kind = "conflict" => reply' = reply
  PROVE  SelectedOK(o)'
<1>1. SelectedOK(p)
  BY DEF Agreed, Rows
<1>2. head'[o.e].op # o.op => \A a \in attempts' : a.op # head'[o.e].op
  BY <1>1 DEF SelectedOK, AllStillCurrent
<1>3. reply'.kind = "conflict" /\ o.e = reply'.e => ~(\E c \in log : c.op = o.op) /\ o.base < reply'.ver
  BY <1>1 DEF SelectedOK, Committed
<1>4. QED
  BY <1>1, <1>2, <1>3 DEF SelectedOK, Committed

LEMMA CalmAgrees ==
  ASSUME Agreed, Calm
  PROVE  Seen' /\ Rows'
<1>0. /\ Inv /\ Ordered /\ Seen /\ Rows /\ cursor \in Nat /\ cursor' = cursor /\ log' = log
      /\ sver' = sver
  BY VersionFacts DEF Agreed, Calm
<1>1. Seen'
  <2>1. pc' \in Pushing => \A e \in Entity : /\ KnownIn(log, cursor, e, st[e].ver)
                                             /\ KnownIn(log, cursor, e, head[e].base)
    BY <1>0, KnownAll DEF Calm, Seen, Known
  <2>2. \A o \in batch' : KnownIn(log, cursor, o.e, o.base)
    BY <1>0 DEF Calm, Seen, Known
  <2>3. QED
    BY <1>0, <2>1, <2>2, SeenStep DEF Calm
<1>2. Rows'
  <2>1. \A e \in Entity : AckedOK(e)' /\ ShowsOK(e)' /\ StaysLive(e)
    <3>1. \A e \in Entity : Untouched(e)
      BY <1>0 DEF Untouched, Calm
    <3>2. QED
      BY <1>0, <3>1, UntouchedRow
  <2>2. reply'.kind = "conflict" => reply' = reply /\ batch' = batch
    BY DEF Calm, NoReply
  <2>3. ASSUME NEW o \in batch' PROVE SelectedOK(o)'
    <3>1. PICK p \in batch : o.op = p.op /\ o.e = p.e /\ o.base = p.base
      BY DEF Calm
    <3>2. SelectedOK(p) /\ p.e \in Entity
      BY <1>0, BatchFacts DEF Rows
    <3>3. Queued(o.e)' /\ head'[o.e].base = head[o.e].base /\ head'[o.e].op = head[o.e].op
      BY <3>1, <3>2 DEF Calm, SelectedOK
    <3>4. attempts' = attempts \/ AllStillCurrent
      BY DEF Calm
    <3>5. QED
      BY <1>0, <2>2, <3>1, <3>3, <3>4, SelectedKept
  <2>4. reply'.kind = "conflict" => LatestIn(log, cursor', reply'.e, reply'.ver, reply'.val)
    BY <1>0, <2>2 DEF Rows, Latest
  <2>5. QED
    BY <1>0, <2>1, <2>3, <2>4, RowsStep DEF Calm
<1>3. QED
  BY <1>1, <1>2

\* A step that replaces one row.
LEMMA RowAgrees ==
  ASSUME Agreed, NEW e \in Entity, OneRow(e),
         head'[e].base \in {0, head[e].base, st[e].ver},
         Queued(e) /\ ~st[e].conflict =>
           Queued(e)' /\ head'[e].base = head[e].base /\ ~st'[e].conflict,
         Queued(e)' => \/ head'[e].op # 0 /\ \A a \in attempts : a.op # head'[e].op
                       \/ st[e].conflict /\ Queued(e) /\ head'[e].op = head[e].op,
         ShowsOK(e)'
  PROVE  Seen' /\ Rows'
<1>0. /\ Inv /\ Ordered /\ Seen /\ Rows /\ cursor \in Nat
      /\ UNCHANGED <<attempts, cursor, pc, batch, net, reply, log, sver, top>>
      /\ st'[e].ver = st[e].ver
      /\ \A f \in Entity \ {e} : head'[f] = head[f] /\ st'[f] = st[f]
  BY VersionFacts DEF Agreed, OneRow
<1>1. Seen'
  <2>1. ASSUME NEW f \in Entity, pc' \in Pushing
        PROVE  KnownIn(log, cursor, f, st'[f].ver) /\ KnownIn(log, cursor, f, head'[f].base)
    <3>1. KnownIn(log, cursor, f, st[f].ver) /\ KnownIn(log, cursor, f, head[f].base)
          /\ KnownIn(log, cursor, f, 0)
      BY <1>0, <2>1, KnownNothing DEF Seen, Known
    <3>2. QED
      BY <1>0, <3>1
  <2>2. \A o \in batch' : KnownIn(log, cursor, o.e, o.base)
    BY <1>0 DEF Seen, Known
  <2>3. QED
    BY <1>0, <2>1, <2>2, SeenStep
<1>2. ASSUME NEW f \in Entity PROVE AckedOK(f)' /\ ShowsOK(f)' /\ StaysLive(f)
  <2>1. CASE f # e
    <3>1. Untouched(f)
      BY <1>0, <2>1 DEF Untouched, OneRow, Queued
    <3>2. QED
      BY <1>0, <3>1, UntouchedRow
  <2>2. CASE f = e
    <3>1. AckedOK(e)'
      <4>1. SUFFICES ASSUME NEW c \in log, Queued(e)', c.op = head'[e].op PROVE FALSE
        BY <1>0 DEF AckedOK, Pulled, Foreign
      <4>2. ASSUME head'[e].op # 0, \A a \in attempts : a.op # head'[e].op PROVE FALSE
        <5>1. Foreign(c) \/ SentAs(c) \in attempts
          BY <1>0, StreamFacts
        <5>2. SentAs(c) \notin attempts
          BY <4>1, <4>2 DEF SentAs
        <5>3. head'[e].op = 0
          BY <4>1, <5>1, <5>2 DEF Foreign, OtherDevice
        <5>4. QED
          BY <4>2, <5>3
      <4>3. ASSUME st[e].conflict, Queued(e), head'[e].op = head[e].op PROVE FALSE
        BY <1>0, <4>1, <4>3 DEF Rows, AckedOK
      <4>4. QED
        BY <4>1, <4>2, <4>3
    <3>2. StaysLive(e)
      BY DEF StaysLive
    <3>3. QED
      BY <2>2, <3>1, <3>2
  <2>3. QED
    BY <2>1, <2>2
<1>3. ASSUME NEW o \in batch' PROVE SelectedOK(o)'
  <2>1. SelectedOK(o) /\ o.e \in Entity /\ ~st[o.e].conflict /\ o \in batch
    BY <1>0, BatchFacts DEF Rows
  <2>2. CASE o.e # e
    BY <1>0, <2>1, <2>2, SelectedKept DEF SelectedOK, Queued
  <2>3. CASE o.e = e
    BY <1>0, <2>1, <2>3, SelectedKept DEF SelectedOK
  <2>4. QED
    BY <2>2, <2>3
<1>4. reply'.kind = "conflict" => LatestIn(log, cursor', reply'.e, reply'.ver, reply'.val)
  BY <1>0 DEF Rows, Latest
<1>5. QED
  BY <1>0, <1>1, <1>2, <1>3, <1>4, RowsStep

-----------------------------------------------------------------------------
(* The user's steps. *)

\* Without a conflict the version an entity is at is not past its row's base.
LEMMA RowBase ==
  ASSUME Agreed, NEW e \in Entity, Queued(e), ~st[e].conflict
  PROVE  st[e].ver <= head[e].base /\ MaxOf(st[e].ver, head[e].base) = head[e].base
         /\ MaxOf(head[e].base, st[e].ver) = head[e].base
<1>1. st[e].ver <= head[e].base
  BY DEF Agreed, Rows, ShowsOK
<1>2. st[e].ver \in Nat /\ head[e].base \in Nat
  BY VersionFacts DEF Agreed
<1>3. QED
  BY <1>1, <1>2 DEF MaxOf

LEMMA NewId ==
  ASSUME Agreed, NEW e \in Entity, head'[e].op = nextOp
  PROVE  head'[e].op # 0 /\ \A a \in attempts : a.op # head'[e].op
BY FreshId DEF Agreed, Inv, Safe

LEMMA EditAgrees ==
  ASSUME Agreed, NEW e \in Entity, Edit(e)
  PROVE  Seen' /\ Rows'
<1>0. /\ Inv /\ OneRow(e) /\ UNCHANGED <<st, resolver>>
      /\ Queued(e)' /\ head'[e].op = nextOp
      /\ head'[e].base = IF Queued(e) THEN MaxOf(st[e].ver, head[e].base) ELSE st[e].ver
      /\ log' = log /\ cursor' = cursor
  BY EditRow DEF Agreed, OneRow
<1>1. st[e].ver \in Nat /\ head[e].base \in Nat
  BY VersionFacts DEF Agreed
<1>2. head'[e].base \in {0, head[e].base, st[e].ver} /\ st[e].ver <= head'[e].base
  BY <1>0, <1>1 DEF MaxOf
<1>3. Queued(e) /\ ~st[e].conflict =>
        Queued(e)' /\ head'[e].base = head[e].base /\ ~st'[e].conflict
  BY <1>0, RowBase
<1>4. ShowsOK(e)'
  <2>1. ShowsOK(e)
    BY DEF Agreed, Rows
  <2>2. QED
    BY <1>0, <1>2, <2>1 DEF ShowsOK, Latest
<1>5. QED
  BY <1>0, <1>2, <1>3, <1>4, NewId, RowAgrees

LEMMA KeepAgrees ==
  ASSUME Agreed, NEW e \in Entity, KeepLocalCommits(e)
  PROVE  Seen' /\ Rows'
<1>0. /\ OneRow(e) /\ doc' = doc /\ resolver'[e] = NoChoice
      /\ ~st[e].conflict => head'[e] = head[e] /\ st'[e] = st[e]
      /\ st[e].conflict =>
           /\ Queued(e)' /\ ~st'[e].conflict /\ head'[e].base = st[e].ver
           /\ head'[e].op = nextOp \/ (Queued(e) /\ head'[e].op = head[e].op)
      /\ log' = log /\ cursor' = cursor /\ st'[e].ver = st[e].ver /\ attempts' = attempts
  BY KeepRow DEF Agreed, OneRow
<1>1. st[e].ver \in Nat /\ head[e].base \in Nat /\ ShowsOK(e) /\ NoChoice.mode # "remote"
  BY VersionFacts DEF Agreed, Rows, NoChoice
<1>2. CASE st[e].conflict
  <2>1. ShowsOK(e)'
    BY <1>0, <1>1, <1>2 DEF ShowsOK
  <2>2. Queued(e)' => \/ head'[e].op # 0 /\ \A a \in attempts : a.op # head'[e].op
                      \/ st[e].conflict /\ Queued(e) /\ head'[e].op = head[e].op
    BY <1>0, <1>2, NewId
  <2>3. QED
    BY <1>0, <1>2, <2>1, <2>2, RowAgrees
<1>3. CASE ~st[e].conflict
  <2>1. Calm
    <3>1. \A f \in Entity : head'[f] = head[f] /\ st'[f] = st[f] /\ resolver'[f] \in {resolver[f], NoChoice}
      BY <1>0, <1>3 DEF OneRow
    <3>2. UNCHANGED <<doc, rev, st, cursor, log, sver, top, attempts, net, batch, reply, pc>>
      BY <1>3 DEF KeepLocalCommits, flight, server
    <3>3. QED
      BY <3>1, <3>2, StillCalm DEF Agreed, Queued
  <2>2. QED
    BY <2>1, CalmAgrees
<1>4. QED
  BY <1>2, <1>3

\* Without steps of others between its reads and its transaction, use-remote
\* applies the shadow the conflict has.
LEMMA RemoteAgrees ==
  ASSUME Agreed, NEW e \in Entity, UseRemoteCommits(e)
  PROVE  Seen' /\ Rows'
<1>0. /\ OneRow(e) /\ resolver'[e] = NoChoice
      /\ head'[e] = NoHead /\ ~Queued(e)' /\ head'[e].base = 0 /\ doc'[e] = resolver[e].val
      /\ resolver[e].mode = "remote" /\ ~st'[e].conflict
      /\ log' = log /\ cursor' = cursor /\ st'[e].ver = st[e].ver /\ attempts' = attempts
  BY RemoteRow DEF Agreed, OneRow
<1>1. ShowsOK(e) /\ NoChoice.mode # "remote"
  BY DEF Agreed, Rows, NoChoice
<1>2. st[e].conflict /\ LatestIn(log, cursor, e, st[e].ver, doc'[e])
  BY <1>0, <1>1 DEF ShowsOK, Latest
<1>3. PICK c \in log : c.ver = st[e].ver
  BY <1>2 DEF LatestIn
<1>4. ShowsOK(e)'
  BY <1>0, <1>1, <1>2, <1>3 DEF ShowsOK, Latest
<1>5. QED
  BY <1>0, <1>2, <1>4, RowAgrees

LEMMA NoRemoteChoice ==
  ASSUME PromptResolver, resolver' = resolver
  PROVE  \A e \in Entity : resolver'[e].mode # "remote"
BY DEF PromptResolver

LEMMA RetryAgrees ==
  ASSUME Agreed, PromptResolver, NEW e \in Entity, RetryDeadLetter(e)
  PROVE  Seen' /\ Rows'
<1>0. /\ OneRow(e) /\ UNCHANGED <<doc, resolver>>
      /\ Queued(e) /\ Queued(e)' /\ head'[e].op = nextOp /\ ~st'[e].conflict
      /\ head'[e].base = MaxOf(head[e].base, st[e].ver)
      /\ log' = log /\ cursor' = cursor /\ st'[e].ver = st[e].ver /\ attempts' = attempts
  BY RetryRow DEF Agreed, OneRow
<1>1. st[e].ver \in Nat /\ head[e].base \in Nat
  BY VersionFacts DEF Agreed
<1>2. head'[e].base \in {0, head[e].base, st[e].ver} /\ st[e].ver <= head'[e].base
  BY <1>0, <1>1 DEF MaxOf
<1>3. Queued(e) /\ ~st[e].conflict =>
        Queued(e)' /\ head'[e].base = head[e].base /\ ~st'[e].conflict
  BY <1>0, RowBase
<1>4. ShowsOK(e)'
  BY <1>0, <1>2, NoRemoteChoice DEF ShowsOK
<1>5. QED
  BY <1>0, <1>2, <1>3, <1>4, NewId, RowAgrees

-----------------------------------------------------------------------------
(* A pulled change. *)

LEMMA PageSeen ==
  ASSUME Agreed, NEW c \in log, PullPage(c)
  PROVE  Seen'
<1>0. /\ Inv /\ Ordered /\ Seen /\ c.cur = cursor + 1 /\ cursor' = c.cur /\ batch = {}
      /\ UNCHANGED <<attempts, batch, resolver, log, sver, top, net, reply>>
      /\ pc' \in Pushing => cursor' = top
  BY PageFacts DEF Agreed
<1>1. cursor' \in Nat /\ cursor <= cursor'
  BY <1>0, VersionFacts
<1>2. pc' \in Pushing => \A e \in Entity : /\ KnownIn(log, cursor', e, st'[e].ver)
                                           /\ KnownIn(log, cursor', e, head'[e].base)
  BY <1>0, KnownAll
<1>3. QED
  BY <1>0, <1>1, <1>2, SeenStep

\* The change pulled next is the only one that becomes pulled.
LEMMA PageOthers ==
  ASSUME Agreed, NEW c \in log, PullPage(c), PromptResolver,
         AckedOK(c.e)' /\ ShowsOK(c.e)' /\ StaysLive(c.e)
  PROVE  Rows'
<1>0. /\ Inv /\ Ordered /\ c.cur = cursor + 1 /\ cursor' = c.cur /\ batch = {}
      /\ UNCHANGED <<attempts, batch, resolver, log, sver, top, net, reply>>
      /\ reply = NoReply
      /\ \A f \in Entity \ {c.e} : head'[f] = head[f] /\ st'[f] = st[f] /\ doc'[f] = doc[f]
  BY PageFacts DEF Agreed
<1>1. cursor' \in Nat /\ cursor <= cursor'
  BY <1>0, VersionFacts
<1>2. ASSUME NEW f \in Entity, f # c.e PROVE AckedOK(f)' /\ ShowsOK(f)' /\ StaysLive(f)
  <2>1. \A d \in log : d.e = f /\ d.cur <= cursor' => d.cur <= cursor
    <3>1. ASSUME NEW d \in log, d.e = f, d.cur <= cursor', ~(d.cur <= cursor) PROVE FALSE
      <4>1. d.cur \in Nat /\ c.cur \in Nat /\ cursor \in Nat
        BY <1>0, VersionFacts
      <4>2. d.cur = c.cur
        BY <1>0, <3>1, <4>1
      <4>3. QED
        BY <1>0, <1>2, <3>1, <4>2, VersionFacts
    <3>2. QED
      BY <3>1
  <2>2. Untouched(f)
    BY <1>0, <1>2, <2>1, NoRemoteChoice DEF Untouched, Queued
  <2>3. QED
    BY <1>0, <1>1, <2>2, UntouchedRow
<1>3. \A f \in Entity : AckedOK(f)' /\ ShowsOK(f)' /\ StaysLive(f)
  BY <1>2
<1>4. reply'.kind # "conflict"
  BY <1>0 DEF NoReply
<1>5. QED
  BY <1>0, <1>3, <1>4, RowsStep

\* What follows the pulled change is not pulled yet.
LEMMA AfterPage ==
  ASSUME Agreed, NEW c \in log, PullPage(c), NEW d \in log, d # c, ~Pulled(d)
  PROVE  ~(d.cur <= cursor') /\ d.cur > c.cur
<1>1. c.cur = cursor + 1 /\ cursor' = c.cur /\ Inv /\ Ordered
  BY PageFacts DEF Agreed
<1>2. d.cur \in Nat /\ c.cur \in Nat /\ cursor \in Nat /\ d.cur # c.cur
  BY <1>1, VersionFacts
<1>3. QED
  BY <1>1, <1>2 DEF Pulled

LEMMA LaterAfterPage ==
  ASSUME Agreed, NEW c \in log, PullPage(c), NEW d \in log, d.e = c.e, d.ver > c.ver
  PROVE  ~(d.cur <= cursor')
<1>1. c.cur = cursor + 1 /\ cursor' = c.cur /\ Inv /\ Ordered
  BY PageFacts DEF Agreed
<1>2. d.cur \in Nat /\ c.cur \in Nat /\ cursor \in Nat /\ c.cur < d.cur
  BY <1>1, VersionFacts
<1>3. QED
  BY <1>1, <1>2

\* An acknowledgement settles the row it belongs to, and raises any other.
LEMMA AckAgrees ==
  ASSUME Agreed, PromptResolver, NEW c \in log, PullPage(c), AckOwn(c)
  PROVE  AckedOK(c.e)' /\ ShowsOK(c.e)' /\ StaysLive(c.e)
<1> DEFINE e == c.e
<1>0. /\ Inv /\ Ordered /\ Inv /\ e \in Entity /\ ~Foreign(c)
      /\ c.cur = cursor + 1 /\ cursor' = c.cur
      /\ UNCHANGED <<attempts, resolver, log, sver, doc>>
      /\ st'[e].ver = c.ver /\ ~st'[e].conflict
  BY PageFacts, AckRow DEF Agreed, AckOwn
<1>1. /\ AckedOK(e) /\ ShowsOK(e) /\ resolver'[e].mode # "remote"
      /\ c.ver \in Nat /\ c.ver <= sver[e] /\ sver[e] \in Nat /\ head[e].base \in Nat
      /\ head[e].base <= sver[e] /\ cursor \in Nat
  BY <1>0, VersionFacts, NoRemoteChoice DEF Agreed, Rows
<1>2. CASE head[e].op = c.op
  <2>1. head'[e] = NoHead /\ ~Queued(e)' /\ head'[e].base = 0
    BY <1>0, <1>2, AckRow
  <2>2. Queued(e)
    BY <1>0, <1>2, RowFacts, StreamFacts
  <2>3. /\ head[e].base < c.ver /\ \A d \in log : d.e = e /\ ~Foreign(d) => d.ver <= c.ver
    BY <1>1, <1>2, <2>2 DEF AckedOK
  <2>4. c.val = doc[e]
    BY <1>0, <1>2, <2>2, Acknowledged
  <2>5. LatestIn(log, cursor', e, c.ver, doc[e])
    <3>1. ASSUME NEW d \in log, d.e = e, d.ver > c.ver PROVE Foreign(d) /\ ~(d.cur <= cursor')
      <4>1. d.ver \in Nat /\ c.ver \in Nat
        BY <1>0, VersionFacts
      <4>2. QED
        BY <2>3, <3>1, <4>1, LaterAfterPage
    <3>2. QED
      BY <2>4, <3>1 DEF LatestIn
  <2>6. ShowsOK(e)'
    BY <1>0, <1>1, <2>1, <2>5 DEF ShowsOK, Latest
  <2>7. AckedOK(e)'
    BY <2>1 DEF AckedOK
  <2>8. StaysLive(e)
    BY <1>1, <2>3 DEF StaysLive
  <2>9. QED
    BY <2>6, <2>7, <2>8
<1>3. CASE head[e].op # c.op
  <2>1. /\ Queued(e)' <=> Queued(e)
        /\ head'[e].op = head[e].op
        /\ head'[e].base = IF Queued(e) THEN MaxOf(head[e].base, c.ver) ELSE 0
    BY <1>0, <1>3, AckRow
  <2>2. StaysLive(e)
    BY <1>0, <1>1, <2>1 DEF StaysLive, MaxOf
  <2>3. AckedOK(e)'
    <3>1. SUFFICES ASSUME NEW d \in log, Queued(e), d.op = head[e].op
                   PROVE  /\ head'[e].base < d.ver /\ ~(d.cur <= cursor')
                          /\ \A f \in log : f.e = e /\ ~Foreign(f) => f.ver <= d.ver
      BY <1>0, <2>1 DEF AckedOK, Pulled, Foreign
    <3>2. /\ head[e].base < d.ver /\ ~Pulled(d)
          /\ \A f \in log : f.e = e /\ ~Foreign(f) => f.ver <= d.ver
      BY <1>1, <3>1 DEF AckedOK
    <3>3. d # c /\ d.e = e
      BY <1>0, <1>3, <3>1, Acknowledged
    <3>4. ~(d.cur <= cursor') /\ d.cur > c.cur
      BY <3>2, <3>3, AfterPage
    <3>5. c.ver < d.ver
      BY <1>0, <3>3, <3>4, VersionFacts
    <3>6. QED
      BY <1>1, <2>1, <3>1, <3>2, <3>4, <3>5 DEF MaxOf
  <2>4. ASSUME NEW v, NEW x, LatestIn(log, cursor, e, v, x)
        PROVE  LatestIn(log, cursor', e, v, x)
    <3>1. ASSUME NEW d \in log, d.e = e, d.ver > v PROVE Foreign(d) /\ ~(d.cur <= cursor')
      <4>1. Foreign(d) /\ ~Pulled(d)
        BY <2>4, <3>1 DEF LatestIn, Pulled
      <4>2. d # c
        BY <1>0, <4>1
      <4>3. QED
        BY <4>1, <4>2, AfterPage
    <3>2. QED
      BY <2>4, <3>1 DEF LatestIn
  <2>5. ShowsOK(e)'
    <3>1. Queued(e) => st'[e].ver <= head'[e].base
      BY <1>0, <1>1, <2>1 DEF MaxOf
    <3>2. ~Queued(e) => \E d \in log : LatestIn(log, cursor', e, d.ver, doc[e])
      BY <1>1, <2>4 DEF ShowsOK, Latest
    <3>3. QED
      BY <1>0, <1>1, <2>1, <3>1, <3>2 DEF ShowsOK, Latest
  <2>6. QED
    BY <2>2, <2>3, <2>5
<1>4. QED
  BY <1>2, <1>3

\* Nothing of this device's follows a foreign change it has not pulled.
LEMMA ForeignIsLast ==
  ASSUME Agreed, NEW c \in log, PullPage(c), Foreign(c)
  PROVE  /\ \A d \in log : d.e = c.e /\ d.ver > c.ver => Foreign(d) /\ ~(d.cur <= cursor')
         /\ \A d \in log : d.e = c.e /\ ~Foreign(d) => d.ver < c.ver
<1>0. Inv /\ Ordered /\ Seen /\ c.cur = cursor + 1 /\ cursor \in Nat
  BY PageFacts, VersionFacts DEF Agreed
<1>1. ASSUME NEW d \in log, d.e = c.e, ~Foreign(d) PROVE d.ver < c.ver
  <2>1. KnownIn(log, cursor, d.e, d.ver)
    BY <1>0, <1>1 DEF Seen, Known
  <2>2. c.ver \in Nat /\ d.ver \in Nat
    BY <1>0, VersionFacts
  <2>3. QED
    BY <1>0, <1>1, <2>1, <2>2 DEF KnownIn
<1>2. ASSUME NEW d \in log, d.e = c.e, d.ver > c.ver PROVE Foreign(d) /\ ~(d.cur <= cursor')
  <2>1. c.ver \in Nat /\ d.ver \in Nat
    BY <1>0, VersionFacts
  <2>2. QED
    BY <1>1, <1>2, <2>1, LaterAfterPage
<1>3. QED
  BY <1>1, <1>2

LEMMA ShadowAgrees ==
  ASSUME Agreed, PromptResolver, NEW c \in log, PullPage(c), ShadowRemote(c)
  PROVE  AckedOK(c.e)' /\ ShowsOK(c.e)' /\ StaysLive(c.e)
<1> DEFINE e == c.e
<1>0. /\ Inv /\ Ordered /\ e \in Entity /\ Foreign(c)
      /\ UNCHANGED <<attempts, resolver, log, sver, doc, head>>
      /\ c.cur = cursor + 1 /\ cursor' = c.cur
      /\ st'[e].ver = c.ver /\ st'[e].conflict /\ st'[e].shadow = c.val
      /\ Queued(e) \/ st[e].conflict
  BY PageFacts, ShadowRow DEF Agreed, ShadowRemote
<1>1. AckedOK(e) /\ ShowsOK(e) /\ resolver'[e].mode # "remote" /\ Queued(e) /\ Queued(e)'
  BY <1>0, NoRemoteChoice DEF Agreed, Rows, ShowsOK, Queued
<1>2. ASSUME NEW d \in log, d.op = head[e].op PROVE FALSE
  <2>1. /\ ~Pulled(d) /\ d.e = e
    BY <1>0, <1>1, <1>2, Acknowledged DEF AckedOK
  <2>2. ~Foreign(d)
    BY <1>0, <1>1, <1>2, RowFacts DEF Foreign, OtherDevice
  <2>3. d # c
    BY <1>0, <2>2
  <2>4. d.cur > c.cur /\ d.ver < c.ver
    BY <1>0, <2>1, <2>2, <2>3, AfterPage, ForeignIsLast
  <2>5. /\ c.cur \in Nat /\ d.cur \in Nat /\ c.ver \in Nat /\ d.ver \in Nat
        /\ c.cur < d.cur <=> c.ver < d.ver
    BY <1>0, <2>1, VersionFacts
  <2>6. QED
    BY <2>4, <2>5
<1>3. AckedOK(e)'
  BY <1>0, <1>2 DEF AckedOK
<1>4. LatestIn(log, cursor', e, c.ver, c.val)
  BY <1>0, ForeignIsLast DEF LatestIn
<1>5. ShowsOK(e)'
  BY <1>0, <1>1, <1>4 DEF ShowsOK, Latest
<1>6. StaysLive(e)
  <2>1. SUFFICES ASSUME NEW req \in net \cup {batch}, NEW o \in req, o.e = e, Live(o)
                 PROVE  FALSE
    BY DEF StaysLive
  <2>2. batch = {}
    BY PageFacts DEF Agreed
  <2>3. KnownIn(log, cursor, e, sver[e])
    BY <2>1, <2>2 DEF Agreed, Seen, Known, Live
  <2>4. c.ver <= sver[e] /\ cursor \in Nat
    BY <1>0, VersionFacts
  <2>5. QED
    BY <1>0, <2>3, <2>4 DEF KnownIn
<1>7. QED
  BY <1>3, <1>5, <1>6

LEMMA ApplyAgrees ==
  ASSUME Agreed, PromptResolver, NEW c \in log, PullPage(c), ApplyRemote(c)
  PROVE  AckedOK(c.e)' /\ ShowsOK(c.e)' /\ StaysLive(c.e)
<1> DEFINE e == c.e
<1>0. /\ Inv /\ Ordered /\ e \in Entity /\ Foreign(c)
      /\ UNCHANGED <<attempts, resolver, log, sver, head>>
      /\ st'[e].ver = c.ver /\ ~st'[e].conflict /\ doc'[e] = c.val
      /\ ~Queued(e) /\ ~st[e].conflict
  BY PageFacts, ApplyRow DEF Agreed, ApplyRemote
<1>1. resolver'[e].mode # "remote" /\ ~Queued(e)'
  BY <1>0, NoRemoteChoice DEF Queued
<1>2. LatestIn(log, cursor', e, c.ver, c.val)
  BY <1>0, ForeignIsLast DEF LatestIn
<1>3. ShowsOK(e)'
  BY <1>0, <1>1, <1>2 DEF ShowsOK, Latest
<1>4. AckedOK(e)' /\ StaysLive(e)
  BY <1>0, <1>1 DEF AckedOK, StaysLive
<1>5. QED
  BY <1>3, <1>4

-----------------------------------------------------------------------------
(* The push. *)

LEMMA SelectAgrees ==
  ASSUME Agreed, NEW S \in SUBSET Entity, SelectBatch(S)
  PROVE  Seen' /\ Rows'
<1>0. /\ Inv /\ Ordered /\ Seen /\ Rows /\ pc = "push" /\ S \subseteq Eligible
      /\ batch' = {[op |-> head[e].op, e |-> e, val |-> head[e].val,
                    base |-> head[e].base, rev |-> head[e].rev] : e \in S}
      /\ UNCHANGED <<doc, head, attempts, st, cursor, resolver, log, sver, net>>
      /\ reply' = reply
  BY DEF SelectBatch, device, server, Agreed
<1>1. reply' = NoReply /\ reply'.kind # "conflict" /\ cursor \in Nat /\ pc \in Pushing
  BY <1>0, NoAnswer, VersionFacts DEF NoReply, Pushing
<1>2. ASSUME NEW o \in batch'
      PROVE  o.e \in S /\ o.op = head[o.e].op /\ o.base = head[o.e].base
  BY <1>0, <1>2
<1>3. Seen'
  <2>1. \A o \in batch' : KnownIn(log, cursor, o.e, o.base)
    BY <1>0, <1>1, <1>2 DEF Seen, Known
  <2>2. \A e \in Entity : /\ KnownIn(log, cursor, e, st'[e].ver)
                          /\ KnownIn(log, cursor, e, head'[e].base)
    BY <1>0, <1>1 DEF Seen, Known
  <2>3. QED
    BY <1>0, <1>1, <2>1, <2>2, SeenStep
<1>4. \A e \in Entity : AckedOK(e)' /\ ShowsOK(e)' /\ StaysLive(e)
  <2>1. \A e \in Entity : Untouched(e)
    BY <1>0 DEF Untouched, Queued
  <2>2. QED
    BY <1>0, <1>1, <2>1, UntouchedRow
<1>5. ASSUME NEW o \in batch' PROVE SelectedOK(o)'
  <2>1. Queued(o.e)
    BY <1>0, <1>2 DEF Eligible, Queued
  <2>2. QED
    BY <1>0, <1>1, <1>2, <2>1 DEF SelectedOK, Queued
<1>6. QED
  BY <1>0, <1>1, <1>3, <1>4, <1>5, RowsStep

\* The answer names, for each entity it raises, a change of this device.
LEMMA RaisedVersion ==
  ASSUME Agreed, reply.kind = "applied", NEW e \in Entity, reply.ver[e] > 0
  PROVE  /\ KnownIn(log, cursor, e, reply.ver[e]) /\ ~st[e].conflict /\ Queued(e)
         /\ ~Mine(e) => \A a \in attempts : a.op # head[e].op
<1>0. Inv /\ Ordered /\ Seen /\ Rows
  BY DEF Agreed
<1>1. PICK o \in batch, d \in log : o.e = e /\ d.op = o.op /\ d.e = e /\ d.ver = reply.ver[e]
  BY <1>0 DEF Seen
<1>2. ~Foreign(d) /\ ~st[e].conflict
  BY <1>0, <1>1, BatchFacts DEF Foreign, OtherDevice
<1>3. SelectedOK(o)
  BY <1>0 DEF Rows
<1>4. QED
  BY <1>0, <1>1, <1>2, <1>3 DEF Seen, Known, SelectedOK, Mine

\* The server's change of a row that the batch settles is its last.
LEMMA SettledRow ==
  ASSUME Agreed, reply.kind = "applied", NEW e \in Entity, Mine(e)
  PROVE  /\ \E c \in log : LatestIn(log, cursor, e, c.ver, doc[e])
         /\ head[e].base < sver[e]
<1>0. Inv /\ Ordered /\ Rows
  BY DEF Agreed
<1>1. PICK o \in batch : o.e = e /\ o.op = head[e].op
  BY DEF Mine
<1>2. PICK c \in log : c.op = head[e].op
  BY <1>0, <1>1, ReplyFacts DEF Committed
<1>3. Queued(e)
  BY <1>0, MineIsQueued
<1>4. c.e = e /\ c.val = doc[e]
  BY <1>0, <1>2, <1>3, Acknowledged
<1>5. /\ head[e].base < c.ver /\ ~Pulled(c)
      /\ \A d \in log : d.e = e /\ ~Foreign(d) => d.ver <= c.ver
  BY <1>0, <1>2, <1>3 DEF Rows, AckedOK
<1>6. ASSUME NEW d \in log, d.e = e, d.ver > c.ver PROVE Foreign(d) /\ ~(d.cur <= cursor)
  <2>1. /\ d.ver \in Nat /\ c.ver \in Nat /\ d.cur \in Nat /\ c.cur \in Nat /\ cursor \in Nat
        /\ c.cur < d.cur <=> c.ver < d.ver
    BY <1>0, <1>4, <1>6, VersionFacts
  <2>2. QED
    BY <1>5, <1>6, <2>1 DEF Pulled
<1>7. LatestIn(log, cursor, e, c.ver, doc[e])
  BY <1>4, <1>6 DEF LatestIn
<1>8. head[e].base < sver[e]
  BY <1>0, <1>4, <1>5, VersionFacts
<1>9. QED
  BY <1>7, <1>8

LEMMA AppliedAgrees ==
  ASSUME Agreed, PushApplied
  PROVE  Seen' /\ Rows'
<1>0. /\ Inv /\ Ordered /\ Seen /\ Rows
      /\ reply.kind = "applied" /\ pc = "await" /\ pc' = "push" /\ batch' = {} /\ reply' = NoReply
      /\ UNCHANGED <<doc, attempts, cursor, resolver, log, sver, top, net>>
      /\ cursor \in Nat
  BY AppliedRow, VersionFacts DEF Agreed
<1>1. reply'.kind # "conflict" /\ pc \in Pushing
  BY <1>0 DEF NoReply, Pushing
<1>2. ASSUME NEW e \in Entity
      PROVE  /\ reply.ver[e] \in Nat
             /\ st'[e].ver = MaxOf(st[e].ver, reply.ver[e])
             /\ st'[e].conflict = st[e].conflict /\ st'[e].shadow = st[e].shadow
             /\ Mine(e) => ~Queued(e)' /\ head'[e].base = 0
             /\ ~Mine(e) =>
                  /\ Queued(e)' <=> Queued(e)
                  /\ head'[e].op = head[e].op
                  /\ head'[e].base = IF Queued(e) THEN MaxOf(head[e].base, reply.ver[e]) ELSE 0
             /\ head[e].base \in Nat /\ st[e].ver \in Nat /\ sver[e] \in Nat
             /\ reply.ver[e] <= sver[e]
             /\ AckedOK(e) /\ ShowsOK(e)
  BY <1>0, AppliedRow, VersionFacts DEF Rows, Ordered, Behind
<1>3. Seen'
  <2>1. ASSUME NEW e \in Entity
        PROVE  KnownIn(log, cursor, e, st'[e].ver) /\ KnownIn(log, cursor, e, head'[e].base)
    <3>1. /\ KnownIn(log, cursor, e, st[e].ver) /\ KnownIn(log, cursor, e, head[e].base)
          /\ KnownIn(log, cursor, e, 0)
      BY <1>0, <1>1, KnownNothing DEF Seen, Known
    <3>2. KnownIn(log, cursor, e, reply.ver[e])
      BY <1>0, <1>2, <3>1, RaisedVersion
    <3>3. /\ st'[e].ver \in {st[e].ver, reply.ver[e]}
          /\ head'[e].base \in {0, head[e].base, reply.ver[e]}
      BY <1>2 DEF MaxOf
    <3>4. QED
      BY <3>1, <3>2, <3>3
  <2>2. QED
    BY <1>0, <2>1, SeenStep
<1>4. ASSUME NEW e \in Entity PROVE AckedOK(e)' /\ ShowsOK(e)' /\ StaysLive(e)
  <2>1. CASE Mine(e)
    <3>1. ~st[e].conflict /\ ~Queued(e)'
      BY <1>0, <1>2, <2>1, MineIsQueued
    <3>2. PICK c \in log : LatestIn(log, cursor, e, c.ver, doc[e])
      BY <1>0, <2>1, SettledRow
    <3>3. ShowsOK(e)'
      BY <1>0, <1>2, <3>1, <3>2 DEF ShowsOK, Latest
    <3>4. AckedOK(e)'
      BY <3>1 DEF AckedOK
    <3>5. StaysLive(e)
      <4>1. head[e].base < sver[e]
        BY <1>0, <2>1, SettledRow
      <4>2. QED
        BY <1>2, <4>1 DEF StaysLive
    <3>6. QED
      BY <3>3, <3>4, <3>5
  <2>2. CASE ~Mine(e)
    <3>1. ShowsOK(e)'
      <4>1. /\ st[e].conflict => st'[e].ver = st[e].ver
        BY <1>0, <1>2, RaisedVersion DEF MaxOf
      <4>2. Queued(e) /\ ~st[e].conflict => st'[e].ver <= head'[e].base
        BY <1>2, <2>2 DEF ShowsOK, MaxOf
      <4>3. QED
        BY <1>0, <1>2, <2>2, <4>1, <4>2 DEF ShowsOK, Latest
    <3>2. AckedOK(e)'
      <4>1. CASE reply.ver[e] > 0
        <5>1. \A c \in log : Queued(e) => c.op # head[e].op
          <6>1. SUFFICES ASSUME NEW c \in log, Queued(e), c.op = head[e].op PROVE FALSE
            OBVIOUS
          <6>2. ~Foreign(c)
            BY <1>0, <6>1, RowFacts DEF Foreign, OtherDevice
          <6>3. SentAs(c) \in attempts /\ SentAs(c).op = head[e].op
            BY <1>0, <6>1, <6>2, StreamFacts DEF SentAs
          <6>4. QED
            BY <1>0, <2>2, <4>1, <6>3, RaisedVersion
        <5>2. QED
          BY <1>0, <1>2, <2>2, <5>1 DEF AckedOK
      <4>2. CASE reply.ver[e] = 0
        <5>1. Queued(e) => head'[e].base = head[e].base
          BY <1>2, <2>2, <4>2 DEF MaxOf
        <5>2. QED
          BY <1>0, <1>2, <2>2, <5>1 DEF AckedOK, Pulled, Foreign
      <4>3. QED
        BY <1>2, <4>1, <4>2
    <3>3. StaysLive(e)
      BY <1>2, <2>2 DEF StaysLive, MaxOf
    <3>4. QED
      BY <3>1, <3>2, <3>3
  <2>3. QED
    BY <2>1, <2>2
<1>5. QED
  BY <1>0, <1>1, <1>3, <1>4, RowsStep

LEMMA ConflictAgrees ==
  ASSUME Agreed, PromptResolver, PushConflicts
  PROVE  Seen' /\ Rows'
<1>0. PICK e :
      /\ e = reply.e /\ Inv /\ Ordered /\ Seen /\ Rows
      /\ reply.kind = "conflict" /\ pc = "await" /\ pc' = "idle" /\ batch' = {}
      /\ reply' = NoReply /\ e \in Entity /\ reply.ver \in Nat
      /\ UNCHANGED <<doc, attempts, cursor, resolver, log, sver, top, net>>
      /\ \A f \in Entity : /\ head'[f].op = head[f].op /\ head'[f].base = head[f].base
                           /\ Queued(f)' <=> Queued(f)
                           /\ f # e => st'[f] = st[f]
      /\ st'[e].ver = MaxOf(1, reply.ver) /\ st'[e].conflict
      /\ st'[e].shadow = reply.val
      /\ cursor \in Nat
  <2>1. Inv
    BY DEF Agreed
  <2>2. QED
    BY <2>1, ConflictRow, VersionFacts DEF Agreed
<1>1. /\ reply'.kind # "conflict" /\ pc' \notin Pushing
      /\ \A f \in Entity : resolver'[f].mode # "remote"
  BY <1>0, NoRemoteChoice DEF NoReply, Pushing
<1>2. Seen'
  BY <1>0, <1>1, SeenStep
<1>3. PICK o \in batch : o.e = e
  BY <1>0, ReplyFacts
<1>4. /\ Queued(e) /\ head[e].base = o.base /\ ~Committed(o) /\ o.base < reply.ver
      /\ head[e].op # o.op => \A a \in attempts : a.op # head[e].op
  BY <1>0, <1>3 DEF Rows, SelectedOK
<1>5. reply.ver \in 1..sver[e] /\ LatestIn(log, cursor, e, reply.ver, reply.val)
      /\ sver[e] \in Nat /\ head[e].base \in Nat
  BY <1>0, VersionFacts DEF Ordered, Behind, Rows, Latest
<1>6. st'[e].ver = reply.ver
  BY <1>0, <1>5 DEF MaxOf
<1>7. AckedOK(e)' /\ ShowsOK(e)' /\ StaysLive(e)
  <2>1. \A c \in log : c.op # head[e].op
    <3>1. SUFFICES ASSUME NEW c \in log, c.op = head[e].op PROVE FALSE
      OBVIOUS
    <3>2. ~Foreign(c)
      BY <1>0, <1>4, <3>1, RowFacts DEF Foreign, OtherDevice
    <3>3. SentAs(c) \in attempts /\ SentAs(c).op = head[e].op
      BY <1>0, <3>1, <3>2, StreamFacts DEF SentAs
    <3>4. QED
      BY <1>4, <3>1, <3>3 DEF Committed
  <2>2. AckedOK(e)'
    BY <1>0, <2>1 DEF AckedOK
  <2>3. ShowsOK(e)'
    BY <1>0, <1>1, <1>4, <1>5, <1>6 DEF ShowsOK, Latest
  <2>4. StaysLive(e)
    BY <1>4, <1>5 DEF StaysLive
  <2>5. QED
    BY <2>2, <2>3, <2>4
<1>8. ASSUME NEW f \in Entity, f # e PROVE AckedOK(f)' /\ ShowsOK(f)' /\ StaysLive(f)
  <2>1. Untouched(f)
    BY <1>0, <1>1, <1>8 DEF Untouched
  <2>2. QED
    BY <1>0, <2>1, UntouchedRow
<1>9. \A f \in Entity : AckedOK(f)' /\ ShowsOK(f)' /\ StaysLive(f)
  BY <1>7, <1>8
<1>10. QED
  BY <1>0, <1>1, <1>2, <1>9, RowsStep

-----------------------------------------------------------------------------
(* The server. *)

\* New changes follow everything; one that is this device's own has its row
\* still queued at the version it replaces.
Appends ==
  /\ UNCHANGED <<doc, head, attempts, st, cursor, pc, batch, resolver>>
  /\ log \subseteq log' /\ net' \subseteq net
  /\ \A e \in Entity : sver'[e] \in {sver[e], sver[e] + 1}
  /\ \A c \in log' \ log :
       /\ c.e \in Entity /\ c.cur \in Nat /\ c.cur > top /\ c.ver = sver[c.e] + 1
       /\ sver'[c.e] = sver[c.e] + 1
       /\ ~Foreign(c) => /\ Queued(c.e) /\ head[c.e].base = sver[c.e] /\ ~st[c.e].conflict
                         /\ Known(c.e, sver[c.e]) /\ \A d \in log : d.op # c.op
  /\ \A c, d \in log' \ log : c.e = d.e => c = d

LEMMA AppendedLatest ==
  ASSUME Agreed, Appends, NEW e \in Entity, NEW v, NEW x, LatestIn(log, cursor, e, v, x),
         \A c \in log' \ log : c.e = e => Foreign(c)
  PROVE  LatestIn(log', cursor, e, v, x)
<1>1. cursor \in Nat /\ top \in Nat /\ cursor <= top
  BY VersionFacts DEF Agreed
<1>2. \A c \in log' \ log : ~(c.cur <= cursor)
  BY <1>1 DEF Appends
<1>3. QED
  BY <1>2 DEF LatestIn, Appends

LEMMA AppendsAgree ==
  ASSUME Agreed, Inv', Ordered', Appends,
         \/ reply' = reply
         \/ /\ reply'.kind = "applied"
            /\ \A e \in Entity : reply'.ver[e] > 0 =>
                 \E o \in batch, d \in log' :
                   o.e = e /\ d.op = o.op /\ d.e = e /\ d.ver = reply'.ver[e]
  PROVE  Seen' /\ Rows'
<1>0. /\ Inv /\ Ordered /\ Seen /\ Rows
      /\ cursor \in Nat /\ top \in Nat /\ cursor <= top
      /\ \A e \in Entity : /\ head[e].base \in Nat /\ st[e].ver \in Nat /\ sver[e] \in Nat
                           /\ head[e].base <= sver[e] /\ st[e].ver <= sver[e]
      /\ \A c \in log : c.e \in Entity /\ c.cur \in Nat /\ c.ver \in Nat /\ c.ver <= sver[c.e]
      /\ UNCHANGED <<doc, head, attempts, st, cursor, pc, batch, resolver>>
  BY VersionFacts DEF Agreed, Appends
<1>1. ASSUME NEW e \in Entity, NEW v \in Nat, v <= sver[e], KnownIn(log, cursor, e, v)
      PROVE  KnownIn(log', cursor, e, v)
  <2>1. \A c \in log' \ log : c.e = e => ~(c.ver <= v)
    BY <1>0, <1>1 DEF Appends
  <2>2. QED
    BY <1>1, <2>1 DEF KnownIn
<1>2. Seen'
  <2>1. pc' \in Pushing => \A e \in Entity : /\ KnownIn(log', cursor, e, st[e].ver)
                                             /\ KnownIn(log', cursor, e, head[e].base)
    BY <1>0, <1>1 DEF Seen, Known
  <2>2. ASSUME NEW o \in batch PROVE KnownIn(log', cursor, o.e, o.base)
    BY <1>0, <1>1, BatchFacts DEF Seen, Known, Ordered, Behind
  <2>3. ASSUME NEW req \in net', NEW o \in req PROVE KnownIn(log', cursor, o.e, o.base)
    <3>1. req \in net
      BY DEF Appends
    <3>2. o.e \in Entity /\ o.base \in Nat /\ o.base <= sver[o.e] /\ KnownIn(log, cursor, o.e, o.base)
      BY <1>0, <3>1, RequestFacts DEF Seen, Known, Ordered, Behind
    <3>3. QED
      BY <1>1, <3>2
  <2>4. ASSUME NEW d \in log', ~Foreign(d) PROVE KnownIn(log', cursor, d.e, d.ver)
    <3>1. CASE d \in log
      BY <1>0, <1>1, <2>4, <3>1 DEF Seen, Known
    <3>2. CASE d \notin log
      <4>1. /\ d.e \in Entity /\ d.ver = sver[d.e] + 1 /\ KnownIn(log, cursor, d.e, sver[d.e])
        BY <2>4, <3>2 DEF Appends, Known
      <4>2. ASSUME NEW c \in log', Foreign(c), c.e = d.e PROVE c.cur <= cursor
        <5>1. c \in log
          BY <2>4, <3>2, <4>2 DEF Appends
        <5>2. c.ver <= sver[d.e]
          BY <1>0, <4>2, <5>1
        <5>3. QED
          BY <4>1, <4>2, <5>1, <5>2 DEF KnownIn
      <4>3. QED
        BY <4>2 DEF KnownIn
    <3>3. QED
      BY <3>1, <3>2
  <2>5. reply'.kind = "applied" => \A e \in Entity : reply'.ver[e] > 0 =>
          \E o \in batch', d \in log' : o.e = e /\ d.op = o.op /\ d.e = e /\ d.ver = reply'.ver[e]
    <3>1. log \subseteq log' /\ batch' = batch
      BY DEF Appends
    <3>2. CASE reply' = reply
      BY <1>0, <3>1, <3>2 DEF Seen
    <3>3. CASE reply' # reply
      BY <3>1, <3>3
    <3>4. QED
      BY <3>2, <3>3
  <2>6. QED
    BY <1>0, <2>1, <2>2, <2>3, <2>4, <2>5 DEF Seen, Known, Foreign
<1>3. ASSUME NEW req \in net', NEW o \in req PROVE LiveOK(o)'
  <2>1. req \in net /\ LiveOK(o)
    BY <1>0 DEF Rows, Appends
  <2>2. o.e \in Entity /\ o.base \in Nat /\ o.base <= sver[o.e]
    BY <1>0, <2>1, RequestFacts DEF Ordered, Behind
  <2>3. Live(o)' => Live(o)
    <3>1. sver'[o.e] \in {sver[o.e], sver[o.e] + 1} /\ log \subseteq log'
      BY <2>2 DEF Appends
    <3>2. QED
      BY <1>0, <2>2, <3>1 DEF Live, Committed
  <2>4. QED
    BY <1>0, <2>1, <2>3 DEF LiveOK, Queued
<1>4. ASSUME NEW e \in Entity PROVE AckedOK(e)'
  <2>1. SUFFICES ASSUME NEW c \in log', Queued(e), c.op = head[e].op
                 PROVE  /\ head[e].base < c.ver /\ ~(c.cur <= cursor) /\ ~st[e].conflict
                        /\ \A d \in log' : d.e = e /\ ~Foreign(d) => d.ver <= c.ver
    BY <1>0 DEF AckedOK, Queued, Pulled, Foreign
  <2>2. c.e = e /\ ~Foreign(c)
    <3>1. ~Foreign(c) /\ LogOK(c)'
      BY <1>0, <2>1, RowFacts DEF Foreign, OtherDevice, Inv, Safe
    <3>2. SentAs(c) \in attempts /\ AttemptOK(SentAs(c))
      BY <1>0, <3>1 DEF LogOK, Inv, Safe, Foreign, SentAs
    <3>3. QED
      BY <2>1, <3>1, <3>2 DEF AttemptOK, SentAs
  <2>3. CASE c \in log
    <3>1. /\ head[e].base < c.ver /\ ~Pulled(c) /\ ~st[e].conflict
          /\ \A d \in log : d.e = e /\ ~Foreign(d) => d.ver <= c.ver
      BY <1>0, <2>1, <2>3 DEF Rows, AckedOK
    <3>2. \A d \in log' \ log : d.e = e => Foreign(d)
      BY <1>0, <2>2, <2>3, <3>1 DEF Appends
    <3>3. QED
      BY <3>1, <3>2 DEF Pulled
  <2>4. CASE c \notin log
    <3>1. /\ c.cur > top /\ c.cur \in Nat /\ c.ver = sver[e] + 1 /\ head[e].base = sver[e] /\ ~st[e].conflict
          /\ \A d \in log' \ log : d.e = e => d = c
      BY <2>2, <2>4 DEF Appends
    <3>2. \A d \in log : d.e = e => d.ver <= c.ver
      BY <1>0, <3>1
    <3>3. ~(c.cur <= cursor) /\ head[e].base < c.ver /\ c.ver <= c.ver
      BY <1>0, <3>1
    <3>4. QED
      BY <3>1, <3>2, <3>3
  <2>5. QED
    BY <2>3, <2>4
<1>5. ASSUME NEW e \in Entity PROVE ShowsOK(e)'
  <2>1. ShowsOK(e) /\ log \subseteq log'
    BY <1>0 DEF Rows, Appends
  <2>2. ~Queued(e) \/ st[e].conflict => \A c \in log' \ log : c.e = e => Foreign(c)
    BY DEF Appends
  <2>3. st[e].conflict => Queued(e) /\ LatestIn(log', cursor, e, st[e].ver, st[e].shadow)
    BY <2>1, <2>2, AppendedLatest DEF ShowsOK, Latest
  <2>4. ~Queued(e) => \E c \in log' : LatestIn(log', cursor, e, c.ver, doc[e])
    BY <2>1, <2>2, AppendedLatest DEF ShowsOK, Latest
  <2>5. QED
    BY <1>0, <2>1, <2>3, <2>4 DEF ShowsOK, Latest, Queued
<1>6. ASSUME NEW o \in batch' PROVE SelectedOK(o)'
  <2>1. o \in batch /\ SelectedOK(o) /\ o.e \in Entity
    BY <1>0, BatchFacts DEF Rows
  <2>2. ASSUME reply'.kind = "conflict", o.e = reply'.e PROVE ~Committed(o)' /\ o.base < reply'.ver
    <3>1. reply' = reply
      BY <2>2
    <3>2. ~Committed(o) /\ o.base < reply.ver /\ head[o.e].base = o.base /\ reply.ver <= sver[o.e]
          /\ SentAs(o) \in attempts /\ o.base \in Nat /\ reply.ver \in Nat
      BY <1>0, <2>1, <2>2, <3>1, BatchFacts, ReplyFacts DEF SelectedOK, Ordered, Behind
    <3>3. ASSUME NEW c \in log', c.op = o.op PROVE FALSE
      <4>1. c \in log' \ log
        BY <3>2, <3>3 DEF Committed
      <4>2. SentAs(o) \in attempts' /\ Inv' /\ OperationImmutable /\ AttemptOK(SentAs(o)) /\ LogOK(c)'
        BY <1>0, <3>2 DEF Inv, Safe
      <4>3. o.op # 0
        BY <4>2 DEF AttemptOK, SentAs
      <4>4. ~Foreign(c) /\ SentAs(c) \in attempts
        BY <1>0, <3>3, <4>2, <4>3 DEF LogOK, Foreign, OtherDevice, SentAs
      <4>5. SentAs(c) = SentAs(o)
        BY <3>2, <3>3, <4>2, <4>4 DEF OperationImmutable, SentAs
      <4>6. c.e = o.e
        BY <4>5 DEF SentAs
      <4>7. head[o.e].base = sver[o.e]
        BY <4>1, <4>4, <4>6 DEF Appends
      <4>8. QED
        BY <1>0, <2>1, <3>2, <4>7
    <3>4. QED
      BY <3>1, <3>2, <3>3 DEF Committed
  <2>3. QED
    BY <1>0, <2>1, <2>2 DEF SelectedOK, Queued
<1>7. reply'.kind = "conflict" => LatestIn(log', cursor, reply'.e, reply'.ver, reply'.val)
  <2>1. SUFFICES ASSUME reply'.kind = "conflict"
                 PROVE  LatestIn(log', cursor, reply'.e, reply'.ver, reply'.val)
    OBVIOUS
  <2>2. reply' = reply
    BY <2>1
  <2>3. PICK o \in batch : o.e = reply.e
    BY <1>0, <2>1, <2>2, ReplyFacts
  <2>4. /\ head[o.e].base = o.base /\ o.base < reply.ver /\ reply.ver \in Nat
        /\ reply.ver <= sver[o.e] /\ o.e \in Entity
    BY <1>0, <2>1, <2>2, <2>3, ReplyFacts DEF Rows, SelectedOK, Ordered, Behind
  <2>5. \A c \in log' \ log : c.e = reply.e => Foreign(c)
    BY <1>0, <2>3, <2>4 DEF Appends
  <2>6. LatestIn(log, cursor, reply.e, reply.ver, reply.val)
    BY <1>0, <2>1, <2>2 DEF Rows, Latest
  <2>7. QED
    BY <2>2, <2>3, <2>4, <2>5, <2>6, AppendedLatest
<1>8. QED
  BY <1>0, <1>2, <1>3, <1>4, <1>5, <1>6, <1>7 DEF Rows, Latest

LEMMA WriteAgrees ==
  ASSUME Agreed, Inv', Ordered', NEW e \in Entity, CloudWrite(e)
  PROVE  Seen' /\ Rows'
<1> DEFINE n == [cur |-> top + 1, op |-> OtherDevice, e |-> e,
                 ver |-> sver[e] + 1, val |-> WriteOf(sver[e] + 1)]
<1>1. /\ UNCHANGED <<doc, head, attempts, st, cursor, pc, batch, resolver, net, reply>>
      /\ sver'[e] = sver[e] + 1 /\ log' = log \cup {n}
      /\ \A f \in Entity \ {e} : sver'[f] = sver[f]
  BY WriteRow DEF Agreed
<1>2. top \in Nat /\ sver[e] \in Nat
  BY StreamFacts, RowFacts DEF Agreed
<1>3. \A c \in log' \ log : c = n
  BY <1>1
<1>4. /\ n.e = e /\ n.cur = top + 1 /\ n.ver = sver[e] + 1 /\ Foreign(n)
  BY DEF Foreign
<1> HIDE DEF n
<1>5. Appends
  <2>1. \A c \in log' \ log :
          /\ c.e \in Entity /\ c.cur \in Nat /\ c.cur > top /\ c.ver = sver[c.e] + 1
          /\ sver'[c.e] = sver[c.e] + 1 /\ Foreign(c)
    BY <1>1, <1>2, <1>3, <1>4
  <2>2. QED
    BY <1>1, <1>3, <2>1 DEF Appends
<1>6. QED
  BY <1>1, <1>5, AppendsAgree

\* A batch that commits appends what belongs to rows still queued for it.
LEMMA CommitAgrees ==
  ASSUME Agreed, Inv', Ordered', NEW req \in net, ServerCommits(req)
  PROVE  Seen' /\ Rows'
<1>0. /\ Inv /\ Ordered /\ Seen /\ Rows /\ Single(req) /\ Stream
      /\ top \in Nat /\ \A e \in Entity : sver[e] \in Nat
  BY StreamFacts, RowFacts DEF Agreed, Ordered
<1>1. /\ UNCHANGED <<doc, head, attempts, st, cursor, pc, batch, resolver>>
      /\ net' = net \ {req} /\ log \subseteq log' /\ top' \in Nat /\ top <= top'
      /\ \A o \in Fresh1(req) : o.base = sver[o.e] /\ ~Committed(o)
      /\ \A c \in log' : c \in log \/ \E o \in Fresh1(req) :
           /\ c.cur \in (top + 1)..top'
           /\ c.op = o.op /\ c.e = o.e /\ c.ver = sver[o.e] + 1 /\ c.val = o.val
      /\ \A o \in Fresh1(req) : \E c \in log' :
           c.op = o.op /\ c.e = o.e /\ c.ver = sver[o.e] + 1 /\ c.val = o.val
      /\ \A c, d \in log' \ log : c.e = d.e => c = d
      /\ \A e \in Entity : \/ sver'[e] = sver[e] /\ ~\E o \in Fresh1(req) : o.e = e
                           \/ sver'[e] = sver[e] + 1 /\ \E o \in Fresh1(req) : o.e = e
      /\ Answer(req, Applied([e \in Entity |->
           IF \E o \in req : o.e = e THEN Version(CHOOSE o \in req : o.e = e) ELSE 0]))
  BY <1>0, CommitRow
<1>2. Appends
  <2>1. ASSUME NEW c \in log' \ log
        PROVE  /\ c.e \in Entity /\ c.cur \in Nat /\ c.cur > top /\ c.ver = sver[c.e] + 1
               /\ sver'[c.e] = sver[c.e] + 1
               /\ Queued(c.e) /\ head[c.e].base = sver[c.e] /\ ~st[c.e].conflict
               /\ Known(c.e, sver[c.e]) /\ \A d \in log : d.op # c.op
    <3>1. PICK o \in Fresh1(req) : /\ c.cur \in (top + 1)..top'
                                   /\ c.op = o.op /\ c.e = o.e /\ c.ver = sver[o.e] + 1
      BY <1>1
    <3>2. o \in req /\ o.base = sver[o.e] /\ ~Committed(o)
      BY <1>1 DEF Fresh1
    <3>3. o.e \in Entity
      BY <1>0, <3>2, RequestFacts
    <3>4. Queued(o.e) /\ head[o.e].base = o.base /\ ~st[o.e].conflict
      BY <1>0, <3>2 DEF Rows, LiveOK, Live
    <3>5. Known(o.e, o.base)
      BY <1>0, <3>2 DEF Seen
    <3>6. c.cur \in Nat /\ c.cur > top
      BY <1>0, <1>1, <3>1
    <3>7. \A d \in log : d.op # c.op
      BY <3>1, <3>2 DEF Committed
    <3>8. QED
      BY <1>1, <3>1, <3>2, <3>3, <3>4, <3>5, <3>6, <3>7
  <2>2. \A e \in Entity : sver'[e] \in {sver[e], sver[e] + 1}
    BY <1>1
  <2>3. net' \subseteq net
    BY <1>1
  <2>4. QED
    BY <1>1, <2>1, <2>2, <2>3 DEF Appends
<1>3. CASE pc = "await" /\ batch = req
  <2> DEFINE r == [e \in Entity |->
                     IF \E o \in req : o.e = e THEN Version(CHOOSE o \in req : o.e = e) ELSE 0]
  <2>1. reply' = Applied(r)
    BY <1>1, <1>3 DEF Answer
  <2>2. reply'.kind = "applied" /\ reply'.ver = r
    BY <2>1 DEF Applied
  <2>3. ASSUME NEW e \in Entity, reply'.ver[e] > 0
        PROVE  \E o \in batch, d \in log' :
                 o.e = e /\ d.op = o.op /\ d.e = e /\ d.ver = reply'.ver[e]
    <3>1. /\ \E o \in req : o.e = e
          /\ reply'.ver[e] = Version(CHOOSE o \in req : o.e = e)
      BY <2>2, <2>3
    <3>2. PICK o \in req : o.e = e /\ reply'.ver[e] = Version(o)
      BY <3>1
    <3>3. CASE ~Committed(o) /\ Version(o) = sver[o.e] + 1
      <4>1. o \in Fresh1(req)
        BY <3>3 DEF Fresh1
      <4>2. PICK d \in log' : d.op = o.op /\ d.e = o.e /\ d.ver = sver[o.e] + 1
        BY <1>1, <4>1
      <4>3. QED
        BY <1>3, <3>2, <3>3, <4>2
    <3>4. CASE \E c \in log : c.op = o.op /\ c.e = o.e /\ Version(o) = c.ver
      BY <1>1, <1>3, <3>2, <3>4
    <3>5. QED
      BY <1>0, <3>3, <3>4, AnsweredVersion
  <2>4. QED
    BY <1>2, <2>2, <2>3, AppendsAgree
<1>4. CASE ~(pc = "await" /\ batch = req)
  BY <1>1, <1>2, <1>4, AppendsAgree DEF Answer
<1>5. QED
  BY <1>3, <1>4

\* A conflict answer names the server's own latest change.
LEMMA RejectAgrees ==
  ASSUME Agreed, NEW req \in net, NEW o \in req, ServerRejects(req, o)
  PROVE  Seen' /\ Rows'
<1>0. /\ Inv /\ Ordered /\ Seen /\ Rows /\ o.e \in Entity /\ o.base \in Nat
      /\ o.base <= sver[o.e] /\ sver[o.e] \in Nat /\ cursor \in Nat
  BY RequestFacts, RowFacts, VersionFacts DEF Agreed, Ordered, Behind
<1>1. /\ UNCHANGED <<doc, head, attempts, st, cursor, pc, batch, resolver, log, sver, top>>
      /\ net' = net \ {req} /\ ~Committed(o) /\ o.base # sver[o.e]
      /\ \/ reply' = reply
         \/ \E c \in log : /\ pc = "await" /\ batch = req /\ c.e = o.e /\ c.ver = sver[o.e]
                           /\ reply' = Conflict(o.e, sver[o.e], c.val)
  BY <1>0, RejectRow
<1>2. ASSUME NEW e \in Entity PROVE AckedOK(e)' /\ ShowsOK(e)' /\ StaysLive(e)
  <2>1. Queued(e)' <=> Queued(e)
    BY <1>1 DEF Queued
  <2>2. Untouched(e)
    BY <1>1, <2>1 DEF Untouched
  <2>3. QED
    BY <1>0, <1>1, <2>2, UntouchedRow
<1>3. CASE reply' = reply
  <2>1. Seen'
    BY <1>0, <1>1, <1>3, SeenStep DEF Seen, Known
  <2>2. \A p \in batch' : SelectedOK(p)'
    BY <1>0, <1>1, <1>3 DEF Rows, SelectedOK, Queued, Committed
  <2>3. reply'.kind = "conflict" => LatestIn(log, cursor', reply'.e, reply'.ver, reply'.val)
    BY <1>0, <1>1, <1>3 DEF Rows, Latest
  <2>4. \A r \in net' : r \in net \/ r = batch
    BY <1>1
  <2>5. QED
    BY <1>1, <1>2, <2>1, <2>2, <2>3, <2>4, RowsStep
<1>4. ASSUME NEW c \in log, batch = req, c.e = o.e, c.ver = sver[o.e],
             reply' = Conflict(o.e, sver[o.e], c.val)
      PROVE  Seen' /\ Rows'
  <2>0. /\ reply'.kind = "conflict" /\ reply'.e = o.e /\ reply'.ver = sver[o.e]
        /\ reply'.val = c.val
    BY <1>4 DEF Conflict
  <2>1. Seen'
    BY <1>0, <1>1, <2>0, SeenStep DEF Seen, Known
  <2>2. ASSUME NEW p \in batch' PROVE SelectedOK(p)'
    <3>1. p \in batch /\ SelectedOK(p)
      BY <1>0, <1>1, <2>2 DEF Rows
    <3>2. p.e = o.e => p = o
      BY <1>0, <1>4, <3>1 DEF Ordered, Single
    <3>3. p.e = o.e => ~Committed(p)' /\ p.base < sver[o.e]
      BY <1>0, <1>1, <3>2 DEF Committed
    <3>4. QED
      BY <1>1, <2>0, <3>1, <3>3 DEF SelectedOK, Queued
  <2>3. LatestIn(log, cursor', o.e, sver[o.e], c.val)
    <3>1. \A d \in log : d.e = o.e => ~(d.ver > sver[o.e])
      BY <1>0, VersionFacts
    <3>2. QED
      BY <1>4, <3>1 DEF LatestIn
  <2>4. \A r \in net' : r \in net \/ r = batch
    BY <1>1
  <2>5. QED
    BY <1>1, <1>2, <2>0, <2>1, <2>2, <2>3, <2>4, RowsStep
<1>5. QED
  BY <1>1, <1>3, <1>4

-----------------------------------------------------------------------------
(* The invariant. *)

LEMMA AgreedInit == Init => Agreed
<1> SUFFICES ASSUME Init PROVE Agreed
  OBVIOUS
<1>1. /\ log = {} /\ net = {} /\ batch = {} /\ reply = NoReply /\ pc = "idle"
      /\ \A e \in Entity : st[e] = Synced(0) /\ resolver[e] = NoChoice
      /\ \A e \in Entity : Queued(e) /\ head[e].base = 0
  BY DEF Init, Queued
<1>2. Inv /\ Ordered
  <2>1. Single(batch) /\ \A req \in net : Single(req)
    BY <1>1 DEF Single
  <2>2. QED
    BY <2>1, InitSafe, StreamInit DEF Ordered
<1>3. reply.kind = "none" /\ pc \notin Pushing
  BY <1>1 DEF NoReply, Pushing
<1>4. Seen
  BY <1>1, <1>3 DEF Seen
<1>5. \A e \in Entity : st[e].ver = 0 /\ ~st[e].conflict /\ resolver[e].mode = "none"
  BY <1>1 DEF Synced, NoChoice
<1>6. \A e \in Entity : AckedOK(e) /\ ShowsOK(e)
  BY <1>1, <1>5 DEF AckedOK, ShowsOK
<1>7. Rows
  BY <1>1, <1>3, <1>6 DEF Rows
<1>8. QED
  BY <1>2, <1>4, <1>7 DEF Agreed

LEMMA AgreedStep ==
  ASSUME Agreed, [Next /\ PromptResolver]_vars
  PROVE  Agreed'
<1>0. Inv /\ Ordered /\ [Next]_vars
  BY DEF Agreed
<1>1. Inv' /\ Ordered'
  BY <1>0, StepSafe, OrderedStep
<1>2. CASE UNCHANGED vars
  BY <1>1, <1>2 DEF vars, Agreed, Seen, Known, KnownIn, Rows, LiveOK, Live, SelectedOK, AckedOK,
     ShowsOK, Latest, LatestIn, Foreign, Pulled, Queued, Committed
<1>3. ASSUME Next, PromptResolver PROVE Seen' /\ Rows'
  <2>1. CASE User
    <3>1. PICK e \in Entity : \/ Edit(e) \/ KeepLocalReads(e) \/ KeepLocalCommits(e)
                              \/ UseRemoteReads(e) \/ UseRemoteCommits(e) \/ RetryDeadLetter(e)
      BY <2>1 DEF User
    <3>2. CASE Edit(e)
      BY <3>2, EditAgrees
    <3>3. CASE KeepLocalReads(e) \/ UseRemoteReads(e)
      BY <1>0, <3>3, ReadsCalm, CalmAgrees
    <3>4. CASE KeepLocalCommits(e)
      BY <3>4, KeepAgrees
    <3>5. CASE UseRemoteCommits(e)
      BY <3>5, RemoteAgrees
    <3>6. CASE RetryDeadLetter(e)
      BY <1>3, <3>6, RetryAgrees
    <3>7. QED
      BY <3>1, <3>2, <3>3, <3>4, <3>5, <3>6
  <2>2. ASSUME NEW c \in log, PullPage(c) PROVE Seen' /\ Rows'
    <3>1. AckOwn(c) \/ ShadowRemote(c) \/ ApplyRemote(c)
      BY <2>2 DEF PullPage
    <3>2. AckedOK(c.e)' /\ ShowsOK(c.e)' /\ StaysLive(c.e)
      BY <1>3, <2>2, <3>1, AckAgrees, ShadowAgrees, ApplyAgrees
    <3>3. QED
      BY <1>3, <2>2, <3>2, PageSeen, PageOthers
  <2>3. CASE Pull
    BY <1>0, <2>2, <2>3, IdleCalm, CalmAgrees DEF Pull
  <2>4. CASE Push
    BY <1>0, <1>3, <2>4, IdleCalm, BuildCalm, SendCalm, FailedPushCalm, CalmAgrees, SelectAgrees,
       AppliedAgrees, ConflictAgrees DEF Push
  <2>5. CASE Cloud
    <3>1. \/ \E e \in Entity : CloudWrite(e)
          \/ \E req \in net : ServerCommits(req) \/ \E o \in req : ServerRejects(req, o)
      BY <2>5 DEF Cloud, ServerAnswers
    <3>2. QED
      BY <1>1, <3>1, WriteAgrees, CommitAgrees, RejectAgrees
  <2>6. CASE FinishPush \/ CloseRound \/ Crash \/ Reenable
               \/ \E expired \in SUBSET InFlight : StartRound(expired)
    BY <1>0, <2>6, IdleCalm, CalmAgrees
  <2>7. QED
    BY <1>3, <2>1, <2>3, <2>4, <2>5, <2>6 DEF Next
<1>4. QED
  BY <1>1, <1>2, <1>3 DEF Agreed

LEMMA AgreedAtRest == Agreed => CaughtUpAgrees
<1> SUFFICES ASSUME Agreed, cursor = top, NEW e \in Entity, ~Queued(e), ~st[e].conflict
             PROVE  \E c \in log : c.e = e /\ c.ver = sver[e] /\ c.val = doc[e]
  BY DEF CaughtUpAgrees
<1>1. Inv /\ Ordered /\ ShowsOK(e)
  BY DEF Agreed, Rows
<1>2. PICK b \in log : LatestIn(log, cursor, e, b.ver, doc[e])
  BY <1>1 DEF ShowsOK, Latest
<1>3. PICK c \in log : c.e = e /\ c.ver = b.ver /\ c.val = doc[e]
  BY <1>2 DEF LatestIn
<1>4. c.ver \in 1..sver[e] /\ sver[e] \in Nat
  BY <1>1, <1>3, VersionFacts
<1>5. PICK d \in log : d.e = e /\ d.ver = sver[e]
  BY <1>1, <1>4 DEF Ordered, Stream
<1>6. d.cur <= cursor
  BY <1>1, VersionFacts
<1>7. ~(d.ver > b.ver)
  BY <1>2, <1>5, <1>6 DEF LatestIn
<1>8. c.ver = sver[e]
  BY <1>3, <1>4, <1>5, <1>7
<1>9. QED
  BY <1>3, <1>8

\* In every behaviour in which nothing falls between what use-remote reads and
\* its transaction, an entity with nothing queued and no conflict shows the
\* server's current document once the stream is pulled: whatever order edits,
\* retries, late commits, pages and restarts come in.
THEOREM EntitiesAgree ==
  Init /\ [][Next /\ PromptResolver]_vars => []CaughtUpAgrees
<1>1. Agreed /\ [Next /\ PromptResolver]_vars => Agreed'
  BY AgreedStep
<1>2. Init /\ [][Next /\ PromptResolver]_vars => []Agreed
  BY AgreedInit, <1>1, PTL
<1>3. QED
  BY <1>2, AgreedAtRest, PTL

-----------------------------------------------------------------------------
(* No edit is committed twice. *)

Once == Agreed /\ Fresh /\ CommittedOnce

\* No live request carries the content of e under an id that is not its row's.
OneId(e) ==
  \A req \in net : \A o \in req :
     o.e = e /\ Live(o) /\ o.val = doc'[e] => o.op = head'[e].op

\* The row, if it is still there, is the same operation on the same content.
SameContent(e) ==
  doc'[e] = doc[e] /\ rev'[e] = rev[e] /\ head'[e].op = head[e].op /\ (Queued(e)' => Queued(e))

LEMMA FreshFacts ==
  ASSUME Inv, Fresh
  PROVE  /\ \A e \in Entity : rev[e] \in Nat
         /\ \A req \in net : \A o \in req :
              o.e \in Entity /\ o.val.by = "device" /\ o.val.n \in Nat /\ o.val.n <= rev[o.e]
         /\ \A c \in log : ~Foreign(c) =>
              c.val.by = "device" /\ c.val.n \in Nat /\ c.val.n <= rev[c.e]
<1>1. rev \in [Entity -> Nat] /\ attempts \subseteq Attempt
  BY DEF Inv, TypeInv, TypeOK
<1>2. \A a \in attempts : a.e \in Entity /\ a.val.n \in Nat
  BY <1>1 DEF Attempt, Value
<1>3. ASSUME NEW o, SentAs(o) \in attempts
      PROVE  o.val.by = "device" /\ o.val.n \in Nat /\ o.val.n <= rev[o.e]
  BY <1>2, <1>3 DEF Fresh, SentAs
<1>4. QED
  BY <1>1, <1>3, RequestFacts, StreamFacts

LEMMA FreshKept ==
  ASSUME Once, UNCHANGED <<log, sver, attempts>>, net' \subseteq net,
         \A e \in Entity : rev'[e] \in Nat /\ rev[e] <= rev'[e] /\ RowIsNew(e)' /\ OneId(e)
  PROVE  Fresh' /\ CommittedOnce'
<1>1. /\ Inv /\ Fresh /\ \A e \in Entity : rev[e] \in Nat
      /\ \A req \in net : \A o \in req : o.e \in Entity
      /\ \A a \in attempts : a.e \in Entity /\ a.val.n \in Nat
  <2>1. Inv /\ Fresh /\ attempts \subseteq Attempt
    BY DEF Once, Agreed, Inv, TypeInv, TypeOK
  <2>2. \A a \in attempts : a.e \in Entity /\ a.val.n \in Nat
    BY <2>1 DEF Attempt, Value
  <2>3. QED
    BY <2>1, <2>2, FreshFacts
<1>2. ASSUME NEW req \in net', NEW o \in req PROVE RequestIsNew(o)'
  <2>1. o.e \in Entity /\ RequestIsNew(o) /\ OneId(o.e) /\ req \in net
    BY <1>1 DEF Fresh
  <2>2. Live(o)' => Live(o)
    BY DEF Live, Committed
  <2>3. QED
    BY <2>1, <2>2 DEF RequestIsNew, OneId
<1>3. \A a \in attempts' : a.val.by = "device" /\ a.val.n <= rev'[a.e]
  BY <1>1 DEF Fresh
<1>4. \A c \in log' : Foreign(c) => c.val = WriteOf(c.ver)
  BY <1>1 DEF Fresh
<1>5. QED
  BY <1>2, <1>3, <1>4 DEF Fresh, Foreign, Once, CommittedOnce

LEMMA SameContentFresh ==
  ASSUME Once, NEW e \in Entity, log' = log, SameContent(e)
  PROVE  rev'[e] \in Nat /\ rev[e] <= rev'[e] /\ RowIsNew(e)' /\ OneId(e)
<1>1. /\ Inv /\ Fresh /\ RowIsNew(e) /\ rev[e] \in Nat
      /\ \A req \in net : \A o \in req : RequestIsNew(o)
  BY FreshFacts DEF Once, Agreed, Fresh
<1>2. RowIsNew(e)'
  BY <1>1 DEF RowIsNew, SameContent
<1>3. OneId(e)
  BY <1>1 DEF OneId, RequestIsNew, SameContent
<1>4. QED
  BY <1>1, <1>2, <1>3 DEF SameContent

\* A row that is settled took its id with it.
LEMMA SettledFresh ==
  ASSUME Once, NEW e \in Entity, log' = log, doc'[e] = doc[e], rev'[e] = rev[e], ~Queued(e)',
         \E c \in log : c.op = head[e].op
  PROVE  rev'[e] \in Nat /\ rev[e] <= rev'[e] /\ RowIsNew(e)' /\ OneId(e)
<1>1. Inv /\ Fresh /\ rev[e] \in Nat /\ \A req \in net : \A o \in req : RequestIsNew(o)
  BY FreshFacts DEF Once, Agreed, Fresh
<1>2. OneId(e)
  BY <1>1 DEF OneId, RequestIsNew, Live, Committed
<1>3. QED
  BY <1>1, <1>2 DEF RowIsNew

\* A row that cannot be pushed any more, or content nobody has sent.
LEMMA NobodySent ==
  ASSUME Once, NEW e \in Entity, log' = log, rev'[e] \in {rev[e], rev[e] + 1}, RowIsNew(e)',
         \/ st[e].conflict \/ ~Queued(e)
         \/ doc'[e] = EditOf(rev[e] + 1)
  PROVE  rev'[e] \in Nat /\ rev[e] <= rev'[e] /\ RowIsNew(e)' /\ OneId(e)
<1>1. Inv /\ Fresh /\ Rows /\ rev[e] \in Nat
  BY FreshFacts DEF Once, Agreed
<1>2. CASE st[e].conflict \/ ~Queued(e)
  BY <1>1, <1>2 DEF Rows, LiveOK, OneId
<1>3. CASE doc'[e] = EditOf(rev[e] + 1)
  <2>1. doc'[e].n = rev[e] + 1
    BY <1>3 DEF EditOf
  <2>2. \A req \in net : \A o \in req : o.e = e => o.val # doc'[e]
    BY <1>1, <2>1, FreshFacts
  <2>3. QED
    BY <1>1, <2>2 DEF OneId
<1>4. QED
  BY <1>1, <1>2, <1>3

LEMMA CalmFresh ==
  ASSUME Once, Calm, attempts' = attempts, net' \subseteq net
  PROVE  Fresh' /\ CommittedOnce'
<1>1. ASSUME NEW e \in Entity PROVE SameContent(e)
  BY DEF Calm, SameContent
<1>2. log' = log /\ sver' = sver
  BY DEF Calm
<1>3. QED
  BY <1>1, <1>2, SameContentFresh, FreshKept

\* Only a batch that is sent adds an attempt or a request.
LEMMA OnlySending ==
  ASSUME Next
  PROVE  SendBatch \/ (attempts' = attempts /\ net' \subseteq net)
<1>1. CASE User
  BY <1>1 DEF User, Edit, KeepLocalReads, KeepLocalCommits, UseRemoteReads, UseRemoteCommits,
     RetryDeadLetter, device
<1>2. CASE Pull
  BY <1>2 DEF Pull, PullNothing, PullFails, PullPage, device
<1>3. CASE Push /\ ~SendBatch
  BY <1>3 DEF Push, CheckBeforePush, NothingDue, BuildBatch, MarkFails, SelectBatch, PushApplied,
     PushConflicts, PushUnknown, PushNotSent, PushReleased, PushPermanent, device
<1>4. CASE Cloud
  BY <1>4 DEF Cloud, CloudWrite, ServerAnswers, ServerCommits, ServerRejects, device
<1>5. CASE FinishPush \/ CloseRound \/ Crash \/ Reenable
             \/ \E expired \in SUBSET InFlight : StartRound(expired)
  BY <1>5 DEF FinishPush, CloseRound, Crash, Reenable, StartRound, device
<1>6. QED
  BY <1>1, <1>2, <1>3, <1>4, <1>5 DEF Next

LEMMA SendFresh ==
  ASSUME Once, SendBatch
  PROVE  Fresh' /\ CommittedOnce'
<1>0. /\ Inv /\ Fresh /\ CommittedOnce /\ pc = "mark" /\ AllStillCurrent
      /\ UNCHANGED <<doc, rev, log, sver>>
      /\ attempts' = attempts \cup {[op |-> o.op, e |-> o.e, val |-> o.val] : o \in batch}
      /\ net' = net \cup {batch}
  BY DEF Once, Agreed, SendBatch, server
<1>1. \A e \in Entity : head'[e].op = head[e].op /\ (Queued(e)' <=> Queued(e))
  BY <1>0, SendCalm DEF Calm
<1>2. ASSUME NEW o \in batch
      PROVE  /\ o.e \in Entity /\ Queued(o.e) /\ o.op = head[o.e].op
             /\ o.val = doc[o.e] /\ o.val = EditOf(rev[o.e]) /\ RowIsNew(o.e)
  <2>1. o.e \in Entity /\ BatchOK(o)
    BY <1>0, BatchFacts DEF Inv, Safe
  <2>2. Queued(o.e) /\ o.op = head[o.e].op
    BY <1>0 DEF AllStillCurrent, Queued
  <2>3. RowOK(o.e) /\ RowIsNew(o.e)
    BY <1>0, <2>1 DEF Inv, Safe, Fresh
  <2>4. Real(o.val) /\ head[o.e].val = o.val
    BY <1>0, <2>1, <2>2 DEF BatchOK
  <2>5. o.val # Deferred
    BY <2>4 DEF Real, Deferred
  <2>6. QED
    BY <2>1, <2>2, <2>3, <2>4, <2>5 DEF RowOK, RowIsNew
<1>3. ASSUME NEW req \in net', NEW o \in req PROVE RequestIsNew(o)'
  <2>0. Live(o)' <=> Live(o)
    BY <1>0 DEF Live, Committed
  <2>1. CASE req \in net
    <3>1. RequestIsNew(o) /\ o.e \in Entity
      BY <1>0, <2>1, RequestFacts DEF Fresh
    <3>2. QED
      BY <1>0, <1>1, <2>0, <3>1 DEF RequestIsNew
  <2>2. CASE req = batch
    <3>1. /\ o.e \in Entity /\ Queued(o.e) /\ o.op = head[o.e].op
          /\ o.val = doc[o.e] /\ RowIsNew(o.e)
      BY <1>2, <2>2
    <3>2. Live(o) => ~\E c \in log : c.e = o.e /\ c.val = o.val
      BY <3>1 DEF RowIsNew, Live, Committed
    <3>3. QED
      BY <1>0, <1>1, <2>0, <3>1, <3>2 DEF RequestIsNew
  <2>3. QED
    BY <1>0, <2>1, <2>2
<1>4. ASSUME NEW a \in attempts' PROVE a.val.by = "device" /\ a.val.n <= rev'[a.e]
  <2>1. CASE a \in attempts
    BY <1>0, <2>1 DEF Fresh
  <2>2. CASE a \notin attempts
    <3>1. PICK o \in batch : a = [op |-> o.op, e |-> o.e, val |-> o.val]
      BY <1>0, <2>2
    <3>2. rev[o.e] \in Nat /\ a.val = EditOf(rev[o.e]) /\ a.e = o.e
      BY <1>0, <1>2, <3>1, FreshFacts
    <3>3. QED
      BY <1>0, <3>2 DEF EditOf
  <2>3. QED
    BY <2>1, <2>2
<1>5. \A e \in Entity : RowIsNew(e)'
  BY <1>0, <1>1 DEF Fresh, RowIsNew
<1>6. \A c \in log' : Foreign(c) => c.val = WriteOf(c.ver)
  BY <1>0 DEF Fresh
<1>7. QED
  BY <1>0, <1>3, <1>4, <1>5, <1>6 DEF Fresh, Foreign, CommittedOnce

LEMMA UserFresh ==
  ASSUME Once, ~Repairs, NEW e \in Entity,
         Edit(e) \/ KeepLocalCommits(e) \/ UseRemoteCommits(e) \/ RetryDeadLetter(e)
  PROVE  Fresh' /\ CommittedOnce'
<1>0. /\ Inv /\ Fresh /\ Rows /\ doc \in [Entity -> Value] /\ rev \in [Entity -> Nat]
  BY DEF Once, Agreed, Inv, TypeInv, TypeOK
<1>1. /\ OneRow(e) /\ UNCHANGED <<attempts, net, log, sver>>
  BY <1>0, EditRow, KeepRow, RemoteRow, RetryRow DEF OneRow
<1>2. ASSUME NEW f \in Entity, f # e PROVE SameContent(f)
  <2>1. rev'[f] = rev[f]
    BY <1>0, <1>2 DEF Edit, KeepLocalCommits, UseRemoteCommits, RetryDeadLetter
  <2>2. QED
    BY <1>1, <1>2, <2>1 DEF OneRow, SameContent, Queued
<1>3. rev'[e] \in Nat /\ rev[e] <= rev'[e] /\ RowIsNew(e)' /\ OneId(e)
  <2>1. CASE Edit(e)
    <3>1. doc'[e] = EditOf(rev[e] + 1) /\ rev'[e] = rev[e] + 1
      BY <1>0, <2>1 DEF Edit
    <3>2. doc'[e].by = "device" /\ doc'[e].n = rev[e] + 1
      BY <3>1 DEF EditOf
    <3>3. \A c \in log : ~(c.e = e /\ c.val = doc'[e])
      <4>1. ASSUME NEW c \in log, c.e = e, c.val = doc'[e] PROVE FALSE
        <5>1. CASE Foreign(c)
          <6>0. c.val = WriteOf(c.ver)
            BY <1>0, <5>1 DEF Fresh
          <6>1. c.val.by = "cloud"
            BY <6>0 DEF WriteOf
          <6>2. QED
            BY <3>2, <4>1, <6>1
        <5>2. CASE ~Foreign(c)
          BY <1>0, <3>2, <4>1, <5>2, FreshFacts
        <5>3. QED
          BY <5>1, <5>2
      <4>2. QED
        BY <4>1
    <3>4. RowIsNew(e)'
      BY <1>1, <3>1, <3>3 DEF RowIsNew
    <3>5. QED
      BY <1>1, <3>1, <3>4, NobodySent
  <2>2. CASE KeepLocalCommits(e)
    <3>1. doc' = doc /\ rev' = rev
      BY <2>2 DEF KeepLocalCommits
    <3>2. CASE ~st[e].conflict
      <4>1. SameContent(e)
        BY <1>0, <2>2, <3>1, <3>2, KeepRow DEF SameContent, Queued
      <4>2. QED
        BY <1>1, <4>1, SameContentFresh
    <3>3. CASE st[e].conflict
      <4>1. RowIsNew(e) /\ AckedOK(e) /\ ShowsOK(e)
        BY <1>0 DEF Fresh, Rows
      <4>2. Queued(e) /\ \A c \in log : c.op # head[e].op
        BY <3>3, <4>1 DEF AckedOK, ShowsOK
      <4>3. RowIsNew(e)'
        BY <1>1, <3>1, <4>1, <4>2 DEF RowIsNew
      <4>4. QED
        BY <1>1, <3>1, <3>3, <4>3, NobodySent
    <3>4. QED
      BY <3>2, <3>3
  <2>3. CASE UseRemoteCommits(e)
    <3>1. ~Queued(e)' /\ resolver[e].mode = "remote" /\ rev'[e] = rev[e] + 1
      BY <1>0, <2>3, RemoteRow DEF UseRemoteCommits
    <3>2. st[e].conflict
      BY <1>0, <3>1 DEF Rows, ShowsOK
    <3>3. QED
      BY <1>1, <3>1, <3>2, NobodySent DEF RowIsNew
  <2>4. CASE RetryDeadLetter(e)
    BY <2>4 DEF RetryDeadLetter
  <2>5. QED
    BY <2>1, <2>2, <2>3, <2>4
<1>4. QED
  BY <1>1, <1>2, <1>3, SameContentFresh, FreshKept

LEMMA PageFresh ==
  ASSUME Once, NEW c \in log, PullPage(c)
  PROVE  Fresh' /\ CommittedOnce'
<1>0. /\ Inv /\ Fresh /\ doc \in [Entity -> Value] /\ rev \in [Entity -> Nat]
  BY DEF Once, Agreed, Inv, TypeInv, TypeOK
<1>1. /\ c.e \in Entity /\ UNCHANGED <<attempts, net, log, sver>>
      /\ \A f \in Entity \ {c.e} : head'[f] = head[f]
      /\ AckOwn(c) \/ ShadowRemote(c) \/ ApplyRemote(c)
  BY <1>0, PageFacts
<1>2. ASSUME NEW f \in Entity, f # c.e PROVE SameContent(f)
  BY <1>0, <1>1, <1>2 DEF AckOwn, ShadowRemote, ApplyRemote, SameContent, Queued
<1>3. rev'[c.e] \in Nat /\ rev[c.e] <= rev'[c.e] /\ RowIsNew(c.e)' /\ OneId(c.e)
  <2>1. CASE AckOwn(c)
    <3>1. doc' = doc /\ rev' = rev
      BY <2>1 DEF AckOwn
    <3>2. CASE head[c.e].op = c.op
      BY <1>0, <1>1, <2>1, <3>1, <3>2, AckRow, SettledFresh
    <3>3. CASE head[c.e].op # c.op
      <4>1. SameContent(c.e)
        BY <1>0, <1>1, <2>1, <3>1, <3>3, AckRow DEF SameContent
      <4>2. QED
        BY <1>1, <4>1, SameContentFresh
    <3>4. QED
      BY <3>2, <3>3
  <2>2. CASE ShadowRemote(c)
    <3>1. SameContent(c.e)
      BY <2>2 DEF ShadowRemote, SameContent, Queued
    <3>2. QED
      BY <1>1, <3>1, SameContentFresh
  <2>3. CASE ApplyRemote(c)
    <3>1. ~Queued(c.e) /\ ~Queued(c.e)' /\ rev'[c.e] = rev[c.e] + 1
      BY <1>0, <1>1, <2>3 DEF ApplyRemote, Queued
    <3>2. QED
      BY <1>1, <3>1, NobodySent DEF RowIsNew
  <2>4. QED
    BY <1>1, <2>1, <2>2, <2>3
<1>4. QED
  BY <1>1, <1>2, <1>3, SameContentFresh, FreshKept

\* Selecting moves no row; an outcome settles only what is committed.
LEMMA AnswersFresh ==
  ASSUME Once, (\E S \in SUBSET Entity : SelectBatch(S)) \/ PushApplied \/ PushConflicts
  PROVE  Fresh' /\ CommittedOnce'
<1>0. Inv
  BY DEF Once, Agreed
<1>1. UNCHANGED <<doc, rev, attempts, net, log, sver>>
  BY DEF SelectBatch, PushApplied, PushConflicts, device, server
<1>2. ASSUME NEW e \in Entity
      PROVE  rev'[e] \in Nat /\ rev[e] <= rev'[e] /\ RowIsNew(e)' /\ OneId(e)
  <2>1. CASE \E S \in SUBSET Entity : SelectBatch(S)
    <3>1. head' = head
      BY <2>1 DEF SelectBatch, device
    <3>2. SameContent(e)
      BY <1>1, <3>1 DEF SameContent, Queued
    <3>3. QED
      BY <1>1, <3>2, SameContentFresh
  <2>2. CASE PushApplied
    <3>1. CASE Mine(e)
      <4>1. PICK o \in batch : o.e = e /\ o.op = head[e].op
        BY <3>1 DEF Mine
      <4>2. Committed(o)
        BY <1>0, <2>2, <4>1, AppliedRow, ReplyFacts
      <4>3. ~Queued(e)'
        BY <1>0, <2>2, <3>1, AppliedRow
      <4>4. QED
        BY <1>1, <4>1, <4>2, <4>3, SettledFresh DEF Committed
    <3>2. CASE ~Mine(e)
      <4>1. SameContent(e)
        BY <1>0, <1>1, <2>2, <3>2, AppliedRow DEF SameContent
      <4>2. QED
        BY <1>1, <4>1, SameContentFresh
    <3>3. QED
      BY <3>1, <3>2
  <2>3. CASE PushConflicts
    <3>1. SameContent(e)
      BY <1>0, <1>1, <2>3, ConflictRow DEF SameContent
    <3>2. QED
      BY <1>1, <3>1, SameContentFresh
  <2>4. QED
    BY <2>1, <2>2, <2>3
<1>3. QED
  BY <1>1, <1>2, FreshKept

\* What the server appends is content it did not have.
LEMMA AppendsFresh ==
  ASSUME Once,
         UNCHANGED <<doc, rev, head, attempts>>, net' \subseteq net, log \subseteq log',
         \A e \in Entity : sver'[e] \in {sver[e], sver[e] + 1},
         \A c \in log' \ log :
           /\ c.e \in Entity /\ sver'[c.e] = sver[c.e] + 1
           /\ \A d \in log : ~(d.e = c.e /\ d.val = c.val)
           /\ Foreign(c) => c.val = WriteOf(c.ver)
           /\ Queued(c.e) /\ c.val = doc[c.e] => c.op = head[c.e].op,
         \A c, d \in log' \ log : c.e = d.e => c = d
  PROVE  Fresh' /\ CommittedOnce'
<1>0. /\ Inv /\ Fresh /\ Ordered /\ CommittedOnce /\ \A e \in Entity : sver[e] \in Nat
      /\ \A req \in net : \A o \in req : /\ o.e \in Entity /\ o.base \in Nat
                                         /\ o.base <= sver[o.e]
  BY RowFacts, RequestFacts DEF Once, Agreed, Ordered, Behind
<1>1. \A e \in Entity : RowIsNew(e)'
  BY <1>0 DEF Fresh, RowIsNew, Queued
<1>2. ASSUME NEW req \in net', NEW o \in req PROVE RequestIsNew(o)'
  <2>1. /\ RequestIsNew(o) /\ o.e \in Entity /\ o.base <= sver[o.e] /\ o.base \in Nat
        /\ sver[o.e] \in Nat /\ sver'[o.e] \in {sver[o.e], sver[o.e] + 1}
    BY <1>0 DEF Fresh
  <2>2. Live(o)' => Live(o) /\ sver'[o.e] = sver[o.e]
    BY <2>1 DEF Live, Committed
  <2>3. Live(o)' => \A c \in log' : c.e = o.e => c \in log
    BY <2>1, <2>2
  <2>4. QED
    BY <2>1, <2>2, <2>3 DEF RequestIsNew
<1>3. \A c \in log' : Foreign(c) => c.val = WriteOf(c.ver)
  BY <1>0 DEF Fresh
<1>4. \A a \in attempts' : a.val.by = "device" /\ a.val.n <= rev'[a.e]
  BY <1>0 DEF Fresh
<1>5. Fresh'
  BY <1>1, <1>2, <1>3, <1>4 DEF Fresh, Foreign
<1>6. ASSUME NEW c \in log', NEW d \in log', c.e = d.e, c.val = d.val PROVE c = d
  BY <1>0, <1>6 DEF CommittedOnce
<1>7. QED
  BY <1>5, <1>6 DEF CommittedOnce

LEMMA CloudFresh ==
  ASSUME Once, Cloud
  PROVE  Fresh' /\ CommittedOnce'
<1>0. /\ Inv /\ Fresh /\ Ordered
      /\ \A e \in Entity : RowIsNew(e)
      /\ \A c \in log : /\ c.ver \in 1..sver[c.e] /\ sver[c.e] \in Nat
                        /\ Foreign(c) => c.val = WriteOf(c.ver)
                        /\ ~Foreign(c) => c.val.by = "device"
  <2>1. Inv /\ Fresh /\ Ordered
    BY DEF Once, Agreed
  <2>2. \A c \in log : c.ver \in 1..sver[c.e] /\ sver[c.e] \in Nat
    BY <2>1, VersionFacts DEF Ordered, Stream
  <2>3. QED
    BY <2>1, <2>2, FreshFacts DEF Fresh
<1>1. UNCHANGED <<doc, rev, head, attempts>>
  BY DEF Cloud, CloudWrite, ServerAnswers, ServerCommits, ServerRejects, device
<1>2. ASSUME NEW e \in Entity, CloudWrite(e) PROVE Fresh' /\ CommittedOnce'
  <2> DEFINE n == [cur |-> top + 1, op |-> OtherDevice, e |-> e,
                   ver |-> sver[e] + 1, val |-> WriteOf(sver[e] + 1)]
  <2>1. /\ UNCHANGED net /\ sver'[e] = sver[e] + 1 /\ log' = log \cup {n}
        /\ \A f \in Entity \ {e} : sver'[f] = sver[f]
    BY <1>0, <1>2, WriteRow
  <2>2. n.e = e /\ n.val = WriteOf(sver[e] + 1) /\ n.val = WriteOf(n.ver) /\ sver[e] \in Nat
    BY <1>0, RowFacts
  <2>3. \A c \in log' \ log : c = n
    BY <2>1
  <2> HIDE DEF n
  <2>4. n.val.by = "cloud" /\ n.val.n = sver[e] + 1
    BY <2>2 DEF WriteOf
  <2>5. \A d \in log : ~(d.e = e /\ d.val = n.val)
    <3>1. ASSUME NEW d \in log, d.e = e, d.val = n.val PROVE FALSE
      <4>1. d.val = WriteOf(d.ver)
        BY <1>0, <2>4, <3>1
      <4>2. d.val.n = d.ver
        BY <4>1 DEF WriteOf
      <4>3. QED
        BY <1>0, <2>2, <2>4, <3>1, <4>2
    <3>2. QED
      BY <3>1
  <2>6. Queued(e) => doc[e].by = "device"
    <3>1. Queued(e) => doc[e] = EditOf(rev[e])
      BY <1>0 DEF RowIsNew
    <3>2. QED
      BY <3>1 DEF EditOf
  <2>7. Queued(e) => n.val # doc[e]
    BY <2>4, <2>6
  <2>8. QED
    BY <1>1, <2>1, <2>2, <2>3, <2>5, <2>7, AppendsFresh
<1>3. ASSUME NEW req \in net, ServerCommits(req) PROVE Fresh' /\ CommittedOnce'
  <2>0. Single(req)
    BY <1>0 DEF Ordered
  <2>1. /\ net' = net \ {req} /\ log \subseteq log'
        /\ \A o \in Fresh1(req) : o.base = sver[o.e] /\ ~Committed(o)
        /\ \A c \in log' : c \in log \/ \E o \in Fresh1(req) :
             c.op = o.op /\ c.e = o.e /\ c.ver = sver[o.e] + 1 /\ c.val = o.val
        /\ \A c, d \in log' \ log : c.e = d.e => c = d
        /\ \A e \in Entity : \/ sver'[e] = sver[e] /\ ~\E o \in Fresh1(req) : o.e = e
                             \/ sver'[e] = sver[e] + 1 /\ \E o \in Fresh1(req) : o.e = e
    BY <1>0, <1>3, <2>0, CommitRow
  <2>2. ASSUME NEW c \in log' \ log
        PROVE  /\ c.e \in Entity /\ sver'[c.e] = sver[c.e] + 1
               /\ \A d \in log : ~(d.e = c.e /\ d.val = c.val)
               /\ ~Foreign(c)
               /\ c.val = doc[c.e] => c.op = head[c.e].op
    <3>1. PICK o \in Fresh1(req) : c.op = o.op /\ c.e = o.e /\ c.val = o.val
      BY <2>1
    <3>2. o \in req /\ Live(o)
      BY <2>1 DEF Fresh1, Live
    <3>3. RequestIsNew(o) /\ o.e \in Entity /\ o.op \in 1..(nextOp - 1)
      BY <1>0, <3>2, RequestFacts DEF Fresh
    <3>4. c.op # 0
      BY <3>1, <3>3, StreamFacts, <1>0
    <3>5. QED
      BY <2>1, <3>1, <3>2, <3>3, <3>4 DEF RequestIsNew, Foreign, OtherDevice
  <2>3. net' \subseteq net /\ \A e \in Entity : sver'[e] \in {sver[e], sver[e] + 1}
    BY <2>1
  <2>4. QED
    BY <1>1, <2>1, <2>2, <2>3, AppendsFresh
<1>4. ASSUME NEW req \in net, NEW o \in req, ServerRejects(req, o) PROVE Fresh' /\ CommittedOnce'
  <2>1. UNCHANGED <<log, sver>> /\ net' \subseteq net
    BY <1>4 DEF ServerRejects, server
  <2>2. \A e \in Entity : SameContent(e)
    BY <1>1 DEF SameContent, Queued
  <2>3. QED
    BY <1>1, <2>1, <2>2, SameContentFresh, FreshKept
<1>5. QED
  BY <1>2, <1>3, <1>4 DEF Cloud, ServerAnswers

LEMMA OnceInit == Init => Fresh /\ CommittedOnce
<1> SUFFICES ASSUME Init PROVE Fresh /\ CommittedOnce
  OBVIOUS
<1>1. /\ log = {} /\ net = {} /\ attempts = {}
      /\ \A e \in Entity : doc[e] = EditOf(1) /\ rev[e] = 1
  BY DEF Init
<1>2. QED
  BY <1>1 DEF Fresh, RowIsNew, CommittedOnce

LEMMA OnceStep ==
  ASSUME Once, ~Repairs, [Next /\ PromptResolver]_vars
  PROVE  Once'
<1>0. Inv /\ Agreed /\ Agreed'
  BY AgreedStep DEF Once, Agreed
<1>1. CASE UNCHANGED vars
  BY <1>0, <1>1 DEF vars, Once, Fresh, RowIsNew, RequestIsNew, Live, Queued, Committed, Foreign,
     CommittedOnce
<1>2. ASSUME Next PROVE Fresh' /\ CommittedOnce'
  <2>1. CASE SendBatch
    BY <2>1, SendFresh
  <2>2. ASSUME Calm, ~SendBatch PROVE Fresh' /\ CommittedOnce'
    BY <1>2, <2>2, OnlySending, CalmFresh
  <2>3. CASE User
    <3>1. PICK e \in Entity : \/ Edit(e) \/ KeepLocalReads(e) \/ KeepLocalCommits(e)
                              \/ UseRemoteReads(e) \/ UseRemoteCommits(e) \/ RetryDeadLetter(e)
      BY <2>3 DEF User
    <3>2. CASE KeepLocalReads(e) \/ UseRemoteReads(e)
      BY <1>0, <2>1, <2>2, <3>2, ReadsCalm
    <3>3. CASE ~(KeepLocalReads(e) \/ UseRemoteReads(e))
      BY <3>1, <3>3, UserFresh
    <3>4. QED
      BY <3>2, <3>3
  <2>4. CASE Pull
    BY <1>0, <2>1, <2>2, <2>4, IdleCalm, PageFresh DEF Pull
  <2>5. CASE Push
    BY <1>0, <2>1, <2>2, <2>5, IdleCalm, BuildCalm, SendCalm, FailedPushCalm, AnswersFresh DEF Push
  <2>6. CASE Cloud
    BY <2>6, CloudFresh
  <2>7. CASE FinishPush \/ CloseRound \/ Crash \/ Reenable
               \/ \E expired \in SUBSET InFlight : StartRound(expired)
    BY <1>0, <2>1, <2>2, <2>7, IdleCalm
  <2>8. QED
    BY <1>2, <2>3, <2>4, <2>5, <2>6, <2>7 DEF Next
<1>3. QED
  BY <1>0, <1>1, <1>2 DEF Once

\* As long as no dead letter is retried, no edit is committed twice, under one
\* operation id or two: whatever is lost, answered late, edited again while it
\* is in flight, or kept against a conflict.
THEOREM EditsCommittedOnce ==
  ASSUME ~Repairs
  PROVE  Init /\ [][Next /\ PromptResolver]_vars => []CommittedOnce
<1>1. Init => Once
  BY AgreedInit, OnceInit DEF Once
<1>2. Once /\ [Next /\ PromptResolver]_vars => Once'
  BY OnceStep
<1>3. Once => CommittedOnce
  BY DEF Once
<1>4. QED
  BY <1>1, <1>2, <1>3, PTL

-----------------------------------------------------------------------------
(* Without the remote choice no schedule has to be assumed. *)

NoRemote == \A e \in Entity : resolver[e].mode # "remote"

LEMMA NoRemoteStep ==
  ASSUME Inv, NoRemote, "remote" \notin Resolutions, [Next]_vars
  PROVE  NoRemote'
<1>0. resolver \in [Entity -> [mode : {"none", "keep", "remote"}, val : Value, rev : Nat]]
  BY DEF Inv, TypeInv, TypeOK
<1>1. CASE UNCHANGED vars
  BY <1>1 DEF vars, NoRemote
<1>2. CASE User
  BY <1>0, <1>2 DEF User, Edit, KeepLocalReads, KeepLocalCommits, UseRemoteReads,
     UseRemoteCommits, RetryDeadLetter, NoRemote, NoChoice
<1>3. CASE Pull
  BY <1>3 DEF Pull, PullNothing, PullFails, PullPage, NoRemote
<1>4. CASE Push
  BY <1>4 DEF Push, CheckBeforePush, NothingDue, BuildBatch, SendBatch, MarkFails, SelectBatch,
     PushApplied, PushConflicts, PushUnknown, PushNotSent, PushReleased, PushPermanent, NoRemote
<1>5. CASE Cloud
  BY <1>5 DEF Cloud, CloudWrite, ServerAnswers, ServerCommits, ServerRejects, NoRemote
<1>6. CASE FinishPush \/ CloseRound \/ Crash \/ Reenable
             \/ \E expired \in SUBSET InFlight : StartRound(expired)
  <2>1. CASE Crash
    BY <2>1 DEF Crash, NoRemote, NoChoice
  <2>2. CASE ~Crash
    <3>1. resolver' = resolver
      BY <1>6, <2>2 DEF FinishPush, CloseRound, Reenable, StartRound
    <3>2. QED
      BY <3>1 DEF NoRemote
  <2>3. QED
    BY <2>1, <2>2
<1>7. QED
  BY <1>1, <1>2, <1>3, <1>4, <1>5, <1>6 DEF Next

LEMMA NothingToSchedule ==
  ASSUME "remote" \notin Resolutions
  PROVE  Spec => Init /\ [][Next /\ PromptResolver]_vars
<1>1. Init => Inv /\ NoRemote
  <2>1. Init => NoRemote
    BY DEF Init, NoRemote, NoChoice
  <2>2. QED
    BY <2>1, InitSafe
<1>2. Inv /\ NoRemote /\ [Next]_vars => Inv' /\ NoRemote'
  BY StepSafe, NoRemoteStep
<1>3. Inv /\ NoRemote /\ [Next]_vars => [Next /\ PromptResolver]_vars
  BY DEF NoRemote, PromptResolver
<1>4. QED
  BY <1>1, <1>2, <1>3, PTL DEF Spec

\* A user who only ever keeps the local side: every schedule agrees at rest.
THEOREM KeepersAgree ==
  ASSUME "remote" \notin Resolutions
  PROVE  Spec => []CaughtUpAgrees
BY NothingToSchedule, EntitiesAgree, PTL

\* The same user, retrying no dead letter: no schedule commits an edit twice.
THEOREM KeepersCommitOnce ==
  ASSUME "remote" \notin Resolutions, ~Repairs
  PROVE  Spec => []CommittedOnce
<1>1. Init /\ [][Next /\ PromptResolver]_vars => []CommittedOnce
  BY EditsCommittedOnce
<1>2. QED
  BY NothingToSchedule, <1>1, PTL

=============================================================================
