------------------------- MODULE SyncBindingProofs -------------------------
(***************************************************************************)
(* SyncBinding for any accounts and bounds: only the user resumes what the   *)
(* user paused, and a pause lets at most one more push through.             *)
(*                                                                         *)
(* The invariant says that a pause reason is only kept for a binding the      *)
(* account context paused, and where a flight may be once its late push has   *)
(* been sent: nowhere from which an assertion would let it send another.      *)
(***************************************************************************)
EXTENDS SyncBinding, TLAPS

\* A command that has looked its account up acts on that account.
Commanded == command.pc # "idle" => command.account \in Account

\* Points of a flight from which it does not push before it claims or settles.
Harmless == {"idle", "fetched", "looking", "check", "claim", "settle", "failed"}

\* Nothing is late while sync is on, and a flight pushes late once.
LateSpent ==
  \A a \in Account :
     /\ late[a] =< 1
     /\ late[a] = 1 => Off(a) /\ flight[a].pc \in Harmless

Inv == TypeOK /\ PauseSticks /\ ContextPauses /\ Commanded /\ LateSpent

-----------------------------------------------------------------------------
(* What the transactions do to the rows. *)

LEMMA SuspendedRow ==
  ASSUME NEW r \in Row
  PROVE  Suspended(r) \in Row /\ Suspended(r).enabled = FALSE
<1>1. r.generation + 1 \in Nat /\ "paused" \in State
  BY DEF Row, State
<1>2. QED
  BY <1>1 DEF Row, Suspended

LEMMA ForgivenRow ==
  ASSUME NEW r \in Row
  PROVE  AuthForgiven(r) \in Row /\ AuthForgiven(r).enabled = r.enabled
<1>1. "reconciling" \in State /\ "error" \in State /\ "plain" \in Error
  BY DEF State, Error
<1>2. QED
  BY <1>1 DEF Row, AuthForgiven

LEMMA RestoredRow ==
  ASSUME TypeOK, NEW a \in Account
  PROVE  /\ Restored(a) \in Row
         /\ reason[a] = NoReason => Restored(a) = row[a]
<1>1. row[a] \in Row /\ reason[a] \in (State \ {"paused"}) \cup {NoReason}
  BY DEF TypeOK
<1>2. CASE Restored(a) = row[a]
  BY <1>1, <1>2
<1>3. CASE reason[a] # NoReason
           /\ Restored(a) = [row[a] EXCEPT !.enabled = TRUE, !.state = reason[a], !.generation = @ + 1]
  <2>1. reason[a] \in State /\ row[a].generation + 1 \in Nat
    BY <1>1, <1>3 DEF Row
  <2>2. QED
    BY <1>1, <1>3, <2>1 DEF Row
<1>4. QED
  BY <1>2, <1>3 DEF Restored

\* The rows and reasons keep their types, and no pause of the user is lifted.
StoredOK ==
  /\ active \in Account \cup {NoAccount} /\ row \in [Account -> Row]
  /\ reason \in [Account -> (State \ {"paused"}) \cup {NoReason}]
  /\ global \in [Account -> BOOLEAN]
  /\ PauseSticks /\ ContextPauses

LEMMA Activated ==
  ASSUME Inv, NEW a \in Account \cup {NoAccount}, ActivateAccount(a), paused' = paused
  PROVE  StoredOK'
<1>1. /\ active' = a /\ global' = global
      /\ row' = [b \in Account |->
               IF b = a THEN AuthForgiven(Restored(a))
               ELSE IF active # a /\ row[b].enabled THEN Suspended(row[b]) ELSE row[b]]
      /\ reason' = [b \in Account |->
                  IF b = a THEN NoReason
                  ELSE IF active # a /\ Suspendable(row[b]) THEN row[b].state ELSE reason[b]]
  BY DEF ActivateAccount
<1>2. /\ row \in [Account -> Row] /\ global \in [Account -> BOOLEAN]
      /\ reason \in [Account -> (State \ {"paused"}) \cup {NoReason}]
  BY DEF Inv, TypeOK
<1>3. ASSUME NEW b \in Account, b = a
      PROVE  row'[b] \in Row /\ reason'[b] = NoReason /\ (b \in paused => ~row'[b].enabled)
  <2>1. Restored(b) \in Row /\ (reason[b] = NoReason => Restored(b) = row[b])
    BY RestoredRow DEF Inv
  <2>2. row'[b] = AuthForgiven(Restored(b)) /\ reason'[b] = NoReason
    BY <1>1, <1>3
  <2>3. row'[b] \in Row /\ row'[b].enabled = Restored(b).enabled
    BY <2>1, <2>2, ForgivenRow
  <2>4. b \in paused => reason[b] = NoReason /\ ~row[b].enabled
    BY DEF Inv, PauseSticks, ContextPauses
  <2>5. QED
    BY <2>1, <2>2, <2>3, <2>4
<1>4. ASSUME NEW b \in Account, b # a
      PROVE  /\ row'[b] \in Row /\ reason'[b] \in (State \ {"paused"}) \cup {NoReason}
             /\ b \in paused => ~row'[b].enabled
             /\ reason'[b] # NoReason => ~row'[b].enabled /\ b # active' /\ b \notin paused
  <2>1. row[b] \in Row /\ reason[b] \in (State \ {"paused"}) \cup {NoReason}
    BY <1>2
  <2>2. /\ b \in paused => ~row[b].enabled
        /\ reason[b] # NoReason => ~row[b].enabled /\ b \notin paused
    BY DEF Inv, PauseSticks, ContextPauses
  <2>3. CASE active # a /\ row[b].enabled
    <3>1. row'[b] = Suspended(row[b])
      BY <1>1, <1>4, <2>3
    <3>2. row'[b] \in Row /\ ~row'[b].enabled
      BY <2>1, <3>1, SuspendedRow
    <3>3. reason'[b] = IF Suspendable(row[b]) THEN row[b].state ELSE reason[b]
      BY <1>1, <1>4, <2>3
    <3>4. row[b].state \in State
      BY <2>1 DEF Row
    <3>5. reason'[b] \in (State \ {"paused"}) \cup {NoReason}
      BY <2>1, <3>3, <3>4 DEF Suspendable
    <3>6. QED
      BY <1>1, <1>4, <2>2, <2>3, <3>2, <3>5
  <2>4. CASE ~(active # a /\ row[b].enabled)
    <3>1. row'[b] = row[b] /\ reason'[b] = reason[b]
      BY <1>1, <1>4, <2>4 DEF Suspendable
    <3>2. QED
      BY <1>1, <1>4, <2>1, <2>2, <3>1
  <2>5. QED
    BY <2>3, <2>4
<1>5. row' \in [Account -> Row] /\ reason' \in [Account -> (State \ {"paused"}) \cup {NoReason}]
  <2>1. \A b \in Account : row'[b] \in Row /\ reason'[b] \in (State \ {"paused"}) \cup {NoReason}
    BY <1>3, <1>4
  <2>2. QED
    BY <1>1, <2>1
<1>6. PauseSticks'
  <2>1. \A b \in paused : b \in Account
    BY DEF Inv, TypeOK
  <2>2. QED
    BY <1>3, <1>4, <2>1 DEF PauseSticks
<1>7. ContextPauses'
  BY <1>3, <1>4 DEF ContextPauses
<1>8. QED
  BY <1>1, <1>2, <1>5, <1>6, <1>7 DEF StoredOK
LEMMA Deactivated ==
  ASSUME Inv, DeactivateAccount, paused' = paused
  PROVE  StoredOK'
<1> DEFINE hit == {b \in Account : b = active /\ Suspendable(row[b])}
<1>1. /\ active' = NoAccount /\ global' = global
      /\ row' = [b \in Account |-> IF b \in hit THEN Suspended(row[b]) ELSE row[b]]
      /\ reason' = [b \in Account |-> IF b \in hit THEN row[b].state ELSE reason[b]]
  BY DEF DeactivateAccount
<1>2. /\ row \in [Account -> Row] /\ global \in [Account -> BOOLEAN]
      /\ reason \in [Account -> (State \ {"paused"}) \cup {NoReason}]
      /\ paused \subseteq Account
  BY DEF Inv, TypeOK
<1>3. ASSUME NEW b \in Account
      PROVE  /\ row'[b] \in Row /\ reason'[b] \in (State \ {"paused"}) \cup {NoReason}
             /\ b \in paused => ~row'[b].enabled
             /\ reason'[b] # NoReason => ~row'[b].enabled /\ b # active' /\ b \notin paused
  <2>1. row[b] \in Row /\ reason[b] \in (State \ {"paused"}) \cup {NoReason} /\ b # active'
    BY <1>1, <1>2, AccountAssumption
  <2>2. /\ b \in paused => ~row[b].enabled
        /\ reason[b] # NoReason => ~row[b].enabled /\ b \notin paused
    BY DEF Inv, PauseSticks, ContextPauses
  <2>3. CASE b \in hit
    <3>1. row'[b] = Suspended(row[b]) /\ reason'[b] = row[b].state
      BY <1>1, <2>3
    <3>2. row'[b] \in Row /\ ~row'[b].enabled
      BY <2>1, <3>1, SuspendedRow
    <3>3. row[b].state \in State /\ row[b].state # "paused" /\ row[b].enabled
      BY <2>1, <2>3 DEF Row, Suspendable
    <3>4. QED
      BY <2>1, <2>2, <3>1, <3>2, <3>3
  <2>4. CASE b \notin hit
    <3>1. row'[b] = row[b] /\ reason'[b] = reason[b]
      BY <1>1, <2>4
    <3>2. QED
      BY <2>1, <2>2, <3>1
  <2>5. QED
    BY <2>3, <2>4
<1>4. row' \in [Account -> Row] /\ reason' \in [Account -> (State \ {"paused"}) \cup {NoReason}]
  BY <1>1, <1>3
<1>5. PauseSticks' /\ ContextPauses'
  BY <1>2, <1>3 DEF PauseSticks, ContextPauses
<1>6. QED
  BY <1>1, <1>2, <1>4, <1>5 DEF StoredOK

LEMMA Switched ==
  ASSUME Inv, NEW a \in Account, NEW on \in BOOLEAN, SetEnabled(a, on)
  PROVE  StoredOK' /\ paused' \subseteq Account
<1>1. /\ reason' = [reason EXCEPT ![a] = NoReason] /\ UNCHANGED <<active, global>>
      /\ paused' = IF on THEN paused \ {a} ELSE paused \cup {a}
  BY DEF SetEnabled
<1>2. /\ row \in [Account -> Row] /\ global \in [Account -> BOOLEAN]
      /\ reason \in [Account -> (State \ {"paused"}) \cup {NoReason}]
      /\ paused \subseteq Account /\ active \in Account \cup {NoAccount}
  BY DEF Inv, TypeOK
<1>3. row' \in [Account -> Row] /\ (\A b \in Account \ {a} : row'[b] = row[b])
      /\ (~on => ~row'[a].enabled)
  <2>1. CASE on
    <3>1. row' = [row EXCEPT ![a] = [enabled |-> TRUE, state |-> "reconciling",
                           generation |-> row[a].generation + 1, error |-> "plain"]]
      BY <2>1 DEF SetEnabled
    <3>2. row[a].generation + 1 \in Nat
      BY <1>2 DEF Row
    <3>3. [enabled |-> TRUE, state |-> "reconciling",
           generation |-> row[a].generation + 1, error |-> "plain"] \in Row
      BY <3>2 DEF Row, State, Error
    <3>4. QED
      BY <1>2, <2>1, <3>1, <3>3
  <2>2. CASE ~on
    <3>1. row' = [row EXCEPT ![a] = Suspended(row[a])]
      BY <2>2 DEF SetEnabled
    <3>2. Suspended(row[a]) \in Row /\ Suspended(row[a]).enabled = FALSE
      BY <1>2, SuspendedRow
    <3>3. QED
      BY <1>2, <3>1, <3>2
  <2>3. QED
    BY <2>1, <2>2
<1>4. paused' \subseteq Account /\ (\A b \in paused' : b = a => ~on) /\ (\A b \in paused' \ {a} : b \in paused)
      /\ (\A b \in Account \ {a} : b \notin paused => b \notin paused')
  BY <1>1, <1>2
<1>5. PauseSticks'
  BY <1>3, <1>4 DEF Inv, PauseSticks
<1>6. ContextPauses'
  <2> SUFFICES ASSUME NEW b \in Account, reason'[b] # NoReason
               PROVE  ~row'[b].enabled /\ b # active' /\ b \notin paused'
    BY DEF ContextPauses
  <2>1. b # a /\ reason[b] # NoReason
    BY <1>1, <1>2
  <2>2. QED
    BY <1>1, <1>3, <1>4, <2>1 DEF Inv, ContextPauses
<1>7. QED
  BY <1>1, <1>2, <1>3, <1>4, <1>5, <1>6 DEF StoredOK

\* A step that writes rows but never their switch keeps every pause.
LEMMA Unswitched ==
  ASSUME Inv, row' \in [Account -> Row], \A b \in Account : row'[b].enabled = row[b].enabled,
         global' \in [Account -> BOOLEAN], UNCHANGED <<active, reason, paused>>
  PROVE  StoredOK'
<1>1. PauseSticks' /\ ContextPauses'
  BY DEF Inv, TypeOK, PauseSticks, ContextPauses
<1>2. QED
  BY <1>1 DEF Inv, TypeOK, StoredOK
-----------------------------------------------------------------------------
(* Where the steps of a flight take it. *)

Moves(a, p) ==
  /\ flight' \in [Account -> FlightState] /\ flight'[a].pc = p
  /\ \A b \in Account \ {a} : flight'[b] = flight[b]

LEMMA AtState ==
  ASSUME NEW p \in Pc, NEW g \in Nat
  PROVE  At(p, g) \in FlightState /\ At(p, g).pc = p
<1>1. "plain" \in Error /\ Unread \in [generation : Nat, state : State]
  BY DEF Error, Unread, State
<1>2. QED
  BY <1>1 DEF At, FlightState

LEMMA GotoMoves ==
  ASSUME TypeOK, NEW a \in Account, NEW p \in Pc, Goto(a, p)
  PROVE  Moves(a, p)
<1>1. flight[a] \in FlightState
  BY DEF TypeOK
<1>2. [flight[a] EXCEPT !.pc = p] \in FlightState
  BY <1>1 DEF FlightState
<1>3. flight' = [flight EXCEPT ![a] = [flight[a] EXCEPT !.pc = p]] /\ [flight[a] EXCEPT !.pc = p].pc = p
  BY <1>1 DEF Goto, TypeOK, FlightState
<1>4. QED
  BY <1>2, <1>3 DEF Moves, TypeOK

LEMMA LandMoves ==
  ASSUME TypeOK, NEW a \in Account, Land(a)
  PROVE  Moves(a, "idle")
<1>1. At("idle", 0) \in FlightState /\ At("idle", 0).pc = "idle"
  BY AtState DEF Pc
<1>2. QED
  BY <1>1 DEF Land, Moves, TypeOK

LEMMA FailMoves ==
  ASSUME TypeOK, NEW a \in Account, NEW e \in Error, Fail(a, e)
  PROVE  Moves(a, "failed")
<1>1. flight[a].session \in Nat
  BY DEF TypeOK, FlightState
<1>2. At("failed", flight[a].session) \in FlightState /\ At("failed", flight[a].session).pc = "failed"
  BY <1>1, AtState DEF Pc
<1>3. PICK f \in FlightState : f = At("failed", flight[a].session) /\ f.pc = "failed"
  BY <1>2
<1>4. [f EXCEPT !.error = e] \in FlightState /\ [f EXCEPT !.error = e].pc = "failed"
  BY <1>3 DEF FlightState
<1>5. flight' = [flight EXCEPT ![a] = [f EXCEPT !.error = e]]
  BY <1>3 DEF Fail
<1>6. QED
  BY <1>4, <1>5 DEF Moves, TypeOK

LEMMA AnsweredMoves ==
  ASSUME TypeOK, NEW a \in Account, NEW p \in Pc, Answered(a, p)
  PROVE  Moves(a, p)
<1>1. flight[a] \in FlightState
  BY DEF TypeOK
<1>2. /\ [flight[a] EXCEPT !.pc = p, !.cred = 0] \in FlightState
      /\ [flight[a] EXCEPT !.pc = p, !.cred = 0].pc = p
  BY <1>1 DEF FlightState
<1>3. flight' = [flight EXCEPT ![a] = [flight[a] EXCEPT !.pc = p, !.cred = 0]]
  BY DEF Answered
<1>4. QED
  BY <1>2, <1>3 DEF Moves, TypeOK

LEMMA SeesMoves ==
  ASSUME TypeOK, NEW a \in Account, NEW p \in Pc, Sees(a, p)
  PROVE  Moves(a, p)
<1>1. flight[a] \in FlightState /\ row[a] \in Row
  BY DEF TypeOK
<1> DEFINE seen == [generation |-> row[a].generation, state |-> row[a].state]
<1>2. seen \in [generation : Nat, state : State]
  BY <1>1 DEF Row
<1>3. flight' = [flight EXCEPT ![a] = [flight[a] EXCEPT !.pc = p, !.seen = seen]]
  BY DEF Sees
<1> HIDE DEF seen
<1>4. /\ [flight[a] EXCEPT !.pc = p, !.seen = seen] \in FlightState
      /\ [flight[a] EXCEPT !.pc = p, !.seen = seen].pc = p
  BY <1>1, <1>2 DEF FlightState
<1>5. QED
  BY <1>3, <1>4 DEF Moves, TypeOK

LEMMA SendMoves ==
  ASSUME TypeOK, NEW a \in Account, NEW p \in Pc, Send(a, p)
  PROVE  Moves(a, p)
<1>1. flight[a] \in FlightState /\ session.generation \in Nat
  BY DEF TypeOK
<1>2. PICK g \in Nat : g = session.generation
  BY <1>1
<1>3. flight' = [flight EXCEPT ![a] = [flight[a] EXCEPT !.pc = p, !.cred = g]]
  BY <1>2 DEF Send
<1>4. /\ [flight[a] EXCEPT !.pc = p, !.cred = g] \in FlightState
      /\ [flight[a] EXCEPT !.pc = p, !.cred = g].pc = p
  BY <1>1 DEF FlightState
<1>5. QED
  BY <1>3, <1>4 DEF Moves, TypeOK

LEMMA SettledMoves ==
  ASSUME TypeOK, NEW a \in Account,
         flight' = [flight EXCEPT ![a] = [@ EXCEPT !.pc = "push", !.pushed = TRUE, !.cred = 0]]
  PROVE  Moves(a, "push")
<1>1. flight[a] \in FlightState /\ "push" \in Pc
  BY DEF TypeOK, Pc
<1>2. /\ [flight[a] EXCEPT !.pc = "push", !.pushed = TRUE, !.cred = 0] \in FlightState
      /\ [flight[a] EXCEPT !.pc = "push", !.pushed = TRUE, !.cred = 0].pc = "push"
  BY <1>1 DEF FlightState
<1>3. QED
  BY <1>2 DEF Moves, TypeOK

LEMMA MarkedRow ==
  ASSUME TypeOK, NEW a \in Account, NEW s \in State, NEW e \in Error, Marked(a, s, e)
  PROVE  row' \in [Account -> Row] /\ \A b \in Account : row'[b].enabled = row[b].enabled
<1>1. row[a] \in Row
  BY DEF TypeOK
<1>2. /\ [row[a] EXCEPT !.state = s, !.error = e] \in Row
      /\ [row[a] EXCEPT !.state = s, !.error = e].enabled = row[a].enabled
  BY <1>1 DEF Row
<1>3. row' = [row EXCEPT ![a] = [row[a] EXCEPT !.state = s, !.error = e]]
  BY DEF Marked
<1>4. QED
  BY <1>2, <1>3 DEF TypeOK
-----------------------------------------------------------------------------
(* The steps of a flight. *)

\* A flight goes where a late push does not matter, or comes from where it
\* cannot be, or its sync is on.
Safe(a) ==
  \E p \in Pc : Moves(a, p) /\ (p \in Harmless \/ flight[a].pc \notin Harmless \/ ~Off(a))

RowKept == row' \in [Account -> Row] /\ \A b \in Account : row'[b].enabled = row[b].enabled

LEMMA SafeStep ==
  ASSUME Inv, NEW a \in Account, Safe(a), RowKept,
         session' \in [account : Account \cup {NoAccount}, generation : Nat],
         gate' \in Nat \cup {Closed},
         UNCHANGED <<active, reason, global, shell, ghosts, spent>>
  PROVE  Inv'
<1>1. PICK p \in Pc : Moves(a, p) /\ (p \in Harmless \/ flight[a].pc \notin Harmless \/ ~Off(a))
  BY DEF Safe
<1>2. UNCHANGED <<active, reason, global, command, refresh, cleanup, paused, late, spent>>
  BY DEF shell, ghosts
<1>3. StoredOK'
  <2>1. global' \in [Account -> BOOLEAN]
    BY <1>2 DEF Inv, TypeOK
  <2>2. QED
    BY <1>2, <2>1, Unswitched DEF RowKept
<1>4. TypeOK'
  BY <1>1, <1>2 DEF Inv, TypeOK, Moves, RowKept
<1>5. Commanded'
  BY <1>2 DEF Inv, Commanded
<1>6. LateSpent'
  <2> SUFFICES ASSUME NEW b \in Account
               PROVE  late'[b] =< 1 /\ (late'[b] = 1 => Off(b)' /\ flight'[b].pc \in Harmless)
    BY DEF LateSpent
  <2>1. Off(b)' = Off(b)
    BY <1>2 DEF Off
  <2>2. late'[b] = late[b] /\ late[b] =< 1 /\ (late[b] = 1 => Off(b) /\ flight[b].pc \in Harmless)
    BY <1>2 DEF Inv, LateSpent
  <2>3. CASE b # a
    BY <1>1, <2>1, <2>2, <2>3 DEF Moves
  <2>4. CASE b = a
    BY <1>1, <2>1, <2>2, <2>4 DEF Moves
  <2>5. QED
    BY <2>3, <2>4
<1>7. QED
  BY <1>3, <1>4, <1>5, <1>6 DEF Inv, StoredOK

LEMMA QuietStep ==
  ASSUME Inv, NEW a \in Account, Safe(a), RowKept, Quiet
  PROVE  Inv'
<1>1. UNCHANGED <<session, gate, active, reason, global, shell, ghosts, spent>>
  BY DEF Quiet, account
<1>2. /\ session' \in [account : Account \cup {NoAccount}, generation : Nat]
      /\ gate' \in Nat \cup {Closed}
  BY <1>1 DEF Inv, TypeOK
<1>3. QED
  BY <1>1, <1>2, SafeStep

LEMMA UnchangedRow == ASSUME Inv, UNCHANGED row PROVE RowKept
BY DEF Inv, TypeOK, RowKept

LEMMA KeptMarked ==
  ASSUME Inv, NEW a \in Account, NEW s \in State, NEW e \in Error, Marked(a, s, e)
  PROVE  RowKept
BY MarkedRow DEF Inv, RowKept

\* Every way on is safe from a point where no late push can have been sent,
\* and landing and failing are from anywhere.
LEMMA Onward ==
  ASSUME Inv, NEW a \in Account, flight[a].pc \notin Harmless,
         \E p \in Pc : Goto(a, p) \/ Answered(a, p) \/ Sees(a, p) \/ Send(a, p)
  PROVE  Safe(a)
BY GotoMoves, AnsweredMoves, SeesMoves, SendMoves DEF Inv, Safe

LEMMA Ending ==
  ASSUME Inv, NEW a \in Account, Land(a) \/ \E e \in Error : Fail(a, e)
  PROVE  Safe(a)
<1>1. "idle" \in Pc /\ "failed" \in Pc /\ "idle" \in Harmless /\ "failed" \in Harmless
  BY DEF Pc, Harmless
<1>2. QED
  BY <1>1, LandMoves, FailMoves DEF Inv, Safe

\* The points before a claim.
LEMMA Approach ==
  ASSUME Inv, NEW a \in Account, Goto(a, "looking") \/ Goto(a, "check") \/ Goto(a, "claim")
  PROVE  Safe(a)
<1>1. {"looking", "check", "claim"} \subseteq Pc \cap Harmless
  BY DEF Pc, Harmless
<1>2. QED
  BY <1>1, GotoMoves DEF Inv, Safe

LEMMA OnIsNotOff ==
  ASSUME Inv, NEW a \in Account, row[a].enabled, global[a]
  PROVE  ~Off(a)
BY DEF Inv, PauseSticks, Off

LEMMA EnterInv == ASSUME Inv, NEW a \in Account, Enter(a) PROVE Inv'
BY Approach, Ending, UnchangedRow, QuietStep DEF Enter

LEMMA CheckSessionInv == ASSUME Inv, NEW a \in Account, CheckSession(a) PROVE Inv'
<1>1. "auth" \in Error /\ "plain" \in Error
  BY DEF Error
<1>2. Safe(a)
  BY <1>1, Approach, Ending DEF CheckSession
<1>3. QED
  BY <1>2, UnchangedRow, QuietStep DEF CheckSession

LEMMA ClaimInv == ASSUME Inv, NEW a \in Account, Claim(a) PROVE Inv'
<1>1. CASE row[a].enabled /\ row[a].state # "paused" /\ global[a]
  <2>1. row' = [row EXCEPT ![a].generation = flight[a].session] /\ Goto(a, "read")
    BY <1>1 DEF Claim
  <2>2. flight[a].session \in Nat /\ row[a] \in Row
    BY DEF Inv, TypeOK, FlightState
  <2>3. PICK g \in Nat : g = flight[a].session
    BY <2>2
  <2>4. /\ [row[a] EXCEPT !.generation = g] \in Row
        /\ [row[a] EXCEPT !.generation = g].enabled = row[a].enabled
    BY <2>2 DEF Row
  <2>5. row' = [row EXCEPT ![a] = [row[a] EXCEPT !.generation = g]]
    BY <2>1, <2>3 DEF Inv, TypeOK
  <2>6. RowKept
    BY <2>4, <2>5 DEF Inv, TypeOK, RowKept
  <2>7. Safe(a)
    <3>1. "read" \in Pc
      BY DEF Pc
    <3>2. ~Off(a)
      BY <1>1, OnIsNotOff
    <3>3. QED
      BY <2>1, <3>1, <3>2, GotoMoves DEF Inv, Safe
  <2>8. QED
    BY <2>6, <2>7, QuietStep DEF Claim
<1>2. CASE ~(row[a].enabled /\ row[a].state # "paused" /\ global[a])
  <2>1. Fail(a, "gone") /\ UNCHANGED row /\ "gone" \in Error
    BY <1>2 DEF Claim, Error
  <2>2. QED
    BY <2>1, Ending, UnchangedRow, QuietStep DEF Claim
<1>3. QED
  BY <1>1, <1>2
LEMMA ReadBindingInv == ASSUME Inv, NEW a \in Account, ReadBinding(a) PROVE Inv'
<1>1. "gone" \in Error /\ "capture" \in Pc /\ flight[a].pc \notin Harmless
  BY DEF Error, Pc, Harmless, ReadBinding
<1>2. Safe(a)
  BY <1>1, Onward, Ending DEF ReadBinding
<1>3. QED
  BY <1>2, UnchangedRow, QuietStep DEF ReadBinding

LEMMA ReconcileInv == ASSUME Inv, NEW a \in Account, Reconcile(a) PROVE Inv'
<1>1. "pull" \in Pc /\ "reload" \in Pc /\ flight[a].pc \notin Harmless
  BY DEF Pc, Harmless, Reconcile
<1>2. Safe(a)
  BY <1>1, Onward, Ending DEF Reconcile
<1>3. QED
  BY <1>2, UnchangedRow, QuietStep DEF Reconcile

LEMMA RefusedInv == ASSUME Inv, NEW a \in Account, Refused(a) PROVE Inv'
<1>1. Safe(a)
  BY Ending DEF Refused, Error
<1>2. QED
  BY <1>1, UnchangedRow, QuietStep DEF Refused

LEMMA PullPageInv == ASSUME Inv, NEW a \in Account, PullPage(a) PROVE Inv'
<1>1. {"pull", "reapply"} \subseteq Pc /\ "plain" \in Error /\ "error" \in State
      /\ flight[a].pc \notin Harmless
  BY DEF Pc, Error, State, Harmless, PullPage
<1>2. row[a].state \in State /\ row[a].error \in Error
  BY DEF Inv, TypeOK, Row
<1>3. RowKept
  BY <1>1, <1>2, UnchangedRow, KeptMarked DEF PullPage
<1>4. Safe(a)
  BY <1>1, Onward, Ending DEF PullPage
<1>5. QED
  BY <1>3, <1>4, QuietStep DEF PullPage

LEMMA ReapplyInv == ASSUME Inv, NEW a \in Account, Reapply(a) PROVE Inv'
<1>1. {"close", "reread"} \subseteq Pc /\ "plain" \in Error /\ "error" \in State
      /\ flight[a].pc \notin Harmless
  BY DEF Pc, Error, State, Harmless, Reapply
<1>2. RowKept
  BY <1>1, UnchangedRow, KeptMarked DEF Reapply
<1>3. Safe(a)
  BY <1>1, Onward, Ending DEF Reapply
<1>4. QED
  BY <1>2, <1>3, QuietStep DEF Reapply

LEMMA RereadInv == ASSUME Inv, NEW a \in Account, Reread(a) PROVE Inv'
<1>1. {"repair", "queue", "review", "activate"} \subseteq Pc /\ flight[a].pc \notin Harmless
  BY DEF Pc, Harmless, Reread
<1>2. Safe(a)
  BY <1>1, Onward DEF Reread
<1>3. QED
  BY <1>2, UnchangedRow, QuietStep DEF Reread

LEMMA BlockKeeps ==
  ASSUME Inv, NEW a \in Account, Block(a)
  PROVE  Safe(a) /\ RowKept
<1>1. "plain" \in Error /\ "error" \in State
  BY DEF Error, State
<1>2. QED
  BY <1>1, UnchangedRow, KeptMarked, Ending DEF Block

LEMMA CheckQueueInv == ASSUME Inv, NEW a \in Account, CheckQueue(a) PROVE Inv'
<1>1. "push" \in Pc /\ flight[a].pc \notin Harmless
  BY DEF Pc, Harmless, CheckQueue
<1>2. Safe(a) /\ RowKept
  BY <1>1, BlockKeeps, Onward, UnchangedRow DEF CheckQueue
<1>3. QED
  BY <1>2, QuietStep DEF CheckQueue

LEMMA PushBatchInv == ASSUME Inv, NEW a \in Account, PushBatch(a) PROVE Inv'
<1>1. {"last", "sending"} \subseteq Pc /\ flight[a].pc \notin Harmless
  BY DEF Pc, Harmless, PushBatch
<1>2. Safe(a)
  BY <1>1, Onward, Ending DEF PushBatch
<1>3. QED
  BY <1>2, UnchangedRow, QuietStep DEF PushBatch

\* The assertion of apply_push_results lets a flight push again only while
\* its sync is on.
LEMMA SettlePushInv == ASSUME Inv, NEW a \in Account, SettlePush(a) PROVE Inv'
<1>1. CASE SameSession(a) /\ Current(a)
  <2>1. flight' = [flight EXCEPT ![a] = [@ EXCEPT !.pc = "push", !.pushed = TRUE, !.cred = 0]]
    BY <1>1 DEF SettlePush
  <2>2. Moves(a, "push") /\ "push" \in Pc
    BY <2>1, SettledMoves DEF Inv, Pc
  <2>3. ~Off(a)
    BY <1>1, OnIsNotOff DEF Current
  <2>4. Safe(a)
    BY <2>2, <2>3 DEF Safe
  <2>5. QED
    BY <2>4, UnchangedRow, QuietStep DEF SettlePush
<1>2. CASE ~(SameSession(a) /\ Current(a))
  <2>1. Land(a)
    BY <1>2 DEF SettlePush
  <2>2. QED
    BY <2>1, Ending, UnchangedRow, QuietStep DEF SettlePush
<1>3. QED
  BY <1>1, <1>2

LEMMA ReviewInv == ASSUME Inv, NEW a \in Account, Review(a) PROVE Inv'
<1> DEFINE next == IF flight[a].pushed THEN "pull" ELSE "close"
<1>1. next \in Pc /\ flight[a].pc \notin Harmless /\ "plain" \in Error /\ "reconciling" \in State
  BY DEF Pc, Harmless, Error, State, Review
<1>2. \/ Block(a)
      \/ Goto(a, next) /\ UNCHANGED row
      \/ Marked(a, "reconciling", "plain") /\ Goto(a, next)
      \/ Land(a) /\ UNCHANGED row
  BY DEF Review
<1> HIDE DEF next
<1>3. Safe(a)
  BY <1>1, <1>2, BlockKeeps, Onward, Ending
<1>4. RowKept
  BY <1>1, <1>2, BlockKeeps, UnchangedRow, KeptMarked
<1>5. QED
  BY <1>3, <1>4, QuietStep DEF Review

LEMMA CloseInv == ASSUME Inv, NEW a \in Account, Close(a) PROVE Inv'
<1>1. "plain" \in Error /\ "active" \in State
  BY DEF Error, State
<1>2. Safe(a) /\ RowKept
  BY <1>1, BlockKeeps, Ending, UnchangedRow, KeptMarked DEF Close
<1>3. QED
  BY <1>2, QuietStep DEF Close

LEMMA RecordErrorInv == ASSUME Inv, NEW a \in Account, RecordError(a) PROVE Inv'
<1>1. PICK e \in {flight[a].error, "plain"} :
        row' = IF row[a].generation = flight[a].session
               THEN [row EXCEPT ![a] = [@ EXCEPT !.state = "error", !.error = e]] ELSE row
  BY DEF RecordError
<1>2. e \in Error /\ "error" \in State
  BY DEF Inv, TypeOK, FlightState, Error, State
<1>3. Marked(a, "error", e) \/ UNCHANGED row
  BY <1>1 DEF Marked
<1>4. RowKept
  BY <1>2, <1>3, KeptMarked, UnchangedRow
<1>5. QED
  BY <1>4, Ending, QuietStep DEF RecordError

LEMMA SendPullInv == ASSUME Inv, NEW a \in Account, SendPull(a) PROVE Inv'
<1>1. "page" \in Pc /\ flight[a].pc \notin Harmless
  BY DEF Pc, Harmless, SendPull
<1>2. Safe(a)
  BY <1>1, Onward DEF SendPull
<1>3. UNCHANGED <<session, gate, active, row, reason, global, shell, ghosts, spent>>
  BY DEF SendPull, Send, account, stored, ghosts
<1>4. QED
  BY <1>2, <1>3, UnchangedRow, QuietStep DEF Quiet, account

LEMMA StartFlightInv == ASSUME Inv, NEW a \in Account, StartFlight(a) PROVE Inv'
<1>1. session.generation \in Nat /\ "fetched" \in Pc /\ "fetched" \in Harmless
  BY DEF Inv, TypeOK, Pc, Harmless
<1>2. Moves(a, "fetched")
  BY <1>1, AtState DEF StartFlight, Moves, Inv, TypeOK
<1>3. Safe(a)
  BY <1>1, <1>2 DEF Safe
<1>4. UNCHANGED <<session, gate, active, row, reason, global, shell, ghosts, spent>>
  BY DEF StartFlight, account, stored
<1>5. QED
  BY <1>3, <1>4, UnchangedRow, QuietStep DEF Quiet, account

LEMMA RequestFailsInv == ASSUME Inv, NEW a \in Account, RequestFails(a) PROVE Inv'
<1>1. Safe(a)
  BY Ending DEF RequestFails, Error
<1>2. UNCHANGED <<session, active, row, reason, global, shell, ghosts, spent>>
  BY DEF RequestFails, stored
<1>3. gate' \in Nat \cup {Closed}
  BY DEF RequestFails, Inv, TypeOK
<1>4. session' \in [account : Account \cup {NoAccount}, generation : Nat]
  BY <1>2 DEF Inv, TypeOK
<1>5. QED
  BY <1>1, <1>2, <1>3, <1>4, UnchangedRow, SafeStep
\* The push that was on its way when sync went off is counted, once.
LEMMA SendPushInv == ASSUME Inv, NEW a \in Account, SendPush(a) PROVE Inv'
<1>1. "settle" \in Pc /\ "settle" \in Harmless /\ flight[a].pc \notin Harmless
  BY DEF Pc, Harmless, SendPush
<1>2. Moves(a, "settle")
  BY <1>1, SendMoves DEF SendPush, Inv
<1>3. /\ UNCHANGED <<session, gate, active, row, reason, global, command, refresh, cleanup, paused, spent>>
      /\ late' = IF Off(a) /\ late[a] < 2 THEN [late EXCEPT ![a] = @ + 1] ELSE late
  BY DEF SendPush, Send, account, stored, shell
<1>4. late[a] = 0
  BY <1>1 DEF Inv, TypeOK, LateSpent
<1>5. late \in [Account -> 0..2]
  BY DEF Inv, TypeOK
<1>6. late' \in [Account -> 0..2] /\ (late'[a] = IF Off(a) THEN 1 ELSE 0)
      /\ \A b \in Account \ {a} : late'[b] = late[b]
  BY <1>3, <1>4, <1>5
<1>7. TypeOK'
  BY <1>2, <1>3, <1>6 DEF Inv, TypeOK, Moves
<1>8. PauseSticks' /\ ContextPauses' /\ Commanded'
  BY <1>3 DEF Inv, PauseSticks, ContextPauses, Commanded
<1>9. LateSpent'
  <2> SUFFICES ASSUME NEW b \in Account
               PROVE  late'[b] =< 1 /\ (late'[b] = 1 => Off(b)' /\ flight'[b].pc \in Harmless)
    BY DEF LateSpent
  <2>1. Off(b)' = Off(b)
    BY <1>3 DEF Off
  <2>2. CASE b # a
    BY <1>2, <1>6, <2>1, <2>2 DEF Inv, LateSpent, Moves
  <2>3. CASE b = a
    BY <1>1, <1>2, <1>6, <2>1, <2>3 DEF Moves
  <2>4. QED
    BY <2>2, <2>3
<1>10. QED
  BY <1>7, <1>8, <1>9 DEF Inv

LEMMA FlightActivatesInv == ASSUME Inv, NEW a \in Account, FlightActivates(a) PROVE Inv'
<1>1. "looking" \in Pc /\ "looking" \in Harmless
  BY DEF Pc, Harmless
<1>2. Moves(a, "looking")
  BY <1>1, GotoMoves DEF FlightActivates, Inv
<1>3. /\ UNCHANGED <<session, gate, command, refresh, cleanup, paused, late, spent>>
      /\ global' = global /\ ActivateAccount(a)
  BY DEF FlightActivates, account, shell, ghosts, ActivateAccount
<1>4. StoredOK'
  BY <1>3, Activated
<1>5. TypeOK'
  BY <1>2, <1>3, <1>4 DEF Inv, TypeOK, StoredOK, Moves
<1>6. Commanded'
  BY <1>3 DEF Inv, Commanded
<1>7. LateSpent'
  <2> SUFFICES ASSUME NEW b \in Account
               PROVE  late'[b] =< 1 /\ (late'[b] = 1 => Off(b)' /\ flight'[b].pc \in Harmless)
    BY DEF LateSpent
  <2>1. Off(b)' = Off(b)
    BY <1>3 DEF Off
  <2>2. late'[b] = late[b] /\ late[b] =< 1 /\ (late[b] = 1 => Off(b) /\ flight[b].pc \in Harmless)
    BY <1>3 DEF Inv, LateSpent
  <2>3. CASE b # a
    BY <1>2, <2>1, <2>2, <2>3 DEF Moves
  <2>4. CASE b = a
    BY <1>1, <1>2, <2>1, <2>2, <2>4 DEF Moves
  <2>5. QED
    BY <2>3, <2>4
<1>8. QED
  BY <1>4, <1>5, <1>6, <1>7 DEF Inv, StoredOK

LEMMA FlyInv == ASSUME Inv, NEW a \in Account, Fly(a) PROVE Inv'
BY StartFlightInv, FlightActivatesInv, EnterInv, CheckSessionInv, ClaimInv, ReadBindingInv,
   ReconcileInv, SendPullInv, RefusedInv, PullPageInv, ReapplyInv, RereadInv, CheckQueueInv,
   PushBatchInv, SendPushInv, SettlePushInv, RequestFailsInv, ReviewInv, CloseInv, RecordErrorInv
   DEF Fly
-----------------------------------------------------------------------------
(* The desktop shell. *)

LEMMA SpendCounts ==
  ASSUME TypeOK, NEW k \in {"events", "commands"}, Spend(k)
  PROVE  spent' \in [events : Nat, commands : Nat]
BY DEF TypeOK, Spend

\* A step of the shell: the flights stay or land, the accounts may change.
ShellTypes ==
  /\ session' \in [account : Account \cup {NoAccount}, generation : Nat]
  /\ gate' \in Nat \cup {Closed}
  /\ refresh' \in [pc : {"idle", "fetched", "denied", "committed"},
                   kind : {"none", "in", "out", "signing"},
                   account : Account \cup {NoAccount}, generation : Nat]
  /\ command' \in [pc : {"idle", "fetched", "looking"}, kind : Want \cup {"none"},
                   account : Account \cup {NoAccount}, generation : Nat]
  /\ cleanup' \in BOOLEAN
  /\ spent' \in [events : Nat, commands : Nat]

LEMMA ShellStep ==
  ASSUME Inv, ShellTypes, StoredOK', Commanded',
         flight' \in [Account -> FlightState],
         \A a \in Account : flight'[a].pc = flight[a].pc \/ flight'[a].pc \in Harmless,
         UNCHANGED <<global, ghosts>>
  PROVE  Inv'
<1>1. UNCHANGED <<global, paused, late>>
  BY DEF ghosts
<1>2. TypeOK'
  BY <1>1 DEF Inv, TypeOK, ShellTypes, StoredOK
<1>3. LateSpent'
  <2> SUFFICES ASSUME NEW b \in Account
               PROVE  late'[b] =< 1 /\ (late'[b] = 1 => Off(b)' /\ flight'[b].pc \in Harmless)
    BY DEF LateSpent
  <2>1. Off(b)' = Off(b) /\ late'[b] = late[b]
    BY <1>1 DEF Off
  <2>2. QED
    BY <2>1 DEF Inv, LateSpent
<1>4. QED
  BY <1>2, <1>3 DEF Inv, StoredOK

\* What a step that leaves the database, or the flights, alone keeps of them.
LEMMA StoredKept == ASSUME Inv, UNCHANGED <<stored, paused>> PROVE StoredOK'
BY DEF Inv, TypeOK, stored, StoredOK, PauseSticks, ContextPauses

LEMMA FlightsKept ==
  ASSUME Inv, UNCHANGED flight
  PROVE  /\ flight' \in [Account -> FlightState]
         /\ \A a \in Account : flight'[a].pc = flight[a].pc \/ flight'[a].pc \in Harmless
BY DEF Inv, TypeOK

LEMMA IdleTypes ==
  /\ Idle \in [pc : {"idle", "fetched", "looking"}, kind : Want \cup {"none"},
               account : Account \cup {NoAccount}, generation : Nat]
  /\ Idle \in [pc : {"idle", "fetched", "denied", "committed"}, kind : {"none", "in", "out", "signing"},
               account : Account \cup {NoAccount}, generation : Nat]
  /\ Idle.pc = "idle"
BY DEF Idle

LEMMA SignInInv == ASSUME Inv, NEW a \in Account, SignIn(a) PROVE Inv'
<1>1. UNCHANGED <<gate, command, refresh, cleanup, paused>> /\ UNCHANGED <<stored, flight, ghosts, global>>
  BY DEF SignIn, shell, ghosts, stored
<1>2. spent' \in [events : Nat, commands : Nat]
  BY SpendCounts DEF SignIn, Event, Inv
<1>3. session' \in [account : Account \cup {NoAccount}, generation : Nat]
  BY DEF SignIn, Inv, TypeOK
<1>4. ShellTypes /\ Commanded'
  BY <1>1, <1>2, <1>3 DEF Inv, TypeOK, ShellTypes, Commanded
<1>5. QED
  BY <1>1, <1>4, StoredKept, FlightsKept, ShellStep

LEMMA SignOutInv == ASSUME Inv, SignOut PROVE Inv'
<1>1. UNCHANGED <<command, refresh, paused>> /\ UNCHANGED <<stored, flight, ghosts, global>>
  BY DEF SignOut, ghosts, stored
<1>2. spent' \in [events : Nat, commands : Nat]
  BY SpendCounts DEF SignOut, Event, Inv
<1>3. session' \in [account : Account \cup {NoAccount}, generation : Nat] /\ gate' = Closed /\ cleanup' = TRUE
  BY DEF SignOut, Inv, TypeOK
<1>4. ShellTypes /\ Commanded'
  BY <1>1, <1>2, <1>3 DEF Inv, TypeOK, ShellTypes, Commanded
<1>5. QED
  BY <1>1, <1>4, StoredKept, FlightsKept, ShellStep

LEMMA ExpireInv == ASSUME Inv, Expire PROVE Inv'
<1>1. UNCHANGED <<gate, command, refresh, cleanup, paused>> /\ UNCHANGED <<stored, flight, ghosts, global>>
  BY DEF Expire, shell, ghosts, stored
<1>2. spent' \in [events : Nat, commands : Nat]
  BY SpendCounts DEF Expire, Event, Inv
<1>3. session' \in [account : Account \cup {NoAccount}, generation : Nat]
  BY DEF Expire, Inv, TypeOK
<1>4. ShellTypes /\ Commanded'
  BY <1>1, <1>2, <1>3 DEF Inv, TypeOK, ShellTypes, Commanded
<1>5. QED
  BY <1>1, <1>4, StoredKept, FlightsKept, ShellStep

LEMMA CleanUpInv == ASSUME Inv, CleanUp PROVE Inv'
<1>1. /\ UNCHANGED <<session, gate, command, refresh, paused, spent>> /\ UNCHANGED <<flight, ghosts>>
      /\ cleanup' = FALSE /\ DeactivateAccount
  BY DEF CleanUp, account, ghosts
<1>2. StoredOK' /\ global' = global
  BY <1>1, Deactivated DEF DeactivateAccount
<1>3. ShellTypes /\ Commanded'
  BY <1>1 DEF Inv, TypeOK, ShellTypes, Commanded
<1>4. QED
  BY <1>1, <1>2, <1>3, FlightsKept, ShellStep

\* A restart lands every flight, and with it the push it may have sent.
LEMMA RestartInv == ASSUME Inv, Restart PROVE Inv'
<1>1. /\ UNCHANGED <<stored, paused>> /\ UNCHANGED <<global, ghosts>>
      /\ flight' = [a \in Account |-> At("idle", 0)]
      /\ gate' = Closed /\ command' = Idle /\ refresh' = Idle /\ cleanup' = FALSE
  BY DEF Restart, stored, ghosts
<1>2. spent' \in [events : Nat, commands : Nat]
  BY SpendCounts DEF Restart, Event, Inv
<1>3. session' \in [account : Account \cup {NoAccount}, generation : Nat]
  BY DEF Restart, Inv, TypeOK
<1>4. ShellTypes /\ Commanded'
  BY <1>1, <1>2, <1>3, IdleTypes DEF ShellTypes, Commanded
<1>5. At("idle", 0) \in FlightState /\ At("idle", 0).pc = "idle" /\ "idle" \in Harmless
  BY AtState DEF Pc, Harmless
<1>6. /\ flight' \in [Account -> FlightState]
      /\ \A a \in Account : flight'[a].pc = flight[a].pc \/ flight'[a].pc \in Harmless
  BY <1>1, <1>5
<1>7. StoredOK'
  BY <1>1, StoredKept
<1>8. QED
  BY <1>1, <1>4, <1>6, <1>7, ShellStep

LEMMA RefreshReadsInv == ASSUME Inv, RefreshReads PROVE Inv'
<1>1. /\ UNCHANGED <<session, gate, command, cleanup, paused>>
      /\ UNCHANGED <<stored, flight, ghosts, global>>
  BY DEF RefreshReads, account, stored, ghosts
<1>2. spent' \in [events : Nat, commands : Nat]
  BY SpendCounts DEF RefreshReads, Event, Inv, TypeOK
<1>3. refresh' \in [pc : {"idle", "fetched", "denied", "committed"},
                    kind : {"none", "in", "out", "signing"},
                    account : Account \cup {NoAccount}, generation : Nat]
  BY IdleTypes DEF RefreshReads, Inv, TypeOK
<1>4. ShellTypes /\ Commanded'
  BY <1>1, <1>2, <1>3 DEF Inv, TypeOK, ShellTypes, Commanded
<1>5. QED
  BY <1>1, <1>4, StoredKept, FlightsKept, ShellStep

LEMMA RefreshDeniesInv == ASSUME Inv, RefreshDenies PROVE Inv'
<1>1. /\ UNCHANGED <<session, command, cleanup, paused, spent>> /\ gate' = Closed
      /\ UNCHANGED <<stored, flight, ghosts, global>>
  BY DEF RefreshDenies, stored, ghosts
<1>2. refresh' \in [pc : {"idle", "fetched", "denied", "committed"},
                    kind : {"none", "in", "out", "signing"},
                    account : Account \cup {NoAccount}, generation : Nat]
  BY IdleTypes DEF RefreshDenies, Inv, TypeOK
<1>3. ShellTypes /\ Commanded'
  BY <1>1, <1>2 DEF Inv, TypeOK, ShellTypes, Commanded
<1>4. QED
  BY <1>1, <1>3, StoredKept, FlightsKept, ShellStep

LEMMA RefreshCommitsInv == ASSUME Inv, RefreshCommits PROVE Inv'
<1>1. UNCHANGED <<session, gate, command, cleanup, paused, spent>> /\ UNCHANGED <<flight, ghosts>>
      /\ global' = global
  BY DEF RefreshCommits, account, ghosts, ActivateAccount, DeactivateAccount
<1>2. refresh.account \in Account \cup {NoAccount}
  BY DEF Inv, TypeOK
<1>3. StoredOK'
  BY <1>1, <1>2, Activated, Deactivated DEF RefreshCommits
<1>4. refresh' \in [pc : {"idle", "fetched", "denied", "committed"},
                    kind : {"none", "in", "out", "signing"},
                    account : Account \cup {NoAccount}, generation : Nat]
  BY IdleTypes DEF RefreshCommits, Inv, TypeOK
<1>5. ShellTypes /\ Commanded'
  BY <1>1, <1>4 DEF Inv, TypeOK, ShellTypes, Commanded
<1>6. QED
  BY <1>1, <1>3, <1>5, FlightsKept, ShellStep

LEMMA RefreshAllowsInv == ASSUME Inv, RefreshAllows PROVE Inv'
<1>1. /\ UNCHANGED <<session, command, cleanup, paused, spent>>
      /\ UNCHANGED <<stored, flight, ghosts, global>>
      /\ gate' = refresh.generation /\ refresh' = Idle
  BY DEF RefreshAllows, stored, ghosts
<1>2. ShellTypes /\ Commanded'
  BY <1>1, IdleTypes DEF Inv, TypeOK, ShellTypes, Commanded
<1>3. QED
  BY <1>1, <1>2, StoredKept, FlightsKept, ShellStep

LEMMA ShellInv == ASSUME Inv, Shell PROVE Inv'
BY SignInInv, SignOutInv, CleanUpInv, ExpireInv, RestartInv,
   RefreshReadsInv, RefreshDeniesInv, RefreshCommitsInv, RefreshAllowsInv DEF Shell
-----------------------------------------------------------------------------
(* Commands. *)

LEMMA CommandReadsInv == ASSUME Inv, NEW k \in Want, CommandReads(k) PROVE Inv'
<1>1. /\ UNCHANGED <<session, gate, refresh, cleanup, paused>>
      /\ UNCHANGED <<stored, flight, ghosts, global>>
  BY DEF CommandReads, account, stored, ghosts
<1>2. spent' \in [events : Nat, commands : Nat]
  BY SpendCounts DEF CommandReads, Inv
<1>3. session.account \in Account /\ session.generation \in Nat
  BY DEF CommandReads, Credential, Inv, TypeOK
<1>4. command' = [pc |-> "fetched", kind |-> k, account |-> session.account,
                  generation |-> session.generation]
  BY DEF CommandReads
<1>5. ShellTypes /\ Commanded'
  BY <1>1, <1>2, <1>3, <1>4 DEF Inv, TypeOK, ShellTypes, Commanded
<1>6. QED
  BY <1>1, <1>5, StoredKept, FlightsKept, ShellStep

LEMMA CommandActivatesInv == ASSUME Inv, CommandActivates PROVE Inv'
<1>1. UNCHANGED <<session, gate, refresh, cleanup, paused, spent>> /\ UNCHANGED <<flight, ghosts>>
      /\ global' = global
  BY DEF CommandActivates, account, ghosts, ActivateAccount
<1>2. command.account \in Account
  BY DEF CommandActivates, Inv, Commanded
<1>3. StoredOK'
  BY <1>1, <1>2, Activated DEF CommandActivates
<1>4. command' = [command EXCEPT !.pc = "looking"]
  BY DEF CommandActivates
<1>5. ShellTypes /\ Commanded'
  BY <1>1, <1>2, <1>4 DEF Inv, TypeOK, ShellTypes, Commanded
<1>6. QED
  BY <1>1, <1>3, <1>5, FlightsKept, ShellStep

\* A switch of Global Sync renumbers the binding and changes nothing else of it.
LEMMA GloballySwitched ==
  ASSUME Inv, NEW a \in Account, NEW on \in BOOLEAN, SetGlobal(a, on)
  PROVE  StoredOK' /\ paused' = paused
<1>1. UNCHANGED <<active, reason, paused>> /\ global' = [global EXCEPT ![a] = on]
      /\ row' = [row EXCEPT ![a].generation = IF row[a].enabled THEN @ + 1 ELSE @]
  BY DEF SetGlobal
<1>2. row \in [Account -> Row] /\ row[a] \in Row /\ global \in [Account -> BOOLEAN]
  BY DEF Inv, TypeOK
<1>3. PICK g \in Nat : g = IF row[a].enabled THEN row[a].generation + 1 ELSE row[a].generation
  BY <1>2 DEF Row
<1>4. row' = [row EXCEPT ![a] = [row[a] EXCEPT !.generation = g]]
  BY <1>1, <1>2, <1>3
<1>5. /\ [row[a] EXCEPT !.generation = g] \in Row
      /\ [row[a] EXCEPT !.generation = g].enabled = row[a].enabled
  BY <1>2 DEF Row
<1>6. row' \in [Account -> Row] /\ \A b \in Account : row'[b].enabled = row[b].enabled
  BY <1>2, <1>4, <1>5
<1>7. global' \in [Account -> BOOLEAN]
  BY <1>1, <1>2
<1>8. QED
  BY <1>1, <1>6, <1>7, Unswitched

\* A command whose effect is an UPDATE of the rows: sync that goes off may find
\* no late push counted, sync that comes on forgets the one there was.
LEMMA CommandStep ==
  ASSUME Inv, NEW a \in Account, StoredOK', paused' \subseteq Account,
         UNCHANGED <<session, gate, refresh, cleanup, spent>>, command' = Idle,
         \/ late' = late /\ \A b \in Account : Off(b) => Off(b)'
         \/ late' = [late EXCEPT ![a] = 0] /\ \A b \in Account \ {a} : Off(b) => Off(b)',
         \/ UNCHANGED flight
         \/ \E g \in Nat : flight' = [flight EXCEPT ![a] = At("check", g)]
  PROVE  Inv'
<1>1. flight' \in [Account -> FlightState]
      /\ \A b \in Account : flight'[b].pc = flight[b].pc \/ flight'[b].pc \in Harmless
  <2>1. CASE UNCHANGED flight
    BY <2>1, FlightsKept
  <2>2. CASE \E g \in Nat : flight' = [flight EXCEPT ![a] = At("check", g)]
    <3>1. PICK g \in Nat : flight' = [flight EXCEPT ![a] = At("check", g)]
      BY <2>2
    <3>2. At("check", g) \in FlightState /\ At("check", g).pc = "check" /\ "check" \in Harmless
      BY AtState DEF Pc, Harmless
    <3>3. QED
      BY <3>1, <3>2 DEF Inv, TypeOK
  <2>3. QED
    BY <2>1, <2>2
<1>2. late' \in [Account -> 0..2]
  BY DEF Inv, TypeOK
<1>3. TypeOK'
  BY <1>1, <1>2, IdleTypes DEF Inv, TypeOK, StoredOK
<1>4. LateSpent'
  <2> SUFFICES ASSUME NEW b \in Account
               PROVE  late'[b] =< 1 /\ (late'[b] = 1 => Off(b)' /\ flight'[b].pc \in Harmless)
    BY DEF LateSpent
  <2>1. late[b] =< 1 /\ (late[b] = 1 => Off(b) /\ flight[b].pc \in Harmless)
    BY DEF Inv, LateSpent
  <2>2. late'[b] = 0 \/ (late'[b] = late[b] /\ (Off(b) => Off(b)'))
    BY DEF Inv, TypeOK
  <2>3. QED
    BY <1>1, <2>1, <2>2
<1>5. Commanded'
  BY IdleTypes DEF Commanded
<1>6. QED
  BY <1>3, <1>4, <1>5 DEF Inv, StoredOK

LEMMA SwitchedOff ==
  ASSUME Inv, NEW a \in Account, NEW on \in BOOLEAN, SetEnabled(a, on) \/ SetGlobal(a, on)
  PROVE  \/ late' = late /\ \A b \in Account : Off(b) => Off(b)'
         \/ late' = [late EXCEPT ![a] = 0] /\ \A b \in Account \ {a} : Off(b) => Off(b)'
<1>1. global \in [Account -> BOOLEAN] /\ late \in [Account -> 0..2]
  BY DEF Inv, TypeOK
<1>2. CASE SetEnabled(a, on)
  <2>1. /\ paused' = IF on THEN paused \ {a} ELSE paused \cup {a}
        /\ late' = IF on /\ global[a] THEN [late EXCEPT ![a] = 0] ELSE late
        /\ global' = global
    BY <1>2 DEF SetEnabled
  <2>2. QED
    BY <1>1, <2>1 DEF Off
<1>3. CASE SetGlobal(a, on)
  <2>1. /\ global' = [global EXCEPT ![a] = on] /\ paused' = paused
        /\ late' = IF on /\ a \notin paused THEN [late EXCEPT ![a] = 0] ELSE late
    BY <1>3 DEF SetGlobal
  <2>2. QED
    BY <1>1, <2>1 DEF Off
<1>4. QED
  BY <1>2, <1>3

LEMMA CommandActsInv == ASSUME Inv, CommandActs PROVE Inv'
<1>1. PICK a \in Account : a = command.account
  BY DEF CommandActs, Inv, Commanded
<1>2. UNCHANGED <<session, gate, refresh, cleanup, spent>> /\ command' = Idle
  BY DEF CommandActs, account
<1>3. PICK on \in BOOLEAN :
        /\ SetEnabled(a, on) \/ SetGlobal(a, on)
        /\ UNCHANGED flight \/ EnableFlies(a, command.generation)
  BY <1>1 DEF CommandActs
<1>4. StoredOK' /\ paused' \subseteq Account
  BY <1>3, Switched, GloballySwitched DEF Inv, TypeOK
<1>5. UNCHANGED flight \/ \E g \in Nat : flight' = [flight EXCEPT ![a] = At("check", g)]
  <2>1. command.generation \in Nat
    BY DEF Inv, TypeOK
  <2>2. QED
    BY <1>3, <2>1 DEF EnableFlies
<1>6. QED
  BY <1>2, <1>3, <1>4, <1>5, SwitchedOff, CommandStep

LEMMA CommandsInv == ASSUME Inv, Commands PROVE Inv'
BY CommandReadsInv, CommandActivatesInv, CommandActsInv DEF Commands
-----------------------------------------------------------------------------
(* The invariant, and what it gives. *)

LEMMA InitInv == ASSUME Init PROVE Inv
<1>1. PICK x \in Account \cup {NoAccount} :
        /\ session = [account |-> x, generation |-> 0]
        /\ gate = Closed /\ active = x
        /\ row = [a \in Account |->
             IF a = x THEN [enabled |-> TRUE, state |-> "active", generation |-> 0, error |-> "plain"]
             ELSE [enabled |-> FALSE, state |-> "paused", generation |-> 1, error |-> "plain"]]
        /\ reason = [a \in Account |-> IF a = x THEN NoReason ELSE "active"]
        /\ global = [a \in Account |-> TRUE]
        /\ flight = [a \in Account |-> At("idle", 0)]
        /\ command = Idle /\ refresh = Idle /\ cleanup = FALSE
        /\ paused = {} /\ late = [a \in Account |-> 0]
        /\ spent = [events |-> 0, commands |-> 0]
  BY DEF Init
<1>2. /\ [enabled |-> TRUE, state |-> "active", generation |-> 0, error |-> "plain"] \in Row
      /\ [enabled |-> FALSE, state |-> "paused", generation |-> 1, error |-> "plain"] \in Row
  BY DEF Row, State, Error
<1>3. row \in [Account -> Row]
  BY <1>1, <1>2
<1>4. reason \in [Account -> (State \ {"paused"}) \cup {NoReason}]
  BY <1>1 DEF State
<1>5. At("idle", 0) \in FlightState
  BY AtState DEF Pc
<1>6. TypeOK
  <2>1. /\ session \in [account : Account \cup {NoAccount}, generation : Nat]
        /\ gate \in Nat \cup {Closed} /\ active \in Account \cup {NoAccount}
    BY <1>1
  <2>2. global \in [Account -> BOOLEAN] /\ flight \in [Account -> FlightState] /\ cleanup \in BOOLEAN
    BY <1>1, <1>5
  <2>3. /\ paused \subseteq Account /\ late \in [Account -> 0..2]
        /\ spent \in [events : Nat, commands : Nat]
    BY <1>1
  <2>4. QED
    BY <1>1, <1>3, <1>4, <2>1, <2>2, <2>3, IdleTypes DEF TypeOK
<1>7. PauseSticks /\ ContextPauses
  BY <1>1 DEF PauseSticks, ContextPauses
<1>8. Commanded
  BY <1>1, IdleTypes DEF Commanded
<1>9. LateSpent
  BY <1>1 DEF LateSpent
<1>10. QED
  BY <1>6, <1>7, <1>8, <1>9 DEF Inv

LEMMA StutterInv == ASSUME Inv, UNCHANGED vars PROVE Inv'
<1>1. /\ UNCHANGED <<session, gate, active, row, reason, global, flight, command, refresh,
                     cleanup, paused, late, spent>>
  BY DEF vars, account, stored, shell, ghosts
<1>2. TypeOK'
  BY <1>1 DEF Inv, TypeOK
<1>3. PauseSticks' /\ ContextPauses' /\ Commanded'
  BY <1>1 DEF Inv, PauseSticks, ContextPauses, Commanded
<1>4. LateSpent'
  BY <1>1 DEF Inv, LateSpent, Off
<1>5. QED
  BY <1>2, <1>3, <1>4 DEF Inv

\* Every reachable state satisfies the invariant.
THEOREM Invariance == Spec => []Inv
<1>1. Init => Inv
  BY InitInv
<1>2. Inv /\ [Next]_vars => Inv'
  BY ShellInv, CommandsInv, FlyInv, StutterInv DEF Next
<1>3. QED
  BY <1>1, <1>2, PTL DEF Spec

\* The variables keep their types, whatever the accounts and the bounds.
THEOREM BindingTypes == Spec => []TypeOK
<1>1. Inv => TypeOK
  BY DEF Inv
<1>2. QED
  BY <1>1, Invariance, PTL

\* What a command paused (set_enabled) no account switch, refresh, restart or
\* flight resumes.
THEOREM UserPausesStick == Spec => []PauseSticks
<1>1. Inv => PauseSticks
  BY DEF Inv
<1>2. QED
  BY <1>1, Invariance, PTL

\* deactivate and activate_account pair up: a recorded pause reason belongs to a
\* disabled binding of an inactive account that the user has not paused.
THEOREM ContextPausesRemembered == Spec => []ContextPauses
<1>1. Inv => ContextPauses
  BY DEF Inv
<1>2. QED
  BY <1>1, Invariance, PTL

\* The assertion of apply_push_results stops a flight after the one push that
\* was already past the checks when sync went off.
THEOREM OnePushLeaves == Spec => []OnePushAfterPause
<1>1. Inv => OnePushAfterPause
  BY DEF Inv, LateSpent, OnePushAfterPause
<1>2. QED
  BY <1>1, Invariance, PTL
=============================================================================
