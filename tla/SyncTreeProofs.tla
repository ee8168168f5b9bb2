--------------------------- MODULE SyncTreeProofs ---------------------------
(***************************************************************************)
(* SyncTree for any entities, names, starting trees, page lengths and        *)
(* bounds: its types, and that the device's tree stays whole.                *)
(***************************************************************************)
EXTENDS SyncTree, FiniteSetTheorems, WellFoundedInduction, TLAPS

-----------------------------------------------------------------------------
(* Numbers and loops. *)

LEMMA Least ==
  ASSUME NEW T, T \subseteq Nat, T # {}
  PROVE  \E m \in T : \A k \in T : m <= k
<1> DEFINE I == {0..k : k \in T}
           R == StrictSubsetOrdering(Nat)
<1>1. I \subseteq FiniteSubsetsOf(Nat) /\ I # {}
  <2>1. ASSUME NEW k \in T PROVE 0..k \in FiniteSubsetsOf(Nat)
    <3>1. k \in Nat /\ 0 \in Int
      OBVIOUS
    <3>2. IsFiniteSet(0..k)
      BY <3>1, FS_Interval
    <3> QED BY <3>1, <3>2 DEF FiniteSubsetsOf
  <2> QED BY <2>1
<1>2. PICK x \in I : \A y \in I : ~(<<y, x>> \in R)
  <2> HIDE DEF R, I
  <2>1. IsWellFoundedOn(R, FiniteSubsetsOf(Nat))
    BY FS_StrictSubsetOrderingWellFounded DEF R
  <2> QED BY <1>1, <2>1, WFMin
<1>3. PICK m \in T : x = 0..m
  OBVIOUS
<1>4. ASSUME NEW k \in T, k < m PROVE FALSE
  <2>1. 0..k \subseteq 0..m /\ 0..k # 0..m
    BY <1>4
  <2>2. <<0..k, 0..m>> \in R
    BY <2>1 DEF StrictSubsetOrdering
  <2> QED BY <1>2, <1>3, <2>2
<1> QED BY <1>4

\* A loop over 1..N with a step g has a trace.
Traceable(N, S, b, g) == \E f \in [0..N -> S] : f[0] = b /\ \A i \in 1..N : f[i] = g[i][f[i - 1]]
LEMMA Loop ==
  ASSUME NEW N \in Nat, NEW S, NEW b \in S, NEW g \in [1..N -> [S -> S]]
  PROVE  Traceable(N, S, b, g)
<1> DEFINE Trace(n, f) == f \in [0..n -> S] /\ f[0] = b /\ \A i \in 1..n : f[i] = g[i][f[i - 1]]
           Traced(n) == \E f : Trace(n, f)
           Stuck == {n \in 0..N : ~Traced(n)}
<1>1. Traced(0)
  <2> DEFINE h == [i \in {0} |-> b]
  <2>1. 0..0 = {0} /\ 1..0 = {}
    OBVIOUS
  <2>2. Trace(0, h)
    BY <2>1
  <2> QED BY <2>2
<1>2. ASSUME NEW m \in 1..N, Traced(m - 1) PROVE Traced(m)
  <2>1. PICK f : Trace(m - 1, f)
    BY <1>2
  <2> DEFINE h == [i \in 0..m |-> IF i = m THEN g[m][f[m - 1]] ELSE f[i]]
  <2>2. f \in [0..m - 1 -> S] /\ f[0] = b /\ \A i \in 1..m - 1 : f[i] = g[i][f[i - 1]]
    BY <2>1
  <2>3. m - 1 \in 0..m - 1 /\ m \in Nat \ {0} /\ \A i \in 0..m : i # m => i \in 0..m - 1
    OBVIOUS
  <2>4. g[m] \in [S -> S] /\ f[m - 1] \in S
    BY <2>2, <2>3
  <2>5. g[m][f[m - 1]] \in S
    BY <2>4
  <2>6. h \in [0..m -> S] /\ h[0] = b
    <3>1. \A i \in 0..m : h[i] \in S
      BY <2>2, <2>3, <2>5
    <3>2. 0 \in 0..m /\ 0 # m
      BY <2>3
    <3> QED BY <2>2, <3>1, <3>2
  <2>7. ASSUME NEW i \in 1..m PROVE h[i] = g[i][h[i - 1]]
    <3>1. i \in 0..m /\ i - 1 \in 0..m /\ i - 1 # m
      BY <2>3
    <3>2. h[i - 1] = f[i - 1]
      BY <3>1
    <3>3. CASE i = m
      BY <3>1, <3>2, <3>3
    <3>4. CASE i # m
      <4>1. i \in 1..m - 1
        BY <3>4, <2>3
      <4> QED BY <3>1, <3>2, <3>4, <4>1, <2>2
    <3> QED BY <3>3, <3>4
  <2>8. Trace(m, h)
    <3> HIDE DEF h
    <3> QED BY <2>6, <2>7
  <2> QED BY <2>8
<1>3. Traced(N)
  <2> HIDE DEF Traced
  <2>1. Stuck = {}
    <3> SUFFICES ASSUME Stuck # {} PROVE FALSE
      OBVIOUS
    <3>1. Stuck \subseteq Nat
      OBVIOUS
    <3>2. PICK m \in Stuck : \A k \in Stuck : m <= k
      <4> HIDE DEF Stuck
      <4> QED BY <3>1, Least
    <3>3. m \in 1..N /\ m - 1 \in 0..N /\ m - 1 \notin Stuck
      BY <1>1, <3>2
    <3> QED BY <1>2, <3>2, <3>3
  <2> QED BY <2>1
<1> QED BY <1>3 DEF Traceable

\* Numbers 0..N are in T if 0 is and each is when the one before is.
LEMMA Upward ==
  ASSUME NEW N \in Nat, NEW T, 0 \in T, \A i \in 1..N : i - 1 \in T => i \in T
  PROVE  \A i \in 0..N : i \in T
<1> DEFINE Out == {i \in 0..N : i \notin T}
<1>1. SUFFICES ASSUME Out # {} PROVE FALSE
  OBVIOUS
<1>2. Out \subseteq Nat
  OBVIOUS
<1>3. PICK m \in Out : \A k \in Out : m <= k
  <2> HIDE DEF Out
  <2> QED BY <1>1, <1>2, Least
<1>4. m \in 1..N /\ m - 1 \in 0..N /\ m - 1 \notin Out
  BY <1>3
<1> QED BY <1>3, <1>4

-----------------------------------------------------------------------------
(* The entities and the walk towards the collection. *)

LEMMA Kinds ==
  /\ Collection \in Holder /\ Holder \subseteq Node /\ Folder \subseteq Holder /\ Request \subseteq Node
  /\ \A n \in Node : n # Top /\ (n \in Holder \/ n \in Request) /\ ~(n \in Holder /\ n \in Request)
  /\ \A n \in Node : Parents(n) \subseteq Holder \cup {Top}
  /\ \A n \in Node \ {Collection} : Parents(n) = Holder
  /\ Parents(Collection) = {Top}
  /\ Collection \notin Folder /\ Collection \notin Request
BY IdsAssumption DEF Holder, Node, Parents

LEMMA TreeRow ==
  ASSUME NEW t \in Tree, NEW n \in Node
  PROVE  /\ t[n] \in Row /\ t[n].state \in {"absent", "live", "dead"}
         /\ t[n].parent \in Parents(n) /\ t[n].parent \in Holder \cup {Top} /\ t[n].name \in Name
         /\ t[n] = [state |-> t[n].state, parent |-> t[n].parent, name |-> t[n].name]
<1>1. t[n] \in Row /\ t[n].parent \in Parents(n)
  BY DEF Tree
<1> QED BY <1>1, Kinds DEF Row

\* No step up from n or from S through via leaves S.
Closure(t, n, via, S) == \A m \in ({n} \cup S) \cap via : t[m].parent \in S \cup {Top}

\* Above is the least set of holders closed under the steps from n.
LEMMA Walk ==
  ASSUME NEW t \in Tree, NEW n \in Node, NEW via \in SUBSET Node
  PROVE  /\ Above(t, n, via) \subseteq Holder
         /\ Closure(t, n, via, Above(t, n, via))
         /\ \A S : Closure(t, n, via, S) => Above(t, n, via) \subseteq S
<1> DEFINE N == Cardinality(Holder)
           Up(S) == {t[m].parent : m \in S \cap via}
           All == Holder \cup {Top}
           Ranges == SUBSET All
           b == Up({n})
           g == [i \in 1..N |-> [S \in Ranges |-> S \cup Up(S)]]
<1>1. IsFiniteSet(Holder) /\ N \in Nat /\ IsFiniteSet(All) /\ Cardinality(All) = N + 1
  <2>1. IsFiniteSet(Holder)
    BY IdsAssumption, Kinds, FS_Subset
  <2>2. Top \notin Holder
    BY Kinds
  <2> QED BY <2>1, <2>2, FS_CardinalityType, FS_AddElement
<1>2. \A m \in Node : t[m].parent \in All
  BY TreeRow
<1>3. \A S : Up(S) \subseteq All
  BY <1>2
<1>4. b \in Ranges
  BY <1>3
<1>5. ASSUME NEW i \in 1..N, NEW S \in Ranges PROVE g[i][S] = S \cup Up(S) /\ S \cup Up(S) \in Ranges
  BY <1>3
<1> HIDE DEF N, All, b, Up
<1>6. g \in [1..N -> [Ranges -> Ranges]]
  BY <1>5
<1> HIDE DEF g, Ranges
<1>7. Traceable(N, Ranges, b, g)
  BY <1>1, <1>4, <1>6, Loop
<1>8. PICK f \in [0..N -> Ranges] : f[0] = b /\ \A i \in 1..N : f[i] = g[i][f[i - 1]]
  BY <1>7 DEF Traceable
<1>9. f = [k \in 0..N |-> IF k = 0 THEN b ELSE f[k - 1] \cup Up(f[k - 1])]
  <2>1. ASSUME NEW i \in 0..N PROVE f[i] = IF i = 0 THEN b ELSE f[i - 1] \cup Up(f[i - 1])
    <3>1. CASE i = 0
      BY <1>8, <3>1
    <3>2. CASE i # 0
      <4>1. i \in 1..N /\ i - 1 \in 0..N
        BY <1>1, <3>2
      <4>2. f[i - 1] \in Ranges
        BY <4>1
      <4> QED BY <1>5, <1>8, <3>2, <4>1, <4>2
    <3> QED BY <3>1, <3>2
  <2>2. f = [i \in 0..N |-> f[i]]
    OBVIOUS
  <2> QED BY <2>1, <2>2
<1> DEFINE walk[k \in 0..Cardinality(Holder)] ==
             IF k = 0 THEN Up({n}) ELSE LET S == walk[k - 1] IN S \cup Up(S)
<1>10. walk = [k \in 0..N |-> IF k = 0 THEN b ELSE walk[k - 1] \cup Up(walk[k - 1])]
  BY <1>9 DEF N, b
<1>11. Above(t, n, via) = walk[N] \ {Top}
  BY DEF Above, N, Up
<1> HIDE DEF walk
<1>12. walk[0] = b /\ \A k \in 1..N : walk[k] = walk[k - 1] \cup Up(walk[k - 1])
  <2>1. 0 \in 0..N /\ \A k \in 1..N : k \in 0..N /\ k # 0
    BY <1>1
  <2> QED BY <1>10, <2>1
<1>13. \A k \in 0..N : walk[k] \subseteq All
  <2> DEFINE T == {k \in 0..N : walk[k] \subseteq All}
  <2>1. 0 \in T
    BY <1>1, <1>3, <1>12 DEF b
  <2>2. \A i \in 1..N : i - 1 \in T => i \in T
    BY <1>1, <1>3, <1>12
  <2> HIDE DEF T
  <2>3. \A k \in 0..N : k \in T
    BY <1>1, <2>1, <2>2, Upward
  <2> QED BY <2>3 DEF T
<1>14. \A k \in 0..N : b \subseteq walk[k]
  <2> DEFINE T == {k \in 0..N : b \subseteq walk[k]}
  <2>1. 0 \in T
    BY <1>1, <1>12
  <2>2. \A i \in 1..N : i - 1 \in T => i \in T
    BY <1>1, <1>12
  <2> HIDE DEF T
  <2>3. \A k \in 0..N : k \in T
    BY <1>1, <2>1, <2>2, Upward
  <2> QED BY <2>3 DEF T
<1>15. ASSUME NEW k \in 0..N
       PROVE  IsFiniteSet(walk[k]) /\ Cardinality(walk[k]) \in Nat
  BY <1>1, <1>13, FS_Subset, FS_CardinalityType
<1>16. \A k \in 0..N : Up(walk[k]) \subseteq walk[k] \/ Cardinality(walk[k]) >= k + 1
  <2> DEFINE Still(k) == Up(walk[k]) \subseteq walk[k]
             T == {k \in 0..N : Still(k) \/ Cardinality(walk[k]) >= k + 1}
  <2>1. 0 \in T
    <3>1. 0 \in 0..N
      BY <1>1
    <3>2. CASE walk[0] = {}
      BY <3>1, <3>2 DEF Up
    <3>3. CASE walk[0] # {}
      <4>1. Cardinality(walk[0]) # 0 /\ Cardinality(walk[0]) \in Nat
        BY <1>15, <3>1, <3>3, FS_EmptySet
      <4> QED BY <3>1, <4>1
    <3> QED BY <3>2, <3>3
  <2>2. ASSUME NEW i \in 1..N, i - 1 \in T PROVE i \in T
    <3>1. i \in 0..N /\ i - 1 \in 0..N /\ i \in Nat
      BY <1>1
    <3>2. walk[i] = walk[i - 1] \cup Up(walk[i - 1])
      BY <1>12
    <3>3. CASE Still(i - 1)
      <4>1. walk[i] = walk[i - 1]
        BY <3>2, <3>3
      <4> QED BY <3>1, <3>3, <4>1
    <3>4. CASE ~Still(i - 1)
      <4>1. walk[i - 1] \in SUBSET walk[i] /\ walk[i - 1] # walk[i]
        BY <3>2, <3>4
      <4>2. Cardinality(walk[i - 1]) >= (i - 1) + 1
        BY <2>2, <3>4
      <4>3. Cardinality(walk[i - 1]) <= Cardinality(walk[i]) /\ Cardinality(walk[i - 1]) # Cardinality(walk[i])
        BY <1>15, <3>1, <4>1, FS_Subset
      <4>4. Cardinality(walk[i]) \in Nat /\ Cardinality(walk[i - 1]) \in Nat
        BY <1>15, <3>1
      <4> HIDE DEF Still
      <4> QED BY <3>1, <4>2, <4>3, <4>4
    <3> QED BY <3>3, <3>4
  <2> HIDE DEF T
  <2>3. \A k \in 0..N : k \in T
    BY <1>1, <2>1, <2>2, Upward
  <2> QED BY <2>3 DEF T
<1>17. Up(walk[N]) \subseteq walk[N]
  <2>1. N \in 0..N
    BY <1>1
  <2>2. CASE Cardinality(walk[N]) >= N + 1
    <3>1. walk[N] \in SUBSET All
      BY <1>13, <2>1
    <3>2. Cardinality(walk[N]) <= N + 1 /\ Cardinality(walk[N]) \in Nat
      BY <1>1, <1>15, <2>1, <3>1, FS_Subset
    <3>3. Cardinality(walk[N]) = Cardinality(All)
      BY <1>1, <2>2, <3>2
    <3>4. walk[N] = All
      BY <1>1, <3>1, <3>3, FS_Subset
    <3> QED BY <1>3, <3>4
  <2> QED BY <1>16, <2>1, <2>2
<1>18. N \in 0..N
  BY <1>1
<1>19. Above(t, n, via) \subseteq Holder
  BY <1>11, <1>13, <1>18 DEF All
<1>20. Closure(t, n, via, Above(t, n, via))
  <2> SUFFICES ASSUME NEW m \in ({n} \cup Above(t, n, via)) \cap via PROVE t[m].parent \in walk[N]
    BY <1>11 DEF Closure
  <2>1. CASE m = n
    <3>1. t[m].parent \in b
      BY <2>1 DEF b, Up
    <3> QED BY <1>14, <1>18, <3>1
  <2>2. CASE m # n
    <3>1. m \in walk[N] \cap via
      BY <1>11, <2>2
    <3>2. t[m].parent \in Up(walk[N])
      BY <3>1 DEF Up
    <3> QED BY <1>17, <3>2
  <2> QED BY <2>1, <2>2
<1>21. ASSUME NEW S, Closure(t, n, via, S) PROVE Above(t, n, via) \subseteq S
  <2> DEFINE T == {k \in 0..N : walk[k] \subseteq S \cup {Top}}
  <2>1. 0 \in T
    BY <1>1, <1>12, <1>21 DEF b, Up, Closure
  <2>2. ASSUME NEW i \in 1..N, i - 1 \in T PROVE i \in T
    <3>1. i \in 0..N /\ walk[i] = walk[i - 1] \cup Up(walk[i - 1]) /\ walk[i - 1] \subseteq S \cup {Top}
      BY <1>1, <1>12, <2>2
    <3>2. Top \notin via
      BY Kinds
    <3>3. Up(walk[i - 1]) \subseteq S \cup {Top}
      BY <1>21, <3>1, <3>2 DEF Up, Closure
    <3> QED BY <3>1, <3>3
  <2> HIDE DEF T
  <2>3. \A k \in 0..N : k \in T
    BY <1>1, <2>1, <2>2, Upward
  <2>4. walk[N] \subseteq S \cup {Top}
    BY <1>18, <2>3 DEF T
  <2> QED BY <1>11, <2>4
<1> QED BY <1>19, <1>20, <1>21

\* A walk passes what the next node's walk passes.
LEMMA StepUp ==
  ASSUME NEW t \in Tree, NEW via \in SUBSET Node, NEW m \in via, t[m].parent # Top
  PROVE  /\ t[m].parent \in Above(t, m, via)
         /\ Above(t, t[m].parent, via) \subseteq Above(t, m, via)
<1> DEFINE p == t[m].parent
           A == Above(t, m, via)
<1>1. p \in Node /\ m \in Node
  BY TreeRow, Kinds
<1>2. Closure(t, m, via, A)
  BY <1>1, Walk
<1>3. p \in A
  BY <1>2 DEF Closure
<1> HIDE DEF p, A
<1>4. Closure(t, p, via, A)
  BY <1>2, <1>3 DEF Closure
<1>5. Above(t, p, via) \subseteq A
  BY <1>1, <1>4, Walk
<1> QED BY <1>3, <1>5 DEF p, A

LEMMA Wider ==
  ASSUME NEW t \in Tree, NEW n \in Node, NEW V \in SUBSET Node, NEW W \in SUBSET V
  PROVE  Above(t, n, W) \subseteq Above(t, n, V)
<1>1. Closure(t, n, V, Above(t, n, V))
  BY Walk
<1>2. Closure(t, n, W, Above(t, n, V))
  BY <1>1 DEF Closure
<1> QED BY <1>2, Walk

LEMMA SameParents ==
  ASSUME NEW t \in Tree, NEW u \in Tree, \A m \in Node : u[m].parent = t[m].parent,
         NEW n \in Node, NEW via \in SUBSET Node
  PROVE  Above(u, n, via) = Above(t, n, via)
<1>1. \A S : Closure(t, n, via, S) <=> Closure(u, n, via, S)
  BY DEF Closure
<1>2. Closure(t, n, via, Above(u, n, via)) /\ Closure(u, n, via, Above(t, n, via))
  BY <1>1, Walk
<1>3. Above(u, n, via) \subseteq Above(t, n, via)
  BY <1>2, Walk
<1>4. Above(t, n, via) \subseteq Above(u, n, via)
  BY <1>2, Walk
<1> QED BY <1>3, <1>4

\* From a live node a walk through what is present meets live holders only.
LEMMA LiveWalk ==
  ASSUME NEW t \in Tree, Whole(t), NEW p \in Live(t)
  PROVE  Above(t, p, Present(t)) \subseteq Above(t, p, Live(t)) \cap Live(t)
<1> DEFINE A == Above(t, p, Live(t))
           S == A \cap Live(t)
<1>1. p \in Node /\ Live(t) \subseteq Node /\ Present(t) \subseteq Node /\ Live(t) \subseteq Present(t)
  BY DEF Live, Present
<1>2. Closure(t, p, Live(t), A)
  BY <1>1, Walk
<1>3. ASSUME NEW m \in ({p} \cup S) \cap Present(t) PROVE t[m].parent \in S \cup {Top}
  <2>1. m \in Live(t) /\ m \in Present(t) /\ m \in Node
    BY <1>1
  <2>2. t[m].parent \in A \cup {Top}
    BY <1>2, <2>1 DEF Closure
  <2>3. CASE m = Collection
    BY <2>1, <2>3, TreeRow, Kinds
  <2>4. CASE m # Collection
    <3>1. t[m].parent \in Live(t)
      BY <2>1, <2>4 DEF Whole
    <3> QED BY <2>2, <3>1
  <2> QED BY <2>3, <2>4
<1>4. Closure(t, p, Present(t), S)
  BY <1>3 DEF Closure
<1> HIDE DEF S, A
<1>5. Above(t, p, Present(t)) \subseteq S
  BY <1>1, <1>4, Walk
<1> QED BY <1>5 DEF S, A

-----------------------------------------------------------------------------
(* What is put and what is buried. *)

LEMMA PutRow ==
  ASSUME NEW t \in Tree, NEW n \in Node, NEW p \in Parents(n), NEW name \in Name
  PROVE  /\ Put(t, n, p, name) \in Tree
         /\ Put(t, n, p, name)[n].parent = p
         /\ \A m \in Node \ {n} : Put(t, n, p, name)[m] = t[m]
         /\ Live(Put(t, n, p, name)) = Live(t) \cup {n}
         /\ Present(Put(t, n, p, name)) = Present(t) \cup {n}
<1> DEFINE u == Put(t, n, p, name)
           r == [state |-> "live", parent |-> p, name |-> name]
<1>1. r \in Row /\ r.state = "live" /\ r.parent = p
  BY Kinds DEF Row
<1>2. t \in [Node -> Row] /\ \A m \in Node : t[m].parent \in Parents(m)
  BY DEF Tree
<1>3. u = [t EXCEPT ![n] = r]
  BY DEF Put
<1> HIDE DEF u, r
<1>4. u \in [Node -> Row] /\ u[n] = r /\ \A m \in Node \ {n} : u[m] = t[m]
  BY <1>1, <1>2, <1>3
<1>5. \A m \in Node : u[m].parent \in Parents(m)
  BY <1>1, <1>2, <1>4
<1>6. u \in Tree
  BY <1>4, <1>5 DEF Tree
<1>7. \A m \in Node : m \in Live(u) <=> m \in Live(t) \cup {n}
  BY <1>1, <1>4 DEF Live
<1>8. \A m \in Node : m \in Present(u) <=> m \in Present(t) \cup {n}
  BY <1>1, <1>4 DEF Present
<1> QED BY <1>1, <1>4, <1>6, <1>7, <1>8 DEF Live, Present, u, r

\* A node put in a live holder that is not inside it leaves the tree whole.
LEMMA PutWhole ==
  ASSUME NEW t \in Tree, Whole(t), NEW n \in Node, NEW p, CanHold(t, p, n), NEW name \in Name
  PROVE  p \in Parents(n) /\ Whole(Put(t, n, p, name))
<1> DEFINE u == Put(t, n, p, name)
           V == Present(t)
           W == Present(u)
<1>1. p \in Parents(n)
  BY Kinds DEF CanHold
<1> HIDE DEF u
<1>2. /\ u \in Tree /\ u[n].parent = p /\ \A m \in Node \ {n} : u[m] = t[m]
      /\ Live(u) = Live(t) \cup {n} /\ W = V \cup {n}
  BY <1>1, PutRow DEF u
<1>3. V \subseteq Node /\ W \subseteq Node
  BY DEF Present
<1>4. ASSUME NEW m \in W \ {Collection}, m \in Live(u) PROVE u[m].parent \in Live(u)
  <2>1. CASE m = n
    BY <1>2, <1>4, <2>1 DEF CanHold
  <2>2. CASE m # n
    <3>1. m \in Node /\ m \in V /\ m \in Live(t)
      BY <1>2, <1>3, <1>4, <2>2
    <3> QED BY <1>2, <1>4, <2>2, <3>1 DEF Whole
  <2> QED BY <2>1, <2>2
<1>5. ASSUME NEW m \in W \ {Collection} PROVE Collection \in Above(u, m, W)
  <2> DEFINE S == Above(u, m, W)
  <2>1. m \in Node
    BY <1>3
  <2>2. Closure(u, m, W, S)
    BY <1>2, <1>3, <2>1, Walk
  <2> HIDE DEF S, V, W
  <2>3. CASE n = Collection
    <3>1. t[n].parent = Top /\ p = Top
      BY <2>3, TreeRow, Kinds DEF CanHold
    <3>2. m \in V
      BY <1>2, <1>5, <2>3
    <3>3. Closure(t, m, V, S)
      BY <1>2, <1>3, <2>2, <3>1 DEF Closure
    <3>4. Collection \in Above(t, m, V)
      BY <1>5, <3>2 DEF Whole, V
    <3> QED BY <1>3, <2>1, <3>3, <3>4, Walk DEF S
  <2>4. CASE n # Collection /\ n \notin {m} \cup S
    <3>1. m \in V
      BY <1>2, <1>5, <2>4
    <3>2. Closure(t, m, V, S)
      BY <1>2, <1>3, <2>2, <2>4 DEF Closure
    <3>3. Collection \in Above(t, m, V)
      BY <1>5, <3>1 DEF Whole, V
    <3> QED BY <1>3, <2>1, <3>2, <3>3, Walk DEF S
  <2>5. CASE n # Collection /\ n \in {m} \cup S
    <3>1. p \in Holder \cap Live(t) /\ p # n /\ n \notin Above(t, p, Live(t))
      BY <2>5 DEF CanHold
    <3> DEFINE A == Above(t, p, V)
    <3>2. p \in Node /\ p \in V /\ p # Top
      BY <3>1, Kinds DEF Live, Present, V
    <3>3. n \notin A
      BY <3>1, LiveWalk DEF V
    <3>4. Closure(t, p, V, A)
      BY <1>3, <3>2, Walk
    <3> HIDE DEF A
    <3>5. p \in S
      BY <1>2, <2>2, <2>5, <3>2 DEF Closure
    <3>6. ASSUME NEW k \in ({p} \cup (S \cap A)) \cap V PROVE t[k].parent \in (S \cap A) \cup {Top}
      <4>1. k \in S /\ k # n /\ k \in Node /\ k \in W
        BY <1>2, <1>3, <3>1, <3>3, <3>5
      <4>2. u[k] = t[k]
        BY <1>2, <4>1
      <4>3. u[k].parent \in S \cup {Top}
        BY <2>2, <4>1 DEF Closure
      <4>4. t[k].parent \in A \cup {Top}
        BY <3>4, <3>6 DEF Closure
      <4> QED BY <4>2, <4>3, <4>4
    <3>7. Closure(t, p, V, S \cap A)
      BY <3>6 DEF Closure
    <3>8. A \subseteq S \cap A
      BY <1>3, <3>2, <3>7, Walk DEF A
    <3>9. p = Collection \/ Collection \in A
      BY <3>2 DEF Whole, V, A
    <3> QED BY <3>5, <3>8, <3>9 DEF S
  <2> QED BY <2>3, <2>4, <2>5
<1>6. Whole(u)
  BY <1>4, <1>5 DEF Whole
<1> QED BY <1>1, <1>6 DEF u

\* Written again where it was, a live node leaves the tree whole.
LEMMA RewriteWhole ==
  ASSUME NEW t \in Tree, Whole(t), NEW n \in Live(t), NEW name \in Name
  PROVE  t[n].parent \in Parents(n) /\ Whole(Put(t, n, t[n].parent, name))
<1> DEFINE p == t[n].parent
           u == Put(t, n, p, name)
<1>1. n \in Node /\ p \in Parents(n) /\ n \in Present(t)
  BY TreeRow DEF Live, Present
<1> HIDE DEF p, u
<1>2. /\ u \in Tree /\ u[n].parent = p /\ \A m \in Node \ {n} : u[m] = t[m]
      /\ Live(u) = Live(t) \cup {n} /\ Present(u) = Present(t) \cup {n}
  BY <1>1, PutRow DEF u
<1>3. Live(u) = Live(t) /\ Present(u) = Present(t) /\ \A m \in Node : u[m].parent = t[m].parent
  BY <1>1, <1>2 DEF p
<1>4. \A m \in Node : Above(u, m, Present(t)) = Above(t, m, Present(t))
  BY <1>2, <1>3, SameParents DEF Present
<1>5. Whole(u)
  BY <1>3, <1>4 DEF Whole, Present
<1> QED BY <1>1, <1>5 DEF u, p

LEMMA BuryRow ==
  ASSUME NEW t \in Tree, NEW D
  PROVE  /\ Bury(t, D) \in Tree
         /\ Live(Bury(t, D)) = Live(t) \ D
         /\ \A m \in Node : /\ Bury(t, D)[m].parent = t[m].parent /\ Bury(t, D)[m].name = t[m].name
                            /\ m \notin D => Bury(t, D)[m] = t[m]
         /\ D \cap Node \subseteq Present(t) => Present(Bury(t, D)) = Present(t)
<1> DEFINE u == Bury(t, D)
<1>1. ASSUME NEW m \in Node
      PROVE  /\ [t[m] EXCEPT !.state = "dead"] = [state |-> "dead", parent |-> t[m].parent, name |-> t[m].name]
             /\ [state |-> "dead", parent |-> t[m].parent, name |-> t[m].name] \in Row
  <2>1. t[m] = [state |-> t[m].state, parent |-> t[m].parent, name |-> t[m].name]
        /\ t[m].parent \in Holder \cup {Top} /\ t[m].name \in Name
    BY TreeRow
  <2>2. \A s, p, a : [[state |-> s, parent |-> p, name |-> a] EXCEPT !.state = "dead"]
                      = [state |-> "dead", parent |-> p, name |-> a]
    OBVIOUS
  <2>3. [t[m] EXCEPT !.state = "dead"] = [state |-> "dead", parent |-> t[m].parent, name |-> t[m].name]
    BY <2>1, <2>2
  <2> QED BY <2>1, <2>3 DEF Row
<1>2. \A m \in Node : u[m] = IF m \in D THEN [state |-> "dead", parent |-> t[m].parent, name |-> t[m].name] ELSE t[m]
  BY <1>1 DEF Bury
<1>3. u \in [Node -> Row]
  BY <1>1, TreeRow DEF Bury
<1> HIDE DEF u
<1>4. ASSUME NEW m \in Node
      PROVE  /\ u[m].parent = t[m].parent /\ u[m].name = t[m].name
             /\ m \in D => u[m].state = "dead"
             /\ m \notin D => u[m] = t[m]
  <2>1. CASE m \in D
    <3>1. u[m] = [state |-> "dead", parent |-> t[m].parent, name |-> t[m].name]
      BY <1>2, <2>1
    <3> QED BY <2>1, <3>1
  <2>2. CASE m \notin D
    BY <1>2, <2>2
  <2> QED BY <2>1, <2>2
<1>5. u \in Tree
  BY <1>3, <1>4, TreeRow DEF Tree
<1>6. \A m \in Node : m \in Live(u) <=> m \in Live(t) /\ m \notin D
  BY <1>4 DEF Live
<1>7. ASSUME D \cap Node \subseteq Present(t), NEW m \in Node PROVE m \in Present(u) <=> m \in Present(t)
  BY <1>4, <1>7 DEF Present
<1> QED BY <1>4, <1>5, <1>6, <1>7 DEF Live, Present, u

\* What is buried with all that lives in it leaves the tree whole.
LEMMA BuryWhole ==
  ASSUME NEW t \in Tree, Whole(t), NEW D \in SUBSET Live(t),
         \A m \in Live(t) : t[m].parent \in D => m \in D
  PROVE  Whole(Bury(t, D))
<1> DEFINE u == Bury(t, D)
<1>1. D \cap Node \subseteq Present(t)
  BY DEF Live, Present
<1>2. /\ u \in Tree /\ Live(u) = Live(t) \ D /\ Present(u) = Present(t)
      /\ \A m \in Node : u[m].parent = t[m].parent
  BY <1>1, BuryRow
<1> HIDE DEF u
<1>3. \A m \in Node : Above(u, m, Present(t)) = Above(t, m, Present(t))
  BY <1>2, SameParents DEF Present
<1>4. \A m \in Present(t) : m \in Node
  BY DEF Present
<1>5. Whole(u)
  BY <1>2, <1>3, <1>4 DEF Whole
<1> QED BY <1>5 DEF u

\* A delete takes all that lives in what it takes.
LEMMA DoomedRows ==
  ASSUME NEW t \in Tree, Whole(t), NEW n \in Live(t)
  PROVE  /\ Doomed(t, n) \subseteq Live(t) /\ n \in Doomed(t, n)
         /\ \A m \in Live(t) : t[m].parent \in Doomed(t, n) => m \in Doomed(t, n)
<1>1. Live(t) \subseteq Node /\ Present(t) \subseteq Node /\ Live(t) \subseteq Present(t)
  BY DEF Live, Present
<1>2. ASSUME NEW f \in Folder, n \in Above(t, f, Live(t)) PROVE f \in Live(t)
  <2>1. CASE f \notin Live(t)
    <3>1. f \in Node
      BY Kinds
    <3>2. Closure(t, f, Live(t), {})
      BY <2>1 DEF Closure
    <3> QED BY <1>1, <1>2, <3>1, <3>2, Walk
  <2> QED BY <2>1
<1>3. Doomed(t, n) \subseteq Live(t) /\ n \in Doomed(t, n)
  BY <1>2 DEF Doomed
<1>4. ASSUME NEW m \in Live(t), t[m].parent \in Doomed(t, n) PROVE m \in Doomed(t, n)
  <2> DEFINE p == t[m].parent
  <2>1. m \in Node /\ p \in Live(t) /\ p \in Node /\ p # Top /\ p \in Parents(m)
    BY <1>1, <1>3, <1>4, TreeRow, Kinds
  <2>2. m # Collection /\ p \in Holder
    BY <2>1, Kinds
  <2>3. n = p \/ n \in Above(t, p, Live(t)) \/ n = Collection
    BY <1>4, <2>2, Kinds DEF Doomed
  <2>4. ASSUME n = p \/ n \in Above(t, p, Live(t)) PROVE n \in Above(t, m, Live(t))
    BY <1>1, <2>1, <2>4, StepUp
  <2>5. ASSUME n = Collection PROVE n \in Above(t, m, Live(t))
    BY <1>1, <2>1, <2>2, <2>5, LiveWalk DEF Whole
  <2>6. n \in Above(t, m, Live(t))
    BY <2>3, <2>4, <2>5
  <2>7. n \in Above(t, m, Present(t))
    BY <1>1, <2>1, <2>6, Wider
  <2>8. m \in Folder \/ m \in Request
    BY <2>1, <2>2 DEF Node, Holder
  <2> QED BY <2>6, <2>7, <2>8 DEF Doomed
<1> QED BY <1>3, <1>4

LEMMA DeleteWhole ==
  ASSUME NEW t \in Tree, Whole(t), NEW n \in Live(t)
  PROVE  Bury(t, Doomed(t, n)) \in Tree /\ Whole(Bury(t, Doomed(t, n)))
<1>1. Doomed(t, n) \in SUBSET Live(t) /\ \A m \in Live(t) : t[m].parent \in Doomed(t, n) => m \in Doomed(t, n)
  BY DoomedRows
<1> QED BY <1>1, BuryRow, BuryWhole

-----------------------------------------------------------------------------
(* The types, and the commands of this device. *)

Heads == [status : {"none", "pending", "dead"}, base : Nat]
States == {s \in [ver : Nat, status : {"none", "synced", "conflict"}, shadow : Change \cup {NoChange}] :
             s.status = "conflict" => s.shadow \in Change}
Entries == [row : Row, ver : Nat]
Inv == TypeOK /\ WellFormed

LEMMA Changes ==
  /\ \A c \in Change : /\ c.n \in Node /\ c.op \in {"upsert", "delete"} /\ c.parent \in Parents(c.n)
                       /\ c.name \in Name /\ c.ver \in Nat /\ c.own \in BOOLEAN
  /\ NoChange \notin Change
<1>1. \A c \in Change : /\ c.n \in Node /\ c.op \in {"upsert", "delete"} /\ c.parent \in Parents(c.n)
                        /\ c.name \in Name /\ c.ver \in Nat /\ c.own \in BOOLEAN
  BY DEF Change
<1>2. NoChange.op = "none"
  BY DEF NoChange
<1> QED BY <1>1, <1>2

LEMMA StateTypes ==
  /\ \A v \in Nat : Synced(v) \in States /\ Synced(v).ver = v /\ Synced(v).status = "synced"
  /\ \A c \in Change : Conflict(c) \in States
  /\ \A s \in States : s.ver \in Nat /\ (s.status = "conflict" => s.shadow \in Change)
<1>1. ASSUME NEW v \in Nat PROVE Synced(v) \in States /\ Synced(v).ver = v /\ Synced(v).status = "synced"
  <2>1. NoChange \in Change \cup {NoChange}
    OBVIOUS
  <2> HIDE DEF NoChange, Change
  <2>2. Synced(v) \in [ver : Nat, status : {"none", "synced", "conflict"}, shadow : Change \cup {NoChange}]
        /\ Synced(v).ver = v /\ Synced(v).status = "synced"
    BY <2>1 DEF Synced
  <2> QED BY <2>2 DEF States
<1>2. ASSUME NEW c \in Change PROVE Conflict(c) \in States
  <2>1. c.ver \in Nat
    BY Changes
  <2>2. Conflict(c) \in [ver : Nat, status : {"none", "synced", "conflict"}, shadow : Change \cup {NoChange}]
        /\ Conflict(c).shadow = c
    BY <2>1 DEF Conflict
  <2> QED BY <2>2 DEF States
<1>3. \A s \in States : s.ver \in Nat /\ (s.status = "conflict" => s.shadow \in Change)
  BY DEF States
<1> QED BY <1>1, <1>2, <1>3

\* TypeOK variable by variable.
Shaped(r, h, s, b, k, v, l, p, c) ==
  /\ r \in Tree /\ Whole(r)
  /\ h \in [Node -> Heads] /\ s \in [Node -> States] /\ b \in BOOLEAN
  /\ k \in [Node -> Change \cup {NoChange}]
  /\ v \in [Node -> Entries] /\ [n \in Node |-> v[n].row] \in Tree
  /\ l \in Seq(Change) /\ p \in {"pull", "replay", "push"}
  /\ c \in [edits : 0..MaxEdits, writes : 0..MaxWrites, remote : BOOLEAN]

LEMMA StateSet ==
  ASSUME NEW s
  PROVE  s \in [Node -> States] <=>
           /\ s \in [Node -> [ver : Nat, status : {"none", "synced", "conflict"}, shadow : Change \cup {NoChange}]]
           /\ \A n \in {m \in Node : s[m].status = "conflict"} : s[n].shadow \in Change
<1> DEFINE R == [ver : Nat, status : {"none", "synced", "conflict"}, shadow : Change \cup {NoChange}]
<1>1. \A x : x \in States <=> x \in R /\ (x.status = "conflict" => x.shadow \in Change)
  BY DEF States
<1> HIDE DEF R
<1>2. s \in [Node -> States] <=>
        s \in [Node -> R] /\ \A n \in {m \in Node : s[m].status = "conflict"} : s[n].shadow \in Change
  BY <1>1
<1> QED BY <1>2 DEF R

LEMMA Shape == Inv <=> Shaped(row, head, st, blocked, kept, srv, log, pc, spent)
BY StateSet DEF Inv, TypeOK, WellFormed, Shaped, Heads, Entries, SrvRows, Conflicts

LEMMA Primed == Inv' <=> Shaped(row', head', st', blocked', kept', srv', log', pc', spent')
<1>1. st' \in [Node -> States] <=>
           /\ st' \in [Node -> [ver : Nat, status : {"none", "synced", "conflict"}, shadow : Change \cup {NoChange}]]
           /\ \A n \in {m \in Node : st'[m].status = "conflict"} : st'[n].shadow \in Change
  BY StateSet
<1>2. Whole(row)' <=> Whole(row')
  BY DEF Whole, Present, Live, Above
<1> QED BY <1>1, <1>2 DEF Inv, TypeOK, WellFormed, Shaped, Heads, Entries, SrvRows, Conflicts

LEMMA EnqueueTypes ==
  ASSUME NEW h \in [Node -> Heads], NEW s \in [Node -> States], NEW S
  PROVE  Enqueue(h, s, S) \in [Node -> Heads]
<1>1. ASSUME NEW n \in Node
      PROVE  [status |-> "pending", base |-> IF h[n].status # "none" /\ h[n].base > s[n].ver
                                             THEN h[n].base ELSE s[n].ver] \in Heads
  <2>1. h[n].base \in Nat /\ s[n].ver \in Nat
    BY StateTypes DEF Heads
  <2>2. (IF h[n].status # "none" /\ h[n].base > s[n].ver THEN h[n].base ELSE s[n].ver) \in Nat
    BY <2>1
  <2> QED BY <2>2 DEF Heads
<1> QED BY <1>1 DEF Enqueue

LEMMA CommandKeeps ==
  ASSUME Inv, MayEdit, NEW t \in Tree, Whole(t), NEW S, Command(t, S)
  PROVE  Inv'
<1>1. Shaped(row, head, st, blocked, kept, srv, log, pc, spent)
  BY Shape
<1>2. spent' \in [edits : 0..MaxEdits, writes : 0..MaxWrites, remote : BOOLEAN]
  <2> DEFINE more == spent.edits + 1
  <2>1. spent \in [edits : 0..MaxEdits, writes : 0..MaxWrites, remote : BOOLEAN]
    BY <1>1 DEF Shaped
  <2>2. more \in 0..MaxEdits /\ spent' = [spent EXCEPT !.edits = more]
    BY <2>1, LimitAssumption DEF MayEdit, Command
  <2> HIDE DEF more
  <2> QED BY <2>1, <2>2
<1>3. head' \in [Node -> Heads]
  BY <1>1, EnqueueTypes DEF Shaped, Command
<1>4. Shaped(row', head', st', blocked', kept', srv', log', pc', spent')
  BY <1>1, <1>2, <1>3 DEF Shaped, Command
<1> QED BY <1>4, Primed

LEMMA CommandsKeep ==
  ASSUME Inv
  PROVE  /\ \A n \in Node, p \in Node \cup {Top}, name \in Name : Create(n, p, name) => Inv'
         /\ \A n \in Node, name \in Name : Rename(n, name) => Inv'
         /\ \A n, p \in Node : Move(n, p) => Inv'
         /\ \A n \in Node : Delete(n) => Inv'
<1>1. row \in Tree /\ Whole(row)
  BY Shape DEF Shaped
<1>2. ASSUME NEW n \in Node, NEW p \in Node \cup {Top}, NEW name \in Name, Create(n, p, name) PROVE Inv'
  <2>1. Put(row, n, p, name) \in Tree /\ Whole(Put(row, n, p, name))
    BY <1>1, <1>2, PutWhole, PutRow DEF Create
  <2> QED BY <1>2, <2>1, CommandKeeps DEF Create
<1>3. ASSUME NEW n \in Node, NEW name \in Name, Rename(n, name) PROVE Inv'
  <2>1. n \in Live(row) /\ row[n].parent \in Parents(n) /\ Whole(Put(row, n, row[n].parent, name))
    BY <1>1, <1>3, RewriteWhole DEF Rename
  <2>2. Put(row, n, row[n].parent, name) \in Tree
    BY <1>1, <2>1, PutRow
  <2> QED BY <1>3, <2>1, <2>2, CommandKeeps DEF Rename
<1>4. ASSUME NEW n \in Node, NEW p \in Node, Move(n, p) PROVE Inv'
  <2>1. CanHold(row, p, n) /\ row[n].name \in Name
    BY <1>1, <1>4, TreeRow DEF Move
  <2>2. p \in Parents(n) /\ Whole(Put(row, n, p, row[n].name))
    BY <1>1, <2>1, PutWhole
  <2>3. Put(row, n, p, row[n].name) \in Tree
    BY <1>1, <2>1, <2>2, PutRow
  <2> QED BY <1>4, <2>2, <2>3, CommandKeeps DEF Move
<1>5. ASSUME NEW n \in Node, Delete(n) PROVE Inv'
  <2>1. Bury(row, Doomed(row, n)) \in Tree /\ Whole(Bury(row, Doomed(row, n)))
    BY <1>1, <1>5, DeleteWhole DEF Delete
  <2> QED BY <1>5, <2>1, CommandKeeps DEF Delete
<1> QED BY <1>2, <1>3, <1>4, <1>5

-----------------------------------------------------------------------------
(* The server and the other devices. *)

LEMMA Placing ==
  \A n \in Node : Place(n) \in Nat /\ Topology[Place(n)] = n
<1>1. ASSUME NEW n \in Node PROVE Place(n) \in 1..Len(Topology) /\ Topology[Place(n)] = n
  BY TopologyAssumption DEF Place
<1>2. Len(Topology) \in Nat
  BY TopologyAssumption
<1> QED BY <1>1, <1>2

LEMMA Depths ==
  ASSUME NEW t \in Tree, NEW n \in Node
  PROVE  Depth(t, n) \in Nat
<1>1. Above(t, n, Present(t)) \in SUBSET Node
  BY Walk, Kinds DEF Present
<1>2. IsFiniteSet(Node)
  BY IdsAssumption
<1> QED BY <1>1, <1>2, FS_Subset, FS_CardinalityType DEF Depth

\* A cascade lists every member of its set.
LEMMA Listed ==
  ASSUME SrvRows \in Tree, NEW S \in SUBSET Node
  PROVE  /\ ChildrenFirst(S) \in Seq(S)
         /\ Len(ChildrenFirst(S)) \in Nat
         /\ \A i \in 1..Len(ChildrenFirst(S)) : ChildrenFirst(S)[i] \in S
<1> DEFINE Level(n) == <<Rank(n), Depth(SrvRows, n)>>
           Sooner(m, n) == \/ Level(m)[1] > Level(n)[1]
                           \/ Level(m)[1] = Level(n)[1] /\ Level(m)[2] > Level(n)[2]
                           \/ Level(m) = Level(n) /\ Place(m) < Place(n)
           Ahead(n) == {m \in S : Sooner(m, n)}
           place == [n \in S |-> Cardinality(Ahead(n))]
           c == Cardinality(S)
<1>1. \A n \in Node : Rank(n) \in Nat /\ Depth(SrvRows, n) \in Nat /\ Place(n) \in Nat
  BY Depths, Placing DEF Rank
<1>2. \A m, n \in Node : Place(m) = Place(n) => m = n
  <2>1. \A n \in Node : Topology[Place(n)] = n
    BY Placing
  <2> QED BY <2>1
<1>3. IsFiniteSet(S) /\ c \in Nat
  BY IdsAssumption, FS_Subset, FS_CardinalityType
<1>4. \A m, n \in Node : Sooner(m, n) <=>
        \/ Rank(m) > Rank(n)
        \/ Rank(m) = Rank(n) /\ Depth(SrvRows, m) > Depth(SrvRows, n)
        \/ Rank(m) = Rank(n) /\ Depth(SrvRows, m) = Depth(SrvRows, n) /\ Place(m) < Place(n)
  OBVIOUS
<1> HIDE DEF Sooner
<1>5. \A n \in Node : ~Sooner(n, n)
  BY <1>1, <1>4
<1>6. \A k, m, n \in Node : Sooner(k, m) /\ Sooner(m, n) => Sooner(k, n)
  BY <1>1, <1>4
<1>7. \A m, n \in Node : m # n => Sooner(m, n) \/ Sooner(n, m)
  BY <1>1, <1>2, <1>4
<1>8. ASSUME NEW n \in S PROVE IsFiniteSet(Ahead(n)) /\ Cardinality(Ahead(n)) \in 0..c - 1
  <2>1. Ahead(n) \in SUBSET S /\ n \notin Ahead(n)
    BY <1>5
  <2> HIDE DEF Ahead
  <2>2. IsFiniteSet(Ahead(n)) /\ Cardinality(Ahead(n)) <= c /\ (Cardinality(Ahead(n)) = c => Ahead(n) = S)
    BY <1>3, <2>1, FS_Subset
  <2>3. Cardinality(Ahead(n)) \in Nat
    BY <2>2, FS_CardinalityType
  <2> HIDE DEF c
  <2> QED BY <1>3, <2>1, <2>2, <2>3
<1>9. ASSUME NEW m \in S, NEW n \in S, Sooner(m, n) PROVE Cardinality(Ahead(m)) # Cardinality(Ahead(n))
  <2>1. Ahead(m) \in SUBSET Ahead(n) /\ m \in Ahead(n) /\ m \notin Ahead(m)
    BY <1>5, <1>6, <1>9
  <2> HIDE DEF Ahead
  <2> QED BY <1>8, <2>1, FS_Subset
<1>10. place \in Injection(S, 0..c - 1)
  <2> HIDE DEF Ahead, c
  <2>1. place \in [S -> 0..c - 1]
    BY <1>8
  <2>2. \A m, n \in S : place[m] = place[n] => m = n
    BY <1>7, <1>9
  <2> HIDE DEF place
  <2> QED BY <2>1, <2>2 DEF Injection, IsInjective
<1>11. place \in Surjection(S, 0..c - 1)
  <2>1. IsFiniteSet(0..c - 1) /\ Cardinality(0..c - 1) = c
    <3>1. 0 \in Int /\ c - 1 \in Int
      BY <1>3
    <3> HIDE DEF c
    <3> QED BY <1>3, <3>1, FS_Interval
  <2> HIDE DEF place, Ahead
  <2> QED BY <1>10, <2>1, FS_Injection
<1>12. ASSUME NEW i \in 1..c PROVE \E n \in S : Cardinality(Ahead(n)) = i - 1
  <2>1. i - 1 \in 0..c - 1
    BY <1>3
  <2>2. \E n \in S : place[n] = i - 1
    <3> HIDE DEF place, c, Ahead
    <3> QED BY <1>11, <2>1 DEF Surjection
  <2> HIDE DEF Ahead
  <2> QED BY <2>2
<1>13. ChildrenFirst(S) = [i \in 1..c |-> CHOOSE n \in S : Cardinality(Ahead(n)) = i - 1]
  BY DEF ChildrenFirst, Sooner
<1>14. Len(ChildrenFirst(S)) = c
  <2> HIDE DEF c, Ahead
  <2> QED BY <1>3, <1>13
<1>15. ASSUME NEW i \in 1..c PROVE ChildrenFirst(S)[i] \in S
  <2>1. ChildrenFirst(S)[i] = CHOOSE n \in S : Cardinality(Ahead(n)) = i - 1
    BY <1>13
  <2> HIDE DEF Ahead, c
  <2> QED BY <1>12, <2>1
<1>16. ChildrenFirst(S) \in Seq(S)
  <2>1. ChildrenFirst(S) = [i \in 1..c |-> ChildrenFirst(S)[i]]
    BY <1>13
  <2> HIDE DEF c
  <2> QED BY <1>3, <1>15, <2>1
<1> QED BY <1>3, <1>14, <1>15, <1>16

LEMMA WrittenTypes ==
  ASSUME Inv, NEW t \in Tree, NEW S
  PROVE  /\ SrvRows \in Tree
         /\ Written(t, S) \in [Node -> Entries]
         /\ [n \in Node |-> Written(t, S)[n].row] \in Tree
         /\ \A n \in Node : Written(t, S)[n].ver \in Nat
         /\ \A n \in Node, own \in BOOLEAN : ChangeOf(Written(t, S), n, own) \in Change
<1> DEFINE s == Written(t, S)
<1>1. srv \in [Node -> Entries] /\ SrvRows \in Tree
  BY Shape DEF Shaped, SrvRows
<1>2. ASSUME NEW n \in Node
      PROVE  s[n] \in Entries /\ s[n].row \in Row /\ s[n].row.parent \in Parents(n)
  <2>1. t[n] \in Row /\ t[n].parent \in Parents(n)
    BY TreeRow
  <2>2. srv[n] \in Entries /\ srv[n].ver \in Nat /\ srv[n].ver + 1 \in Nat
    BY <1>1 DEF Entries
  <2>3. SrvRows[n] = srv[n].row /\ SrvRows[n].parent \in Parents(n) /\ SrvRows[n] \in Row
    BY <1>1, TreeRow DEF SrvRows
  <2>4. CASE n \in S
    <3> DEFINE e == [row |-> t[n], ver |-> srv[n].ver + 1]
    <3>1. e \in Entries /\ e.row = t[n]
      BY <2>1, <2>2 DEF Entries
    <3>2. s[n] = e
      BY <2>4 DEF Written
    <3> HIDE DEF e, s
    <3> QED BY <2>1, <3>1, <3>2
  <2>5. CASE n \notin S
    <3>1. s[n] = srv[n]
      BY <2>5 DEF Written
    <3> HIDE DEF s
    <3> QED BY <2>2, <2>3, <3>1
  <2> QED BY <2>4, <2>5
<1>3. s \in [Node -> Entries]
  <2>1. s = [n \in Node |-> s[n]]
    BY DEF Written
  <2> HIDE DEF s
  <2> QED BY <1>2, <2>1
<1> HIDE DEF s
<1>4. [n \in Node |-> s[n].row] \in Tree
  BY <1>2 DEF Tree
<1>5. \A n \in Node : s[n].ver \in Nat
  BY <1>3 DEF Entries
<1>6. ASSUME NEW n \in Node, NEW own \in BOOLEAN PROVE ChangeOf(s, n, own) \in Change
  <2> DEFINE op == IF s[n].row.state = "dead" THEN "delete" ELSE "upsert"
             c == [n |-> n, op |-> op, parent |-> s[n].row.parent, name |-> s[n].row.name,
                   ver |-> s[n].ver, own |-> own]
  <2>1. s[n].row.parent \in Parents(n) /\ s[n].row.parent \in Holder \cup {Top} /\ s[n].row.name \in Name
        /\ s[n].ver \in Nat /\ op \in {"upsert", "delete"}
    BY <1>2, <1>5, Kinds DEF Row
  <2> HIDE DEF op
  <2>2. c \in [n : Node, op : {"upsert", "delete"}, parent : Holder \cup {Top}, name : Name,
               ver : Nat, own : BOOLEAN] /\ c.parent \in Parents(c.n)
    BY <2>1
  <2> QED BY <2>2 DEF ChangeOf, Change, op
<1> QED BY <1>1, <1>3, <1>4, <1>5, <1>6 DEF s

\* The stream grows by typed changes.
LEMMA Streamed ==
  ASSUME Inv, NEW seq, Len(seq) \in Nat, NEW g, \A i \in 1..Len(seq) : g[i] \in Change
  PROVE  log \o [i \in 1..Len(seq) |-> g[i]] \in Seq(Change)
<1> DEFINE N == Len(seq)
           new == [i \in 1..N |-> g[i]]
<1>1. new \in [1..N -> Change] /\ N \in Nat
  OBVIOUS
<1>2. log \in Seq(Change)
  BY Shape DEF Shaped
<1> HIDE DEF new, N
<1>3. new \in Seq(Change)
  BY <1>1
<1>4. log \o new \in Seq(Change)
  BY <1>2, <1>3
<1> QED BY <1>4 DEF new, N

LEMMA ForeignKeeps ==
  ASSUME Inv, MayWrite, NEW t \in Tree, NEW S \in SUBSET Node, Foreign(t, S)
  PROVE  Inv'
<1> DEFINE s == Written(t, S)
           seq == ChildrenFirst(S)
           g == [i \in 1..Len(seq) |-> ChangeOf(s, seq[i], FALSE)]
<1>1. Shaped(row, head, st, blocked, kept, srv, log, pc, spent)
  BY Shape
<1>2. SrvRows \in Tree /\ s \in [Node -> Entries] /\ [n \in Node |-> s[n].row] \in Tree
  BY WrittenTypes
<1>3. spent' \in [edits : 0..MaxEdits, writes : 0..MaxWrites, remote : BOOLEAN]
  <2> DEFINE more == spent.writes + 1
  <2>1. spent \in [edits : 0..MaxEdits, writes : 0..MaxWrites, remote : BOOLEAN]
    BY <1>1 DEF Shaped
  <2>2. more \in 0..MaxWrites /\ spent' = [spent EXCEPT !.writes = more]
    BY <2>1, LimitAssumption DEF MayWrite, Foreign
  <2> HIDE DEF more
  <2> QED BY <2>1, <2>2
<1>4. log' \in Seq(Change)
  <2>1. Len(seq) \in Nat /\ \A i \in 1..Len(seq) : seq[i] \in Node
    BY <1>2, Listed
  <2>2. \A n \in Node : ChangeOf(s, n, FALSE) \in Change
    BY WrittenTypes
  <2>3. log' = log \o g
    BY DEF Foreign
  <2> HIDE DEF seq, s
  <2>4. \A i \in 1..Len(seq) : g[i] \in Change
    BY <2>1, <2>2
  <2>5. g = [i \in 1..Len(seq) |-> g[i]]
    OBVIOUS
  <2> HIDE DEF g
  <2>6. log \o [i \in 1..Len(seq) |-> g[i]] \in Seq(Change)
    BY <2>1, <2>4, Streamed
  <2> QED BY <2>3, <2>5, <2>6
<1>5. srv' = s /\ UNCHANGED <<row, head, st, blocked, kept, pc>>
  BY DEF Foreign
<1> HIDE DEF s
<1>6. Shaped(row', head', st', blocked', kept', srv', log', pc', spent')
  BY <1>1, <1>2, <1>3, <1>4, <1>5 DEF Shaped
<1> QED BY <1>6, Primed

LEMMA CloudKeeps ==
  ASSUME Inv
  PROVE  /\ \A n \in Node, p \in Node \cup {Top}, name \in Name : CloudUpsert(n, p, name) => Inv'
         /\ \A n \in Node : CloudDelete(n) => Inv'
<1>1. SrvRows \in Tree
  BY Shape DEF Shaped, SrvRows
<1>2. ASSUME NEW n \in Node, NEW p \in Node \cup {Top}, NEW name \in Name, CloudUpsert(n, p, name) PROVE Inv'
  <2>1. p \in Parents(n)
    BY <1>2, Kinds DEF CloudUpsert, CanHold
  <2>2. Put(SrvRows, n, p, name) \in Tree /\ {n} \in SUBSET Node
    BY <1>1, <2>1, PutRow
  <2> QED BY <1>2, <2>2, ForeignKeeps DEF CloudUpsert
<1>3. ASSUME NEW n \in Node, CloudDelete(n) PROVE Inv'
  <2>1. Bury(SrvRows, Doomed(SrvRows, n)) \in Tree /\ Doomed(SrvRows, n) \in SUBSET Node
    BY <1>1, BuryRow, Kinds DEF Doomed
  <2> QED BY <1>3, <2>1, ForeignKeeps DEF CloudDelete
<1> QED BY <1>2, <1>3

-----------------------------------------------------------------------------
(* Push, and the choice that keeps the local edit. *)

LEMMA PushKeeps ==
  ASSUME Inv, NEW n \in Node, Push(n)
  PROVE  Inv'
<1>1. Shaped(row, head, st, blocked, kept, srv, log, pc, spent)
  BY Shape
<1>2. /\ row \in Tree /\ head \in [Node -> Heads] /\ st \in [Node -> States]
      /\ srv \in [Node -> Entries] /\ SrvRows \in Tree /\ log \in Seq(Change)
  BY <1>1 DEF Shaped, SrvRows
<1>3. UNCHANGED <<row, kept, spent>>
  BY DEF Push
<1>4. CASE head[n].base # srv[n].ver
  <2>1. /\ st' = [st EXCEPT ![n] = Conflict(ChangeOf(srv, n, FALSE))]
        /\ blocked' = TRUE /\ pc' = "pull" /\ UNCHANGED <<head, srv, log>>
    BY <1>4 DEF Push
  <2>2. srv = Written(SrvRows, {})
    <3>1. Written(SrvRows, {}) = [m \in Node |-> srv[m]]
      BY DEF Written
    <3> QED BY <1>2, <3>1
  <2>3. Conflict(ChangeOf(srv, n, FALSE)) \in States
    BY <1>2, <2>2, WrittenTypes, StateTypes
  <2> DEFINE x == Conflict(ChangeOf(srv, n, FALSE))
  <2> HIDE DEF x
  <2>4. st' \in [Node -> States]
    BY <1>2, <2>1, <2>3 DEF x
  <2>5. Shaped(row', head', st', blocked', kept', srv', log', pc', spent')
    BY <1>1, <1>3, <2>1, <2>4 DEF Shaped
  <2> QED BY <2>5, Primed
<1>5. CASE head[n].base = srv[n].ver /\ row[n].state = "live" /\ ~CanHold(SrvRows, row[n].parent, n)
  <2>1. /\ head' = [head EXCEPT ![n].status = "dead"]
        /\ pc' = "pull" /\ UNCHANGED <<st, blocked, srv, log>>
    BY <1>5 DEF Push
  <2>2. head' \in [Node -> Heads]
    BY <1>2, <2>1 DEF Heads
  <2>3. Shaped(row', head', st', blocked', kept', srv', log', pc', spent')
    BY <1>1, <1>3, <2>1, <2>2 DEF Shaped
  <2> QED BY <2>3, Primed
<1>6. CASE head[n].base = srv[n].ver /\ ~(row[n].state = "live" /\ ~CanHold(SrvRows, row[n].parent, n))
  <2> DEFINE below == IF row[n].state = "dead" /\ n \in Live(SrvRows) THEN Doomed(SrvRows, n) \ {n} ELSE {}
             u == Bury(SrvRows, below)
             t == [u EXCEPT ![n] = row[n]]
             s == Written(t, below \cup {n})
             seq == Append(ChildrenFirst(below), n)
             g == [i \in 1..Len(seq) |-> ChangeOf(s, seq[i], seq[i] = n \/ SharedCascade)]
  <2>1. /\ srv' = s /\ log' = log \o g
        /\ st' = [st EXCEPT ![n] = Synced(s[n].ver)]
        /\ head' = [head EXCEPT ![n] = NoHead]
        /\ UNCHANGED <<blocked, pc>>
    BY <1>6 DEF Push
  <2>2. below \in SUBSET Node
    BY Kinds DEF Doomed
  <2>3. t \in Tree
    <3>1. u \in Tree
      BY <1>2, BuryRow
    <3>2. row[n] \in Row /\ row[n].parent \in Parents(n)
      BY <1>2, TreeRow
    <3> HIDE DEF u
    <3> QED BY <3>1, <3>2 DEF Tree
  <2>4. /\ s \in [Node -> Entries] /\ [m \in Node |-> s[m].row] \in Tree /\ s[n].ver \in Nat
        /\ \A m \in Node, own \in BOOLEAN : ChangeOf(s, m, own) \in Change
    <3> HIDE DEF t, below
    <3> QED BY <2>3, WrittenTypes
  <2> HIDE DEF s, t, u
  <2>5. log' \in Seq(Change)
    <3> DEFINE f == ChildrenFirst(below)
    <3>1. f \in Seq(Node)
      <4>1. f \in Seq(below)
        <5> HIDE DEF below
        <5> QED BY <1>2, <2>2, Listed
      <4> HIDE DEF f, below
      <4> QED BY <2>2, <4>1
    <3> HIDE DEF f, below
    <3>2. seq \in Seq(Node) /\ Len(seq) \in Nat /\ \A i \in 1..Len(seq) : seq[i] \in Node
      <4>1. Append(f, n) \in Seq(Node)
        BY <3>1
      <4> QED BY <4>1 DEF f
    <3> HIDE DEF seq
    <3>3. ASSUME NEW i \in 1..Len(seq) PROVE g[i] \in Change
      <4>1. (seq[i] = n \/ SharedCascade) \in BOOLEAN
        BY ChoiceAssumption
      <4> QED BY <2>4, <3>2, <4>1
    <3>4. g = [i \in 1..Len(seq) |-> g[i]]
      OBVIOUS
    <3> HIDE DEF g
    <3>5. log \o [i \in 1..Len(seq) |-> g[i]] \in Seq(Change)
      BY <3>2, <3>3, Streamed
    <3> QED BY <2>1, <3>4, <3>5
  <2> HIDE DEF g
  <2>6. st' \in [Node -> States]
    <3> DEFINE x == Synced(s[n].ver)
    <3>1. x \in States
      BY <2>4, StateTypes
    <3> HIDE DEF x
    <3> QED BY <1>2, <2>1, <3>1 DEF x
  <2>7. head' \in [Node -> Heads]
    <3>1. NoHead \in Heads
      BY DEF NoHead, Heads
    <3> HIDE DEF NoHead, Heads
    <3> QED BY <1>2, <2>1, <3>1
  <2>8. Shaped(row', head', st', blocked', kept', srv', log', pc', spent')
    BY <1>1, <1>3, <2>1, <2>4, <2>5, <2>6, <2>7 DEF Shaped
  <2> QED BY <2>8, Primed
<1> QED BY <1>4, <1>5, <1>6

LEMMA ClearTypes ==
  ASSUME Inv, NEW S, Clear(S)
  PROVE  st' \in [Node -> States] /\ blocked' \in BOOLEAN
<1>1. st \in [Node -> States] /\ blocked \in BOOLEAN
  BY Shape DEF Shaped
<1>2. \A m \in Node : st[m] \in States /\ Synced(st[m].ver) \in States
  BY <1>1, StateTypes
<1>3. st' = [m \in Node |-> IF m \in S THEN Synced(st[m].ver) ELSE st[m]]
      /\ blocked' = (blocked /\ Conflicts \ S # {})
  BY DEF Clear
<1>4. blocked' \in BOOLEAN
  BY <1>1, <1>3
<1> HIDE DEF Synced, States
<1> QED BY <1>2, <1>3, <1>4

LEMMA KeepKeeps ==
  ASSUME Inv, NEW n \in Node, KeepLocal(n)
  PROVE  Inv'
<1> DEFINE S == Scope(n) \cap Conflicts
<1>1. Shaped(row, head, st, blocked, kept, srv, log, pc, spent)
  BY Shape
<1>2. /\ head' = [m \in Node |-> IF m \in S THEN [status |-> "pending", base |-> st[m].ver] ELSE head[m]]
      /\ Clear(S) /\ UNCHANGED <<row, kept, srv, log, pc, spent>>
  BY DEF KeepLocal
<1> HIDE DEF S
<1>3. st' \in [Node -> States] /\ blocked' \in BOOLEAN
  BY <1>2, ClearTypes
<1>4. head' \in [Node -> Heads]
  <2>1. head \in [Node -> Heads] /\ \A m \in Node : st[m].ver \in Nat
    BY <1>1, StateTypes DEF Shaped
  <2>2. \A v \in Nat : [status |-> "pending", base |-> v] \in Heads
    BY DEF Heads
  <2> HIDE DEF Heads
  <2> QED BY <1>2, <2>1, <2>2
<1>5. Shaped(row', head', st', blocked', kept', srv', log', pc', spent')
  BY <1>1, <1>2, <1>3, <1>4 DEF Shaped
<1> QED BY <1>5, Primed

LEMMA NextRoundKeeps ==
  ASSUME Inv, NextRound
  PROVE  Inv'
<1>1. Shaped(row', head', st', blocked', kept', srv', log', pc', spent')
  BY Shape DEF Shaped, NextRound
<1> QED BY <1>1, Primed

-----------------------------------------------------------------------------
(* What a page of changes leaves of the tree. *)

WholeTree == {t \in Tree : Whole(t)}
Paging(page) == [rows : WholeTree, done : SUBSET Node, ok : BOOLEAN, wait : SUBSET page]
PageOf(seq, page) == Len(seq) \in Nat /\ page \subseteq 1..Len(seq) /\ \A i \in page : seq[i] \in Change

LEMMA PagingSteps ==
  ASSUME NEW page, NEW x \in Paging(page)
  PROVE  /\ x.rows \in Tree /\ Whole(x.rows) /\ x.wait \subseteq page
         /\ \A t \in Tree, S \in SUBSET Node : Whole(t) => Applied(x, t, S) \in Paging(page)
         /\ Failed(x) \in Paging(page)
         /\ \A i : [x EXCEPT !.wait = @ \ {i}] \in Paging(page)
<1>1. /\ x.rows \in WholeTree /\ x.done \in SUBSET Node /\ x.ok \in BOOLEAN /\ x.wait \in SUBSET page
      /\ x = [rows |-> x.rows, done |-> x.done, ok |-> x.ok, wait |-> x.wait]
  BY DEF Paging
<1>2. \A t \in WholeTree, S \in SUBSET Node : Applied(x, t, S) \in Paging(page)
  BY <1>1 DEF Paging, Applied
<1>3. Failed(x) \in Paging(page)
  BY <1>1 DEF Paging, Failed
<1>4. \A i : [x EXCEPT !.wait = @ \ {i}] \in Paging(page)
  BY <1>1 DEF Paging
<1>5. \A t : t \in WholeTree <=> t \in Tree /\ Whole(t)
  BY DEF WholeTree
<1> QED BY <1>1, <1>2, <1>3, <1>4, <1>5

LEMMA UpsertKeeps ==
  ASSUME NEW page, NEW x \in Paging(page), NEW c \in Change
  PROVE  ApplyUpsert(x, c) \in Paging(page)
<1>1. x.rows \in Tree /\ Whole(x.rows)
  BY PagingSteps
<1>2. c.n \in Node /\ c.parent \in Parents(c.n) /\ c.name \in Name
  BY Changes
<1>3. CASE c.n # Collection /\ ({Collection, c.parent} \ Live(x.rows)) # {}
  BY <1>3 DEF ApplyUpsert
<1>4. CASE /\ ~(c.n # Collection /\ ({Collection, c.parent} \ Live(x.rows)) # {})
           /\ c.n \in Folder /\ (c.n = c.parent \/ c.n \in Above(x.rows, c.parent, Live(x.rows)))
  BY <1>4, PagingSteps DEF ApplyUpsert
<1>5. CASE /\ ~(c.n # Collection /\ ({Collection, c.parent} \ Live(x.rows)) # {})
           /\ ~(c.n \in Folder /\ (c.n = c.parent \/ c.n \in Above(x.rows, c.parent, Live(x.rows))))
  <2>1. CanHold(x.rows, c.parent, c.n)
    <3>1. CASE c.n = Collection
      BY <1>2, <3>1, Kinds DEF CanHold
    <3>2. CASE c.n # Collection
      <4>1. c.parent \in Holder \cap Live(x.rows)
        BY <1>2, <1>5, <3>2, Kinds
      <4>2. Above(x.rows, c.parent, Live(x.rows)) \subseteq Holder
        BY <1>1, <4>1, Walk, Kinds DEF Live
      <4>3. c.n \in Folder \/ c.n \in Request
        BY <1>2, <3>2 DEF Node, Holder
      <4>4. c.parent # c.n /\ c.n \notin Above(x.rows, c.parent, Live(x.rows))
        BY <1>2, <1>5, <4>1, <4>2, <4>3, Kinds
      <4> QED BY <3>2, <4>1, <4>4 DEF CanHold
    <3> QED BY <3>1, <3>2
  <2>2. Whole(Put(x.rows, c.n, c.parent, c.name)) /\ Put(x.rows, c.n, c.parent, c.name) \in Tree
    BY <1>1, <1>2, <2>1, PutWhole, PutRow
  <2>3. ApplyUpsert(x, c) = Applied(x, Put(x.rows, c.n, c.parent, c.name), {c.n})
    BY <1>5 DEF ApplyUpsert
  <2>4. \A t \in Tree, S \in SUBSET Node : Whole(t) => Applied(x, t, S) \in Paging(page)
    BY PagingSteps
  <2>5. {c.n} \in SUBSET Node
    BY <1>2
  <2> QED BY <2>2, <2>3, <2>4, <2>5
<1> QED BY <1>3, <1>4, <1>5

LEMMA DeleteKeeps ==
  ASSUME NEW page, NEW x \in Paging(page), NEW c \in Change
  PROVE  ApplyDelete(x, c) \in Paging(page)
<1>1. x.rows \in Tree /\ Whole(x.rows)
  BY PagingSteps
<1>2. c.n \in Node
  BY Changes
<1>3. CASE x.rows[c.n].state # "live"
  <2>1. Applied(x, x.rows, {c.n}) \in Paging(page)
    BY <1>1, <1>2, PagingSteps
  <2> QED BY <1>3, <2>1 DEF ApplyDelete
<1>4. CASE x.rows[c.n].state = "live" /\ c.parent # x.rows[c.n].parent
  BY <1>4, PagingSteps DEF ApplyDelete
<1>5. CASE x.rows[c.n].state = "live" /\ c.parent = x.rows[c.n].parent
  <2> DEFINE gone == IF c.n \in Request THEN {c.n} ELSE Doomed(x.rows, c.n)
  <2>1. c.n \in Live(x.rows)
    BY <1>2, <1>5 DEF Live
  <2>2. gone \in SUBSET Node /\ Bury(x.rows, gone) \in Tree /\ Whole(Bury(x.rows, gone))
    <3>1. CASE c.n \in Request
      <4>1. {c.n} \in SUBSET Live(x.rows)
        BY <2>1
      <4>2. \A m \in Live(x.rows) : x.rows[m].parent \notin {c.n}
        BY <1>1, <1>2, <3>1, TreeRow, Kinds DEF Live
      <4>3. Whole(Bury(x.rows, {c.n})) /\ Bury(x.rows, {c.n}) \in Tree
        BY <1>1, <4>1, <4>2, BuryWhole, BuryRow
      <4> QED BY <1>2, <3>1, <4>3
    <3>2. CASE c.n \notin Request
      <4>1. Whole(Bury(x.rows, Doomed(x.rows, c.n))) /\ Bury(x.rows, Doomed(x.rows, c.n)) \in Tree
        BY <1>1, <2>1, DeleteWhole
      <4>2. Doomed(x.rows, c.n) \in SUBSET Node
        BY <1>1, <2>1, DoomedRows DEF Live
      <4> QED BY <3>2, <4>1, <4>2
    <3> QED BY <3>1, <3>2
  <2>3. ApplyDelete(x, c) = Applied(x, Bury(x.rows, gone), gone)
    BY <1>5 DEF ApplyDelete
  <2> HIDE DEF gone
  <2>4. \A t \in Tree, S \in SUBSET Node : Whole(t) => Applied(x, t, S) \in Paging(page)
    BY PagingSteps
  <2> QED BY <2>2, <2>3, <2>4
<1> QED BY <1>3, <1>4, <1>5

LEMMA PassKeeps ==
  ASSUME NEW seq, NEW page, PageOf(seq, page), NEW take \in SUBSET page, NEW x \in Paging(page)
  PROVE  Pass(x, seq, take) \in Paging(page)
<1> DEFINE N == Len(seq)
           P == Paging(page)
           Step(y, i) == IF i \in take THEN ApplyOne(y, seq[i]) ELSE y
           g == [i \in 1..N |-> [y \in P |-> Step(y, i)]]
<1>1. N \in Nat /\ \A i \in take : seq[i] \in Change
  BY DEF PageOf
<1>2. ASSUME NEW i \in 1..N, NEW y \in P PROVE Step(y, i) \in P
  BY <1>1, <1>2, UpsertKeeps, DeleteKeeps DEF ApplyOne
<1> HIDE DEF N, P, Step
<1>3. g \in [1..N -> [P -> P]] /\ \A i \in 1..N, y \in P : g[i][y] = Step(y, i)
  BY <1>2
<1> HIDE DEF g
<1>4. Traceable(N, P, x, g)
  BY <1>1, <1>3, Loop DEF P
<1>5. PICK f \in [0..N -> P] : f[0] = x /\ \A i \in 1..N : f[i] = g[i][f[i - 1]]
  BY <1>4 DEF Traceable
<1>6. f = [i \in 0..N |-> IF i = 0 THEN x ELSE Step(f[i - 1], i)]
  <2>1. ASSUME NEW i \in 0..N PROVE f[i] = IF i = 0 THEN x ELSE Step(f[i - 1], i)
    <3>1. i # 0 => i \in 1..N /\ i - 1 \in 0..N
      BY <1>1
    <3> QED BY <1>3, <1>5, <3>1
  <2>2. f = [i \in 0..N |-> f[i]]
    OBVIOUS
  <2> QED BY <2>1, <2>2
<1> DEFINE done[i \in 0..Len(seq)] == IF i = 0 THEN x ELSE Step(done[i - 1], i)
<1>7. done = [i \in 0..N |-> IF i = 0 THEN x ELSE Step(done[i - 1], i)]
  BY <1>6 DEF N
<1>8. Pass(x, seq, take) = done[N]
  BY DEF Pass, N, Step
<1> HIDE DEF done
<1> DEFINE T == {i \in 0..N : done[i] \in P}
<1>9. 0 \in T
  BY <1>1, <1>7 DEF P
<1>10. \A i \in 1..N : i - 1 \in T => i \in T
  BY <1>1, <1>2, <1>7
<1>11. N \in T
  <2> HIDE DEF T
  <2> QED BY <1>1, <1>9, <1>10, Upward
<1> QED BY <1>8, <1>11 DEF P

LEMMA FolderPassKeeps ==
  ASSUME NEW seq, NEW page, PageOf(seq, page), NEW x \in Paging(page)
  PROVE  FolderPass(x, seq) \in Paging(page)
<1> DEFINE N == Len(seq)
           P == Paging(page)
           pending == {seq[i].n : i \in x.wait}
           Step(y, i) == IF i \in x.wait THEN TryFolder(y, seq[i], i, pending) ELSE y
           g == [i \in 1..N |-> [y \in P |-> Step(y, i)]]
<1>1. N \in Nat /\ \A i \in x.wait : seq[i] \in Change
  BY PagingSteps DEF PageOf
<1>2. ASSUME NEW i \in 1..N, NEW y \in P PROVE Step(y, i) \in P
  <2>1. CASE i \in x.wait
    <3> HIDE DEF pending
    <3>1. ApplyUpsert(y, seq[i]) \in P
      BY <1>1, <2>1, UpsertKeeps
    <3>2. [ApplyUpsert(y, seq[i]) EXCEPT !.wait = @ \ {i}] \in P
      BY <3>1, PagingSteps
    <3>3. Step(y, i) = TryFolder(y, seq[i], i, pending)
      BY <2>1
    <3> QED BY <3>2, <3>3 DEF TryFolder
  <2>2. CASE i \notin x.wait
    BY <2>2
  <2> QED BY <2>1, <2>2
<1> HIDE DEF N, P, Step
<1>3. g \in [1..N -> [P -> P]] /\ \A i \in 1..N, y \in P : g[i][y] = Step(y, i)
  BY <1>2
<1> HIDE DEF g
<1>4. Traceable(N, P, x, g)
  BY <1>1, <1>3, Loop DEF P
<1>5. PICK f \in [0..N -> P] : f[0] = x /\ \A i \in 1..N : f[i] = g[i][f[i - 1]]
  BY <1>4 DEF Traceable
<1>6. f = [i \in 0..N |-> IF i = 0 THEN x ELSE Step(f[i - 1], i)]
  <2>1. ASSUME NEW i \in 0..N PROVE f[i] = IF i = 0 THEN x ELSE Step(f[i - 1], i)
    <3>1. i # 0 => i \in 1..N /\ i - 1 \in 0..N
      BY <1>1
    <3> QED BY <1>3, <1>5, <3>1
  <2>2. f = [i \in 0..N |-> f[i]]
    OBVIOUS
  <2> QED BY <2>1, <2>2
<1> DEFINE done[i \in 0..Len(seq)] == IF i = 0 THEN x ELSE Step(done[i - 1], i)
           z == done[N]
<1>7. done = [i \in 0..N |-> IF i = 0 THEN x ELSE Step(done[i - 1], i)]
  BY <1>6 DEF N
<1>8. FolderPass(x, seq) = IF x.wait = {} THEN x ELSE IF z.wait = x.wait THEN Failed(z) ELSE z
  BY DEF FolderPass, N, Step
<1> HIDE DEF done
<1> DEFINE T == {i \in 0..N : done[i] \in P}
<1>9. 0 \in T
  BY <1>1, <1>7 DEF P
<1>10. \A i \in 1..N : i - 1 \in T => i \in T
  BY <1>1, <1>2, <1>7
<1>11. N \in T
  <2> HIDE DEF T
  <2> QED BY <1>1, <1>9, <1>10, Upward
<1>12. z \in Paging(page) /\ Failed(z) \in Paging(page)
  BY <1>11, PagingSteps DEF P
<1> QED BY <1>8, <1>12

LEMMA FolderPassesKeep ==
  ASSUME NEW seq, NEW page, PageOf(seq, page), NEW x \in Paging(page)
  PROVE  FolderPasses(x, seq) \in Paging(page)
<1> DEFINE N == Len(seq)
           P == Paging(page)
           g == [i \in 1..N |-> [y \in P |-> FolderPass(y, seq)]]
<1>1. N \in Nat
  BY DEF PageOf
<1>2. \A y \in P : FolderPass(y, seq) \in P
  BY FolderPassKeeps
<1> HIDE DEF N, P
<1>3. g \in [1..N -> [P -> P]] /\ \A i \in 1..N, y \in P : g[i][y] = FolderPass(y, seq)
  BY <1>2
<1> HIDE DEF g
<1>4. Traceable(N, P, x, g)
  BY <1>1, <1>3, Loop DEF P
<1>5. PICK f \in [0..N -> P] : f[0] = x /\ \A i \in 1..N : f[i] = g[i][f[i - 1]]
  BY <1>4 DEF Traceable
<1>6. f = [i \in 0..N |-> IF i = 0 THEN x ELSE FolderPass(f[i - 1], seq)]
  <2>1. ASSUME NEW i \in 0..N PROVE f[i] = IF i = 0 THEN x ELSE FolderPass(f[i - 1], seq)
    <3>1. i # 0 => i \in 1..N /\ i - 1 \in 0..N
      BY <1>1
    <3> QED BY <1>3, <1>5, <3>1
  <2>2. f = [i \in 0..N |-> f[i]]
    OBVIOUS
  <2> QED BY <2>1, <2>2
<1> DEFINE done[i \in 0..Len(seq)] == IF i = 0 THEN x ELSE FolderPass(done[i - 1], seq)
<1>7. done = [i \in 0..N |-> IF i = 0 THEN x ELSE FolderPass(done[i - 1], seq)]
  BY <1>6 DEF N
<1>8. FolderPasses(x, seq) = done[N]
  BY DEF FolderPasses, N
<1> HIDE DEF done
<1> DEFINE T == {i \in 0..N : done[i] \in P}
<1>9. 0 \in T
  BY <1>1, <1>7 DEF P
<1>10. \A i \in 1..N : i - 1 \in T => i \in T
  BY <1>1, <1>2, <1>7
<1>11. N \in T
  <2> HIDE DEF T
  <2> QED BY <1>1, <1>9, <1>10, Upward
<1> QED BY <1>8, <1>11 DEF P

\* Whatever changes a page carries, in whatever order, what it leaves is a tree
\* without orphans.
LEMMA ApplyKeeps ==
  ASSUME NEW t \in Tree, Whole(t), NEW seq, NEW page, PageOf(seq, page)
  PROVE  Apply(t, seq, page).rows \in Tree /\ Whole(Apply(t, seq, page).rows)
<1> DEFINE Of(op, S) == {i \in page : seq[i].op = op /\ seq[i].n \in S}
           start == [rows |-> t, done |-> {}, ok |-> TRUE, wait |-> Of("upsert", Folder)]
           one == Pass(start, seq, Of("upsert", {Collection}))
           two == FolderPasses(one, seq)
           three == Pass(two, seq, Of("upsert", Request))
           four == Pass(three, seq, Of("delete", Request))
           five == Pass(four, seq, Of("delete", Folder))
           six == Pass(five, seq, Of("delete", {Collection}))
<1>1. Apply(t, seq, page) = six
  BY DEF Apply
<1>2. \A op, S : Of(op, S) \in SUBSET page
  OBVIOUS
<1>3. start \in Paging(page)
  <2>1. t \in WholeTree
    BY DEF WholeTree
  <2> HIDE DEF Of
  <2> QED BY <1>2, <2>1 DEF Paging
<1> HIDE DEF start, Of
<1>4. one \in Paging(page)
  BY <1>2, <1>3, PassKeeps
<1> HIDE DEF one
<1>5. two \in Paging(page)
  BY <1>4, FolderPassesKeep
<1> HIDE DEF two
<1>6. three \in Paging(page)
  BY <1>2, <1>5, PassKeeps
<1> HIDE DEF three
<1>7. four \in Paging(page)
  BY <1>2, <1>6, PassKeeps
<1> HIDE DEF four
<1>8. five \in Paging(page)
  BY <1>2, <1>7, PassKeeps
<1> HIDE DEF five
<1>9. six \in Paging(page)
  BY <1>2, <1>8, PassKeeps
<1> HIDE DEF six
<1> QED BY <1>1, <1>9, PagingSteps

-----------------------------------------------------------------------------
(* Pull, replay, and the choice that takes the remote side. *)

LEMMA RecordedTypes ==
  ASSUME NEW s \in [Node -> States], NEW seq, NEW safe, PageOf(seq, safe), NEW done
  PROVE  Recorded(s, seq, safe, done) \in [Node -> States]
<1> DEFINE Last(n) == {i \in safe : seq[i].n = n /\ \A j \in safe : j > i => seq[j].n # n}
<1>1. ASSUME NEW n \in Node, Last(n) # {}
      PROVE  Synced(seq[CHOOSE i \in Last(n) : TRUE].ver) \in States
  <2> DEFINE j == CHOOSE i \in Last(n) : TRUE
  <2>1. j \in safe
    BY <1>1
  <2> HIDE DEF j, Last
  <2>2. seq[j].ver \in Nat
    BY <2>1, Changes DEF PageOf
  <2>3. Synced(seq[j].ver) \in States
    BY <2>2, StateTypes
  <2> QED BY <2>3 DEF j
<1> HIDE DEF Synced, States
<1>2. Recorded(s, seq, safe, done) =
        [n \in Node |-> IF n \in done /\ Last(n) # {} THEN Synced(seq[CHOOSE i \in Last(n) : TRUE].ver)
                        ELSE s[n]]
  BY DEF Recorded
<1> HIDE DEF Last
<1> QED BY <1>1, <1>2

Receiving(k) == [head : [Node -> Heads], st : [Node -> States], blocked : BOOLEAN,
                 kept : [Node -> Change \cup {NoChange}], safe : SUBSET (1..k)]

LEMMA PrepareTypes ==
  ASSUME Inv, NEW k \in Nat, k <= Len(log), NEW x \in Receiving(k), NEW i \in 1..k
  PROVE  Prepare(x, i) \in Receiving(k)
<1> DEFINE c == log[i]
           y == [x EXCEPT !.kept[c.n] = c]
           v == IF y.head[c.n].status = "none" \/ y.head[c.n].base >= c.ver THEN y.head[c.n].base ELSE c.ver
           own == [y EXCEPT !.st[c.n] = Synced(c.ver), !.head[c.n].base = v]
           met == [y EXCEPT !.st[c.n] = Conflict(c), !.blocked = TRUE]
           new == [y EXCEPT !.safe = @ \cup {i}]
<1>1. c \in Change /\ c.n \in Node /\ c.ver \in Nat
  <2>1. log \in Seq(Change)
    BY Shape DEF Shaped
  <2>2. c \in Change
    BY <2>1
  <2> QED BY <2>2, Changes
<1>2. Synced(c.ver) \in States /\ Conflict(c) \in States
  BY <1>1, StateTypes
<1>3. Prepare(x, i) \in {x, own, met, new}
  BY DEF Prepare
<1> HIDE DEF c
<1>4. /\ x.head \in [Node -> Heads] /\ x.st \in [Node -> States] /\ x.blocked \in BOOLEAN
      /\ x.kept \in [Node -> Change \cup {NoChange}] /\ x.safe \in SUBSET (1..k)
      /\ x = [head |-> x.head, st |-> x.st, blocked |-> x.blocked, kept |-> x.kept, safe |-> x.safe]
  BY DEF Receiving
<1>5. y \in Receiving(k)
  <2>1. [x.kept EXCEPT ![c.n] = c] \in [Node -> Change \cup {NoChange}]
    BY <1>1, <1>4
  <2> QED BY <1>4, <2>1 DEF Receiving
<1> HIDE DEF y
<1>6. /\ y.head \in [Node -> Heads] /\ y.st \in [Node -> States] /\ y.blocked \in BOOLEAN
      /\ y.kept \in [Node -> Change \cup {NoChange}] /\ y.safe \in SUBSET (1..k)
      /\ y = [head |-> y.head, st |-> y.st, blocked |-> y.blocked, kept |-> y.kept, safe |-> y.safe]
  BY <1>5 DEF Receiving
<1>7. [y.head EXCEPT ![c.n].base = v] \in [Node -> Heads]
  <2>1. v \in Nat
    BY <1>1, <1>6 DEF Heads
  <2> HIDE DEF v
  <2> QED BY <1>1, <1>6, <2>1 DEF Heads
<1> HIDE DEF v
<1>8. ASSUME NEW a \in States PROVE [y.st EXCEPT ![c.n] = a] \in [Node -> States]
  BY <1>1, <1>6
<1>9. own \in Receiving(k)
  <2> DEFINE a == Synced(c.ver)
  <2>1. [y.st EXCEPT ![c.n] = a] \in [Node -> States]
    BY <1>2, <1>8
  <2> HIDE DEF a
  <2>2. [y EXCEPT !.st[c.n] = a, !.head[c.n].base = v] \in Receiving(k)
    BY <1>6, <1>7, <2>1 DEF Receiving
  <2> QED BY <2>2 DEF a
<1>10. met \in Receiving(k)
  <2> DEFINE a == Conflict(c)
  <2>1. [y.st EXCEPT ![c.n] = a] \in [Node -> States]
    BY <1>2, <1>8
  <2> HIDE DEF a
  <2>2. [y EXCEPT !.st[c.n] = a, !.blocked = TRUE] \in Receiving(k)
    BY <1>6, <2>1 DEF Receiving
  <2> QED BY <2>2 DEF a
<1>11. new \in Receiving(k)
  BY <1>6 DEF Receiving
<1> QED BY <1>3, <1>9, <1>10, <1>11

LEMMA ReceivedTypes ==
  ASSUME Inv, NEW k \in Nat, k <= Len(log)
  PROVE  Received(k) \in Receiving(k)
<1> DEFINE start == [head |-> head, st |-> st, blocked |-> blocked, kept |-> kept, safe |-> {}]
           P == Receiving(k)
           g == [i \in 1..k |-> [y \in P |-> Prepare(y, i)]]
<1>1. start \in P
  BY Shape DEF Shaped, Receiving
<1>2. \A i \in 1..k, y \in P : Prepare(y, i) \in P
  BY PrepareTypes
<1> HIDE DEF start, P
<1>3. g \in [1..k -> [P -> P]] /\ \A i \in 1..k, y \in P : g[i][y] = Prepare(y, i)
  BY <1>2
<1> HIDE DEF g
<1>4. Traceable(k, P, start, g)
  BY <1>1, <1>3, Loop
<1>5. PICK f \in [0..k -> P] : f[0] = start /\ \A i \in 1..k : f[i] = g[i][f[i - 1]]
  BY <1>4 DEF Traceable
<1>6. f = [i \in 0..k |-> IF i = 0 THEN start ELSE Prepare(f[i - 1], i)]
  <2>1. ASSUME NEW i \in 0..k PROVE f[i] = IF i = 0 THEN start ELSE Prepare(f[i - 1], i)
    <3>1. i # 0 => i \in 1..k /\ i - 1 \in 0..k
      OBVIOUS
    <3> QED BY <1>3, <1>5, <3>1
  <2>2. f = [i \in 0..k |-> f[i]]
    OBVIOUS
  <2> QED BY <2>1, <2>2
<1> DEFINE read[i \in 0..k] == IF i = 0 THEN start ELSE Prepare(read[i - 1], i)
<1>7. read = [i \in 0..k |-> IF i = 0 THEN start ELSE Prepare(read[i - 1], i)]
  BY <1>6
<1>8. Received(k) = read[k]
  BY DEF Received, start
<1> HIDE DEF read
<1> DEFINE T == {i \in 0..k : read[i] \in P}
<1>9. 0 \in T
  BY <1>1, <1>7
<1>10. \A i \in 1..k : i - 1 \in T => i \in T
  BY <1>2, <1>7
<1>11. k \in T
  <2> HIDE DEF T
  <2> QED BY <1>9, <1>10, Upward
<1> QED BY <1>8, <1>11 DEF P

LEMMA PullKeeps ==
  ASSUME Inv, NEW k \in 0..PageLimit, PullPage(k)
  PROVE  Inv'
<1> DEFINE x == Received(k)
           page == LastOfEach(log, x.safe)
           y == Apply(row, log, page)
<1>1. Shaped(row, head, st, blocked, kept, srv, log, pc, spent)
  BY Shape
<1>2. row \in Tree /\ Whole(row) /\ log \in Seq(Change)
  BY <1>1 DEF Shaped
<1>3. k \in Nat /\ k <= Len(log) /\ Len(log) \in Nat
  BY <1>2, LimitAssumption DEF PullPage
<1>4. /\ row' = y.rows /\ head' = x.head /\ st' = Recorded(x.st, log, x.safe, y.done)
      /\ kept' = x.kept /\ blocked' = x.blocked /\ log' = SubSeq(log, k + 1, Len(log))
      /\ pc' = (IF k = Len(log) THEN "replay" ELSE "pull") /\ UNCHANGED <<srv, spent>>
  BY DEF PullPage
<1>5. x \in Receiving(k)
  BY <1>3, ReceivedTypes
<1> HIDE DEF x
<1>6. /\ x.head \in [Node -> Heads] /\ x.st \in [Node -> States] /\ x.blocked \in BOOLEAN
      /\ x.kept \in [Node -> Change \cup {NoChange}] /\ x.safe \subseteq 1..k
  BY <1>5 DEF Receiving
<1>7. PageOf(log, x.safe) /\ PageOf(log, page)
  <2>1. page \subseteq x.safe
    BY DEF LastOfEach
  <2> HIDE DEF page
  <2> QED BY <1>2, <1>3, <1>6, <2>1 DEF PageOf
<1> HIDE DEF page
<1>8. y.rows \in Tree /\ Whole(y.rows)
  BY <1>2, <1>7, ApplyKeeps
<1>9. st' \in [Node -> States]
  BY <1>4, <1>6, <1>7, RecordedTypes
<1> HIDE DEF y
<1>10. log' \in Seq(Change)
  BY <1>2, <1>3, <1>4
<1>11. Shaped(row', head', st', blocked', kept', srv', log', pc', spent')
  BY <1>1, <1>4, <1>6, <1>8, <1>9, <1>10 DEF Shaped
<1> QED BY <1>11, Primed

Reapplicable == {i \in 1..Len(Topology) : kept[Topology[i]] \in Change}
Considering == [st : [Node -> States], blocked : BOOLEAN, waits : SUBSET Node, page : SUBSET Reapplicable]

LEMMA ConsiderTypes ==
  ASSUME Inv, NEW x \in Considering, NEW i \in 1..Len(Topology)
  PROVE  Consider(x, i) \in Considering
<1> DEFINE n == Topology[i]
           c == kept[n]
           s == IF x.st[n].status = "conflict" THEN x.st[n] ELSE Conflict(c)
           w == x.waits \cup {n}
           waiting == [x EXCEPT !.waits = w]
           met == [x EXCEPT !.waits = w, !.blocked = TRUE, !.st[n] = s]
           new == [x EXCEPT !.waits = IF c.op = "delete" THEN w ELSE x.waits, !.page = @ \cup {i}]
<1>1. n \in Node /\ kept \in [Node -> Change \cup {NoChange}]
  BY TopologyAssumption, Shape DEF Shaped
<1>2. Consider(x, i) = x \/ (c \in Change /\ Consider(x, i) \in {x, waiting, met, new})
  <2>1. c \in Change \/ c = NoChange
    BY <1>1
  <2> HIDE DEF NoChange
  <2> QED BY <2>1 DEF Consider
<1>3. CASE c \in Change
  <2> HIDE DEF n, c
  <2>1. /\ x.st \in [Node -> States] /\ x.blocked \in BOOLEAN /\ x.waits \in SUBSET Node
        /\ x.page \in SUBSET Reapplicable
        /\ x = [st |-> x.st, blocked |-> x.blocked, waits |-> x.waits, page |-> x.page]
    BY DEF Considering
  <2>2. w \in SUBSET Node
    BY <1>1, <2>1
  <2>3. s \in States
    BY <1>1, <1>3, <2>1, StateTypes
  <2>4. x.page \cup {i} \in SUBSET Reapplicable
    BY <1>3, <2>1 DEF Reapplicable, c, n
  <2> HIDE DEF w, s
  <2>5. waiting \in Considering
    BY <2>1, <2>2 DEF Considering
  <2>6. met \in Considering
    <3>1. [x.st EXCEPT ![n] = s] \in [Node -> States]
      BY <1>1, <2>1, <2>3
    <3> QED BY <2>1, <2>2, <3>1 DEF Considering
  <2>7. new \in Considering
    <3> DEFINE q == IF c.op = "delete" THEN w ELSE x.waits
    <3>1. q \in SUBSET Node
      BY <2>1, <2>2
    <3> HIDE DEF q
    <3>2. [x EXCEPT !.waits = q, !.page = @ \cup {i}] \in Considering
      BY <2>1, <2>4, <3>1 DEF Considering
    <3> QED BY <3>2 DEF q
  <2> HIDE DEF waiting, met, new
  <2> QED BY <1>2, <2>5, <2>6, <2>7
<1> QED BY <1>2, <1>3

LEMMA ReconsideredTypes ==
  ASSUME Inv
  PROVE  Reconsidered \in Considering
<1> DEFINE start == [st |-> st, blocked |-> blocked, waits |-> {}, page |-> {}]
           N == Len(Topology)
           P == Considering
           g == [i \in 1..N |-> [y \in P |-> Consider(y, i)]]
<1>1. start \in P /\ N \in Nat
  BY Shape, TopologyAssumption DEF Shaped, Considering
<1>2. \A i \in 1..N, y \in P : Consider(y, i) \in P
  BY ConsiderTypes
<1> HIDE DEF start, P, N
<1>3. g \in [1..N -> [P -> P]] /\ \A i \in 1..N, y \in P : g[i][y] = Consider(y, i)
  BY <1>2
<1> HIDE DEF g
<1>4. Traceable(N, P, start, g)
  BY <1>1, <1>3, Loop
<1>5. PICK f \in [0..N -> P] : f[0] = start /\ \A i \in 1..N : f[i] = g[i][f[i - 1]]
  BY <1>4 DEF Traceable
<1>6. f = [i \in 0..N |-> IF i = 0 THEN start ELSE Consider(f[i - 1], i)]
  <2>1. ASSUME NEW i \in 0..N PROVE f[i] = IF i = 0 THEN start ELSE Consider(f[i - 1], i)
    <3>1. i # 0 => i \in 1..N /\ i - 1 \in 0..N
      BY <1>1
    <3> QED BY <1>3, <1>5, <3>1
  <2>2. f = [i \in 0..N |-> f[i]]
    OBVIOUS
  <2> QED BY <2>1, <2>2
<1> DEFINE read[i \in 0..Len(Topology)] == IF i = 0 THEN start ELSE Consider(read[i - 1], i)
<1>7. read = [i \in 0..N |-> IF i = 0 THEN start ELSE Consider(read[i - 1], i)]
  BY <1>6 DEF N
<1>8. Reconsidered = read[N]
  BY DEF Reconsidered, start, N
<1> HIDE DEF read
<1> DEFINE T == {i \in 0..N : read[i] \in P}
<1>9. 0 \in T
  BY <1>1, <1>7
<1>10. \A i \in 1..N : i - 1 \in T => i \in T
  BY <1>1, <1>2, <1>7
<1>11. N \in T
  <2> HIDE DEF T
  <2> QED BY <1>1, <1>9, <1>10, Upward
<1> QED BY <1>8, <1>11 DEF P

LEMMA ReplayKeeps ==
  ASSUME Inv, Replay
  PROVE  Inv'
<1> DEFINE x == Reconsidered
           y == Apply(row, Retained, x.page)
<1>1. Shaped(row, head, st, blocked, kept, srv, log, pc, spent)
  BY Shape
<1>2. row \in Tree /\ Whole(row)
  BY <1>1 DEF Shaped
<1>3. /\ row' = y.rows /\ st' = Recorded(x.st, Retained, x.page, y.done)
      /\ blocked' = x.blocked /\ pc' = "push" /\ UNCHANGED <<head, kept, srv, log, spent>>
  BY DEF Replay
<1>4. x \in Considering
  BY ReconsideredTypes
<1> HIDE DEF x
<1>5. x.st \in [Node -> States] /\ x.blocked \in BOOLEAN /\ x.page \subseteq Reapplicable
  BY <1>4 DEF Considering
<1>6. PageOf(Retained, x.page)
  <2>1. Len(Retained) = Len(Topology) /\ Len(Topology) \in Nat
    BY TopologyAssumption DEF Retained
  <2>2. \A i \in x.page : i \in 1..Len(Topology) /\ Retained[i] \in Change
    BY <1>5 DEF Reapplicable, Retained
  <2> QED BY <2>1, <2>2 DEF PageOf
<1>7. y.rows \in Tree /\ Whole(y.rows)
  BY <1>2, <1>6, ApplyKeeps
<1>8. st' \in [Node -> States]
  BY <1>3, <1>5, <1>6, RecordedTypes
<1> HIDE DEF y
<1>9. Shaped(row', head', st', blocked', kept', srv', log', pc', spent')
  BY <1>1, <1>3, <1>5, <1>7, <1>8 DEF Shaped
<1> QED BY <1>9, Primed

LEMMA RemoteKeeps ==
  ASSUME Inv, NEW n \in Node, UseRemote(n)
  PROVE  Inv'
<1> DEFINE S == Scope(n)
           c == st[n].shadow
           y == Apply(row, <<c>>, {1})
<1>1. Shaped(row, head, st, blocked, kept, srv, log, pc, spent)
  BY Shape
<1>2. row \in Tree /\ Whole(row) /\ st \in [Node -> States] /\ head \in [Node -> Heads]
  BY <1>1 DEF Shaped
<1>3. /\ row' = y.rows /\ head' = [m \in Node |-> IF m \in S THEN NoHead ELSE head[m]]
      /\ Clear(S \cap Conflicts) /\ spent' = [spent EXCEPT !.remote = TRUE]
      /\ UNCHANGED <<kept, srv, log, pc>>
  BY DEF UseRemote
<1>4. c \in Change
  BY <1>2, StateTypes DEF UseRemote, Conflicts
<1>5. PageOf(<<c>>, {1})
  <2> HIDE DEF c
  <2> QED BY <1>4 DEF PageOf
<1> HIDE DEF c
<1>6. y.rows \in Tree /\ Whole(y.rows)
  BY <1>2, <1>5, ApplyKeeps
<1> HIDE DEF y, S
<1>7. st' \in [Node -> States] /\ blocked' \in BOOLEAN
  BY <1>3, ClearTypes
<1>8. head' \in [Node -> Heads]
  <2>1. NoHead \in Heads
    BY DEF NoHead, Heads
  <2> HIDE DEF NoHead, Heads
  <2> QED BY <1>2, <1>3, <2>1
<1>9. spent' \in [edits : 0..MaxEdits, writes : 0..MaxWrites, remote : BOOLEAN]
  <2>1. spent \in [edits : 0..MaxEdits, writes : 0..MaxWrites, remote : BOOLEAN]
    BY <1>1 DEF Shaped
  <2> QED BY <1>3, <2>1
<1>10. Shaped(row', head', st', blocked', kept', srv', log', pc', spent')
  BY <1>1, <1>3, <1>6, <1>7, <1>8, <1>9 DEF Shaped
<1> QED BY <1>10, Primed

-----------------------------------------------------------------------------
(* The invariant. *)

LEMMA InitKeeps == Init => Inv
<1> SUFFICES ASSUME Init PROVE Inv
  OBVIOUS
<1>1. row \in Tree /\ Whole(row)
  BY StartAssumption DEF Init
<1>2. head \in [Node -> Heads]
  <2>1. NoHead \in Heads
    BY DEF NoHead, Heads
  <2> HIDE DEF NoHead, Heads
  <2> QED BY <2>1 DEF Init
<1>3. st \in [Node -> States]
  <2> DEFINE none == [ver |-> 0, status |-> "none", shadow |-> NoChange]
  <2>1. none \in States /\ Synced(1) \in States
    <3>1. NoChange \in Change \cup {NoChange}
      OBVIOUS
    <3> HIDE DEF NoChange
    <3> QED BY <3>1, StateTypes DEF States
  <2>2. st = [n \in Node |-> IF row[n].state = "absent" THEN none ELSE Synced(1)]
    BY DEF Init
  <2> HIDE DEF none, States, Synced
  <2> QED BY <2>1, <2>2
<1>4. srv \in [Node -> Entries] /\ [n \in Node |-> srv[n].row] \in Tree
  <2>1. srv = [n \in Node |-> [row |-> row[n], ver |-> IF row[n].state = "absent" THEN 0 ELSE 1]]
    BY DEF Init
  <2>2. \A n \in Node : row[n] \in Row
    BY <1>1, TreeRow
  <2>3. srv \in [Node -> Entries]
    BY <2>1, <2>2 DEF Entries
  <2>4. \A n \in Node : srv[n].row = row[n]
    BY <2>1
  <2>5. [n \in Node |-> srv[n].row] = row
    <3>1. row = [n \in Node |-> row[n]]
      BY <1>1 DEF Tree
    <3> QED BY <2>4, <3>1
  <2> QED BY <1>1, <2>3, <2>5
<1>5. kept \in [Node -> Change \cup {NoChange}] /\ log \in Seq(Change)
  BY DEF Init
<1>6. spent \in [edits : 0..MaxEdits, writes : 0..MaxWrites, remote : BOOLEAN]
  BY LimitAssumption DEF Init
<1>7. blocked \in BOOLEAN /\ pc \in {"pull", "replay", "push"}
  BY DEF Init
<1>8. Shaped(row, head, st, blocked, kept, srv, log, pc, spent)
  BY <1>1, <1>2, <1>3, <1>4, <1>5, <1>6, <1>7 DEF Shaped
<1> QED BY <1>8, Shape

LEMMA Steps == Inv /\ [Next]_vars => Inv'
<1> SUFFICES ASSUME Inv, [Next]_vars PROVE Inv'
  OBVIOUS
<1>1. CASE UNCHANGED vars
  <2>1. Shaped(row', head', st', blocked', kept', srv', log', pc', spent')
    BY <1>1, Shape DEF vars
  <2> QED BY <2>1, Primed
<1>2. ASSUME NEW n \in Node, NEW p \in Node \cup {Top}, NEW name \in Name,
             Create(n, p, name) \/ CloudUpsert(n, p, name)
      PROVE  Inv'
  BY <1>2, CommandsKeep, CloudKeeps
<1>3. ASSUME NEW n \in Node, NEW name \in Name, Rename(n, name) PROVE Inv'
  BY <1>3, CommandsKeep
<1>4. ASSUME NEW n \in Node, NEW p \in Node, Move(n, p) PROVE Inv'
  BY <1>4, CommandsKeep
<1>5. ASSUME NEW n \in Node, Delete(n) \/ CloudDelete(n) \/ Push(n) \/ KeepLocal(n) \/ UseRemote(n) PROVE Inv'
  BY <1>5, CommandsKeep, CloudKeeps, PushKeeps, KeepKeeps, RemoteKeeps
<1>6. ASSUME NEW k \in 0..PageLimit, PullPage(k) PROVE Inv'
  BY <1>6, PullKeeps
<1>7. CASE Replay \/ NextRound
  BY <1>7, ReplayKeeps, NextRoundKeeps
<1> QED BY <1>1, <1>2, <1>3, <1>4, <1>5, <1>6, <1>7 DEF Next

\* In every reachable state the types hold and the device's tree is whole: the
\* two hold together, as a tree's operations need both.
LEMMA Always == Spec => []Inv
BY InitKeeps, Steps, PTL DEF Spec

\* Rows, heads, entity states, retained envelopes and the stream keep their types
\* through every command, page, replay, push and choice; a conflict always holds
\* the remote change that the user is asked about.
THEOREM TreeTypes == Spec => []TypeOK
<1>1. Inv => TypeOK
  BY DEF Inv
<1> QED BY <1>1, Always, PTL

\* The collection, folders and requests of the device stay one tree: what lives
\* is held by what lives and every parent edge leads to the collection, whatever
\* changes a page, the retained envelopes or a choice of the user apply, in
\* whatever order, between whatever commands, pushes and writes of others.
THEOREM TreeStaysWhole == Spec => []WellFormed
<1>1. Inv => WellFormed
  BY DEF Inv
<1> QED BY <1>1, Always, PTL
=============================================================================
