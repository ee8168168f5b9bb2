------------------------ MODULE WorkspaceStoreProofs ------------------------
(***************************************************************************)
(* WorkspaceStore for any ids, names, starting stores and bounds.             *)
(***************************************************************************)
EXTENDS WorkspaceStore, SequenceTheorems, FiniteSetTheorems, WellFoundedInduction, TLAPS

Changes == [n : Synced, op : {"upsert", "delete"}, name : Name]
Rows == [Entity -> Row]

\* A store whose names differ, without orphans, at home somewhere.
Kept(s) == s \in Store /\ NamesDiffer(s.row) /\ NoOrphan(s.row) /\ AtHome(s)

-----------------------------------------------------------------------------
(* Numbers, ids and the hierarchy. *)

LEMMA Least ==
  ASSUME NEW T, T \subseteq Nat, T # {}
  PROVE  \E m \in T : \A k \in T : m <= k
<1> DEFINE I == {0..k : k \in T}
           R == StrictSubsetOrdering(Nat)
<1>1. I \subseteq FiniteSubsetsOf(Nat) /\ I # {}
  <2>1. ASSUME NEW k \in T PROVE 0..k \in FiniteSubsetsOf(Nat)
    <3>1. k \in Nat /\ 0 \in Int
      OBVIOUS
    <3>2. IsFiniteSet(0..k)
      BY <3>1, FS_Interval
    <3> QED BY <3>1, <3>2 DEF FiniteSubsetsOf
  <2> QED BY <2>1
<1>2. PICK x \in I : \A y \in I : ~(<<y, x>> \in R)
  <2> HIDE DEF R, I
  <2>1. IsWellFoundedOn(R, FiniteSubsetsOf(Nat))
    BY FS_StrictSubsetOrderingWellFounded DEF R
  <2> QED BY <1>1, <2>1, WFMin
<1>3. PICK m \in T : x = 0..m
  OBVIOUS
<1>4. ASSUME NEW k \in T, k < m PROVE FALSE
  <2>1. 0..k \subseteq 0..m /\ 0..k # 0..m
    BY <1>4
  <2>2. <<0..k, 0..m>> \in R
    BY <2>1 DEF StrictSubsetOrdering
  <2> QED BY <1>2, <1>3, <2>2
<1> QED BY <1>4

\* A loop over 1..N with a step g has a trace.
Traceable(N, S, b, g) == \E f \in [0..N -> S] : f[0] = b /\ \A i \in 1..N : f[i] = g[i][f[i - 1]]
LEMMA Loop ==
  ASSUME NEW N \in Nat, NEW S, NEW b \in S, NEW g \in [1..N -> [S -> S]]
  PROVE  Traceable(N, S, b, g)
<1> DEFINE Trace(n, f) == f \in [0..n -> S] /\ f[0] = b /\ \A i \in 1..n : f[i] = g[i][f[i - 1]]
           Traced(n) == \E f : Trace(n, f)
           Stuck == {n \in 0..N : ~Traced(n)}
<1>1. Traced(0)
  <2> DEFINE h == [i \in {0} |-> b]
  <2>1. 0..0 = {0} /\ 1..0 = {}
    OBVIOUS
  <2>2. Trace(0, h)
    BY <2>1
  <2> QED BY <2>2
<1>2. ASSUME NEW m \in 1..N, Traced(m - 1) PROVE Traced(m)
  <2>1. PICK f : Trace(m - 1, f)
    BY <1>2
  <2> DEFINE h == [i \in 0..m |-> IF i = m THEN g[m][f[m - 1]] ELSE f[i]]
  <2>2. f \in [0..m - 1 -> S] /\ f[0] = b /\ \A i \in 1..m - 1 : f[i] = g[i][f[i - 1]]
    BY <2>1
  <2>3. m - 1 \in 0..m - 1 /\ m \in Nat \ {0} /\ \A i \in 0..m : i # m => i \in 0..m - 1
    OBVIOUS
  <2>4. g[m] \in [S -> S] /\ f[m - 1] \in S
    BY <2>2, <2>3
  <2>5. g[m][f[m - 1]] \in S
    BY <2>4
  <2>6. h \in [0..m -> S] /\ h[0] = b
    <3>1. \A i \in 0..m : h[i] \in S
      BY <2>2, <2>3, <2>5
    <3>2. 0 \in 0..m /\ 0 # m
      BY <2>3
    <3> QED BY <2>2, <3>1, <3>2
  <2>7. ASSUME NEW i \in 1..m PROVE h[i] = g[i][h[i - 1]]
    <3>1. i \in 0..m /\ i - 1 \in 0..m /\ i - 1 # m
      BY <2>3
    <3>2. h[i - 1] = f[i - 1]
      BY <3>1
    <3>3. CASE i = m
      BY <3>1, <3>2, <3>3
    <3>4. CASE i # m
      <4>1. i \in 1..m - 1
        BY <3>4, <2>3
      <4> QED BY <3>1, <3>2, <3>4, <4>1, <2>2
    <3> QED BY <3>3, <3>4
  <2>8. Trace(m, h)
    <3> HIDE DEF h
    <3> QED BY <2>6, <2>7
  <2> QED BY <2>8
<1>3. Traced(N)
  <2> HIDE DEF Traced
  <2>1. Stuck = {}
    <3> SUFFICES ASSUME Stuck # {} PROVE FALSE
      OBVIOUS
    <3>1. Stuck \subseteq Nat
      OBVIOUS
    <3>2. PICK m \in Stuck : \A k \in Stuck : m <= k
      <4> HIDE DEF Stuck
      <4> QED BY <3>1, Least
    <3>3. m \in 1..N /\ m - 1 \in 0..N /\ m - 1 \notin Stuck
      BY <1>1, <3>2
    <3> QED BY <1>2, <3>2, <3>3
  <2> QED BY <2>1
<1> QED BY <1>3 DEF Traceable

LEMMA FirstOf ==
  ASSUME NEW S \in SUBSET Entity, S # {}
  PROVE  First(S) \in S
<1> DEFINE T == {Rank[n] : n \in S}
<1>1. T \subseteq Nat /\ T # {}
  BY RankAssumption
<1>2. PICK m \in T : \A k \in T : m <= k
  <2> HIDE DEF T
  <2> QED BY <1>1, Least
<1>3. \E n \in S : \A k \in S : Rank[n] <= Rank[k]
  BY <1>2
<1> QED BY <1>3 DEF First

\* Entities by kind, what they are placed in and what sits below them.
LEMMA Kinds ==
  /\ Workspace \subseteq Entity /\ Environment \subseteq Entity
  /\ \A n \in Entity : n # None /\ (Rooted(n) <=> n \in Workspace)
  /\ \A n \in Entity \ Workspace : Home[n] \in Entity /\ n # Home[n]
  /\ \A n \in Environment : Home[n] \in Workspace
  /\ \A n \in EnvVariable : Home[n] \in Environment
  /\ \A n \in Entity \ Workspace : Home[n] \in Workspace \/ (n \in EnvVariable /\ Home[n] \in Environment)
  /\ Environment \cap Workspace = {} /\ EnvVariable \cap (Environment \cup Workspace) = {}
BY IdsAssumption DEF Entity, Rooted

LEMMA Descent ==
  ASSUME NEW n \in Entity
  PROVE  /\ Below(n) \subseteq Entity \ Workspace
         /\ \A m \in Entity \ Workspace : Home[m] \in {n} \cup Below(n) => m \in Below(n)
         /\ \A e \in Environment : e \in Below(n) <=> Home[e] = n
         /\ n \notin Below(n)
<1>1. Below(n) \subseteq Entity \ Workspace /\ n \notin Below(n)
  BY Kinds DEF Below
<1>2. ASSUME NEW m \in Entity \ Workspace, Home[m] \in {n} \cup Below(n) PROVE m \in Below(n)
  <2>1. CASE Home[m] = n
    BY <2>1 DEF Below
  <2>2. CASE Home[m] \in Below(n)
    <3>1. m \in EnvVariable /\ Home[m] \in Environment
      BY <1>1, <2>2, Kinds
    <3>2. Home[Home[m]] = n
      BY <2>2, <3>1, Kinds DEF Below
    <3> QED BY <3>1, <3>2 DEF Below
  <2> QED BY <1>2, <2>1, <2>2
<1>3. \A e \in Environment : e \in Below(n) <=> Home[e] = n
  BY Kinds DEF Below
<1> QED BY <1>1, <1>2, <1>3

LEMMA Mutual ==
  ASSUME NEW m \in Entity, NEW n \in Entity
  PROVE  /\ m \in Siblings(n) <=> n \in Siblings(m)
         /\ n \notin Siblings(n)
BY DEF Siblings, Rooted

LEMMA SharedPart ==
  /\ Synced \subseteq Entity /\ Shared \in Synced /\ Shared \in Workspace
  /\ Synced \cap Workspace = {Shared}
  /\ \A e \in Synced \cap Environment : Home[e] = Shared
  /\ \A n \in Synced : Below(n) \subseteq Synced
<1>1. Shared \in Workspace /\ Shared \in Entity
  BY IdsAssumption, Kinds
<1>2. Below(Shared) \subseteq Entity \ Workspace /\ \A e \in Environment : e \in Below(Shared) <=> Home[e] = Shared
  BY <1>1, Descent
<1>3. ASSUME NEW n \in Below(Shared) PROVE Below(n) \subseteq Below(Shared)
  <2> SUFFICES ASSUME NEW m \in Below(n) PROVE m \in Below(Shared)
    OBVIOUS
  <2>1. n \in Entity \ Workspace /\ m \in Entity \ Workspace
    BY <1>2, <1>3 DEF Below
  <2>2. Home[m] = n \/ (m \in EnvVariable /\ Home[Home[m]] = n)
    BY DEF Below
  <2>3. Home[m] = n
    BY <2>1, <2>2, Kinds
  <2> QED BY <1>1, <1>3, <2>1, <2>3, Descent
<1> QED BY <1>1, <1>2, <1>3, Kinds DEF Synced

-----------------------------------------------------------------------------
(* Rows: what is written, buried and replaced. *)

LEMMA PutRow ==
  ASSUME NEW t \in Rows, NEW n \in Entity, NEW name \in Name
  PROVE  /\ Put(t, n, name) \in Rows
         /\ Live(Put(t, n, name)) = Live(t) \cup {n}
         /\ Put(t, n, name)[n] = [state |-> "live", name |-> name]
         /\ Put(t, n, name)[n].name = name
         /\ \A m \in Entity \ {n} : Put(t, n, name)[m] = t[m]
<1>1. [state |-> "live", name |-> name] \in Row
  BY DEF Row
<1>2. /\ Put(t, n, name) \in Rows
      /\ Put(t, n, name)[n] = [state |-> "live", name |-> name]
      /\ \A m \in Entity \ {n} : Put(t, n, name)[m] = t[m]
  BY <1>1 DEF Put, Rows
<1>3. Put(t, n, name)[n].state = "live"
  BY <1>2
<1> HIDE DEF Rows
<1>4. \A m \in Entity : m \in Live(Put(t, n, name)) <=> m = n \/ m \in Live(t)
  BY <1>2, <1>3 DEF Live
<1> QED BY <1>2, <1>4 DEF Live

LEMMA BuryRow ==
  ASSUME NEW t \in Rows, NEW S
  PROVE  /\ Bury(t, S) \in Rows
         /\ Live(Bury(t, S)) = Live(t) \ S
         /\ \A m \in Entity : Bury(t, S)[m] = IF m \in S THEN [state |-> "dead", name |-> t[m].name] ELSE t[m]
<1>1. ASSUME NEW m \in Entity
      PROVE  /\ t[m] \in Row /\ t[m].name \in Name
             /\ [t[m] EXCEPT !.state = "dead"] = [state |-> "dead", name |-> t[m].name]
             /\ [state |-> "dead", name |-> t[m].name] \in Row
  BY DEF Rows, Row
<1>2. \A m \in Entity : Bury(t, S)[m] = IF m \in S THEN [state |-> "dead", name |-> t[m].name] ELSE t[m]
  BY <1>1 DEF Bury
<1>3. Bury(t, S) \in Rows
  BY <1>1 DEF Bury, Rows
<1>4. ASSUME NEW m \in Entity PROVE m \in Live(Bury(t, S)) <=> m \in Live(t) /\ m \notin S
  <2>1. CASE m \in S
    <3>1. Bury(t, S)[m] = [state |-> "dead", name |-> t[m].name]
      BY <1>2, <2>1
    <3>2. Bury(t, S)[m].state = "dead"
      BY <3>1
    <3> QED BY <2>1, <3>2 DEF Live
  <2>2. CASE m \notin S
    <3>1. Bury(t, S)[m] = t[m]
      BY <1>2, <2>2
    <3> QED BY <2>2, <3>1 DEF Live
  <2> QED BY <2>1, <2>2
<1> QED BY <1>2, <1>3, <1>4 DEF Live

\* A delete takes the live ones of n and what is below it, and keeps their names.
LEMMA DeletedRow ==
  ASSUME NEW t \in Rows, NEW n \in Entity
  PROVE  /\ Deleted(t, n) \in Rows
         /\ Live(Deleted(t, n)) = Live(t) \ ({n} \cup Below(n))
         /\ \A m \in Entity : /\ Deleted(t, n)[m].name = t[m].name
                              /\ m \notin {n} \cup Below(n) => Deleted(t, n)[m] = t[m]
                              /\ Deleted(t, n)[m].state = "absent" <=> t[m].state = "absent"
<1> DEFINE S == ({n} \cup Below(n)) \cap Live(t)
<1>1. /\ Deleted(t, n) \in Rows /\ Live(Deleted(t, n)) = Live(t) \ S
      /\ \A m \in Entity : Deleted(t, n)[m] = IF m \in S THEN [state |-> "dead", name |-> t[m].name] ELSE t[m]
  BY BuryRow DEF Deleted
<1>2. ASSUME NEW m \in Entity
      PROVE  /\ Deleted(t, n)[m].name = t[m].name
             /\ m \notin {n} \cup Below(n) => Deleted(t, n)[m] = t[m]
             /\ Deleted(t, n)[m].state = "absent" <=> t[m].state = "absent"
  <2>1. CASE m \in S
    <3>1. t[m].state = "live"
      BY <2>1 DEF Live
    <3>2. Deleted(t, n)[m] = [state |-> "dead", name |-> t[m].name]
      BY <1>1, <2>1
    <3> QED BY <2>1, <3>1, <3>2
  <2>2. CASE m \notin S
    <3>1. Deleted(t, n)[m] = t[m]
      BY <1>1, <2>2
    <3> QED BY <2>2, <3>1
  <2> QED BY <2>1, <2>2
<1> QED BY <1>1, <1>2

LEMMA PutKeeps ==
  ASSUME NEW t \in Rows, NEW n \in Entity, NEW name \in Name,
         NamesDiffer(t), NoOrphan(t), ~Taken(t, n, name), ~Rooted(n) => Home[n] \in Live(t)
  PROVE  NamesDiffer(Put(t, n, name)) /\ NoOrphan(Put(t, n, name))
<1> DEFINE p == Put(t, n, name)
<1>1. /\ Live(p) = Live(t) \cup {n} /\ p[n].name = name
      /\ \A m \in Entity \ {n} : p[m] = t[m]
  BY PutRow
<1>2. ASSUME NEW k \in Live(p), NEW m \in Siblings(k) \cap Live(p), p[m].name = p[k].name PROVE FALSE
  <2>1. k \in Entity /\ m \in Entity /\ m # k /\ k \in Siblings(m)
    BY <1>2, Mutual DEF Live
  <2> HIDE DEF p
  <2>2. CASE k = n
    BY <1>1, <1>2, <2>1, <2>2 DEF Taken
  <2>3. CASE m = n
    BY <1>1, <1>2, <2>1, <2>3 DEF Taken
  <2>4. CASE k # n /\ m # n
    BY <1>1, <1>2, <2>1, <2>4 DEF Taken, NamesDiffer
  <2> QED BY <2>2, <2>3, <2>4
<1>3. NamesDiffer(p)
  <2> HIDE DEF p
  <2> QED BY <1>2 DEF NamesDiffer, Taken
<1>4. NoOrphan(p)
  <2> HIDE DEF p
  <2> QED BY <1>1 DEF NoOrphan, Rooted
<1> QED BY <1>3, <1>4

LEMMA DeletedKeeps ==
  ASSUME NEW t \in Rows, NEW n \in Entity, NamesDiffer(t), NoOrphan(t)
  PROVE  NamesDiffer(Deleted(t, n)) /\ NoOrphan(Deleted(t, n))
<1> DEFINE d == Deleted(t, n)
<1>1. Live(d) = Live(t) \ ({n} \cup Below(n)) /\ \A m \in Entity : d[m].name = t[m].name
  BY DeletedRow
<1> HIDE DEF d
<1>2. NamesDiffer(d)
  BY <1>1 DEF NamesDiffer, Taken, Live
<1>3. ASSUME NEW m \in Live(d) \ Workspace PROVE Home[m] \in Live(d)
  <2>1. m \in Entity \ Workspace /\ m \in Live(t) /\ m \notin Below(n)
    BY <1>1, <1>3 DEF Live
  <2>2. Home[m] \in Live(t)
    BY <1>3, <2>1 DEF NoOrphan
  <2> QED BY <1>1, <2>1, <2>2, Descent
<1> QED BY <1>2, <1>3 DEF d, NoOrphan

\* A list replaces what p holds: the listed ones live, the others of p do not.
LEMMA ReplacedRow ==
  ASSUME NEW t \in Rows, NEW p \in Entity, NEW keys \in Lists(p)
  PROVE  /\ Replaced(t, p, keys) \in Rows
         /\ DOMAIN keys \subseteq Listed(p) /\ IsInjective(keys)
         /\ \A n \in Listed(p) : n \in Entity /\ n \notin Workspace /\ n \notin Environment /\ Home[n] = p
         /\ \A n \in Entity \ Listed(p) : Replaced(t, p, keys)[n] = t[n]
         /\ \A n \in DOMAIN keys : n \in Entity => Replaced(t, p, keys)[n] = [state |-> "live", name |-> keys[n]]
         /\ \A n \in Listed(p) \ DOMAIN keys : Replaced(t, p, keys)[n].state # "live"
<1> DEFINE r == Replaced(t, p, keys)
<1>1. DOMAIN keys \subseteq Listed(p) /\ (\A n \in DOMAIN keys : keys[n] \in Name) /\ IsInjective(keys)
  BY DEF Lists
<1>2. \A n \in Entity \ Listed(p) : r[n] = t[n]
  BY DEF Replaced
<1>3. \A n \in DOMAIN keys : n \in Entity => r[n] = [state |-> "live", name |-> keys[n]]
  BY <1>1 DEF Replaced
<1>4. \A n \in Listed(p) : n \in Entity /\ n \notin Workspace /\ n \notin Environment /\ Home[n] = p
  BY IdsAssumption DEF Listed, Entity
<1>5. ASSUME NEW n \in Entity PROVE r[n] \in Row /\ (n \in Listed(p) \ DOMAIN keys => r[n].state # "live")
  <2>1. t[n] \in Row /\ t[n].name \in Name
    BY DEF Rows, Row
  <2>2. n \in DOMAIN keys => keys[n] \in Name
    BY <1>1
  <2>3. r[n] = IF n \notin Listed(p) THEN t[n]
               ELSE IF n \in DOMAIN keys THEN [state |-> "live", name |-> keys[n]]
               ELSE IF n \in Live(t) THEN [t[n] EXCEPT !.state = "dead"] ELSE t[n]
    BY DEF Replaced
  <2>4. [t[n] EXCEPT !.state = "dead"] = [state |-> "dead", name |-> t[n].name]
    BY <2>1 DEF Row
  <2> HIDE DEF r
  <2>5. CASE n \notin Listed(p)
    BY <2>1, <2>3, <2>5
  <2>6. CASE n \in Listed(p) /\ n \in DOMAIN keys
    BY <2>2, <2>3, <2>6 DEF Row
  <2>7. CASE n \in Listed(p) /\ n \notin DOMAIN keys /\ n \in Live(t)
    BY <2>1, <2>3, <2>4, <2>7 DEF Row
  <2>8. CASE n \in Listed(p) /\ n \notin DOMAIN keys /\ n \notin Live(t)
    BY <2>1, <2>3, <2>8 DEF Live
  <2> QED BY <2>5, <2>6, <2>7, <2>8
<1>6. r \in Rows
  <2>1. r = [n \in Entity |-> r[n]]
    BY DEF Replaced
  <2> HIDE DEF r
  <2> QED BY <1>5, <2>1 DEF Rows
<1>7. \A n \in Listed(p) \ DOMAIN keys : r[n].state # "live"
  <2> HIDE DEF r
  <2> QED BY <1>4, <1>5
<1> HIDE DEF r
<1> QED BY <1>1, <1>2, <1>3, <1>4, <1>6, <1>7 DEF r

LEMMA ReplacedKeeps ==
  ASSUME NEW t \in Rows, NEW p \in Live(t), NEW keys \in Lists(p), NamesDiffer(t), NoOrphan(t)
  PROVE  /\ Replaced(t, p, keys) \in Rows
         /\ NamesDiffer(Replaced(t, p, keys)) /\ NoOrphan(Replaced(t, p, keys))
         /\ \A n \in Entity \ Listed(p) : Replaced(t, p, keys)[n] = t[n]
<1> DEFINE r == Replaced(t, p, keys)
<1>0. p \in Entity
  BY DEF Live
<1>1. DOMAIN keys \subseteq Listed(p) /\ IsInjective(keys)
  BY <1>0, ReplacedRow
<1>2. \A n \in Entity \ Listed(p) : r[n] = t[n]
  BY <1>0, ReplacedRow
<1>3. \A n \in DOMAIN keys : n \in Entity => r[n] = [state |-> "live", name |-> keys[n]]
  BY <1>0, ReplacedRow
<1>4. \A n \in Listed(p) : n \in Entity /\ n \notin Workspace /\ n \notin Environment /\ Home[n] = p
  BY <1>0, ReplacedRow
<1>5. \A n \in Listed(p) \ DOMAIN keys : r[n].state # "live"
  BY <1>0, ReplacedRow
<1>6. r \in Rows
  BY <1>0, ReplacedRow
<1> HIDE DEF r
<1>7. ASSUME NEW n \in Live(r)
      PROVE  /\ n \in Entity
             /\ n \in Listed(p) => n \in DOMAIN keys /\ r[n].name = keys[n]
             /\ n \notin Listed(p) => n \in Live(t) /\ r[n] = t[n]
  <2>1. n \in Entity /\ r[n].state = "live"
    BY DEF Live
  <2>2. CASE n \in Listed(p)
    <3>1. n \in DOMAIN keys
      BY <1>5, <2>1, <2>2
    <3>2. r[n] = [state |-> "live", name |-> keys[n]]
      BY <1>3, <2>1, <3>1
    <3> QED BY <2>1, <2>2, <3>1, <3>2
  <2>3. CASE n \notin Listed(p)
    BY <1>2, <2>1, <2>3 DEF Live
  <2> QED BY <2>2, <2>3
<1>8. ASSUME NEW k \in Live(r), NEW m \in Siblings(k) \cap Live(r), r[m].name = r[k].name PROVE FALSE
  <2>1. k \in Entity /\ m \in Entity /\ m # k /\ k \in Siblings(m)
    BY <1>7, <1>8, Mutual
  <2>2. k \in Listed(p) <=> m \in Listed(p)
    <3>1. ASSUME NEW x \in Listed(p), NEW y \in Siblings(x), y \in Entity PROVE y \in Listed(p)
      <4>1. x \in Entity \ Workspace /\ x \notin Environment /\ Home[x] = p
        BY <1>4, <3>1
      <4>2. y \notin Workspace /\ y \notin Environment /\ Home[y] = p
        BY <3>1, <4>1, Kinds DEF Siblings
      <4> QED BY <3>1, <4>2 DEF Listed, Entity
    <3> QED BY <1>8, <2>1, <3>1
  <2>3. CASE k \in Listed(p)
    BY <1>1, <1>7, <1>8, <2>1, <2>2, <2>3 DEF IsInjective
  <2>4. CASE k \notin Listed(p)
    BY <1>7, <1>8, <2>1, <2>2, <2>4 DEF NamesDiffer, Taken
  <2> QED BY <2>3, <2>4
<1>9. NamesDiffer(r)
  BY <1>8 DEF NamesDiffer, Taken
<1>10. NoOrphan(r)
  <2> SUFFICES ASSUME NEW n \in Live(r) \ Workspace PROVE Home[n] \in Live(r)
    BY DEF NoOrphan
  <2>1. Home[n] \in Live(t) /\ Home[n] \notin Listed(p)
    <3>1. CASE n \in Listed(p)
      BY <1>4, <3>1, Kinds DEF Listed, Live, Entity
    <3>2. CASE n \notin Listed(p)
      BY <1>4, <1>7, <3>2, Kinds DEF NoOrphan
    <3> QED BY <3>1, <3>2
  <2> QED BY <1>2, <2>1 DEF Live
<1> QED BY <1>2, <1>6, <1>9, <1>10 DEF r

-----------------------------------------------------------------------------
(* What the commands of either device make of a store. *)

Stores4(r, d, a, sel) == [row |-> r, default |-> d, active |-> a, selected |-> sel]

LEMMA Parts ==
  ASSUME NEW s \in Store
  PROVE  /\ s.row \in Rows /\ s.default \in SUBSET Workspace /\ s.active \in Workspace
         /\ s.selected \in [Workspace -> Environment \cup {None}]
         /\ s = Stores4(s.row, s.default, s.active, s.selected)
BY DEF Store, Rows, Stores4

LEMMA FromParts ==
  ASSUME NEW r \in Rows, NEW d \in SUBSET Workspace, NEW a \in Workspace,
         NEW sel \in [Workspace -> Environment \cup {None}],
         NamesDiffer(r), NoOrphan(r), a \in Live(r),
         \A w \in Workspace : sel[w] # None => sel[w] \in Live(r) /\ Home[sel[w]] = w
  PROVE  Kept(Stores4(r, d, a, sel))
<1>1. Stores4(r, d, a, sel) \in Store
  BY DEF Store, Rows, Stores4
<1>2. /\ Stores4(r, d, a, sel).row = r /\ Stores4(r, d, a, sel).active = a
      /\ Stores4(r, d, a, sel).selected = sel
  BY DEF Stores4
<1> QED BY <1>1, <1>2 DEF Kept, AtHome

\* Rows may be added to a store and renamed, an active workspace and an environment chosen.
LEMMA RowsGrow ==
  ASSUME NEW s, Kept(s), NEW r \in Rows, NamesDiffer(r), NoOrphan(r),
         NEW d \in SUBSET Workspace, NEW a \in Workspace, a \in Live(r),
         \A n \in Live(s.row) : n \in Workspace \cup Environment => n \in Live(r)
  PROVE  /\ Kept(Stores4(r, d, a, s.selected))
         /\ \A w \in Workspace, e \in Environment \cup {None} :
              (e # None => e \in Live(r) /\ Home[e] = w)
              => Kept(Stores4(r, d, a, [s.selected EXCEPT ![w] = e]))
<1>1. s \in Store /\ s.selected \in [Workspace -> Environment \cup {None}]
  BY Parts DEF Kept
<1>2. \A w \in Workspace : s.selected[w] # None => s.selected[w] \in Live(r) /\ Home[s.selected[w]] = w
  BY <1>1 DEF Kept, AtHome
<1>3. Kept(Stores4(r, d, a, s.selected))
  BY <1>1, <1>2, FromParts
<1>4. ASSUME NEW w \in Workspace, NEW e \in Environment \cup {None}, e # None => e \in Live(r) /\ Home[e] = w
      PROVE  Kept(Stores4(r, d, a, [s.selected EXCEPT ![w] = e]))
  <2> DEFINE sel == [s.selected EXCEPT ![w] = e]
  <2>1. sel \in [Workspace -> Environment \cup {None}]
    BY <1>1
  <2>2. \A v \in Workspace : sel[v] # None => sel[v] \in Live(r) /\ Home[sel[v]] = v
    BY <1>1, <1>2, <1>4
  <2> HIDE DEF sel
  <2>3. Kept(Stores4(r, d, a, sel))
    BY <2>1, <2>2, FromParts
  <2> QED BY <2>3 DEF sel
<1> QED BY <1>3, <1>4

\* Who is active after workspace w is gone.
LEMMA HandsOver ==
  ASSUME NEW s, Kept(s), NEW w \in Workspace, Live(Deleted(s.row, w)) \cap Workspace # {}
  PROVE  /\ NextActive(s, Deleted(s.row, w), w) \in Live(Deleted(s.row, w)) \cap Workspace
         /\ NextActive(s, Deleted(s.row, w), w) # s.active => s.active = w
<1> DEFINE t == Deleted(s.row, w)
<1>1. s \in Store /\ s.row \in Rows /\ s.active \in Workspace /\ s.active \in Live(s.row)
  BY Parts DEF Kept, AtHome
<1>2. Live(t) = Live(s.row) \ ({w} \cup Below(w)) /\ w \in Entity /\ Below(w) \cap Workspace = {}
  BY <1>1, DeletedRow, Descent, Kinds
<1> HIDE DEF t
<1>3. Live(t) \cap Workspace \in SUBSET Entity
  BY Kinds
<1>4. CASE s.active = w
  <2> DEFINE live == Live(t) \cap Workspace
             best == IF live \cap s.default # {} THEN live \cap s.default ELSE live
  <2>1. best \in SUBSET Entity /\ best # {} /\ best \subseteq live
    BY <1>3 DEF t
  <2>2. First(best) \in best
    <3> HIDE DEF best
    <3> QED BY <2>1, FirstOf
  <2>3. NextActive(s, t, w) = First(best)
    BY <1>4 DEF NextActive
  <2> QED BY <1>4, <2>1, <2>2, <2>3 DEF t
<1>5. CASE s.active # w
  <2>1. NextActive(s, t, w) = s.active
    BY <1>5 DEF NextActive
  <2> QED BY <1>1, <1>2, <1>5, <2>1 DEF t
<1> QED BY <1>4, <1>5

LEMMA WorkspaceGone ==
  ASSUME NEW s, Kept(s), NEW w \in Workspace, NEW a \in Live(Deleted(s.row, w)) \cap Workspace
  PROVE  Kept(Stores4(Deleted(s.row, w), s.default, a, [s.selected EXCEPT ![w] = None]))
<1> DEFINE t == Deleted(s.row, w)
           sel == [s.selected EXCEPT ![w] = None]
<1>1. s \in Store /\ s.row \in Rows /\ s.selected \in [Workspace -> Environment \cup {None}] /\ w \in Entity
      /\ s.default \in SUBSET Workspace
  BY Parts, Kinds DEF Kept
<1>2. t \in Rows /\ Live(t) = Live(s.row) \ ({w} \cup Below(w))
  BY <1>1, DeletedRow
<1>3. NamesDiffer(t) /\ NoOrphan(t)
  BY <1>1, DeletedKeeps DEF Kept
<1>4. sel \in [Workspace -> Environment \cup {None}]
  BY <1>1
<1>5. ASSUME NEW v \in Workspace, sel[v] # None
      PROVE  sel[v] \in Live(t) /\ Home[sel[v]] = v
  <2>1. v # w /\ sel[v] = s.selected[v] /\ sel[v] \in Environment
    BY <1>1, <1>4, <1>5
  <2> HIDE DEF t, sel
  <2>2. sel[v] \in Live(s.row) /\ Home[sel[v]] = v
    BY <1>5, <2>1 DEF Kept, AtHome
  <2>3. sel[v] \notin {w} \cup Below(w)
    BY <1>1, <2>1, <2>2, Descent, Kinds
  <2> QED BY <1>2, <2>2, <2>3
<1> HIDE DEF sel
<1>6. Kept(Stores4(t, s.default, a, sel))
  <2> HIDE DEF t
  <2>1. a \in Workspace /\ a \in Live(t)
    BY DEF t
  <2> QED BY <1>1, <1>2, <1>3, <1>4, <1>5, <2>1, FromParts
<1> QED BY <1>6 DEF sel

\* What is below no workspace goes, and another environment is selected if it was.
LEMMA PartGone ==
  ASSUME NEW s, Kept(s), NEW n \in Entity \ Workspace
  PROVE  LET t == Deleted(s.row, n)
             sel == IF n \in Environment THEN NextSelected(s, t, n) ELSE s.selected
         IN  /\ Kept(Stores4(t, s.default, s.active, sel))
             /\ \A w \in Workspace : sel[w] # s.selected[w] =>
                  n \in Environment /\ w = Home[n] /\ s.selected[w] = n
<1> DEFINE t == Deleted(s.row, n)
           sel == IF n \in Environment THEN NextSelected(s, t, n) ELSE s.selected
           left == {m \in Live(t) \cap Environment : Home[m] = Home[n]}
<1>1. /\ s \in Store /\ s.row \in Rows /\ s.selected \in [Workspace -> Environment \cup {None}]
      /\ s.default \in SUBSET Workspace /\ s.active \in Workspace /\ s.active \in Live(s.row)
  BY Parts DEF Kept, AtHome
<1>2. t \in Rows /\ Live(t) = Live(s.row) \ ({n} \cup Below(n))
  BY <1>1, DeletedRow
<1>3. NamesDiffer(t) /\ NoOrphan(t)
  BY <1>1, DeletedKeeps DEF Kept
<1>4. s.active \in Live(t)
  BY <1>1, <1>2, Descent, Kinds
<1>5. left = {} \/ (First(left) \in left)
  <2>1. left \in SUBSET Entity
    BY Kinds
  <2> HIDE DEF left
  <2> QED BY <2>1, FirstOf
<1>6. n \in Environment =>
        sel = [s.selected EXCEPT ![Home[n]] = IF s.selected[Home[n]] # n THEN s.selected[Home[n]]
                                              ELSE IF left = {} THEN None ELSE First(left)]
  BY DEF NextSelected
<1>7. sel \in [Workspace -> Environment \cup {None}]
  <2>1. CASE n \in Environment
    <3>1. Home[n] \in Workspace
      BY <2>1, Kinds
    <3>2. First(left) \in Environment \/ left = {}
      BY <1>5
    <3> HIDE DEF left, sel
    <3> QED BY <1>1, <1>6, <2>1, <3>1, <3>2
  <2>2. CASE n \notin Environment
    BY <1>1, <2>2
  <2> QED BY <2>1, <2>2
<1>8. \A w \in Workspace : sel[w] # s.selected[w] =>
        n \in Environment /\ w = Home[n] /\ s.selected[w] = n
  <2> HIDE DEF left
  <2>1. CASE n \in Environment
    <3> HIDE DEF sel
    <3> QED BY <1>1, <1>6, <2>1
  <2>2. CASE n \notin Environment
    BY <2>2
  <2> QED BY <2>1, <2>2
<1>9. ASSUME NEW w \in Workspace, sel[w] # None
      PROVE  sel[w] \in Live(t) /\ Home[sel[w]] = w
  <2>1. CASE sel[w] = s.selected[w] /\ s.selected[w] # n
    <3> DEFINE e == s.selected[w]
    <3>1. e \in Environment /\ e \in Live(s.row) /\ Home[e] = w
      BY <1>1, <1>9, <2>1 DEF Kept, AtHome
    <3>2. e \notin {n} \cup Below(n)
      BY <2>1, <3>1, Descent
    <3> HIDE DEF t, sel, e
    <3>3. e \in Live(t)
      BY <1>2, <3>1, <3>2
    <3> QED BY <2>1, <3>1, <3>3 DEF e
  <2>2. CASE s.selected[w] = n
    <3>1. n \in Environment /\ Home[n] = w
      BY <1>1, <2>2, Kinds DEF Kept, AtHome
    <3>2. sel[w] = IF left = {} THEN None ELSE First(left)
      <4> HIDE DEF sel, left
      <4> QED BY <1>1, <1>6, <2>2, <3>1
    <3>3. sel[w] \in left
      <4> HIDE DEF sel, left
      <4> QED BY <1>5, <1>9, <3>2
    <3> HIDE DEF sel, t
    <3> QED BY <3>1, <3>3
  <2> HIDE DEF sel
  <2> QED BY <1>8, <2>1, <2>2
<1>10. Kept(Stores4(t, s.default, s.active, sel))
  <2> HIDE DEF t, sel
  <2> QED BY <1>1, <1>2, <1>3, <1>4, <1>7, <1>9, FromParts
<1> QED BY <1>8, <1>10

-----------------------------------------------------------------------------
(* The commands of this device. *)

\* What the other device does not share is not at the server.
Away == \A n \in Entity \ Synced : cloud[n].state = "absent"
Inv == TypeOK /\ Closed /\ Anchored /\ Away

LEMMA Shape ==
  Inv <=> /\ Kept(store) /\ cloud \in Rows /\ Away
          /\ queued \subseteq Synced /\ conflict \subseteq Synced /\ log \in Seq(Changes)
          /\ spent \in [edits : 0..MaxEdits, writes : 0..MaxWrites, restored : BOOLEAN]
BY DEF Inv, TypeOK, Closed, Anchored, Kept, Rows, Changes

LEMMA Primed ==
  ASSUME Kept(store'), cloud' \in Rows, Away',
         queued' \subseteq Synced, conflict' \subseteq Synced, log' \in Seq(Changes),
         spent' \in [edits : 0..MaxEdits, writes : 0..MaxWrites, restored : BOOLEAN]
  PROVE  Inv'
BY DEF Inv, TypeOK, Closed, Anchored, Kept, Rows, Changes, NamesDiffer, NoOrphan, AtHome, Live, Taken

Commanded == \E s : Kept(s) /\ Command(s)

LEMMA Writable ==
  ASSUME Kept(store), NEW n \in Entity, NEW name \in Name, ~Taken(store.row, n, name),
         ~Rooted(n) => Home[n] \in Live(store.row)
  PROVE  LET r == Put(store.row, n, name)
         IN  /\ r \in Rows /\ NamesDiffer(r) /\ NoOrphan(r)
             /\ Live(r) = Live(store.row) \cup {n}
             /\ \A d \in SUBSET Workspace, a \in Workspace : a \in Live(r) =>
                  /\ Kept(Stores4(r, d, a, store.selected))
                  /\ \A w \in Workspace, e \in Environment \cup {None} :
                       (e # None => e \in Live(r) /\ Home[e] = w)
                       => Kept(Stores4(r, d, a, [store.selected EXCEPT ![w] = e]))
<1> DEFINE r == Put(store.row, n, name)
<1>1. store \in Store /\ store.row \in Rows /\ NamesDiffer(store.row) /\ NoOrphan(store.row)
  BY Parts DEF Kept
<1>2. r \in Rows /\ NamesDiffer(r) /\ NoOrphan(r) /\ Live(r) = Live(store.row) \cup {n}
  BY <1>1, PutRow, PutKeeps
<1> HIDE DEF r
<1>3. ASSUME NEW d \in SUBSET Workspace, NEW a \in Workspace, a \in Live(r)
      PROVE  /\ Kept(Stores4(r, d, a, store.selected))
             /\ \A w \in Workspace, e \in Environment \cup {None} :
                  (e # None => e \in Live(r) /\ Home[e] = w)
                  => Kept(Stores4(r, d, a, [store.selected EXCEPT ![w] = e]))
  BY <1>2, <1>3, RowsGrow
<1> QED BY <1>2, <1>3 DEF r

LEMMA Creations ==
  ASSUME Kept(store)
  PROVE  /\ \A w \in Workspace, name \in Name : CreateWorkspace(w, name) => Commanded
         /\ \A e \in Environment, name \in Name : CreateEnvironment(e, name) => Commanded
         /\ \A v \in Variable \cup EnvVariable, name \in Name : CreateVariable(v, name) => Commanded
         /\ \A n \in Entity, name \in Name : Rename(n, name) => Commanded
<1>1. /\ store \in Store /\ store.row \in Rows /\ store.default \in SUBSET Workspace
      /\ store.active \in Workspace /\ store.active \in Live(store.row)
  BY Parts DEF Kept, AtHome
<1>2. ASSUME NEW w \in Workspace, NEW name \in Name, CreateWorkspace(w, name) PROVE Commanded
  <2> DEFINE s == Stores4(Put(store.row, w, name), store.default, w, store.selected)
  <2>1. w \in Entity /\ ~Taken(store.row, w, name) /\ Rooted(w)
    BY <1>2, Kinds DEF CreateWorkspace, MayCreate
  <2>2. Kept(s)
    BY <1>1, <2>1, Writable
  <2> DEFINE x == [store EXCEPT !.row = Put(store.row, w, name), !.active = w]
  <2>3. x \in Store
    BY <1>1, <2>1, PutRow DEF Store, Rows
  <2>4. x.row = Put(store.row, w, name) /\ x.default = store.default /\ x.active = w /\ x.selected = store.selected
    BY <1>1 DEF Store
  <2>5. Command(x)
    BY <1>2 DEF CreateWorkspace
  <2> HIDE DEF x
  <2> QED BY <2>2, <2>3, <2>4, <2>5, Parts DEF Commanded
<1>3. ASSUME NEW e \in Environment, NEW name \in Name, CreateEnvironment(e, name) PROVE Commanded
  <2> DEFINE w == Home[e]
             r == Put(store.row, e, name)
             f == IF \A m \in Live(store.row) \cap Environment : Home[m] # w THEN e ELSE store.selected[w]
             s == Stores4(r, store.default, store.active, [store.selected EXCEPT ![w] = f])
  <2>1. e \in Entity /\ ~Taken(store.row, e, name) /\ (~Rooted(e) => Home[e] \in Live(store.row)) /\ w \in Workspace
    BY <1>3, Kinds DEF CreateEnvironment, MayCreate
  <2>2. Live(r) = Live(store.row) \cup {e}
    BY <1>1, <2>1, PutRow
  <2>3. f \in Environment \cup {None} /\ (f # None => f \in Live(r) /\ Home[f] = w)
    <3>1. store.selected[w] \in Environment \cup {None}
      BY <1>1, <2>1, Parts
    <3>2. store.selected[w] # None => store.selected[w] \in Live(store.row) /\ Home[store.selected[w]] = w
      BY <2>1 DEF Kept, AtHome
    <3> HIDE DEF r
    <3> QED BY <2>2, <3>1, <3>2
  <2>4. Kept(s)
    <3> HIDE DEF f
    <3> QED BY <1>1, <2>1, <2>2, <2>3, Writable
  <2> DEFINE sel == [store.selected EXCEPT ![w] = f]
             x == [store EXCEPT !.row = r, !.selected = sel]
  <2>5. r \in Rows /\ sel \in [Workspace -> Environment \cup {None}]
    <3>1. store.selected \in [Workspace -> Environment \cup {None}]
      BY <1>1, Parts
    <3> HIDE DEF f
    <3> QED BY <1>1, <2>1, <2>3, <3>1, PutRow
  <2>6. Command(x)
    BY <1>3 DEF CreateEnvironment
  <2> HIDE DEF r, sel
  <2>7. x \in Store
    BY <1>1, <2>5 DEF Store, Rows
  <2>8. x.row = r /\ x.default = store.default /\ x.active = store.active /\ x.selected = sel
    BY <1>1 DEF Store
  <2>9. Kept(Stores4(r, store.default, store.active, sel))
    BY <2>4 DEF sel
  <2> HIDE DEF x
  <2> QED BY <2>6, <2>7, <2>8, <2>9, Parts DEF Commanded
<1>4. ASSUME NEW n \in Entity, NEW name \in Name, ~Taken(store.row, n, name),
             ~Rooted(n) => Home[n] \in Live(store.row), Command([store EXCEPT !.row = Put(@, n, name)])
      PROVE  Commanded
  <2> DEFINE s == Stores4(Put(store.row, n, name), store.default, store.active, store.selected)
  <2>1. Kept(s)
    BY <1>1, <1>4, Writable, PutRow
  <2> DEFINE x == [store EXCEPT !.row = Put(store.row, n, name)]
  <2>2. x \in Store
    BY <1>1, PutRow DEF Store, Rows
  <2>3. x.row = Put(store.row, n, name) /\ x.default = store.default /\ x.active = store.active
        /\ x.selected = store.selected
    BY <1>1 DEF Store
  <2>4. Command(x)
    BY <1>4
  <2> HIDE DEF x
  <2> QED BY <2>1, <2>2, <2>3, <2>4, Parts DEF Commanded
<1>5. ASSUME NEW v \in Variable \cup EnvVariable, NEW name \in Name, CreateVariable(v, name) PROVE Commanded
  BY <1>4, <1>5 DEF CreateVariable, MayCreate, Entity
<1>6. ASSUME NEW n \in Entity, NEW name \in Name, Rename(n, name) PROVE Commanded
  BY <1>4, <1>6 DEF Rename, MayRename, Kept, NoOrphan, Rooted
<1> QED BY <1>2, <1>3, <1>5, <1>6

LEMMA Settings ==
  ASSUME Kept(store)
  PROVE  /\ \A w \in Workspace : SetDefault(w) \/ SetActive(w) => Commanded
         /\ \A w \in Workspace, e \in Environment \cup {None} : SelectEnvironment(w, e) => Commanded
<1>1. /\ store \in Store /\ store.row \in Rows /\ store.default \in SUBSET Workspace
      /\ store.active \in Workspace /\ store.active \in Live(store.row)
      /\ NamesDiffer(store.row) /\ NoOrphan(store.row)
  BY Parts DEF Kept, AtHome
<1>2. ASSUME NEW d \in SUBSET Workspace, NEW a \in Workspace, a \in Live(store.row)
      PROVE  /\ Kept(Stores4(store.row, d, a, store.selected))
             /\ \A w \in Workspace, e \in Environment \cup {None} :
                  (e # None => e \in Live(store.row) /\ Home[e] = w)
                  => Kept(Stores4(store.row, d, a, [store.selected EXCEPT ![w] = e]))
  BY <1>1, <1>2, RowsGrow
<1>3. ASSUME NEW w \in Workspace, SetDefault(w) PROVE Commanded
  <2> DEFINE d == (store.default \ Live(store.row)) \cup {w}
  <2>1. d \in SUBSET Workspace
    BY <1>1
  <2> DEFINE x == [store EXCEPT !.default = d]
  <2>2. x \in Store
    BY <1>1, <2>1 DEF Store
  <2>3. x.row = store.row /\ x.default = d /\ x.active = store.active /\ x.selected = store.selected
    BY <1>1 DEF Store
  <2>4. Command(x)
    BY <1>3 DEF SetDefault
  <2>5. Kept(Stores4(store.row, d, store.active, store.selected))
    BY <1>1, <1>2, <2>1
  <2> HIDE DEF x, d
  <2> QED BY <2>2, <2>3, <2>4, <2>5, Parts DEF Commanded
<1>4. ASSUME NEW w \in Workspace, SetActive(w) PROVE Commanded
  <2> DEFINE x == [store EXCEPT !.active = w]
  <2>1. Command(x) /\ w \in Live(store.row)
    BY <1>4 DEF SetActive
  <2>2. x \in Store
    BY <1>1 DEF Store
  <2>3. x.row = store.row /\ x.default = store.default /\ x.active = w /\ x.selected = store.selected
    BY <1>1 DEF Store
  <2>4. Kept(Stores4(store.row, store.default, w, store.selected))
    BY <1>1, <1>2, <2>1
  <2> HIDE DEF x
  <2> QED BY <2>1, <2>2, <2>3, <2>4, Parts DEF Commanded
<1>5. ASSUME NEW w \in Workspace, NEW e \in Environment \cup {None}, SelectEnvironment(w, e) PROVE Commanded
  <2> DEFINE sel == [store.selected EXCEPT ![w] = e]
             x == [store EXCEPT !.selected = sel]
  <2>1. Command(x) /\ (e # None => e \in Live(store.row) /\ Home[e] = w)
    BY <1>5 DEF SelectEnvironment
  <2>2. sel \in [Workspace -> Environment \cup {None}]
    BY <1>1, Parts
  <2>3. Kept(Stores4(store.row, store.default, store.active, sel))
    BY <1>1, <1>2, <2>1
  <2> HIDE DEF sel
  <2>4. x \in Store
    BY <1>1, <2>2 DEF Store
  <2>5. x.row = store.row /\ x.default = store.default /\ x.active = store.active /\ x.selected = sel
    BY <1>1 DEF Store
  <2> HIDE DEF x
  <2> QED BY <2>1, <2>3, <2>4, <2>5, Parts DEF Commanded
<1> QED BY <1>3, <1>4, <1>5

LEMMA Replacements ==
  ASSUME Kept(store)
  PROVE  /\ \A w \in Workspace : \A keys \in Lists(w) : ReplaceVariables(w, keys) => Commanded
         /\ \A e \in Environment, name \in Name : \A keys \in Lists(e) : UpdateEnvironment(e, name, keys) => Commanded
<1>1. /\ store \in Store /\ store.row \in Rows /\ store.default \in SUBSET Workspace
      /\ store.active \in Workspace /\ store.active \in Live(store.row)
      /\ NamesDiffer(store.row) /\ NoOrphan(store.row)
  BY Parts DEF Kept, AtHome
<1>2. ASSUME NEW t \in Rows, NamesDiffer(t), NoOrphan(t), Live(store.row) \subseteq Live(t),
             NEW p \in Live(t), NEW keys \in Lists(p), Command([store EXCEPT !.row = Replaced(t, p, keys)])
      PROVE  Commanded
  <2> DEFINE r == Replaced(t, p, keys)
  <2>1. r \in Rows /\ NamesDiffer(r) /\ NoOrphan(r) /\ \A n \in Entity \ Listed(p) : r[n] = t[n]
    BY <1>2, ReplacedKeeps
  <2> HIDE DEF r
  <2>2. ASSUME NEW n \in Live(store.row), n \in Workspace \cup Environment PROVE n \in Live(r)
    <3>1. n \in Entity \ Listed(p)
      BY <2>2, IdsAssumption DEF Listed, Entity
    <3> QED BY <1>2, <2>1, <3>1 DEF Live
  <2>3. store.active \in Live(r)
    BY <1>1, <2>2
  <2>4. Kept(Stores4(r, store.default, store.active, store.selected))
    BY <1>1, <2>1, <2>2, <2>3, RowsGrow
  <2> DEFINE x == [store EXCEPT !.row = r]
  <2>5. Command(x)
    BY <1>2 DEF r
  <2>6. x \in Store
    BY <1>1, <2>1 DEF Store, Rows
  <2>7. x.row = r /\ x.default = store.default /\ x.active = store.active /\ x.selected = store.selected
    BY <1>1 DEF Store
  <2> HIDE DEF x
  <2> QED BY <2>4, <2>5, <2>6, <2>7, Parts DEF Commanded
<1>3. ASSUME NEW w \in Workspace, NEW keys \in Lists(w), ReplaceVariables(w, keys) PROVE Commanded
  BY <1>1, <1>2, <1>3 DEF ReplaceVariables
<1>4. ASSUME NEW e \in Environment, NEW name \in Name, NEW keys \in Lists(e), UpdateEnvironment(e, name, keys)
      PROVE  Commanded
  <2> DEFINE t == Put(store.row, e, name)
  <2>1. e \in Entity /\ e \in Live(store.row) /\ ~Taken(store.row, e, name)
    BY <1>4, Kinds DEF UpdateEnvironment
  <2>2. ~Rooted(e) => Home[e] \in Live(store.row)
    BY <1>1, <2>1 DEF NoOrphan, Rooted
  <2>3. t \in Rows /\ NamesDiffer(t) /\ NoOrphan(t) /\ Live(t) = Live(store.row) \cup {e}
    BY <1>1, <2>1, <2>2, PutRow, PutKeeps
  <2>4. Command([store EXCEPT !.row = Replaced(t, e, keys)])
    BY <1>4 DEF UpdateEnvironment
  <2> HIDE DEF t
  <2> QED BY <1>2, <2>1, <2>3, <2>4
<1> QED BY <1>3, <1>4

LEMMA Deletions ==
  ASSUME Kept(store)
  PROVE  /\ \A w \in Workspace : DeleteWorkspace(w) => Commanded
         /\ \A e \in Environment : DeleteEnvironment(e) => Commanded
         /\ \A v \in Variable \cup EnvVariable : DeleteVariable(v) => Commanded
<1>1. store \in Store /\ store.row \in Rows
  BY Parts DEF Kept
<1>2. ASSUME NEW w \in Workspace, DeleteWorkspace(w) PROVE Commanded
  <2> DEFINE t == Deleted(store.row, w)
             a == NextActive(store, t, w)
  <2>1. Live(t) = Live(store.row) \ ({w} \cup Below(w)) /\ Below(w) \cap Workspace = {}
    BY <1>1, DeletedRow, Descent, Kinds
  <2>2. Live(t) \cap Workspace # {}
    <3> DEFINE L == Live(store.row) \cap Workspace
    <3>1. w \in L /\ Cardinality(L) > 1
      BY <1>2 DEF DeleteWorkspace, MayDelete, Rooted
    <3>2. Live(t) \cap Workspace = L \ {w}
      <4> HIDE DEF t
      <4> QED BY <2>1
    <3>3. L # {w}
      <4> HIDE DEF L
      <4> SUFFICES ASSUME L = {w} PROVE FALSE
        OBVIOUS
      <4>1. Cardinality(L) = 1
        BY FS_Singleton
      <4> QED BY <3>1, <4>1
    <3> HIDE DEF t, L
    <3> QED BY <3>1, <3>2, <3>3
  <2>3. a \in Live(t) \cap Workspace
    BY <2>2, HandsOver
  <2> DEFINE sel == [store.selected EXCEPT ![w] = None]
             x == [store EXCEPT !.row = t, !.active = a, !.selected = sel]
  <2>4. Kept(Stores4(t, store.default, a, sel))
    BY <2>3, WorkspaceGone
  <2>5. Command(x)
    BY <1>2 DEF DeleteWorkspace
  <2>6. t \in Rows /\ a \in Workspace /\ sel \in [Workspace -> Environment \cup {None}]
    BY <1>1, <2>3, Kinds, DeletedRow, Parts
  <2> HIDE DEF t, a, sel
  <2>7. x \in Store
    BY <1>1, <2>6 DEF Store, Rows
  <2>8. x.row = t /\ x.default = store.default /\ x.active = a /\ x.selected = sel
    BY <1>1 DEF Store
  <2> HIDE DEF x
  <2> QED BY <2>4, <2>5, <2>7, <2>8, Parts DEF Commanded
<1>3. ASSUME NEW e \in Environment, DeleteEnvironment(e) PROVE Commanded
  <2> DEFINE t == Deleted(store.row, e)
             sel == NextSelected(store, t, e)
             x == [store EXCEPT !.row = t, !.selected = sel]
  <2>1. e \in Entity \ Workspace
    BY Kinds
  <2>2. Kept(Stores4(t, store.default, store.active, sel))
    BY <2>1, PartGone
  <2>3. Command(x)
    BY <1>3 DEF DeleteEnvironment
  <2>4. t \in Rows /\ sel \in [Workspace -> Environment \cup {None}]
    <3> HIDE DEF t, sel
    <3> QED BY <2>2 DEF Kept, Store, Stores4, Rows
  <2> HIDE DEF t, sel
  <2>5. x \in Store
    BY <1>1, <2>4 DEF Store, Rows
  <2>6. x.row = t /\ x.default = store.default /\ x.active = store.active /\ x.selected = sel
    BY <1>1 DEF Store
  <2> HIDE DEF x
  <2> QED BY <2>2, <2>3, <2>5, <2>6, Parts DEF Commanded
<1>4. ASSUME NEW v \in Variable \cup EnvVariable, DeleteVariable(v) PROVE Commanded
  <2> DEFINE t == Deleted(store.row, v)
             x == [store EXCEPT !.row = t]
  <2>1. v \in Entity \ Workspace /\ v \notin Environment
    BY IdsAssumption DEF Entity
  <2>2. Kept(Stores4(t, store.default, store.active, store.selected))
    BY <2>1, PartGone
  <2>3. Command(x)
    BY <1>4 DEF DeleteVariable
  <2>4. t \in Rows
    BY <1>1, <2>1, DeletedRow
  <2> HIDE DEF t
  <2>5. x \in Store
    BY <1>1, <2>4 DEF Store, Rows
  <2>6. x.row = t /\ x.default = store.default /\ x.active = store.active /\ x.selected = store.selected
    BY <1>1 DEF Store
  <2> HIDE DEF x
  <2> QED BY <2>2, <2>3, <2>5, <2>6, Parts DEF Commanded
<1> QED BY <1>2, <1>3, <1>4

LEMMA CommandKeeps ==
  ASSUME Inv, Commanded
  PROVE  Inv' /\ spent'.edits # spent.edits
<1>1. PICK s : Kept(s) /\ Command(s)
  BY DEF Commanded
<1>2. /\ spent \in [edits : 0..MaxEdits, writes : 0..MaxWrites, restored : BOOLEAN]
      /\ MaxEdits \in Nat /\ spent.edits < MaxEdits /\ spent' = [spent EXCEPT !.edits = spent.edits + 1]
  BY <1>1, Shape, LimitsAssumption DEF Command
<1>3. spent' \in [edits : 0..MaxEdits, writes : 0..MaxWrites, restored : BOOLEAN] /\ spent'.edits # spent.edits
  BY <1>2
<1>4. Kept(store')
  BY <1>1 DEF Command
<1>5. queued' \subseteq Synced /\ UNCHANGED <<conflict, cloud, log>>
  BY <1>1, Shape DEF Command
<1>6. Inv'
  BY <1>3, <1>4, <1>5, Shape, Primed DEF Away
<1> QED BY <1>3, <1>6

-----------------------------------------------------------------------------
(* The other device and the server. *)

\* The order of due_outbox places every member of a set.
LEMMA Placed ==
  ASSUME NEW t, NEW S \in SUBSET Entity
  PROVE  /\ Len(InOrder(t, S)) \in Nat
         /\ \A i \in 1..Len(InOrder(t, S)) : InOrder(t, S)[i] \in S
<1> DEFINE Before(m, n) == Key(t, m) < Key(t, n) \/ (Key(t, m) = Key(t, n) /\ Rank[m] < Rank[n])
           Ahead(n) == {m \in S : Before(m, n)}
           place == [n \in S |-> Cardinality(Ahead(n))]
           c == Cardinality(S)
<1>1. \A n \in Entity : Key(t, n) \in Int /\ Rank[n] \in Int
  BY RankAssumption DEF Key, Depth
<1>2. \A m, n \in Entity : Rank[m] = Rank[n] => m = n
  BY RankAssumption DEF IsInjective
<1>3. IsFiniteSet(S) /\ c \in Nat
  BY IdsAssumption, FS_Subset, FS_CardinalityType
<1>4. ASSUME NEW n \in S PROVE IsFiniteSet(Ahead(n)) /\ Cardinality(Ahead(n)) \in 0..c - 1
  <2>1. Ahead(n) \in SUBSET S /\ n \notin Ahead(n)
    BY <1>1
  <2> HIDE DEF Ahead
  <2>2. IsFiniteSet(Ahead(n)) /\ Cardinality(Ahead(n)) <= c /\ (Cardinality(Ahead(n)) = c => Ahead(n) = S)
    BY <1>3, <2>1, FS_Subset
  <2>3. Cardinality(Ahead(n)) \in Nat
    BY <2>2, FS_CardinalityType
  <2> HIDE DEF c
  <2> QED BY <1>3, <2>1, <2>2, <2>3
<1>5. ASSUME NEW m \in S, NEW n \in S, Before(m, n) PROVE Cardinality(Ahead(m)) # Cardinality(Ahead(n))
  <2>1. Ahead(m) \in SUBSET Ahead(n) /\ m \in Ahead(n) /\ m \notin Ahead(m)
    BY <1>1, <1>5
  <2> HIDE DEF Ahead
  <2> QED BY <1>4, <2>1, FS_Subset
<1>6. ASSUME NEW m \in S, NEW n \in S, m # n PROVE Before(m, n) \/ Before(n, m)
  BY <1>1, <1>2, <1>6
<1>7. place \in Injection(S, 0..c - 1)
  <2> HIDE DEF Before, Ahead, c
  <2>1. place \in [S -> 0..c - 1]
    BY <1>4
  <2>2. \A m, n \in S : place[m] = place[n] => m = n
    BY <1>5, <1>6
  <2> HIDE DEF place
  <2> QED BY <2>1, <2>2 DEF Injection, IsInjective
<1>8. place \in Surjection(S, 0..c - 1)
  <2>1. IsFiniteSet(0..c - 1) /\ Cardinality(0..c - 1) = c
    <3>1. 0 \in Int /\ c - 1 \in Int
      BY <1>3
    <3> HIDE DEF c
    <3> QED BY <1>3, <3>1, FS_Interval
  <2> HIDE DEF place, Ahead
  <2> QED BY <1>7, <2>1, FS_Injection
<1>9. ASSUME NEW i \in 1..c PROVE \E n \in S : Cardinality(Ahead(n)) = i - 1
  <2>1. i - 1 \in 0..c - 1
    BY <1>3
  <2>2. \E n \in S : place[n] = i - 1
    <3> HIDE DEF place, c, Ahead
    <3> QED BY <1>8, <2>1 DEF Surjection
  <2> HIDE DEF Ahead
  <2> QED BY <2>2
<1>10. InOrder(t, S) = [i \in 1..c |-> CHOOSE n \in S : Cardinality(Ahead(n)) = i - 1]
  BY DEF InOrder
<1>11. Len(InOrder(t, S)) = c
  <2> HIDE DEF c, Ahead
  <2> QED BY <1>3, <1>10
<1>12. ASSUME NEW i \in 1..c PROVE InOrder(t, S)[i] \in S
  <2>1. InOrder(t, S)[i] = CHOOSE n \in S : Cardinality(Ahead(n)) = i - 1
    BY <1>10
  <2> HIDE DEF Ahead, c
  <2> QED BY <1>9, <2>1
<1> QED BY <1>3, <1>11, <1>12

LEMMA Streamed ==
  ASSUME log \in Seq(Changes), NEW t \in Rows, NEW S \in SUBSET Synced
  PROVE  LET seq == InOrder(t, S) IN log \o [i \in 1..Len(seq) |-> Change(t, seq[i])] \in Seq(Changes)
<1> DEFINE seq == InOrder(t, S)
           new == [i \in 1..Len(seq) |-> Change(t, seq[i])]
<1>1. Len(seq) \in Nat /\ \A i \in 1..Len(seq) : seq[i] \in S
  BY Placed, SharedPart
<1>2. ASSUME NEW n \in S PROVE Change(t, n) \in Changes
  <2>1. n \in Synced /\ n \in Entity
    BY SharedPart
  <2>2. t[n].name \in Name
    BY <2>1 DEF Rows, Row
  <2> QED BY <2>1, <2>2 DEF Change, Changes
<1> HIDE DEF seq
<1>3. new \in Seq(Changes)
  <2> DEFINE N == Len(seq)
  <2>1. new \in [1..N -> Changes]
    BY <1>1, <1>2
  <2> HIDE DEF new, N
  <2>2. N \in Nat
    BY <1>1 DEF N
  <2> QED BY <2>1, <2>2, SeqDef
<1> HIDE DEF new
<1>4. log \o new \in Seq(Changes)
  BY <1>3
<1> QED BY <1>4 DEF new, seq

LEMMA ForeignKeeps ==
  ASSUME Inv, NEW t \in Rows, \A n \in Entity \ Synced : t[n] = cloud[n], Foreign(t)
  PROVE  Inv' /\ UNCHANGED <<store, queued>>
<1>1. /\ Kept(store) /\ cloud \in Rows /\ Away /\ queued \subseteq Synced /\ conflict \subseteq Synced
      /\ log \in Seq(Changes)
      /\ spent \in [edits : 0..MaxEdits, writes : 0..MaxWrites, restored : BOOLEAN]
  BY Shape
<1>2. spent' \in [edits : 0..MaxEdits, writes : 0..MaxWrites, restored : BOOLEAN]
  <2>1. spent.writes < MaxWrites /\ MaxWrites \in Nat /\ Restores(t) \in BOOLEAN
        /\ spent' = [spent EXCEPT !.writes = spent.writes + 1, !.restored = spent.restored \/ Restores(t)]
    BY LimitsAssumption DEF Foreign, Restores
  <2>2. (spent.restored \/ Restores(t)) \in BOOLEAN
    OBVIOUS
  <2> DEFINE back == spent.restored \/ Restores(t)
             more == spent.writes + 1
  <2>3. spent' = [spent EXCEPT !.writes = more, !.restored = back] /\ back \in BOOLEAN
    BY <2>1, <2>2
  <2>4. more \in 0..MaxWrites
    BY <1>1, <2>1
  <2> HIDE DEF back, more
  <2> QED BY <1>1, <2>3, <2>4
<1>3. Changed(cloud, t) \in SUBSET Synced
  BY DEF Changed
<1>4. log' \in Seq(Changes)
  BY <1>1, <1>3, Streamed DEF Foreign
<1>5. cloud' = t /\ UNCHANGED <<store, queued, conflict>>
  BY DEF Foreign
<1> QED BY <1>1, <1>2, <1>4, <1>5, Primed DEF Away

LEMMA CloudKeeps ==
  ASSUME Inv
  PROVE  /\ \A n \in Entity, name \in Name : CloudRename(n, name) \/ CloudCreate(n, name)
              => Inv' /\ UNCHANGED <<store, queued>>
         /\ \A n \in Entity : CloudDelete(n) \/ CloudRestore(n) => Inv' /\ UNCHANGED <<store, queued>>
         /\ \A p \in Workspace \cup Environment : \A keys \in Lists(p) :
              CloudReplace(p, keys) => Inv' /\ UNCHANGED <<store, queued>>
<1>1. cloud \in Rows /\ \A n \in Live(cloud) : n \in Synced
  BY Shape DEF Away, Live
<1>2. ASSUME NEW n \in Synced, NEW name \in Name, Foreign(Put(cloud, n, name))
      PROVE  Inv' /\ UNCHANGED <<store, queued>>
  <2>1. n \in Entity
    BY SharedPart
  <2> DEFINE t == Put(cloud, n, name)
  <2>2. t \in Rows /\ \A m \in Entity \ Synced : t[m] = cloud[m]
    <3>1. t \in Rows /\ \A m \in Entity \ {n} : t[m] = cloud[m]
      BY <1>1, <2>1, PutRow
    <3> HIDE DEF t
    <3> QED BY <3>1
  <2>3. Foreign(t)
    BY <1>2
  <2> HIDE DEF t
  <2> QED BY <2>2, <2>3, ForeignKeeps
<1>3. ASSUME NEW n \in Entity, NEW name \in Name, CloudRename(n, name) \/ CloudCreate(n, name)
      PROVE  Inv' /\ UNCHANGED <<store, queued>>
  <2>1. CASE CloudRename(n, name)
    BY <1>1, <1>2, <2>1 DEF CloudRename, MayRename
  <2>2. CASE CloudCreate(n, name)
    BY <1>2, <2>2 DEF CloudCreate
  <2> QED BY <1>3, <2>1, <2>2
<1>4. ASSUME NEW n \in Entity, CloudDelete(n) PROVE Inv' /\ UNCHANGED <<store, queued>>
  <2>1. n \in Synced /\ Below(n) \subseteq Synced
    BY <1>1, <1>4, SharedPart DEF CloudDelete
  <2>2. Deleted(cloud, n) \in Rows /\ \A m \in Entity \ Synced : Deleted(cloud, n)[m] = cloud[m]
    BY <1>1, <2>1, DeletedRow
  <2> QED BY <1>4, <2>2, ForeignKeeps DEF CloudDelete
<1>5. ASSUME NEW n \in Entity, CloudRestore(n) PROVE Inv' /\ UNCHANGED <<store, queued>>
  <2>1. n \in Synced /\ cloud[n].name \in Name
    BY <1>1, <1>5 DEF CloudRestore, Rows, Row
  <2> QED BY <1>2, <1>5, <2>1 DEF CloudRestore
<1>6. ASSUME NEW p \in Workspace \cup Environment, NEW keys \in Lists(p), CloudReplace(p, keys)
      PROVE  Inv' /\ UNCHANGED <<store, queued>>
  <2>1. p \in Synced /\ p \in Entity /\ Below(p) \subseteq Synced
    BY <1>1, <1>6, SharedPart DEF CloudReplace
  <2>2. Listed(p) \subseteq Synced
    BY <2>1, ReplacedRow, <1>1 DEF Below
  <2>3. Replaced(cloud, p, keys) \in Rows /\ \A n \in Entity \ Synced : Replaced(cloud, p, keys)[n] = cloud[n]
    BY <1>1, <2>1, <2>2, ReplacedRow
  <2> QED BY <1>6, <2>3, ForeignKeeps DEF CloudReplace
<1> QED BY <1>3, <1>4, <1>5, <1>6

LEMMA PushKeeps ==
  ASSUME Inv, NEW n \in Entity, Push(n)
  PROVE  Inv' /\ UNCHANGED <<store, spent>>
<1> DEFINE gone == IF n \in Live(store.row) THEN {} ELSE Below(n) \cap Live(cloud)
           b == Bury(cloud, gone)
           t == [b EXCEPT ![n] = store.row[n]]
<1>1. /\ Kept(store) /\ cloud \in Rows /\ Away /\ queued \subseteq Synced /\ conflict \subseteq Synced
      /\ log \in Seq(Changes) /\ n \in Synced
      /\ spent \in [edits : 0..MaxEdits, writes : 0..MaxWrites, restored : BOOLEAN]
  BY Shape DEF Push
<1>2. gone \subseteq Synced /\ store.row \in Rows
  BY <1>1, SharedPart, Parts DEF Kept
<1>3. b \in Rows /\ \A m \in Entity : m \notin gone => b[m] = cloud[m]
  <2> HIDE DEF gone
  <2>1. cloud \in Rows
    BY <1>1
  <2>2. b \in Rows
    BY <2>1, BuryRow
  <2>3. ASSUME NEW m \in Entity, m \notin gone PROVE b[m] = cloud[m]
    <3>1. b[m] = IF m \in gone THEN [state |-> "dead", name |-> cloud[m].name] ELSE cloud[m]
      <4> HIDE DEF gone
      <4> QED BY <2>1, BuryRow
    <3> HIDE DEF b
    <3> QED BY <2>3, <3>1
  <2> QED BY <2>2, <2>3
<1>4. t \in Rows /\ \A m \in Entity \ Synced : t[m] = cloud[m]
  <2> HIDE DEF b, gone
  <2>1. store.row[n] \in Row
    BY <1>2 DEF Rows
  <2>2. t \in Rows
    BY <1>3, <2>1 DEF Rows
  <2> QED BY <1>1, <1>2, <1>3, <2>2 DEF Rows
<1>5. cloud' = t /\ queued' = queued \ {n} /\ UNCHANGED <<store, conflict, spent>>
  BY DEF Push
<1>6. log' \in Seq(Changes)
  <2>1. log' = LET seq == InOrder(t, gone) IN log \o [i \in 1..Len(seq) |-> Change(t, seq[i])]
    BY DEF Push
  <2> HIDE DEF t, gone
  <2> QED BY <1>1, <1>2, <1>4, <2>1, Streamed
<1> HIDE DEF t
<1> QED BY <1>1, <1>4, <1>5, <1>6, Primed DEF Away

-----------------------------------------------------------------------------
(* One change of a page: what the apply of c may do to a store. *)

Applied == [s : Store, ok : BOOLEAN]
Step(s, u, c) ==
  /\ Kept(u)
  /\ \A n \in Synced \ Scope(c) : u.row[n] = s.row[n]
  /\ \A n \in Entity : u.row[n].state = "absent" => s.row[n].state = "absent"
  /\ \A n \in Live(u.row) \cap Synced : n \in Live(s.row) \/ n = c.n
  /\ u.active # s.active => s.active = Shared /\ c.n = Shared /\ Shared \notin Live(u.row)
  /\ s.default \subseteq u.default /\ \A w \in u.default \ s.default : s.row[w].state = "absent"
  /\ \A w \in Workspace : u.selected[w] # s.selected[w] =>
       /\ s.selected[w] \in Environment /\ s.selected[w] \notin Live(u.row)
       /\ s.selected[w] = c.n \/ (w = Shared /\ c.n = Shared /\ Shared \notin Live(u.row))

LEMMA Fields ==
  ASSUME NEW r, NEW d, NEW a, NEW sel
  PROVE  /\ Stores4(r, d, a, sel).row = r /\ Stores4(r, d, a, sel).default = d
         /\ Stores4(r, d, a, sel).active = a /\ Stores4(r, d, a, sel).selected = sel
BY DEF Stores4

LEMMA StaysPut ==
  ASSUME NEW s, Kept(s), NEW c
  PROVE  Step(s, s, c)
BY DEF Step

LEMMA UpsertStep ==
  ASSUME NEW s, Kept(s), NEW c \in Changes, ~Taken(s.row, c.n, c.name), ~Rooted(c.n) => Home[c.n] \in Live(s.row)
  PROVE  Step(s, Stores4(Put(s.row, c.n, c.name), s.default, s.active, s.selected), c)
<1>0. PICK t, n, name : t = s.row /\ n = c.n /\ name = c.name
  OBVIOUS
<1> DEFINE r == Put(t, n, name)
           u == Stores4(r, s.default, s.active, s.selected)
<1>1. n \in Entity /\ n \in Synced /\ name \in Name
  BY <1>0, SharedPart DEF Changes
<1>2. /\ t \in Rows /\ NamesDiffer(t) /\ NoOrphan(t) /\ s.default \in SUBSET Workspace
      /\ s.active \in Workspace /\ s.active \in Live(t)
      /\ ~Taken(t, n, name) /\ (~Rooted(n) => Home[n] \in Live(t))
  BY <1>0, Parts DEF Kept, AtHome
<1>3. /\ r \in Rows /\ NamesDiffer(r) /\ NoOrphan(r) /\ Live(r) = Live(t) \cup {n}
      /\ r[n].state = "live" /\ \A m \in Entity \ {n} : r[m] = t[m]
  <2>1. r \in Rows /\ Live(r) = Live(t) \cup {n}
    BY <1>1, <1>2, PutRow
  <2>2. r[n] = [state |-> "live", name |-> name] /\ \A m \in Entity \ {n} : r[m] = t[m]
    BY <1>1, <1>2, PutRow
  <2>3. NamesDiffer(r) /\ NoOrphan(r)
    BY <1>1, <1>2, PutKeeps
  <2> HIDE DEF r
  <2> QED BY <2>1, <2>2, <2>3
<1> HIDE DEF r
<1>4. Kept(u)
  BY <1>0, <1>2, <1>3, RowsGrow
<1>5. u.row = r /\ u.default = s.default /\ u.active = s.active /\ u.selected = s.selected
  BY Fields
<1> HIDE DEF u
<1>6. n \in Scope(c)
  BY <1>0 DEF Scope
<1>7. \A m \in Entity : u.row[m].state = "absent" => t[m].state = "absent"
  BY <1>3, <1>5
<1>8. \A m \in Synced \ Scope(c) : u.row[m] = t[m]
  BY <1>3, <1>5, <1>6, SharedPart
<1>9. Step(s, u, c)
  BY <1>0, <1>3, <1>4, <1>5, <1>7, <1>8 DEF Step
<1> QED BY <1>0, <1>9 DEF u, r

LEMMA PartStep ==
  ASSUME NEW s, Kept(s), NEW c \in Changes, c.op = "delete", c.n \notin Workspace
  PROVE  LET t == Deleted(s.row, c.n)
             sel == IF c.n \in Environment THEN NextSelected(s, t, c.n) ELSE s.selected
         IN  Step(s, Stores4(t, s.default, s.active, sel), c)
<1> DEFINE n == c.n
           t == Deleted(s.row, n)
           sel == IF n \in Environment THEN NextSelected(s, t, n) ELSE s.selected
           u == Stores4(t, s.default, s.active, sel)
<1>1. n \in Entity \ Workspace /\ Scope(c) = {n} \cup Below(n) /\ s.row \in Rows
  BY SharedPart, Parts DEF Changes, Scope, Kept
<1>2. /\ Live(t) = Live(s.row) \ ({n} \cup Below(n))
      /\ \A m \in Entity : /\ m \notin {n} \cup Below(n) => t[m] = s.row[m]
                           /\ t[m].state = "absent" <=> s.row[m].state = "absent"
  BY <1>1, DeletedRow
<1>3. /\ Kept(u)
      /\ \A w \in Workspace : sel[w] # s.selected[w] => n \in Environment /\ w = Home[n] /\ s.selected[w] = n
  BY <1>1, PartGone
<1> HIDE DEF t, sel
<1>4. u.row = t /\ u.default = s.default /\ u.active = s.active /\ u.selected = sel
  BY Fields
<1> HIDE DEF u
<1>5. \A m \in Synced \ Scope(c) : u.row[m] = s.row[m]
  BY <1>1, <1>2, <1>4, SharedPart
<1>6. \A m \in Entity : u.row[m].state = "absent" => s.row[m].state = "absent"
  BY <1>2, <1>4
<1>7. \A m \in Live(u.row) : m \in Live(s.row)
  BY <1>2, <1>4
<1>8. \A w \in Workspace : u.selected[w] # s.selected[w] =>
        s.selected[w] \in Environment /\ s.selected[w] \notin Live(u.row) /\ s.selected[w] = n
  BY <1>2, <1>3, <1>4
<1>9. Step(s, u, c)
  BY <1>3, <1>4, <1>5, <1>6, <1>7, <1>8 DEF Step
<1> QED BY <1>9 DEF u, sel, t

\* The delete of the shared workspace, for an active one a that lives on.
LEMMA SharedGone ==
  ASSUME NEW s, Kept(s), NEW c \in Changes, c.op = "delete", c.n = Shared,
         NEW r \in Rows, NEW d \in SUBSET Workspace, NEW a \in Workspace,
         Kept(Stores4(r, d, a, [s.selected EXCEPT ![Shared] = None])),
         Live(r) \cap Synced = {}, \A n \in Entity : r[n].state = "absent" => s.row[n].state = "absent",
         a # s.active => s.active = Shared,
         s.default \subseteq d, \A w \in d \ s.default : s.row[w].state = "absent"
  PROVE  Step(s, Stores4(r, d, a, [s.selected EXCEPT ![Shared] = None]), c)
<1> DEFINE sel == [s.selected EXCEPT ![Shared] = None]
           u == Stores4(r, d, a, sel)
<1>1. Scope(c) = Synced
  BY DEF Scope, Synced
<1>2. s.selected \in [Workspace -> Environment \cup {None}]
  BY Parts DEF Kept
<1>3. ASSUME NEW w \in Workspace, sel[w] # s.selected[w]
      PROVE  w = Shared /\ s.selected[w] \in Environment /\ s.selected[w] \notin Live(r)
  <2>1. w = Shared /\ s.selected[w] # None /\ s.selected[w] \in Environment
    BY <1>2, <1>3
  <2>2. Home[s.selected[w]] = Shared
    BY <2>1 DEF Kept, AtHome
  <2>3. s.selected[w] \in Synced
    BY <2>1, <2>2, SharedPart, Descent, Kinds DEF Synced
  <2> QED BY <2>1, <2>3
<1> HIDE DEF sel
<1>4. u.row = r /\ u.default = d /\ u.active = a /\ u.selected = sel
  BY Fields
<1>5. Kept(u)
  BY DEF sel
<1> HIDE DEF u
<1>6. Shared \notin Live(u.row)
  BY <1>4, SharedPart
<1>7. Step(s, u, c)
  BY <1>1, <1>3, <1>4, <1>5, <1>6 DEF Step
<1> QED BY <1>7 DEF u, sel

LEMMA Written ==
  ASSUME NEW x \in Applied, NEW u \in Store
  PROVE  /\ [x EXCEPT !.s = u] \in Applied /\ [x EXCEPT !.s = u].s = u
         /\ Failed(x) \in Applied /\ Failed(x).s = x.s
<1>1. x.s \in Store /\ x.ok \in BOOLEAN /\ x = [s |-> x.s, ok |-> x.ok]
  BY DEF Applied
<1>2. PICK o : o = x.ok
  OBVIOUS
<1>3. [x EXCEPT !.s = u] = [s |-> u, ok |-> o]
  BY <1>1, <1>2
<1>4. \A v \in Store, g \in BOOLEAN : [s |-> v, ok |-> g] \in Applied /\ [s |-> v, ok |-> g].s = v
  BY DEF Applied
<1>5. o \in BOOLEAN /\ FALSE \in BOOLEAN
  BY <1>1, <1>2
<1> QED BY <1>1, <1>3, <1>4, <1>5 DEF Failed

LEMMA UpsertApplied ==
  ASSUME NEW x \in Applied, Kept(x.s), NEW c \in Changes
  PROVE  ApplyUpsert(x, c) \in Applied /\ Step(x.s, ApplyUpsert(x, c).s, c)
<1>1. x.s \in Store
  BY DEF Kept
<1>2. Failed(x) \in Applied /\ Failed(x).s = x.s /\ Step(x.s, x.s, c)
  BY <1>1, Written, StaysPut
<1>3. ASSUME ~Taken(x.s.row, c.n, c.name), ~Rooted(c.n) => Home[c.n] \in Live(x.s.row),
             ApplyUpsert(x, c) = [x EXCEPT !.s.row = Put(x.s.row, c.n, c.name)]
      PROVE  ApplyUpsert(x, c) \in Applied /\ Step(x.s, ApplyUpsert(x, c).s, c)
  <2> DEFINE s == x.s
             r == Put(s.row, c.n, c.name)
             u == [s EXCEPT !.row = r]
  <2>1. Step(s, Stores4(r, s.default, s.active, s.selected), c)
    BY <1>3, UpsertStep
  <2>2. ApplyUpsert(x, c) = [x EXCEPT !.s = u]
    BY <1>3
  <2>3. r \in Rows
    <3> HIDE DEF r
    <3>1. Kept(Stores4(r, s.default, s.active, s.selected))
      BY <2>1 DEF Step
    <3> QED BY <3>1, Parts, Fields DEF Kept
  <2> HIDE DEF r, s
  <2>4. u \in Store /\ u = Stores4(r, s.default, s.active, s.selected)
    <3>0. s \in Store
      BY <1>1 DEF s
    <3>1. u \in Store
      BY <2>3, <3>0 DEF Store, Rows
    <3>2. u.row = r /\ u.default = s.default /\ u.active = s.active /\ u.selected = s.selected
      BY <3>0 DEF Store
    <3> HIDE DEF u
    <3> QED BY <3>1, <3>2, Parts
  <2> HIDE DEF u
  <2> QED BY <2>1, <2>2, <2>4, Written DEF s
<1>4. CASE ~Rooted(c.n) /\ Home[c.n] \notin Live(x.s.row)
  BY <1>2, <1>4 DEF ApplyUpsert
<1>5. CASE Taken(x.s.row, c.n, c.name) /\ ~(~Rooted(c.n) /\ Home[c.n] \notin Live(x.s.row))
  BY <1>2, <1>5 DEF ApplyUpsert
<1>6. CASE ~Taken(x.s.row, c.n, c.name) /\ ~(~Rooted(c.n) /\ Home[c.n] \notin Live(x.s.row))
  <2>1. ApplyUpsert(x, c) = [x EXCEPT !.s.row = Put(x.s.row, c.n, c.name)]
    BY <1>6 DEF ApplyUpsert
  <2> QED BY <1>3, <1>6, <2>1
<1> QED BY <1>4, <1>5, <1>6

LEMMA PartApplied ==
  ASSUME NEW x \in Applied, Kept(x.s), NEW c \in Changes, c.op = "delete", c.n \notin Workspace
  PROVE  ApplyDelete(x, c) \in Applied /\ Step(x.s, ApplyDelete(x, c).s, c)
<1>1. x.s \in Store
  BY DEF Kept
<1>2. CASE c.n \notin Live(x.s.row)
  BY <1>2, StaysPut DEF ApplyDelete
<1>3. CASE c.n \in Live(x.s.row)
  <2> DEFINE s == x.s
             t == Deleted(s.row, c.n)
             sel == IF c.n \in Environment THEN NextSelected(s, t, c.n) ELSE s.selected
             u == [s EXCEPT !.row = t, !.selected = sel]
  <2>1. Step(s, Stores4(t, s.default, s.active, sel), c)
    BY PartStep
  <2>2. ApplyDelete(x, c) = [x EXCEPT !.s = u]
    BY <1>3 DEF ApplyDelete
  <2> HIDE DEF t, sel, s
  <2>3. t \in Rows /\ sel \in [Workspace -> Environment \cup {None}]
    <3>1. Kept(Stores4(t, s.default, s.active, sel))
      BY <2>1 DEF Step
    <3> QED BY <3>1, Parts, Fields DEF Kept
  <2>4. u \in Store /\ u = Stores4(t, s.default, s.active, sel)
    <3>0. s \in Store
      BY <1>1 DEF s
    <3>1. u \in Store
      BY <2>3, <3>0 DEF Store, Rows
    <3>2. u.row = t /\ u.default = s.default /\ u.active = s.active /\ u.selected = sel
      BY <3>0 DEF Store
    <3> HIDE DEF u
    <3> QED BY <3>1, <3>2, Parts
  <2> HIDE DEF u
  <2> QED BY <2>1, <2>2, <2>4, Written DEF s
<1> QED BY <1>2, <1>3

\* The last workspace goes: a new one takes its place, and nothing else was live.
LEMMA Falls ==
  ASSUME NEW s, Kept(s), Live(Deleted(s.row, Shared)) \cap Workspace = {}, NEW w \in Unused(Deleted(s.row, Shared))
  PROVE  LET t == Deleted(s.row, Shared)
             name == CHOOSE a \in Name : ~Taken(t, w, a)
         IN  /\ name \in Name /\ Put(t, w, name) \in Rows
             /\ Live(Put(t, w, name)) = {w} /\ w \in Workspace /\ w # Shared /\ s.active = Shared
             /\ \A n \in Entity : Put(t, w, name)[n].state = "absent" => s.row[n].state = "absent"
             /\ s.row[w].state = "absent"
             /\ Kept(Stores4(Put(t, w, name), s.default \cup {w}, w, [s.selected EXCEPT ![Shared] = None]))
<1> DEFINE t == Deleted(s.row, Shared)
           name == CHOOSE a \in Name : ~Taken(t, w, a)
           r == Put(t, w, name)
           sel == [s.selected EXCEPT ![Shared] = None]
<1>1. /\ s \in Store /\ s.row \in Rows /\ s.default \in SUBSET Workspace /\ s.active \in Workspace
      /\ s.active \in Live(s.row) /\ NoOrphan(s.row)
      /\ s.selected \in [Workspace -> Environment \cup {None}]
  BY Parts DEF Kept, AtHome
<1>2. Shared \in Entity /\ Shared \in Workspace /\ Below(Shared) \cap Workspace = {}
  BY SharedPart, Kinds, Descent
<1>3. /\ t \in Rows /\ Live(t) = Live(s.row) \ ({Shared} \cup Below(Shared))
      /\ \A n \in Entity : t[n].state = "absent" <=> s.row[n].state = "absent"
  BY <1>1, <1>2, DeletedRow
<1>4. NamesDiffer(t) /\ NoOrphan(t)
  BY <1>1, <1>2, DeletedKeeps DEF Kept
<1>5. w \in Workspace /\ w \in Entity /\ t[w].state = "absent"
  BY Kinds DEF Unused
<1>6. Live(t) = {}
  <2>1. Live(t) \cap Workspace = {}
    OBVIOUS
  <2> HIDE DEF t
  <2> SUFFICES ASSUME NEW n \in Live(t) PROVE FALSE
    OBVIOUS
  <2>2. n \in Entity \ Workspace /\ Home[n] \in Live(t)
    BY <1>4, <2>1 DEF NoOrphan, Live
  <2>3. Home[n] \in Environment /\ Home[n] \in Entity \ Workspace /\ Home[Home[n]] \in Workspace
    BY <2>1, <2>2, Kinds
  <2> QED BY <1>4, <2>1, <2>2, <2>3 DEF NoOrphan
<1>7. s.active = Shared
  <2> HIDE DEF t
  <2> QED BY <1>1, <1>2, <1>3, <1>6
<1>8. w # Shared
  BY <1>1, <1>3, <1>5, <1>7 DEF Live
<1>9. name \in Name /\ ~Taken(t, w, name)
  <2>1. \A a : ~Taken(t, w, a)
    <3> HIDE DEF t
    <3> QED BY <1>6 DEF Taken
  <2>2. t[w].name \in Name
    <3> HIDE DEF t
    <3> QED BY <1>3, <1>5 DEF Rows, Row
  <2> HIDE DEF t
  <2>3. \E a \in Name : ~Taken(t, w, a)
    BY <2>1, <2>2
  <2> QED BY <2>3
<1> HIDE DEF t, name
<1>10. Rooted(w)
  BY <1>5 DEF Rooted
<1>11. r \in Rows /\ Live(r) = {w} /\ \A n \in Entity \ {w} : r[n] = t[n]
  <2>1. /\ r \in Rows /\ Live(r) = Live(t) \cup {w} /\ r[w] = [state |-> "live", name |-> name]
        /\ \A n \in Entity \ {w} : r[n] = t[n]
    BY <1>3, <1>5, <1>9, PutRow
  <2> HIDE DEF r
  <2> QED BY <1>6, <2>1
<1>12. NamesDiffer(r) /\ NoOrphan(r)
  BY <1>3, <1>4, <1>5, <1>9, <1>10, PutKeeps
<1> HIDE DEF r
<1>13. \A n \in Entity : r[n].state = "absent" => s.row[n].state = "absent"
  BY <1>3, <1>5, <1>11
<1>14. s.row[w].state = "absent"
  BY <1>3, <1>5
<1>15. sel \in [Workspace -> Environment \cup {None}]
  BY <1>1, <1>2
<1>16. ASSUME NEW v \in Workspace PROVE sel[v] = None
  <2> SUFFICES ASSUME s.selected[v] # None, v # Shared PROVE FALSE
    BY <1>1, <1>2
  <2>1. s.selected[v] \in Environment /\ s.selected[v] \in Live(s.row) /\ Home[s.selected[v]] = v
    BY <1>1 DEF Kept, AtHome
  <2>2. v \in Live(s.row)
    BY <1>1, <2>1, Kinds DEF NoOrphan
  <2>3. v \notin Below(Shared)
    BY <1>2
  <2> QED BY <1>3, <1>6, <2>2, <2>3
<1> HIDE DEF sel
<1>17. Kept(Stores4(r, s.default \cup {w}, w, sel))
  BY <1>1, <1>5, <1>11, <1>12, <1>15, <1>16, FromParts
<1> QED BY <1>5, <1>7, <1>8, <1>9, <1>11, <1>13, <1>14, <1>17 DEF sel, r, name, t

LEMMA WorkspaceApplied ==
  ASSUME NEW x \in Applied, Kept(x.s), NEW c \in Changes, c.op = "delete", c.n \in Workspace
  PROVE  ApplyWorkspaceDelete(x, c) \in Applied /\ Step(x.s, ApplyWorkspaceDelete(x, c).s, c)
<1> DEFINE s == x.s
           t == Deleted(s.row, Shared)
           sel == [s.selected EXCEPT ![Shared] = None]
           gone == [x EXCEPT !.s = [s EXCEPT !.row = t, !.selected = sel]]
<1>1. c.n = Shared /\ Shared \in Workspace /\ Shared \in Entity
  BY SharedPart, Kinds DEF Changes
<1>2. /\ s \in Store /\ s.row \in Rows /\ s.default \in SUBSET Workspace /\ s.active \in Workspace
      /\ s.active \in Live(s.row) /\ NoOrphan(s.row)
      /\ s.selected \in [Workspace -> Environment \cup {None}]
  BY Parts DEF Kept, AtHome
<1>3. /\ t \in Rows /\ Live(t) = Live(s.row) \ ({Shared} \cup Below(Shared))
      /\ \A n \in Entity : t[n].state = "absent" <=> s.row[n].state = "absent"
  BY <1>1, <1>2, DeletedRow
<1>4. sel \in [Workspace -> Environment \cup {None}]
  BY <1>1, <1>2
<1>5. Live(t) \cap Synced = {}
  <2> HIDE DEF t
  <2> QED BY <1>3 DEF Synced
<1>6. ApplyWorkspaceDelete(x, c) =
        IF Shared \notin Live(s.row) THEN gone
        ELSE IF Live(t) \cap Workspace # {} THEN [gone EXCEPT !.s.active = NextActive(s, t, Shared)]
        ELSE IF Unused(t) # {} THEN WithFallback(gone) ELSE Failed(x)
  BY <1>1 DEF ApplyWorkspaceDelete
<1> DEFINE bare == [s EXCEPT !.row = t, !.selected = sel]
<1>7. bare \in Store /\ bare = Stores4(t, s.default, s.active, sel)
  <2> HIDE DEF t, sel, s
  <2>1. bare \in Store
    BY <1>2, <1>3, <1>4 DEF Store, Rows
  <2>2. bare.row = t /\ bare.default = s.default /\ bare.active = s.active /\ bare.selected = sel
    BY <1>2 DEF Store
  <2> HIDE DEF bare
  <2> QED BY <2>1, <2>2, Parts
<1>8. gone \in Applied /\ gone.s = bare
  <2> HIDE DEF bare
  <2>1. gone = [x EXCEPT !.s = bare]
    BY DEF bare
  <2> HIDE DEF gone
  <2> QED BY <1>7, <2>1, Written
<1>9. CASE Shared \notin Live(s.row)
  <2>1. s.active \in Live(t) \cap Workspace
    <3>1. s.active # Shared /\ s.active \notin Below(Shared)
      BY <1>1, <1>2, <1>9, Descent
    <3> HIDE DEF t
    <3> QED BY <1>2, <1>3, <3>1
  <2>2. Kept(Stores4(t, s.default, s.active, sel))
    BY <1>1, <2>1, WorkspaceGone
  <2> HIDE DEF t
  <2>3. Step(s, Stores4(t, s.default, s.active, sel), c)
    BY <1>1, <1>2, <1>3, <1>5, <2>2, SharedGone
  <2> HIDE DEF gone, bare, sel, s
  <2> QED BY <1>6, <1>7, <1>8, <1>9, <2>3 DEF s
<1>10. CASE Shared \in Live(s.row) /\ Live(t) \cap Workspace # {}
  <2> DEFINE a == NextActive(s, t, Shared)
             u == [bare EXCEPT !.active = a]
  <2>1. a \in Live(t) \cap Workspace /\ (a # s.active => s.active = Shared)
    BY <1>1, <1>10, HandsOver
  <2>2. Kept(Stores4(t, s.default, a, sel))
    BY <1>1, <2>1, WorkspaceGone
  <2> HIDE DEF t, a
  <2>3. Step(s, Stores4(t, s.default, a, sel), c)
    BY <1>1, <1>2, <1>3, <1>5, <2>1, <2>2, SharedGone
  <2> HIDE DEF sel, s, bare
  <2>4. u \in Store /\ u = Stores4(t, s.default, a, sel)
    <3>1. u \in Store
      BY <1>7, <2>1 DEF Store
    <3>2. u.row = t /\ u.default = s.default /\ u.active = a /\ u.selected = sel
      BY <1>7, Fields DEF Store
    <3> HIDE DEF u
    <3> QED BY <3>1, <3>2, Parts
  <2> HIDE DEF gone
  <2>5. ApplyWorkspaceDelete(x, c) = [gone EXCEPT !.s = u]
    <3>1. ApplyWorkspaceDelete(x, c) = [gone EXCEPT !.s.active = a]
      BY <1>6, <1>10 DEF a
    <3> QED BY <1>8, <3>1
  <2> HIDE DEF u
  <2> QED BY <1>8, <2>3, <2>4, <2>5, Written DEF s
<1>11. CASE Shared \in Live(s.row) /\ Live(t) \cap Workspace = {} /\ Unused(t) # {}
  <2> DEFINE w == First(Unused(t))
             name == CHOOSE a \in Name : ~Taken(t, w, a)
             r == Put(t, w, name)
             d == s.default \cup {w}
             u == [bare EXCEPT !.row = r, !.default = d, !.active = w]
  <2>1. w \in Unused(t)
    <3>1. Unused(t) \in SUBSET Entity
      BY Kinds DEF Unused
    <3> HIDE DEF t
    <3> QED BY <1>11, <3>1, FirstOf
  <2>2. WithFallback(gone) = [gone EXCEPT !.s = u]
    <3>1. gone.s.row = t /\ gone.s = bare
      <4> HIDE DEF gone, bare, t, sel, s
      <4> QED BY <1>7, <1>8, Fields
    <3>2. bare.default = s.default
      <4> HIDE DEF gone, bare, t, sel, s
      <4> QED BY <1>7, Fields
    <3>3. WithFallback(gone) = [gone EXCEPT !.s = [gone.s EXCEPT
             !.row = Put(gone.s.row, First(Unused(gone.s.row)), CHOOSE a \in Name : ~Taken(gone.s.row, First(Unused(gone.s.row)), a)),
             !.default = gone.s.default \cup {First(Unused(gone.s.row))},
             !.active = First(Unused(gone.s.row))]]
      <4> HIDE DEF gone, bare, t, sel, s
      <4> QED BY DEF WithFallback
    <3> HIDE DEF gone, bare, t, sel, s
    <3> QED BY <3>1, <3>2, <3>3
  <2> HIDE DEF w
  <2>3. /\ r \in Rows /\ Live(r) = {w} /\ w \in Workspace /\ w # Shared /\ s.active = Shared
        /\ \A n \in Entity : r[n].state = "absent" => s.row[n].state = "absent"
        /\ s.row[w].state = "absent"
        /\ Kept(Stores4(r, d, w, sel))
    <3>1. Kept(s)
      OBVIOUS
    <3> HIDE DEF s
    <3> QED BY <1>11, <2>1, <3>1, Falls
  <2> HIDE DEF t, r, sel
  <2>4. w \notin Synced /\ d \in SUBSET Workspace
    BY <1>2, <2>3, SharedPart
  <2>5. Step(s, Stores4(r, d, w, sel), c)
    <3> DEFINE ss == [s.selected EXCEPT ![Shared] = None]
    <3>1. Kept(Stores4(r, d, w, ss))
      BY <2>3 DEF sel
    <3>2. Live(r) \cap Synced = {} /\ (w # s.active => s.active = Shared)
          /\ s.default \subseteq d /\ \A v \in d \ s.default : s.row[v].state = "absent"
      BY <2>3, <2>4
    <3> HIDE DEF d
    <3>3. Step(s, Stores4(r, d, w, ss), c)
      BY <1>1, <1>2, <2>3, <2>4, <3>1, <3>2, SharedGone
    <3> QED BY <3>3 DEF sel
  <2> HIDE DEF s, bare
  <2>6. u \in Store /\ u = Stores4(r, d, w, sel)
    <3> HIDE DEF d
    <3>1. u \in Store
      BY <1>7, <2>3, <2>4 DEF Store, Rows
    <3>2. u.row = r /\ u.default = d /\ u.active = w /\ u.selected = sel
      BY <1>7, Fields DEF Store
    <3> HIDE DEF u
    <3> QED BY <3>1, <3>2, Parts
  <2> HIDE DEF gone, u, d
  <2> QED BY <1>6, <1>8, <1>11, <2>2, <2>5, <2>6, Written DEF s
<1>12. CASE Shared \in Live(s.row) /\ Live(t) \cap Workspace = {} /\ Unused(t) = {}
  <2>1. ApplyWorkspaceDelete(x, c) = Failed(x)
    <3> HIDE DEF gone, t
    <3> QED BY <1>6, <1>12
  <2> QED BY <1>2, <2>1, Written, StaysPut
<1> HIDE DEF t, s
<1> QED BY <1>9, <1>10, <1>11, <1>12

LEMMA OneStep ==
  ASSUME NEW x \in Applied, Kept(x.s), NEW c \in Changes
  PROVE  ApplyOne(x, c) \in Applied /\ Step(x.s, ApplyOne(x, c).s, c)
<1>1. c.op = "upsert" \/ c.op = "delete"
  BY DEF Changes
<1> QED BY <1>1, UpsertApplied, PartApplied, WorkspaceApplied DEF ApplyOne, Rooted

-----------------------------------------------------------------------------
(* A page: what it may have made of the store after the changes of D. *)

\* Positions whose change meets no intent, one for each entity.
PageOK(page) ==
  /\ page \subseteq 1..Len(log)
  /\ \A i \in page : Scope(log[i]) \cap queued = {}
  /\ \A i, j \in page : log[i].n = log[j].n => i = j
Settled(n, D) == \E j \in D : log[j].n = n
Follows(s, D) ==
  /\ Kept(s)
  /\ \A n \in queued : s.row[n] = store.row[n]
  /\ \A n \in Entity : s.row[n].state = "absent" => store.row[n].state = "absent"
  /\ s.active # store.active => store.active = Shared /\ Shared \notin Live(s.row) /\ Settled(Shared, D)
  /\ store.default \subseteq s.default /\ \A w \in s.default \ store.default : store.row[w].state = "absent"
  /\ \A w \in Workspace : s.selected[w] # store.selected[w] =>
       /\ store.selected[w] \in Environment /\ store.selected[w] \notin Live(s.row)
       /\ \/ Settled(store.selected[w], D)
          \/ Home[store.selected[w]] = Shared /\ Shared \notin Live(s.row) /\ Settled(Shared, D)

LEMMA StepFollows ==
  ASSUME Inv, NEW page, PageOK(page), NEW D \in SUBSET page, NEW i \in page \ D,
         NEW s, Follows(s, D), NEW u, Step(s, u, log[i])
  PROVE  Follows(u, D \cup {i})
<1> DEFINE c == log[i]
           E == D \cup {i}
<1>1. c \in Changes /\ \A j \in page : log[j] \in Changes
  BY Shape DEF PageOK
<1>2. Kept(s) /\ Kept(u) /\ NoOrphan(u.row) /\ queued \subseteq Synced
  BY Shape DEF Follows, Step, Kept
<1>3. c.n \in Scope(c) /\ Scope(c) \cap queued = {}
  BY DEF PageOK, Scope
<1>4. \A n : Settled(n, E) <=> Settled(n, D) \/ n = c.n
  BY DEF Settled
<1>5. \A n : Settled(n, D) => n # c.n /\ n \in Synced
  BY <1>1 DEF Settled, PageOK, Changes
<1>6. \A n : Settled(n, D) /\ n \notin Live(s.row) => n \notin Live(u.row)
  BY <1>5 DEF Step
<1> HIDE DEF E
<1>7. \A n \in queued : u.row[n] = store.row[n]
  <2>1. \A n \in Synced \ Scope(c) : u.row[n] = s.row[n]
    BY DEF Step
  <2>2. \A n \in queued : s.row[n] = store.row[n]
    BY DEF Follows
  <2> HIDE DEF c
  <2> QED BY <1>2, <1>3, <2>1, <2>2
<1>8. \A n \in Entity : u.row[n].state = "absent" => store.row[n].state = "absent"
  BY DEF Step, Follows
<1>9. u.active # store.active => store.active = Shared /\ Shared \notin Live(u.row) /\ Settled(Shared, E)
  <2>1. u.active # s.active => s.active = Shared /\ c.n = Shared /\ Shared \notin Live(u.row)
    BY DEF Step
  <2>2. s.active # store.active => store.active = Shared /\ Shared \notin Live(s.row) /\ Settled(Shared, D)
    BY DEF Follows
  <2> HIDE DEF c
  <2> QED BY <1>4, <1>6, <2>1, <2>2
<1>10. store.default \subseteq u.default /\ \A w \in u.default \ store.default : store.row[w].state = "absent"
  <2>1. s.default \subseteq u.default /\ \A w \in u.default \ s.default : s.row[w].state = "absent"
    BY DEF Step
  <2>2. store.default \subseteq s.default /\ \A w \in s.default \ store.default : store.row[w].state = "absent"
    BY DEF Follows
  <2>3. \A w \in u.default : w \in Entity
    BY <1>2, Parts, Kinds DEF Kept
  <2>4. \A n \in Entity : s.row[n].state = "absent" => store.row[n].state = "absent"
    BY DEF Follows
  <2> QED BY <2>1, <2>2, <2>3, <2>4
<1>11. ASSUME NEW w \in Workspace, u.selected[w] # store.selected[w]
       PROVE  /\ store.selected[w] \in Environment /\ store.selected[w] \notin Live(u.row)
              /\ \/ Settled(store.selected[w], E)
                 \/ Home[store.selected[w]] = Shared /\ Shared \notin Live(u.row) /\ Settled(Shared, E)
  <2> DEFINE e == store.selected[w]
  <2>1. CASE s.selected[w] # e
    <3>1. /\ e \in Environment /\ e \notin Live(s.row)
          /\ \/ Settled(e, D)
             \/ Home[e] = Shared /\ Shared \notin Live(s.row) /\ Settled(Shared, D)
      BY <2>1 DEF Follows
    <3> HIDE DEF e, c
    <3>2. CASE Settled(e, D)
      BY <1>4, <1>6, <3>1, <3>2 DEF e
    <3>3. CASE Home[e] = Shared /\ Shared \notin Live(s.row) /\ Settled(Shared, D)
      <4>1. Shared \notin Live(u.row) /\ Settled(Shared, E)
        BY <1>4, <1>6, <3>3
      <4>2. e \notin Live(u.row)
        BY <1>2, <3>1, <3>3, <4>1, Kinds DEF NoOrphan
      <4> QED BY <3>1, <3>3, <4>1, <4>2 DEF e
    <3> QED BY <3>1, <3>2, <3>3
  <2>2. CASE s.selected[w] = e
    <3>1. /\ e \in Environment /\ e \notin Live(u.row)
          /\ e = c.n \/ (w = Shared /\ c.n = Shared /\ Shared \notin Live(u.row))
      BY <1>11, <2>2 DEF Step
    <3>2. Home[e] = w
      BY <1>2, <2>2, <3>1, Kinds DEF Kept, AtHome
    <3> HIDE DEF e, c
    <3> QED BY <1>4, <3>1, <3>2 DEF e
  <2> QED BY <2>1, <2>2
<1>12. Follows(u, E)
  BY <1>2, <1>7, <1>8, <1>9, <1>10, <1>11 DEF Follows
<1> QED BY <1>12 DEF E

\* Numbers 0..N are in T if 0 is and each is when the one before is.
LEMMA Upward ==
  ASSUME NEW N \in Nat, NEW T, 0 \in T, \A i \in 1..N : i - 1 \in T => i \in T
  PROVE  \A i \in 0..N : i \in T
<1> DEFINE Out == {i \in 0..N : i \notin T}
<1>1. SUFFICES ASSUME Out # {} PROVE FALSE
  OBVIOUS
<1>2. Out \subseteq Nat
  OBVIOUS
<1>3. PICK m \in Out : \A k \in Out : m <= k
  <2> HIDE DEF Out
  <2> QED BY <1>1, <1>2, Least
<1>4. m \in 1..N /\ m - 1 \in 0..N /\ m - 1 \notin Out
  BY <1>3
<1> QED BY <1>3, <1>4

\* What the changes of D have made of the store, if none failed.
Reached(s, D) ==
  /\ \A n \in Synced : ~Settled(n, D) =>
       \/ s.row[n] = store.row[n]
       \/ n \notin Live(s.row) /\ \E j \in D : log[j].op = "delete" /\ n \in Below(log[j].n)
  /\ \A j \in D : log[j].op = "delete" => log[j].n \notin Live(s.row)
  /\ \A j \in D : log[j].op = "upsert" =>
       \/ log[j].n \in Live(s.row) /\ s.row[log[j].n].name = log[j].name
       \/ ~Rooted(log[j].n) /\ Home[log[j].n] \notin Live(s.row)

\* What the apply of c leaves of c.n, if it does not fail.
Effect(u, c) ==
  /\ c.op = "delete" => c.n \notin Live(u.row)
  /\ c.op = "upsert" => \/ c.n \in Live(u.row) /\ u.row[c.n].name = c.name
                        \/ ~Rooted(c.n) /\ Home[c.n] \notin Live(u.row)

LEMMA Remade ==
  ASSUME NEW x \in Applied, NEW u \in Store
  PROVE  [x EXCEPT !.s = u].s = u /\ [x EXCEPT !.s = u].ok = x.ok /\ Failed(x).ok = FALSE
BY DEF Applied, Failed

LEMMA Upserted ==
  ASSUME NEW s \in Store, NEW n \in Entity, NEW name \in Name
  PROVE  LET u == [s EXCEPT !.row = Put(s.row, n, name)]
         IN  u \in Store /\ n \in Live(u.row) /\ u.row[n].name = name
<1> DEFINE r == Put(s.row, n, name)
           u == [s EXCEPT !.row = r]
<1>1. s.row \in Rows
  BY Parts
<1>2. r \in Rows /\ Live(r) = Live(s.row) \cup {n}
  BY <1>1, PutRow
<1>3. r[n].name = name
  BY <1>1, PutRow
<1> HIDE DEF r
<1>4. u \in Store /\ u.row = r
  BY <1>2 DEF Store, Rows
<1> HIDE DEF u
<1>5. u \in Store /\ n \in Live(u.row) /\ u.row[n].name = name
  BY <1>2, <1>3, <1>4
<1> QED BY <1>5 DEF u, r

LEMMA UpsertEffect ==
  ASSUME NEW x \in Applied, NEW c \in Changes, ApplyUpsert(x, c).ok
  PROVE  /\ x.ok
         /\ \/ c.n \in Live(ApplyUpsert(x, c).s.row) /\ ApplyUpsert(x, c).s.row[c.n].name = c.name
            \/ ~Rooted(c.n) /\ Home[c.n] \notin Live(ApplyUpsert(x, c).s.row)
<1>1. c.n \in Entity /\ c.name \in Name /\ x.s \in Store
  BY SharedPart DEF Changes, Applied
<1>2. CASE ~Rooted(c.n) /\ Home[c.n] \notin Live(x.s.row)
  BY <1>2 DEF ApplyUpsert
<1>3. CASE Taken(x.s.row, c.n, c.name) /\ ~(~Rooted(c.n) /\ Home[c.n] \notin Live(x.s.row))
  <2>1. ApplyUpsert(x, c) = Failed(x)
    BY <1>3 DEF ApplyUpsert
  <2> QED BY <1>1, <2>1, Remade
<1>4. CASE ~Taken(x.s.row, c.n, c.name) /\ ~(~Rooted(c.n) /\ Home[c.n] \notin Live(x.s.row))
  <2> DEFINE u == [x.s EXCEPT !.row = Put(x.s.row, c.n, c.name)]
  <2>1. ApplyUpsert(x, c) = [x EXCEPT !.s = u]
    BY <1>4 DEF ApplyUpsert
  <2>2. u \in Store /\ c.n \in Live(u.row) /\ u.row[c.n].name = c.name
    BY <1>1, Upserted
  <2> HIDE DEF u
  <2>3. ApplyUpsert(x, c).s = u /\ ApplyUpsert(x, c).ok = x.ok
    BY <2>1 DEF Applied
  <2> QED BY <2>2, <2>3
<1> QED BY <1>2, <1>3, <1>4

LEMMA PartEffect ==
  ASSUME NEW x \in Applied, NEW c \in Changes, ApplyDelete(x, c).ok
  PROVE  x.ok /\ c.n \notin Live(ApplyDelete(x, c).s.row)
<1>1. c.n \in Entity /\ x.s \in Store /\ x.s.row \in Rows
  BY SharedPart, Parts DEF Changes, Applied
<1>2. CASE c.n \notin Live(x.s.row)
  BY <1>2 DEF ApplyDelete
<1>3. CASE c.n \in Live(x.s.row)
  <2> DEFINE s == x.s
             t == Deleted(s.row, c.n)
             sel == IF c.n \in Environment THEN NextSelected(s, t, c.n) ELSE s.selected
             u == [s EXCEPT !.row = t, !.selected = sel]
  <2>1. ApplyDelete(x, c) = [x EXCEPT !.s = u]
    BY <1>3 DEF ApplyDelete
  <2>2. c.n \notin Live(t)
    BY <1>1, DeletedRow
  <2> HIDE DEF t, sel
  <2>3. u.row = t
    BY <1>1 DEF Store
  <2> HIDE DEF u
  <2>4. ApplyDelete(x, c).s = u /\ ApplyDelete(x, c).ok = x.ok
    BY <2>1 DEF Applied
  <2> QED BY <2>2, <2>3, <2>4
<1> QED BY <1>2, <1>3

LEMMA WorkspaceEffect ==
  ASSUME NEW x \in Applied, NEW c \in Changes, c.n \in Workspace, ApplyWorkspaceDelete(x, c).ok
  PROVE  x.ok /\ c.n \notin Live(ApplyWorkspaceDelete(x, c).s.row)
<1> DEFINE s == x.s
           t == Deleted(s.row, c.n)
           sel == [s.selected EXCEPT ![c.n] = None]
           bare == [s EXCEPT !.row = t, !.selected = sel]
           gone == [x EXCEPT !.s = bare]
<1>1. c.n \in Entity /\ s \in Store /\ s.row \in Rows
  BY SharedPart, Parts DEF Changes, Applied
<1>2. /\ t \in Rows /\ c.n \notin Live(t)
      /\ \A n \in Entity : t[n].state = "absent" <=> s.row[n].state = "absent"
  BY <1>1, DeletedRow
<1>3. ApplyWorkspaceDelete(x, c) =
        IF c.n \notin Live(s.row) THEN gone
        ELSE IF Live(t) \cap Workspace # {} THEN [gone EXCEPT !.s.active = NextActive(s, t, c.n)]
        ELSE IF Unused(t) # {} THEN WithFallback(gone) ELSE Failed(x)
  BY DEF ApplyWorkspaceDelete
<1> HIDE DEF t, sel, s
<1>4. bare.row = t
  BY <1>1 DEF Store
<1>5. gone.s = bare /\ gone.ok = x.ok
  <2> HIDE DEF bare
  <2> QED BY DEF Applied
<1>6. CASE c.n \notin Live(s.row)
  <2> HIDE DEF gone, bare
  <2> QED BY <1>2, <1>3, <1>4, <1>5, <1>6
<1>7. CASE c.n \in Live(s.row) /\ Live(t) \cap Workspace # {}
  <2> DEFINE a == NextActive(s, t, c.n)
             y == [gone EXCEPT !.s.active = a]
  <2>1. ApplyWorkspaceDelete(x, c) = y
    BY <1>3, <1>7
  <2> HIDE DEF a, gone, bare
  <2>2. y.ok = x.ok /\ y.s.row = t
    <3> DEFINE u == [bare EXCEPT !.active = a]
    <3>1. y = [gone EXCEPT !.s = u]
      BY <1>5
    <3>2. u.row = t
      BY <1>1 DEF bare, Store
    <3> HIDE DEF y, u
    <3>3. y.s = u /\ y.ok = x.ok
      BY <3>1 DEF gone, Applied
    <3> QED BY <3>2, <3>3
  <2> HIDE DEF y
  <2> QED BY <1>2, <2>1, <2>2
<1>8. CASE c.n \in Live(s.row) /\ Live(t) \cap Workspace = {} /\ Unused(t) # {}
  <2> DEFINE w == First(Unused(t))
             name == CHOOSE a \in Name : ~Taken(t, w, a)
             r == Put(t, w, name)
  <2>1. w \in Unused(t) /\ w \in Entity
    <3>1. Unused(t) \in SUBSET Entity
      BY Kinds DEF Unused
    <3>2. w \in Unused(t)
      BY <1>8, <3>1, FirstOf
    <3> QED BY <3>1, <3>2
  <2>2. ApplyWorkspaceDelete(x, c) = WithFallback(gone)
    BY <1>3, <1>8
  <2> HIDE DEF w, name
  <2>3. WithFallback(gone).ok = x.ok /\ WithFallback(gone).s.row = r
    <3> HIDE DEF gone, bare, r
    <3> DEFINE d == bare.default \cup {w}
               u == [bare EXCEPT !.row = r, !.default = d, !.active = w]
    <3>1. WithFallback(gone) = [gone EXCEPT !.s = u]
      BY <1>4, <1>5 DEF WithFallback, w, name, r
    <3> HIDE DEF d
    <3>2. u.row = r
      BY <1>1 DEF bare, Store
    <3> HIDE DEF u
    <3>3. WithFallback(gone).s = u /\ WithFallback(gone).ok = x.ok
      BY <3>1 DEF gone, Applied
    <3> QED BY <3>2, <3>3
  <2>4. w # c.n
    <3>1. t[w].state = "absent"
      BY <2>1 DEF Unused
    <3> QED BY <1>2, <1>8, <2>1, <3>1 DEF Live
  <2>5. c.n \notin Live(r)
    <3>1. r[c.n] = t[c.n]
      BY <1>1, <2>4 DEF Put, r, Rows
    <3> QED BY <1>2, <3>1 DEF Live
  <2> HIDE DEF r, gone
  <2> QED BY <2>2, <2>3, <2>5
<1>9. CASE c.n \in Live(s.row) /\ Live(t) \cap Workspace = {} /\ Unused(t) = {}
  <2>1. ApplyWorkspaceDelete(x, c) = Failed(x)
    <3> HIDE DEF gone
    <3> QED BY <1>3, <1>9
  <2> QED BY <2>1 DEF Failed
<1> HIDE DEF gone
<1> QED BY <1>6, <1>7, <1>8, <1>9

LEMMA OneEffect ==
  ASSUME NEW x \in Applied, NEW c \in Changes, ApplyOne(x, c).ok
  PROVE  x.ok /\ Effect(ApplyOne(x, c).s, c)
<1>1. CASE c.op = "upsert"
  BY <1>1, UpsertEffect DEF ApplyOne, Effect
<1>2. CASE c.op = "delete" /\ Rooted(c.n)
  BY <1>2, WorkspaceEffect DEF ApplyOne, Effect, Rooted
<1>3. CASE c.op = "delete" /\ ~Rooted(c.n)
  BY <1>3, PartEffect DEF ApplyOne, Effect
<1> QED BY <1>1, <1>2, <1>3 DEF Changes

LEMMA UnderDead ==
  ASSUME NEW t, NoOrphan(t), NEW a \in Entity, a \notin Live(t)
  PROVE  \A n \in Below(a) : n \notin Live(t)
<1> SUFFICES ASSUME NEW n \in Below(a), n \in Live(t) PROVE FALSE
  OBVIOUS
<1>1. n \in Entity \ Workspace /\ (Home[n] = a \/ (n \in EnvVariable /\ Home[Home[n]] = a))
  BY DEF Below
<1>2. Home[n] \in Live(t) /\ Home[n] # a
  BY <1>1 DEF NoOrphan
<1>3. Home[n] \in Environment /\ Home[n] \notin Workspace /\ Home[Home[n]] = a
  BY <1>1, <1>2, Kinds
<1>4. Home[Home[n]] \in Live(t)
  BY <1>2, <1>3 DEF NoOrphan
<1> QED BY <1>3, <1>4

LEMMA StepReaches ==
  ASSUME Inv, NEW page, PageOK(page), NEW D \in SUBSET page, NEW i \in page \ D,
         NEW s, Reached(s, D), NEW u, Step(s, u, log[i]), Effect(u, log[i]),
         \A j \in D : log[j].n \notin Below(log[i].n)
  PROVE  Reached(u, D \cup {i})
<1> DEFINE E == D \cup {i}
<1>0. PICK c : c = log[i]
  OBVIOUS
<1>1. c \in Changes /\ \A j \in page : log[j] \in Changes
  BY <1>0, Shape DEF PageOK
<1>2. NoOrphan(u.row) /\ c.n \in Entity /\ c.n \in Synced
  BY <1>0, <1>1, SharedPart DEF Step, Kept, Changes
<1>3. \A j \in D : log[j].n # c.n /\ log[j].n \in Synced
  BY <1>0, <1>1 DEF PageOK, Changes
<1>4. /\ \A n \in Synced \ Scope(c) : u.row[n] = s.row[n]
      /\ \A n \in Live(u.row) \cap Synced : n \in Live(s.row) \/ n = c.n
  BY <1>0 DEF Step
<1>5. Scope(c) \subseteq {c.n} \cup Below(c.n) /\ (c.op # "delete" => Scope(c) = {c.n})
  BY DEF Scope
<1>6. \A n : Settled(n, E) <=> Settled(n, D) \/ n = c.n
  BY <1>0 DEF Settled
<1>7. ASSUME NEW n \in Synced, ~Settled(n, E)
      PROVE  \/ u.row[n] = store.row[n]
             \/ n \notin Live(u.row) /\ \E j \in E : log[j].op = "delete" /\ n \in Below(log[j].n)
  <2>1. ~Settled(n, D) /\ n # c.n
    BY <1>6, <1>7
  <2>2. CASE n \in Scope(c)
    <3>1. c.op = "delete" /\ n \in Below(c.n)
      BY <1>5, <2>1, <2>2
    <3>2. c.n \notin Live(u.row)
      BY <1>0, <3>1 DEF Effect
    <3>3. n \notin Live(u.row)
      BY <1>2, <3>1, <3>2, UnderDead
    <3> QED BY <1>0, <3>1, <3>3
  <2>3. CASE n \notin Scope(c)
    <3>1. u.row[n] = s.row[n] /\ (n \in Live(u.row) => n \in Live(s.row))
      BY <1>4, <2>1, <2>3
    <3>2. \/ s.row[n] = store.row[n]
          \/ n \notin Live(s.row) /\ \E j \in D : log[j].op = "delete" /\ n \in Below(log[j].n)
      BY <2>1 DEF Reached
    <3> QED BY <3>1, <3>2
  <2> QED BY <2>2, <2>3
<1>8. ASSUME NEW j \in E, log[j].op = "delete" PROVE log[j].n \notin Live(u.row)
  <2>1. CASE j = i
    BY <1>0, <1>8, <2>1 DEF Effect
  <2>2. CASE j \in D
    BY <1>3, <1>4, <1>8, <2>2 DEF Reached
  <2> QED BY <2>1, <2>2
<1>9. ASSUME NEW j \in E, log[j].op = "upsert"
      PROVE  \/ log[j].n \in Live(u.row) /\ u.row[log[j].n].name = log[j].name
             \/ ~Rooted(log[j].n) /\ Home[log[j].n] \notin Live(u.row)
  <2>1. CASE j = i
    BY <1>0, <1>9, <2>1 DEF Effect
  <2>2. CASE j \in D
    <3>0. PICK n, name : n = log[j].n /\ name = log[j].name
      OBVIOUS
    <3>1. n \in Synced /\ n # c.n /\ n \notin Below(c.n) /\ n \in Entity
      BY <1>0, <1>3, <2>2, <3>0, SharedPart
    <3>2. u.row[n] = s.row[n]
      BY <1>4, <1>5, <3>1
    <3>3. CASE n \in Live(s.row) /\ s.row[n].name = name
      BY <3>0, <3>1, <3>2, <3>3 DEF Live
    <3>4. CASE ~Rooted(n) /\ Home[n] \notin Live(s.row)
      <4>1. n \in Entity \ Workspace /\ Home[n] # c.n
        BY <1>2, <3>1, <3>4, Descent DEF Rooted
      <4>2. Home[n] \in Synced
        BY <3>1, <4>1, SharedPart, Kinds DEF Synced, Below
      <4> QED BY <1>4, <3>0, <3>4, <4>1, <4>2
    <3> QED BY <1>9, <2>2, <3>0, <3>3, <3>4 DEF Reached
  <2> QED BY <2>1, <2>2
<1>10. Reached(u, E)
  BY <1>7, <1>8, <1>9 DEF Reached
<1> QED BY <1>10

\* Nothing below an entity of this kind has been taken before it.
Ordered(page, D, kind) == \A i \in page, j \in page :
  log[i].n \in kind /\ (j \in D \/ log[j].n \in kind) => log[j].n \notin Below(log[i].n)

LEMMA Homeward == \A n \in Synced \ Workspace : Home[n] \in Synced
BY SharedPart, Kinds DEF Synced, Below

\* What the changes of D may have made of the store, and what they made if none failed.
Led(x, D) == x \in Applied /\ Follows(x.s, D) /\ (x.ok => Reached(x.s, D))

\* One pass over the changes of a kind.
LEMMA PassLeads ==
  ASSUME Inv, NEW page, PageOK(page), NEW kind, NEW D \in SUBSET page,
         NEW x, Led(x, D), \A j \in D : log[j].n \notin kind, Ordered(page, D, kind)
  PROVE  Led(Pass(x, page, kind), D \cup {j \in page : log[j].n \in kind})
<1> DEFINE N == Len(log)
           Takes(i) == i \in page /\ log[i].n \in kind
           S == {y \in Applied : Kept(y.s)}
           g == [i \in 1..N |-> [y \in S |-> IF Takes(i) THEN ApplyOne(y, log[i]) ELSE y]]
<1>1. log \in Seq(Changes) /\ N \in Nat /\ \A i \in 1..N : log[i] \in Changes
  BY Shape
<1>2. x \in S
  BY DEF Led, Follows
<1>3. ASSUME NEW i \in 1..N, NEW y \in S
      PROVE  g[i][y] = IF Takes(i) THEN ApplyOne(y, log[i]) ELSE y
  OBVIOUS
<1>4. g \in [1..N -> [S -> S]]
  <2>1. ASSUME NEW i \in 1..N, NEW y \in S PROVE (IF Takes(i) THEN ApplyOne(y, log[i]) ELSE y) \in S
    <3>1. ApplyOne(y, log[i]) \in S
      BY <1>1, OneStep DEF Step
    <3> HIDE DEF S, Takes
    <3> QED BY <3>1
  <2> HIDE DEF S, Takes, N
  <2> QED BY <2>1
<1> HIDE DEF S, g, Takes, N
<1>5. PICK f \in [0..N -> S] : f[0] = x /\ \A i \in 1..N : f[i] = g[i][f[i - 1]]
  <2>1. Traceable(N, S, x, g)
    BY <1>1, <1>2, <1>4, Loop
  <2> QED BY <2>1 DEF Traceable
<1>6. f = [i \in 0..N |-> IF i = 0 THEN x ELSE IF Takes(i) THEN ApplyOne(f[i - 1], log[i]) ELSE f[i - 1]]
  <2>1. ASSUME NEW i \in 0..N
        PROVE  f[i] = IF i = 0 THEN x ELSE IF Takes(i) THEN ApplyOne(f[i - 1], log[i]) ELSE f[i - 1]
    <3>1. CASE i = 0
      BY <1>5, <3>1
    <3>2. CASE i # 0
      <4>1. i \in 1..N /\ i - 1 \in 0..N
        BY <1>1, <3>2
      <4>2. f[i - 1] \in S
        BY <4>1
      <4>3. f[i] = g[i][f[i - 1]]
        BY <1>5, <4>1
      <4> QED BY <1>3, <3>2, <4>1, <4>2, <4>3
    <3> QED BY <3>1, <3>2
  <2>2. f = [i \in 0..N |-> f[i]]
    OBVIOUS
  <2> QED BY <2>1, <2>2
<1> DEFINE done[i \in 0..Len(log)] ==
             IF i = 0 THEN x
             ELSE IF i \in page /\ log[i].n \in kind THEN ApplyOne(done[i - 1], log[i])
             ELSE done[i - 1]
<1>7. done = [i \in 0..N |-> IF i = 0 THEN x ELSE IF Takes(i) THEN ApplyOne(done[i - 1], log[i]) ELSE done[i - 1]]
  BY <1>6 DEF N, Takes
<1>8. Pass(x, page, kind) = done[N]
  BY DEF Pass, N
<1> HIDE DEF done
<1> DEFINE Done(i) == D \cup {j \in page : j <= i /\ log[j].n \in kind}
           T == {i \in 0..N : Led(done[i], Done(i))}
<1>9. 0 \in T
  <2>1. Done(0) = D
    <3>1. page \subseteq 1..N
      BY DEF PageOK, N
    <3>2. \A j \in page : ~(j <= 0)
      BY <1>1, <3>1
    <3> QED BY <3>2
  <2>2. done[0] = x /\ 0 \in 0..N
    BY <1>1, <1>7
  <2> HIDE DEF Done
  <2> QED BY <2>1, <2>2
<1>10. ASSUME NEW i \in 1..N, i - 1 \in T PROVE i \in T
  <2>1. i \in 0..N /\ i - 1 \in 0..N /\ i # 0
    BY <1>1
  <2>2. /\ Led(done[i - 1], Done(i - 1)) /\ done[i - 1] \in Applied /\ Follows(done[i - 1].s, Done(i - 1))
        /\ (done[i - 1].ok => Reached(done[i - 1].s, Done(i - 1)))
    BY <1>10 DEF Led
  <2>3. done[i] = IF Takes(i) THEN ApplyOne(done[i - 1], log[i]) ELSE done[i - 1]
    BY <1>7, <2>1
  <2>4. page \subseteq 1..N /\ page \subseteq Int
    BY <1>1 DEF PageOK, N
  <2>5. \A j \in page : j <= i <=> j <= i - 1 \/ j = i
    BY <2>4
  <2>6. ~(i <= i - 1) /\ (Takes(i) => i \notin D)
    BY DEF Takes
  <2>7. CASE Takes(i)
    <3>1. Done(i) = Done(i - 1) \cup {i}
      BY <2>7, <2>5 DEF Takes
    <3>2. Done(i - 1) \subseteq page /\ i \in page \ Done(i - 1)
      BY <2>7, <2>5, <2>6 DEF Takes
    <3>3. \A j \in Done(i - 1) : log[j].n \notin Below(log[i].n)
      BY <2>7, <3>2 DEF Takes, Ordered
    <3> HIDE DEF Done
    <3>4. done[i] \in Applied /\ Step(done[i - 1].s, done[i].s, log[i])
      BY <1>1, <2>2, <2>3, <2>7, OneStep DEF Follows
    <3>5. Follows(done[i].s, Done(i))
      BY <2>2, <3>1, <3>2, <3>4, StepFollows
    <3>6. ASSUME done[i].ok PROVE Reached(done[i].s, Done(i))
      <4>1. done[i - 1].ok /\ Effect(done[i].s, log[i])
        BY <1>1, <2>2, <2>3, <2>7, <3>6, OneEffect
      <4>2. Reached(done[i - 1].s, Done(i - 1))
        BY <2>2, <4>1
      <4> QED BY <3>1, <3>2, <3>3, <3>4, <4>1, <4>2, StepReaches
    <3> QED BY <2>1, <3>4, <3>5, <3>6 DEF Led
  <2>8. CASE ~Takes(i)
    <3>1. Done(i) = Done(i - 1)
      BY <2>8, <2>5 DEF Takes
    <3> HIDE DEF Done
    <3> QED BY <2>1, <2>2, <2>3, <2>8, <3>1
  <2> QED BY <2>7, <2>8
<1>11. N \in T
  <2> HIDE DEF T
  <2>1. \A i \in 0..N : i \in T
    BY <1>1, <1>9, <1>10, Upward
  <2> QED BY <1>1, <2>1
<1>12. Done(N) = D \cup {j \in page : log[j].n \in kind}
  <2>1. page \subseteq 1..N
    BY DEF PageOK, N
  <2>2. \A j \in page : j <= N
    BY <1>1, <2>1
  <2> QED BY <2>2
<1> HIDE DEF Done
<1> QED BY <1>8, <1>11, <1>12

LEMMA ApplyLeads ==
  ASSUME Inv, NEW page, PageOK(page)
  PROVE  Led(Apply(store, page), page)
<1> DEFINE Of(kind) == {j \in page : log[j].n \in kind}
           x0 == [s |-> store, ok |-> TRUE]
           x1 == Pass(x0, page, Workspace)
           x2 == Pass(x1, page, Environment)
           x3 == Pass(x2, page, Variable)
           x4 == Pass(x3, page, EnvVariable)
<1>1. Led(x0, {})
  <2>1. Kept(store) /\ store \in Store
    BY Shape DEF Kept
  <2>2. TRUE \in BOOLEAN
    OBVIOUS
  <2>3. x0 \in Applied /\ x0.s = store
    BY <2>1, <2>2 DEF Applied
  <2>4. Follows(store, {})
    BY <2>1 DEF Follows
  <2>5. Reached(store, {})
    BY DEF Reached
  <2> QED BY <2>3, <2>4, <2>5 DEF Led
<1>2. /\ Workspace \cap Environment = {} /\ Workspace \cap Variable = {} /\ Workspace \cap EnvVariable = {}
      /\ Environment \cap Variable = {} /\ Environment \cap EnvVariable = {} /\ Variable \cap EnvVariable = {}
  BY IdsAssumption
<1> HIDE DEF x0
<1>3. Led(x1, {} \cup Of(Workspace))
  <2>1. Ordered(page, {}, Workspace)
    BY Kinds DEF Ordered, Below
  <2> QED BY <1>1, <2>1, PassLeads
<1> HIDE DEF x1
<1>4. \A n \in Environment : Below(n) \subseteq EnvVariable
  <2>1. ASSUME NEW n \in Environment, NEW m \in Below(n) PROVE m \in EnvVariable
    <3>1. m \in Entity \ Workspace /\ (Home[m] = n \/ m \in EnvVariable)
      BY DEF Below
    <3> QED BY <3>1, Kinds
  <2> QED BY <2>1
<1>5. \A n \in Variable \cup EnvVariable : Below(n) = {}
  <2>1. ASSUME NEW n \in Variable \cup EnvVariable, NEW m \in Below(n) PROVE FALSE
    <3>1. m \in Entity \ Workspace /\ (Home[m] = n \/ (m \in EnvVariable /\ Home[Home[m]] = n))
      BY DEF Below
    <3>2. n \notin Workspace /\ n \notin Environment
      BY IdsAssumption
    <3> QED BY <3>1, <3>2, Kinds
  <2> QED BY <2>1
<1>6. Led(x2, ({} \cup Of(Workspace)) \cup Of(Environment))
  <2>1. ({} \cup Of(Workspace)) \in SUBSET page /\ \A j \in {} \cup Of(Workspace) : log[j].n \notin Environment
    BY <1>2
  <2>2. Ordered(page, {} \cup Of(Workspace), Environment)
    BY <1>4, IdsAssumption DEF Ordered
  <2> QED BY <1>3, <2>1, <2>2, PassLeads
<1> HIDE DEF x2
<1>7. Led(x3, (({} \cup Of(Workspace)) \cup Of(Environment)) \cup Of(Variable))
  <2>1. /\ (({} \cup Of(Workspace)) \cup Of(Environment)) \in SUBSET page
        /\ \A j \in ({} \cup Of(Workspace)) \cup Of(Environment) : log[j].n \notin Variable
    BY <1>2
  <2>2. Ordered(page, ({} \cup Of(Workspace)) \cup Of(Environment), Variable)
    BY <1>5 DEF Ordered
  <2> QED BY <1>6, <2>1, <2>2, PassLeads
<1> HIDE DEF x3
<1>8. Led(x4, ((({} \cup Of(Workspace)) \cup Of(Environment)) \cup Of(Variable)) \cup Of(EnvVariable))
  <2>1. /\ ((({} \cup Of(Workspace)) \cup Of(Environment)) \cup Of(Variable)) \in SUBSET page
        /\ \A j \in (({} \cup Of(Workspace)) \cup Of(Environment)) \cup Of(Variable) : log[j].n \notin EnvVariable
    BY <1>2
  <2>2. Ordered(page, (({} \cup Of(Workspace)) \cup Of(Environment)) \cup Of(Variable), EnvVariable)
    BY <1>5 DEF Ordered
  <2> QED BY <1>7, <2>1, <2>2, PassLeads
<1> HIDE DEF x4
<1>9. ((({} \cup Of(Workspace)) \cup Of(Environment)) \cup Of(Variable)) \cup Of(EnvVariable) = page
  <2>1. \A j \in page : log[j].n \in Entity
    <3>1. log \in Seq(Changes)
      BY Shape
    <3>2. \A j \in page : log[j] \in Changes
      BY <3>1 DEF PageOK
    <3> QED BY <3>2, SharedPart DEF Changes
  <2> QED BY <2>1 DEF Entity
<1>10. Apply(store, page) = x4
  BY DEF Apply, x4, x3, x2, x1, x0
<1> HIDE DEF Of
<1> QED BY <1>8, <1>9, <1>10

\* The reading of a page sets apart what meets an intent.
LEMMA Reading ==
  ASSUME Inv, NEW k \in 1..Len(log)
  PROVE  /\ Prepared(k).bad \subseteq Synced
         /\ Prepared(k).safe \subseteq {i \in 1..Len(log) : Scope(log[i]) \cap queued = {}}
         /\ Prepared(k).bad = {} => conflict = {} /\ Prepared(k).safe = 1..k
<1> DEFINE Free == {i \in 1..Len(log) : Scope(log[i]) \cap queued = {}}
           S == [bad : SUBSET Synced, safe : SUBSET Free]
           b == [bad |-> conflict, safe |-> {}]
           Next1(y, i) == IF HasIntent(y.bad, log[i]) THEN [y EXCEPT !.bad = @ \cup {log[i].n}]
                          ELSE [y EXCEPT !.safe = @ \cup {i}]
           g == [i \in 1..k |-> [y \in S |-> Next1(y, i)]]
<1>1. k \in Nat /\ Len(log) \in Nat /\ \A i \in 1..k : i \in 1..Len(log)
  BY Shape
<1>2. \A i \in 1..Len(log) : log[i].n \in Synced
  <2>1. log \in Seq(Changes)
    BY Shape
  <2>2. \A i \in 1..Len(log) : log[i] \in Changes
    BY <2>1
  <2> QED BY <2>2 DEF Changes
<1>3. b \in S
  BY Shape
<1>4. ASSUME NEW i \in 1..k, NEW y \in S PROVE Next1(y, i) \in S
  <2>1. CASE HasIntent(y.bad, log[i])
    <3> DEFINE more == y.bad \cup {log[i].n}
    <3>1. more \in SUBSET Synced
      BY <1>1, <1>2
    <3>2. Next1(y, i) = [y EXCEPT !.bad = more]
      BY <2>1
    <3> HIDE DEF more, Free
    <3> QED BY <3>1, <3>2
  <2>2. CASE ~HasIntent(y.bad, log[i])
    <3> DEFINE more == y.safe \cup {i}
    <3>1. i \in Free
      BY <1>1, <2>2 DEF HasIntent
    <3>2. Next1(y, i) = [y EXCEPT !.safe = more]
      BY <2>2
    <3> HIDE DEF Free
    <3>3. more \in SUBSET Free
      BY <3>1
    <3> HIDE DEF more
    <3> QED BY <3>2, <3>3
  <2> QED BY <2>1, <2>2
<1>5. ASSUME NEW i \in 1..k, NEW y \in S PROVE g[i][y] = Next1(y, i)
  OBVIOUS
<1> HIDE DEF S, b, Next1
<1>6. g \in [1..k -> [S -> S]]
  BY <1>4
<1> HIDE DEF g
<1>7. Traceable(k, S, b, g)
  BY <1>1, <1>3, <1>6, Loop
<1>8. PICK f \in [0..k -> S] : f[0] = b /\ \A i \in 1..k : f[i] = g[i][f[i - 1]]
  BY <1>7 DEF Traceable
<1>9. f = [i \in 0..k |-> IF i = 0 THEN b ELSE Next1(f[i - 1], i)]
  <2>1. ASSUME NEW i \in 0..k PROVE f[i] = IF i = 0 THEN b ELSE Next1(f[i - 1], i)
    <3>1. CASE i = 0
      BY <1>8, <3>1
    <3>2. CASE i # 0
      <4>1. i \in 1..k /\ i - 1 \in 0..k
        BY <1>1, <3>2
      <4>2. f[i - 1] \in S
        BY <4>1
      <4> QED BY <1>5, <1>8, <3>2, <4>1, <4>2
    <3> QED BY <3>1, <3>2
  <2>2. f = [i \in 0..k |-> f[i]]
    OBVIOUS
  <2> QED BY <2>1, <2>2
<1> DEFINE read[i \in 0..k] ==
             IF i = 0 THEN [bad |-> conflict, safe |-> {}]
             ELSE IF HasIntent(read[i - 1].bad, log[i])
                  THEN [read[i - 1] EXCEPT !.bad = @ \cup {log[i].n}]
                  ELSE [read[i - 1] EXCEPT !.safe = @ \cup {i}]
<1>10. read = [i \in 0..k |-> IF i = 0 THEN b ELSE Next1(read[i - 1], i)]
  BY <1>9 DEF Next1, b
<1>11. Prepared(k) = read[k]
  BY DEF Prepared
<1> HIDE DEF read
<1> DEFINE Clear(y, i) == y.bad = {} => conflict = {} /\ y.safe = 1..i
           T == {i \in 0..k : read[i] \in S /\ Clear(read[i], i)}
<1>12. 0 \in T
  <2>1. read[0] = b /\ 0 \in 0..k /\ 1..0 = {}
    BY <1>1, <1>10
  <2>2. b.bad = conflict /\ b.safe = {}
    BY DEF b
  <2> QED BY <1>3, <2>1, <2>2
<1>13. ASSUME NEW i \in 1..k, i - 1 \in T PROVE i \in T
  <2>1. i \in 0..k /\ i # 0
    BY <1>1
  <2> DEFINE y == read[i - 1]
  <2>2. y \in S /\ Clear(y, i - 1) /\ read[i] = Next1(y, i)
    BY <1>10, <1>13, <2>1
  <2> HIDE DEF y
  <2>3. Next1(y, i) \in S
    BY <1>4, <2>2
  <2>4. Clear(Next1(y, i), i)
    <3>1. CASE HasIntent(y.bad, log[i])
      <4>1. Next1(y, i).bad = y.bad \cup {log[i].n}
        BY <2>2, <3>1 DEF Next1, S
      <4> QED BY <4>1
    <3>2. CASE ~HasIntent(y.bad, log[i])
      <4>1. Next1(y, i).bad = y.bad /\ Next1(y, i).safe = y.safe \cup {i}
        BY <2>2, <3>2 DEF Next1, S
      <4>2. 1..i = (1..(i - 1)) \cup {i}
        BY <1>1
      <4> QED BY <2>2, <4>1, <4>2
    <3> QED BY <3>1, <3>2
  <2> HIDE DEF Clear, Next1
  <2> QED BY <2>1, <2>2, <2>3, <2>4
<1>14. k \in T
  <2> HIDE DEF T
  <2>1. \A i \in 0..k : i \in T
    BY <1>1, <1>12, <1>13, Upward
  <2> QED BY <1>1, <2>1
<1>15. Prepared(k) \in S /\ Clear(Prepared(k), k)
  BY <1>11, <1>14
<1> HIDE DEF Free
<1>16. Prepared(k).bad \subseteq Synced /\ Prepared(k).safe \subseteq Free
  BY <1>15 DEF S
<1> QED BY <1>15, <1>16 DEF Free

\* The last of some positions up to k.
LEMMA Latest ==
  ASSUME NEW k \in Nat, NEW S, S \subseteq 1..k, S # {}
  PROVE  \E i \in S : \A j \in S : j <= i
<1> DEFINE T == {k - i : i \in S}
<1>1. T \subseteq Nat /\ T # {}
  <2>1. \A i \in S : k - i \in Nat
    OBVIOUS
  <2>2. PICK i \in S : TRUE
    OBVIOUS
  <2>3. k - i \in T
    OBVIOUS
  <2> QED BY <2>1, <2>3
<1>2. PICK m \in T : \A j \in T : m <= j
  <2> HIDE DEF T
  <2> QED BY <1>1, Least
<1>3. PICK i \in S : m = k - i
  OBVIOUS
<1>4. ASSUME NEW j \in S PROVE j <= i
  <2>1. k - j \in T /\ i \in Int /\ j \in Int
    OBVIOUS
  <2>2. m <= k - j
    BY <1>2, <2>1
  <2> QED BY <1>3, <2>1, <2>2
<1> QED BY <1>4

\* Of the first k changes of an entity the page takes the last.
LEMMA LastTaken ==
  ASSUME NEW k \in Nat
  PROVE  /\ LastOfEach(1..k) \subseteq 1..k
         /\ \A i \in LastOfEach(1..k), j \in 1..k : j > i => log[j].n # log[i].n
         /\ \A j \in 1..k : \E i \in LastOfEach(1..k) : log[i].n = log[j].n
<1>1. /\ LastOfEach(1..k) \subseteq 1..k
      /\ \A i \in LastOfEach(1..k), j \in 1..k : j > i => log[j].n # log[i].n
  BY DEF LastOfEach
<1>2. ASSUME NEW j \in 1..k PROVE \E i \in LastOfEach(1..k) : log[i].n = log[j].n
  <2> DEFINE S == {i \in 1..k : log[i].n = log[j].n}
  <2>1. PICK i \in S : \A m \in S : m <= i
    <3>1. S \subseteq 1..k /\ j \in S
      OBVIOUS
    <3> HIDE DEF S
    <3> QED BY <3>1, Latest
  <2>2. \A m \in 1..k : m > i => log[m].n # log[i].n
    BY <2>1
  <2>3. i \in 1..k /\ log[i].n = log[j].n
    OBVIOUS
  <2>4. i \in LastOfEach(1..k)
    <3> HIDE DEF S
    <3> QED BY <2>2, <2>3 DEF LastOfEach
  <2> QED BY <2>3, <2>4
<1> QED BY <1>1, <1>2

LEMMA LastIsOne ==
  ASSUME NEW S, S \subseteq {i \in 1..Len(log) : Scope(log[i]) \cap queued = {}}
  PROVE  PageOK(LastOfEach(S))
<1>1. LastOfEach(S) \subseteq S
  BY DEF LastOfEach
<1>2. \A i, j \in S : i \in Int /\ j \in Int
  OBVIOUS
<1>3. ASSUME NEW i \in LastOfEach(S), NEW j \in LastOfEach(S), log[i].n = log[j].n PROVE i = j
  <2>1. ~(i < j) /\ ~(j < i)
    BY <1>1, <1>3 DEF LastOfEach
  <2>2. i \in Int /\ j \in Int
    BY <1>1, <1>2
  <2> QED BY <2>1, <2>2
<1> QED BY <1>1, <1>3 DEF PageOK

LEMMA PullKeeps ==
  ASSUME Inv, NEW k \in 1..PageLimit, PullPage(k)
  PROVE  Inv' /\ UNCHANGED <<queued, spent>> /\ \E page : Follows(store', page)
<1> DEFINE page == LastOfEach(Prepared(k).safe)
<1>1. k \in 1..Len(log) /\ k \in Nat /\ Len(log) \in Nat /\ log \in Seq(Changes)
  BY Shape, LimitsAssumption DEF PullPage
<1>2. /\ Prepared(k).bad \subseteq Synced
      /\ Prepared(k).safe \subseteq {i \in 1..Len(log) : Scope(log[i]) \cap queued = {}}
  BY <1>1, Reading
<1>3. PageOK(page)
  BY <1>2, LastIsOne
<1>4. Follows(Page(k).s, page)
  BY <1>3, ApplyLeads DEF Page, Led
<1> HIDE DEF page
<1>5. Follows(store', page)
  BY <1>4 DEF PullPage
<1>6. Kept(store')
  BY <1>5 DEF Follows
<1>7. conflict' \subseteq Synced
  BY <1>2 DEF PullPage
<1>8. log' \in Seq(Changes)
  <2>1. log' = SubSeq(log, k + 1, Len(log))
    BY DEF PullPage
  <2>2. SubSeq(log, k + 1, Len(log)) \in Seq(Changes)
    BY <1>1
  <2> QED BY <2>1, <2>2
<1>9. UNCHANGED <<queued, cloud, spent>>
  BY DEF PullPage
<1>10. Inv'
  BY <1>6, <1>7, <1>8, <1>9, Shape, Primed DEF Away
<1> QED BY <1>5, <1>9, <1>10

-----------------------------------------------------------------------------
(* Every step, and the theorems. *)

LEMMA InitKeeps ==
  ASSUME Init PROVE Inv
<1>1. store \in Start /\ queued = {} /\ conflict = {} /\ log = <<>>
      /\ spent = [edits |-> 0, writes |-> 0, restored |-> FALSE]
  BY DEF Init
<1>2. Kept(store) /\ store.row \in Rows
  BY <1>1, StartAssumption, Parts DEF Kept
<1>3. ASSUME NEW n \in Entity
      PROVE  /\ store.row[n] \in Row /\ [store.row[n] EXCEPT !.state = "absent"] \in Row
             /\ [store.row[n] EXCEPT !.state = "absent"].state = "absent"
  BY <1>2 DEF Rows, Row
<1>4. cloud = [n \in Entity |-> IF n \in Synced THEN store.row[n]
                                ELSE [store.row[n] EXCEPT !.state = "absent"]]
  BY DEF Init
<1>5. cloud \in Rows
  BY <1>3, <1>4 DEF Rows
<1>6. Away
  <2>1. ASSUME NEW n \in Entity \ Synced PROVE cloud[n].state = "absent"
    <3>1. cloud[n] = [store.row[n] EXCEPT !.state = "absent"]
      BY <1>4
    <3> QED BY <1>3, <3>1
  <2> QED BY <2>1 DEF Away
<1>7. spent \in [edits : 0..MaxEdits, writes : 0..MaxWrites, restored : BOOLEAN]
  <2>1. 0 \in 0..MaxEdits /\ 0 \in 0..MaxWrites /\ FALSE \in BOOLEAN
    BY LimitsAssumption
  <2> QED BY <1>1, <2>1
<1>8. log \in Seq(Changes)
  BY <1>1
<1> QED BY <1>1, <1>2, <1>5, <1>6, <1>7, <1>8, Shape

\* A step is a command of this device, one that leaves its store alone and may settle an
\* intent, or a pull.
LEMMA Steps ==
  ASSUME Inv, [Next]_vars
  PROVE  /\ Inv'
         /\ \/ spent'.edits # spent.edits
            \/ store' = store
            \/ UNCHANGED <<queued, spent>> /\ \E page : Follows(store', page)
<1>1. Kept(store)
  BY Shape
<1>2. CASE Commanded
  BY <1>2, CommandKeeps
<1>3. ASSUME NEW w \in Workspace, SetDefault(w) \/ SetActive(w) \/ DeleteWorkspace(w) PROVE Commanded
  BY <1>1, <1>3, Settings, Deletions
<1>4. ASSUME NEW w \in Workspace, NEW name \in Name, CreateWorkspace(w, name) PROVE Commanded
  BY <1>1, <1>4, Creations
<1>5. ASSUME NEW w \in Workspace, NEW keys \in Lists(w), ReplaceVariables(w, keys) PROVE Commanded
  BY <1>1, <1>5, Replacements
<1>6. ASSUME NEW w \in Workspace, NEW e \in Environment \cup {None}, SelectEnvironment(w, e) PROVE Commanded
  BY <1>1, <1>6, Settings
<1>7. ASSUME NEW e \in Environment, NEW name \in Name,
             CreateEnvironment(e, name) \/ \E keys \in Lists(e) : UpdateEnvironment(e, name, keys)
      PROVE  Commanded
  BY <1>1, <1>7, Creations, Replacements
<1>8. ASSUME NEW e \in Environment, DeleteEnvironment(e) PROVE Commanded
  BY <1>1, <1>8, Deletions
<1>9. ASSUME NEW v \in Variable \cup EnvVariable, DeleteVariable(v) PROVE Commanded
  BY <1>1, <1>9, Deletions
<1>10. ASSUME NEW v \in Variable \cup EnvVariable, NEW name \in Name, CreateVariable(v, name) PROVE Commanded
  BY <1>1, <1>10, Creations
<1>11. ASSUME NEW n \in Entity, NEW name \in Name, Rename(n, name) PROVE Commanded
  BY <1>1, <1>11, Creations
<1>12. ASSUME NEW n \in Entity, NEW name \in Name, CloudRename(n, name) \/ CloudCreate(n, name)
       PROVE  Inv' /\ store' = store
  BY <1>12, CloudKeeps
<1>13. ASSUME NEW n \in Entity, CloudDelete(n) \/ CloudRestore(n) PROVE Inv' /\ store' = store
  BY <1>13, CloudKeeps
<1>14. ASSUME NEW n \in Entity, Push(n) PROVE Inv' /\ store' = store
  BY <1>14, PushKeeps
<1>15. ASSUME NEW p \in Workspace \cup Environment, NEW keys \in Lists(p), CloudReplace(p, keys)
       PROVE  Inv' /\ store' = store
  BY <1>15, CloudKeeps
<1>16. ASSUME NEW k \in 1..PageLimit, PullPage(k)
       PROVE  Inv' /\ UNCHANGED <<queued, spent>> /\ \E page : Follows(store', page)
  BY <1>16, PullKeeps
<1>17. CASE UNCHANGED vars
  <2>1. Inv'
    BY <1>17 DEF vars, Inv, TypeOK, Closed, Anchored, Away, NamesDiffer, NoOrphan, AtHome, Live, Taken
  <2> QED BY <1>17, <2>1 DEF vars
<1> QED BY <1>2, <1>3, <1>4, <1>5, <1>6, <1>7, <1>8, <1>9, <1>10, <1>11, <1>12, <1>13, <1>14,
           <1>15, <1>16, <1>17 DEF Next

LEMMA Always == Spec => []Inv
<1>1. Init => Inv
  BY InitKeeps
<1>2. Inv /\ [Next]_vars => Inv'
  BY Steps
<1> QED BY <1>1, <1>2, PTL DEF Spec

\* Whatever the two devices do, the tables and the settings keep their types, what is
\* queued or waits belongs to the shared workspace, and the unique indexes hold.
THEOREM StoreTypes == Spec => []TypeOK
<1>1. Inv => TypeOK
  BY DEF Inv
<1> QED BY <1>1, Always, PTL

\* No live row sits under a deleted one.
THEOREM NoOrphans == Spec => []Closed
<1>1. Inv => Closed
  BY DEF Inv
<1> QED BY <1>1, Always, PTL

\* The active workspace lives, and a selected environment is a live one of its workspace.
THEOREM AlwaysAnchored == Spec => []Anchored
<1>1. Inv => Anchored
  BY DEF Inv
<1> QED BY <1>1, Always, PTL

\* A page changes the active workspace and a selected environment only when they are
\* gone, and the defaults only by a workspace that is new.
THEOREM LocalFieldsStay == Spec => LocalFieldsKept
<1> DEFINE A == spent'.edits = spent.edits =>
                  /\ store'.active # store.active => store.active \notin Live(store'.row)
                  /\ \A w \in Workspace : store'.selected[w] # store.selected[w] =>
                       store.selected[w] \notin Live(store'.row)
                  /\ store.default \subseteq store'.default
                  /\ \A w \in store'.default \ store.default : store.row[w].state = "absent"
<1>1. ASSUME Inv, [Next]_vars PROVE A
  <2>1. CASE spent'.edits # spent.edits
    BY <2>1
  <2>2. CASE store' = store
    BY <2>2
  <2>3. CASE \E page : Follows(store', page)
    BY <2>3 DEF Follows
  <2> QED BY <1>1, <2>1, <2>2, <2>3, Steps
<1>2. Inv /\ [Next]_vars => [A]_vars
  BY <1>1
<1> QED BY <1>2, Always, PTL DEF Spec, LocalFieldsKept

\* Between two commands of the user a row whose local edit stays queued does not change.
THEOREM IntentsUntouched == Spec => IntentUntouched
<1> DEFINE A == spent'.edits = spent.edits => \A n \in queued \cap queued' : store'.row[n] = store.row[n]
<1>1. ASSUME Inv, [Next]_vars PROVE A
  <2>1. CASE spent'.edits # spent.edits
    BY <2>1
  <2>2. CASE store' = store
    BY <2>2
  <2>3. CASE \E page : Follows(store', page)
    BY <2>3 DEF Follows
  <2> QED BY <1>1, <2>1, <2>2, <2>3, Steps
<1>2. Inv /\ [Next]_vars => [A]_vars
  BY <1>1
<1> QED BY <1>2, Always, PTL DEF Spec, IntentUntouched

-----------------------------------------------------------------------------
(* Convergence. *)

Holders == Workspace \cup Environment
\* What n sits in.
Over(n) == IF Rooted(n) THEN {} ELSE {Home[n]} \cup (IF n \in EnvVariable THEN {Home[Home[n]]} ELSE {})

\* A stream l, rows r of the device with its intents q, rows c of the server.  The
\* server shows the latest change of each entity of the stream, and knows their homes.
Pending(l, n) == \E i \in 1..Len(l) : l[i].n = n
Shows(c, x) == IF x.op = "delete" THEN c[x.n].state = "dead"
               ELSE x.n \in Live(c) /\ c[x.n].name = x.name
LatestShown(l, c) ==
  \A i \in 1..Len(l) : (\A j \in 1..Len(l) : j > i => l[j].n # l[i].n) => Shows(c, l[i])
HomesKnown(l, c) == \A i \in 1..Len(l) : ~Rooted(l[i].n) => c[Home[l[i].n]].state # "absent"
\* Without a restore, what could hold others stays deleted.
StayDead(l, c) == \A i \in 1..Len(l) : l[i].op = "delete" /\ l[i].n \in Holders => c[l[i].n].state = "dead"
QueuedKnown(q, r) == \A n \in q : r[n].state # "absent"

\* A delete of what n is in waits to be pushed.
Covered(q, r, n) == \E a \in Over(n) : a \in q /\ r[a].state = "dead"
\* What is neither queued nor in the stream is the same on both sides, or under such
\* a delete on this one.
Agrees(r, c, n) == (n \in Live(r) <=> n \in Live(c)) /\ (n \in Live(c) => r[n].name = c[n].name)
AllAgree(q, r, c, l) ==
  \A n \in Synced \ q : Pending(l, n) \/ Agrees(r, c, n) \/ (n \notin Live(r) /\ Covered(q, r, n))
\* A write whose home lives at the server and is not in the stream before it finds
\* the home here, or an intent that explains why not.
Sheltered(q, r, h) == h \in Live(r) \/ h \in q \/ Covered(q, r, h)
AllHoused(q, r, c, l) ==
  \A i \in 1..Len(l) :
    /\ l[i].op = "upsert" /\ ~Rooted(l[i].n) /\ Home[l[i].n] \in Live(c)
    /\ \A j \in 1..Len(l) : j < i => l[j].n # Home[l[i].n]
    => Sheltered(q, r, Home[l[i].n])

Calm == conflict = {} /\ ~spent.restored
Converging ==
  /\ NoOrphan(cloud) /\ LatestShown(log, cloud) /\ HomesKnown(log, cloud)
  /\ QueuedKnown(queued, store.row)
  /\ ~spent.restored => StayDead(log, cloud)
  /\ Calm => AllAgree(queued, store.row, cloud, log) /\ AllHoused(queued, store.row, cloud, log)

LEMMA HolderOf ==
  /\ \A n \in Synced \ Workspace : Home[n] \in Synced /\ Home[n] \in Holders /\ Home[n] \in Entity
  /\ \A a \in Entity : \A n \in Below(a) : a \in Holders
  /\ \A n \in Entity : \A a \in Over(n) : a \in Holders /\ a \in Entity /\ n \in Below(a)
  /\ \A n \in Synced : \A a \in Over(n) : a \in Synced
  /\ \A n \in Entity \ Workspace : Home[n] \in Over(n) /\ \A a \in Over(Home[n]) : a \in Over(n)
<1>1. \A n \in Synced \ Workspace : Home[n] \in Synced /\ Home[n] \in Holders /\ Home[n] \in Entity
  BY Homeward, SharedPart, Kinds DEF Holders
<1>2. ASSUME NEW a \in Entity, NEW n \in Below(a) PROVE a \in Holders
  BY Kinds DEF Below, Holders
<1>3. ASSUME NEW n \in Entity, NEW a \in Over(n) PROVE a \in Holders /\ a \in Entity /\ n \in Below(a)
  <2>1. n \in Entity \ Workspace /\ (a = Home[n] \/ (n \in EnvVariable /\ a = Home[Home[n]]))
    BY DEF Over, Rooted
  <2> QED BY <2>1, Kinds DEF Below, Holders
<1>4. ASSUME NEW n \in Synced, NEW a \in Over(n) PROVE a \in Synced
  <2>1. n \in Synced \ Workspace /\ (a = Home[n] \/ (n \in EnvVariable /\ a = Home[Home[n]]))
    BY DEF Over, Rooted
  <2>2. Home[n] \in Synced /\ (n \in EnvVariable => Home[n] \in Environment /\ Home[n] \notin Workspace)
    BY <2>1, Homeward, Kinds
  <2> QED BY <2>1, <2>2, Homeward
<1>5. ASSUME NEW n \in Entity \ Workspace PROVE Home[n] \in Over(n) /\ \A a \in Over(Home[n]) : a \in Over(n)
  <2>1. Home[n] \in Over(n)
    BY DEF Over, Rooted
  <2>2. ASSUME NEW a \in Over(Home[n]) PROVE a \in Over(n)
    <3>1. Home[n] \notin Workspace
      BY <2>2 DEF Over, Rooted
    <3>2. n \in EnvVariable /\ Home[n] \in Environment
      BY <3>1, Kinds
    <3>3. a = Home[Home[n]]
      BY <2>2, <3>1, <3>2, Kinds DEF Over, Rooted
    <3> QED BY <3>2, <3>3 DEF Over, Rooted
  <2> QED BY <2>1, <2>2
<1> QED BY <1>1, <1>2, <1>3, <1>4, <1>5

\* The stream beyond its first k changes.
LEMMA Rest ==
  ASSUME NEW l \in Seq(Changes), NEW k \in Nat, k <= Len(l), NEW m, m = SubSeq(l, k + 1, Len(l))
  PROVE  /\ Len(l) \in Nat /\ Len(m) = Len(l) - k
         /\ \A i \in 1..Len(m) : i + k \in 1..Len(l) /\ m[i] = l[i + k]
         /\ \A j \in 1..Len(l) : j > k => j - k \in 1..Len(m) /\ m[j - k] = l[j]
<1>1. Len(l) \in Nat /\ Len(m) = Len(l) - k
  OBVIOUS
<1>2. ASSUME NEW i \in 1..Len(m) PROVE i + k \in 1..Len(l) /\ m[i] = l[i + k]
  BY <1>1
<1>3. ASSUME NEW j \in 1..Len(l), j > k PROVE j - k \in 1..Len(m) /\ m[j - k] = l[j]
  <2>1. j - k \in 1..Len(m) /\ j \in Int /\ k \in Int
    BY <1>1, <1>3
  <2>2. (j - k) + k = j
    BY <2>1
  <2> QED BY <1>2, <2>1, <2>2
<1> QED BY <1>1, <1>2, <1>3

LEMMA RestShown ==
  ASSUME NEW l \in Seq(Changes), NEW k \in Nat, k <= Len(l), NEW m, m = SubSeq(l, k + 1, Len(l)), NEW c
  PROVE  /\ LatestShown(l, c) => LatestShown(m, c)
         /\ HomesKnown(l, c) => HomesKnown(m, c)
         /\ StayDead(l, c) => StayDead(m, c)
<1>1. /\ Len(l) \in Nat /\ Len(m) = Len(l) - k
      /\ \A i \in 1..Len(m) : i + k \in 1..Len(l) /\ m[i] = l[i + k]
      /\ \A j \in 1..Len(l) : j > k => j - k \in 1..Len(m) /\ m[j - k] = l[j]
  BY Rest
<1>2. ASSUME LatestShown(l, c), NEW i \in 1..Len(m), \A j \in 1..Len(m) : j > i => m[j].n # m[i].n
      PROVE  Shows(c, m[i])
  <2>1. i + k \in 1..Len(l) /\ m[i] = l[i + k]
    BY <1>1
  <2>2. ASSUME NEW j \in 1..Len(l), j > i + k PROVE l[j].n # l[i + k].n
    <3>1. j > k /\ j - k > i
      BY <1>1, <2>2
    <3>2. j - k \in 1..Len(m) /\ m[j - k] = l[j]
      BY <1>1, <3>1
    <3> QED BY <1>2, <2>1, <3>1, <3>2
  <2> QED BY <1>2, <2>1, <2>2 DEF LatestShown
<1>3. HomesKnown(l, c) => HomesKnown(m, c)
  BY <1>1 DEF HomesKnown
<1>4. StayDead(l, c) => StayDead(m, c)
  BY <1>1 DEF StayDead
<1> QED BY <1>2, <1>3, <1>4 DEF LatestShown

\* What the first k changes made of the store.
Turned(k, s) ==
  /\ k \in 1..Len(log) /\ Kept(s) /\ Reached(s, LastOfEach(1..k))
  /\ \A n \in queued : s.row[n] = store.row[n]

LEMMA Untouched ==
  ASSUME Inv, Converging, Calm, NEW k, NEW s, Turned(k, s), NEW n \in Synced, \A j \in 1..k : log[j].n # n
  PROVE  s.row[n] = store.row[n] \/ (n \notin Live(s.row) /\ n \notin Live(cloud))
<1> DEFINE page == LastOfEach(1..k)
<1>1. log \in Seq(Changes) /\ k \in 1..Len(log) /\ k \in Nat /\ \A j \in 1..k : j \in 1..Len(log)
  BY Shape DEF Turned
<1>2. page \subseteq 1..k
  BY <1>1, LastTaken
<1>3. ~Settled(n, page) /\ Reached(s, page)
  BY <1>2 DEF Settled, Turned
<1>4. CASE n \notin Live(s.row) /\ \E j \in page : log[j].op = "delete" /\ n \in Below(log[j].n)
  <2>1. PICK j \in page : log[j].op = "delete" /\ n \in Below(log[j].n)
    BY <1>4
  <2>2. log[j] \in Changes /\ j \in 1..Len(log)
    BY <1>1, <1>2
  <2>3. log[j].n \in Entity /\ log[j].n \in Holders
    BY <2>1, <2>2, SharedPart, HolderOf DEF Changes
  <2>4. cloud[log[j].n].state = "dead" /\ NoOrphan(cloud)
    BY <2>1, <2>2, <2>3 DEF Converging, Calm, StayDead
  <2>5. n \notin Live(cloud)
    BY <2>1, <2>3, <2>4, UnderDead DEF Live
  <2> QED BY <1>4, <2>5
<1> HIDE DEF page
<1> QED BY <1>3, <1>4 DEF Reached

\* Of an entity with a change among the first k, the last one took effect.
LEMMA LastEffect ==
  ASSUME Inv, NEW k, NEW s, Turned(k, s), NEW m \in 1..k
  PROVE  \E i \in 1..k :
           /\ log[i].n = log[m].n /\ \A j \in 1..k : j > i => log[j].n # log[i].n
           /\ log[i].op = "delete" => log[i].n \notin Live(s.row)
           /\ log[i].op = "upsert" => \/ log[i].n \in Live(s.row) /\ s.row[log[i].n].name = log[i].name
                                      \/ ~Rooted(log[i].n) /\ Home[log[i].n] \notin Live(s.row)
<1> DEFINE page == LastOfEach(1..k)
<1>1. k \in Nat
  BY Shape DEF Turned
<1>2. PICK i \in page : log[i].n = log[m].n
  BY <1>1, LastTaken
<1>3. i \in 1..k /\ \A j \in 1..k : j > i => log[j].n # log[i].n
  BY <1>1, LastTaken
<1>4. Reached(s, page)
  BY DEF Turned
<1> HIDE DEF page
<1> QED BY <1>2, <1>3, <1>4 DEF Reached

LEMMA HolderLives ==
  ASSUME Inv, Converging, Calm, NEW k, NEW s, Turned(k, s), NEW m \in 1..k,
         log[m].n \in Holders, log[m].n \in Live(cloud)
  PROVE  log[m].n \in Live(s.row) \/ (~Rooted(log[m].n) /\ Home[log[m].n] \notin Live(s.row))
<1>1. PICK i \in 1..k :
           /\ log[i].n = log[m].n /\ \A j \in 1..k : j > i => log[j].n # log[i].n
           /\ log[i].op = "delete" => log[i].n \notin Live(s.row)
           /\ log[i].op = "upsert" => \/ log[i].n \in Live(s.row) /\ s.row[log[i].n].name = log[i].name
                                      \/ ~Rooted(log[i].n) /\ Home[log[i].n] \notin Live(s.row)
  BY LastEffect
<1>2. i \in 1..Len(log) /\ log[i] \in Changes
  <2>1. log \in Seq(Changes) /\ k \in 1..Len(log)
    BY Shape DEF Turned
  <2> QED BY <2>1
<1>3. log[i].op # "delete"
  <2>1. cloud[log[i].n].state # "dead"
    BY <1>1 DEF Live
  <2> QED BY <1>1, <1>2, <2>1 DEF Converging, Calm, StayDead
<1>4. log[i].op = "upsert"
  BY <1>2, <1>3 DEF Changes
<1> QED BY <1>1, <1>4

\* What the server holds of an entity's home the device will have, too.
LEMMA Keyed ==
  ASSUME Inv, Converging, Calm, NEW k, NEW s, Turned(k, s),
         NEW i \in 1..Len(log), log[i].op = "upsert", ~Rooted(log[i].n), Home[log[i].n] \in Live(cloud),
         \A j \in 1..Len(log) : k < j /\ j < i => log[j].n # Home[log[i].n]
  PROVE  Sheltered(queued, s.row, Home[log[i].n])
<1>0. PICK h : h = Home[log[i].n]
  OBVIOUS
<1>1. log \in Seq(Changes) /\ k \in 1..Len(log) /\ k \in Nat /\ Len(log) \in Nat
      /\ (\A j \in 1..k : j \in 1..Len(log)) /\ \A j \in 1..Len(log) : log[j] \in Changes
  BY Shape DEF Turned
<1>2. h \in Synced /\ h \in Holders /\ h \in Entity /\ h \in Live(cloud)
  <2>1. log[i].n \in Synced \ Workspace
    BY <1>1 DEF Changes, Rooted
  <2> QED BY <1>0, <2>1, HolderOf
<1>3. SUFFICES ASSUME h \notin queued, h \notin Live(s.row) PROVE Covered(queued, s.row, h)
  BY <1>0 DEF Sheltered
<1>4. \A n \in queued : s.row[n] = store.row[n]
  BY DEF Turned
<1>5. Covered(queued, store.row, h) => Covered(queued, s.row, h)
  BY <1>4 DEF Covered
<1>6. AllHoused(queued, store.row, cloud, log) /\ QueuedKnown(queued, store.row) /\ NoOrphan(cloud)
  BY DEF Converging
<1>7. CASE \A j \in 1..k : log[j].n # h
  <2>1. \A j \in 1..Len(log) : j < i => log[j].n # h
    <3>1. ASSUME NEW j \in 1..Len(log), j < i PROVE log[j].n # h
      <4>1. CASE j <= k
        <5>1. j \in 1..k
          BY <1>1, <4>1
        <5> QED BY <1>7, <5>1
      <4>2. CASE ~(j <= k)
        <5>1. k < j
          BY <1>1, <4>2
        <5> QED BY <1>0, <3>1, <5>1
      <4> QED BY <4>1, <4>2
    <3> QED BY <3>1
  <2>2. Sheltered(queued, store.row, h)
    BY <1>0, <1>6, <2>1 DEF AllHoused
  <2>3. s.row[h] = store.row[h]
    BY <1>2, <1>7, Untouched
  <2>4. h \notin Live(store.row)
    BY <1>2, <1>3, <2>3 DEF Live
  <2> QED BY <1>3, <1>5, <2>2, <2>4 DEF Sheltered
<1>8. CASE \E j \in 1..k : log[j].n = h
  <2>1. PICK m \in 1..k : log[m].n = h
    BY <1>8
  <2>2. ~Rooted(h) /\ Home[h] \notin Live(s.row)
    BY <1>2, <1>3, <2>1, HolderLives
  <2> DEFINE w == Home[h]
  <2>3. h \in Synced \ Workspace /\ h \in Environment /\ w \in Workspace /\ w \in Synced /\ w \in Holders
        /\ w \in Live(cloud) /\ w \in Over(h) /\ w \in Entity
    BY <1>2, <1>6, <2>2, HolderOf, Kinds DEF Rooted, Holders, NoOrphan
  <2>4. CASE w \in queued
    <3>1. s.row[w].state # "absent" /\ s.row[w].state # "live" /\ s.row \in Rows
      BY <1>4, <1>6, <2>2, <2>3, <2>4, Parts DEF QueuedKnown, Live, Turned, Kept
    <3>2. s.row[w].state = "dead"
      BY <2>3, <3>1 DEF Rows, Row
    <3> QED BY <2>3, <2>4, <3>2 DEF Covered
  <2>5. CASE w \notin queued
    <3>1. \A j \in 1..k : log[j].n # w
      <4> SUFFICES ASSUME NEW j \in 1..k, log[j].n = w PROVE FALSE
        OBVIOUS
      <4>1. Rooted(w)
        BY <2>3 DEF Rooted
      <4> HIDE DEF w
      <4> QED BY <2>3, <4>1, HolderLives, <2>2 DEF w
    <3>2. s.row[w] = store.row[w]
      BY <2>3, <3>1, Untouched
    <3>3. w \notin Live(store.row)
      BY <2>2, <2>3, <3>2 DEF Live
    \* The last change of h among the first k restores or renames it.
    <3>4. PICK j \in 1..k : log[j].n = h /\ log[j].op = "upsert"
      <4>1. log[m].op # "delete"
        BY <1>1, <1>2, <2>1 DEF Converging, Calm, StayDead, Live
      <4>2. log[m].op = "upsert"
        BY <1>1, <4>1 DEF Changes
      <4> QED BY <2>1, <4>2
    <3>5. \A x \in 1..Len(log) : x < j => log[x].n # w
      BY <1>1, <3>1
    <3>6. Sheltered(queued, store.row, w)
      <4>1. Home[log[j].n] = w /\ ~Rooted(log[j].n) /\ j \in 1..Len(log)
        BY <1>1, <2>2, <3>4
      <4> HIDE DEF w
      <4> QED BY <1>6, <2>3, <3>4, <3>5, <4>1 DEF AllHoused
    <3>7. ~Covered(queued, store.row, w)
      BY <2>3 DEF Covered, Over, Rooted
    <3> QED BY <2>5, <3>3, <3>6, <3>7 DEF Sheltered
  <2> QED BY <2>4, <2>5
<1> QED BY <1>7, <1>8

LEMMA PageAgrees ==
  ASSUME Inv, Converging, Calm, NEW k, NEW s, Turned(k, s), NEW n \in Synced \ queued,
         \A j \in 1..Len(log) : k < j => log[j].n # n
  PROVE  Agrees(s.row, cloud, n) \/ (n \notin Live(s.row) /\ Covered(queued, s.row, n))
<1>1. log \in Seq(Changes) /\ k \in 1..Len(log) /\ k \in Nat /\ Len(log) \in Nat
      /\ (\A j \in 1..k : j \in 1..Len(log)) /\ \A j \in 1..Len(log) : log[j] \in Changes
  BY Shape DEF Turned
<1>2. \A a \in queued : s.row[a] = store.row[a]
  BY DEF Turned
<1>3. n \in Entity
  BY SharedPart
<1>4. CASE \A j \in 1..k : log[j].n # n
  <2>1. ~Pending(log, n)
    <3>1. \A j \in 1..Len(log) : ~(k < j) => j \in 1..k
      BY <1>1
    <3> QED BY <1>4, <3>1 DEF Pending
  <2>2. Agrees(store.row, cloud, n) \/ (n \notin Live(store.row) /\ Covered(queued, store.row, n))
    BY <2>1 DEF Converging, AllAgree
  <2>3. s.row[n] = store.row[n] \/ (n \notin Live(s.row) /\ n \notin Live(cloud))
    BY <1>4, Untouched
  <2>4. Covered(queued, store.row, n) => Covered(queued, s.row, n)
    BY <1>2 DEF Covered
  <2> QED BY <1>3, <2>2, <2>3, <2>4 DEF Agrees, Live
<1>5. CASE \E j \in 1..k : log[j].n = n
  <2>1. PICK m \in 1..k : log[m].n = n
    BY <1>5
  <2>2. PICK i \in 1..k :
           /\ log[i].n = n /\ \A j \in 1..k : j > i => log[j].n # n
           /\ log[i].op = "delete" => n \notin Live(s.row)
           /\ log[i].op = "upsert" => \/ n \in Live(s.row) /\ s.row[n].name = log[i].name
                                      \/ ~Rooted(n) /\ Home[n] \notin Live(s.row)
    BY <2>1, LastEffect
  <2>3. \A j \in 1..Len(log) : j > i => log[j].n # log[i].n
    <3>1. \A j \in 1..Len(log) : ~(k < j) => j \in 1..k
      BY <1>1
    <3> QED BY <2>2, <3>1
  <2>4. Shows(cloud, log[i])
    BY <1>1, <2>3 DEF Converging, LatestShown
  <2>5. CASE log[i].op = "delete"
    BY <2>2, <2>4, <2>5 DEF Shows, Agrees, Live
  <2>6. CASE log[i].op = "upsert"
    <3>1. n \in Live(cloud) /\ cloud[n].name = log[i].name
      BY <2>2, <2>4, <2>6 DEF Shows
    <3>2. CASE n \in Live(s.row) /\ s.row[n].name = log[i].name
      BY <3>1, <3>2 DEF Agrees
    <3>3. CASE ~Rooted(n) /\ Home[n] \notin Live(s.row)
      <4> DEFINE h == Home[n]
      <4>1. n \in Entity \ Workspace /\ h \in Live(cloud)
        BY <1>3, <3>1, <3>3 DEF Rooted, Converging, NoOrphan
      <4>2. \A j \in 1..Len(log) : ~(k < j /\ j < i)
        BY <1>1
      <4>3. Sheltered(queued, s.row, h)
        BY <1>1, <2>2, <2>6, <3>3, <4>1, <4>2, Keyed
      <4>4. h \in Over(n) /\ h \in Synced /\ h \in Entity /\ \A a \in Over(h) : a \in Over(n)
        BY <4>1, HolderOf
      <4>5. n \notin Live(s.row)
        <5>1. NoOrphan(s.row)
          BY DEF Turned, Kept
        <5> QED BY <3>3, <4>1, <5>1 DEF NoOrphan
      <4>6. CASE h \in queued
        <5>1. s.row[h].state # "absent" /\ s.row[h].state # "live" /\ s.row \in Rows
          BY <1>2, <3>3, <4>4, <4>6, Parts DEF Converging, QueuedKnown, Live, Turned, Kept
        <5>2. s.row[h].state = "dead"
          BY <4>4, <5>1 DEF Rows, Row
        <5> QED BY <4>4, <4>5, <4>6, <5>2 DEF Covered
      <4>7. CASE Covered(queued, s.row, h)
        BY <4>4, <4>5, <4>7 DEF Covered
      <4> QED BY <3>3, <4>3, <4>6, <4>7 DEF Sheltered
    <3> QED BY <2>2, <2>6, <3>2, <3>3
  <2> QED BY <1>1, <2>5, <2>6 DEF Changes
<1> QED BY <1>4, <1>5

LEMMA Onward ==
  ASSUME NoOrphan(cloud'), LatestShown(log', cloud'), HomesKnown(log', cloud'),
         QueuedKnown(queued', store'.row), ~spent'.restored => StayDead(log', cloud'),
         conflict' = {} /\ ~spent'.restored =>
           /\ AllAgree(queued', store'.row, cloud', log')
           /\ AllHoused(queued', store'.row, cloud', log')
  PROVE  Converging'
BY DEF Converging, Calm, NoOrphan, Live, LatestShown, Shows, HomesKnown, Rooted, QueuedKnown, StayDead, Holders,
       AllAgree, Pending, Agrees, Covered, Over, AllHoused, Sheltered

LEMMA PullConverges ==
  ASSUME Inv, Converging, NEW k \in 1..PageLimit, PullPage(k)
  PROVE  Converging'
<1> DEFINE page == LastOfEach(Prepared(k).safe)
<1>1. k \in 1..Len(log) /\ k \in Nat /\ k <= Len(log) /\ Len(log) \in Nat /\ log \in Seq(Changes)
  BY Shape, LimitsAssumption DEF PullPage
<1>2. /\ Prepared(k).safe \subseteq {i \in 1..Len(log) : Scope(log[i]) \cap queued = {}}
      /\ Prepared(k).bad = {} => conflict = {} /\ Prepared(k).safe = 1..k
  BY <1>1, Reading
<1>3. Led(Page(k), page)
  <2>1. PageOK(page)
    BY <1>2, LastIsOne
  <2> HIDE DEF page
  <2>2. Led(Apply(store, page), page)
    BY <2>1, ApplyLeads
  <2> QED BY <2>2 DEF Page, page
<1>4. Page(k).ok /\ store' = Page(k).s /\ conflict' = Prepared(k).bad
      /\ log' = SubSeq(log, k + 1, Len(log)) /\ UNCHANGED <<queued, cloud, spent>>
  BY DEF PullPage
<1> HIDE DEF page
<1>5. /\ Kept(store') /\ Reached(store', page) /\ \A n \in queued : store'.row[n] = store.row[n]
  BY <1>3, <1>4 DEF Led, Follows
<1>6. NoOrphan(cloud') /\ QueuedKnown(queued', store'.row)
  <2>1. NoOrphan(cloud) /\ QueuedKnown(queued, store.row)
    BY DEF Converging
  <2>2. NoOrphan(cloud')
    BY <1>4, <2>1
  <2>3. QueuedKnown(queued', store'.row)
    BY <1>4, <1>5, <2>1 DEF QueuedKnown
  <2> QED BY <2>2, <2>3
<1>7. LatestShown(log', cloud') /\ HomesKnown(log', cloud') /\ (~spent'.restored => StayDead(log', cloud'))
  <2>1. LatestShown(log, cloud) /\ HomesKnown(log, cloud) /\ (~spent.restored => StayDead(log, cloud))
    BY DEF Converging
  <2>2. \A l \in Seq(Changes), j \in Nat : \A m, c : j <= Len(l) /\ m = SubSeq(l, j + 1, Len(l)) =>
          /\ LatestShown(l, c) => LatestShown(m, c)
          /\ HomesKnown(l, c) => HomesKnown(m, c)
          /\ StayDead(l, c) => StayDead(m, c)
    BY RestShown
  <2>3. /\ LatestShown(log, cloud) => LatestShown(log', cloud)
        /\ HomesKnown(log, cloud) => HomesKnown(log', cloud)
        /\ StayDead(log, cloud) => StayDead(log', cloud)
    BY <1>1, <1>4, <2>2
  <2>4. cloud' = cloud /\ spent' = spent
    BY <1>4
  <2> QED BY <2>1, <2>3, <2>4
<1>8. ASSUME conflict' = {} /\ ~spent'.restored
      PROVE  /\ AllAgree(queued', store'.row, cloud', log')
             /\ AllHoused(queued', store'.row, cloud', log')
  <2>1. Calm /\ Turned(k, store')
    BY <1>1, <1>2, <1>4, <1>5, <1>8 DEF Calm, Turned, page
  <2> DEFINE m == SubSeq(log, k + 1, Len(log))
  <2>2. /\ Len(m) = Len(log) - k
        /\ \A i \in 1..Len(m) : i + k \in 1..Len(log) /\ m[i] = log[i + k]
        /\ \A j \in 1..Len(log) : j > k => j - k \in 1..Len(m) /\ m[j - k] = log[j]
    BY <1>1, Rest
  <2> HIDE DEF m
  <2>3. log' = m /\ Len(m) \in Nat
    BY <1>1, <1>4, <2>2 DEF m, PullPage
  <2>4. ASSUME NEW n \in Synced \ queued
        PROVE  Pending(m, n) \/ Agrees(store'.row, cloud, n) \/ (n \notin Live(store'.row) /\ Covered(queued, store'.row, n))
    <3>1. CASE \E j \in 1..Len(log) : k < j /\ log[j].n = n
      <4>1. PICK j \in 1..Len(log) : k < j /\ log[j].n = n
        BY <3>1
      <4>2. j - k \in 1..Len(m) /\ m[j - k] = log[j]
        BY <1>1, <2>2, <4>1
      <4> QED BY <4>1, <4>2 DEF Pending
    <3>2. CASE \A j \in 1..Len(log) : k < j => log[j].n # n
      BY <2>1, <3>2, PageAgrees
    <3> QED BY <3>1, <3>2
  <2>5. ASSUME NEW i \in 1..Len(m), m[i].op = "upsert", ~Rooted(m[i].n), Home[m[i].n] \in Live(cloud),
               \A j \in 1..Len(m) : j < i => m[j].n # Home[m[i].n]
        PROVE  Sheltered(queued, store'.row, Home[m[i].n])
    <3>1. i + k \in 1..Len(log) /\ m[i] = log[i + k]
      BY <2>2
    <3>2. ASSUME NEW j \in 1..Len(log), k < j, j < i + k PROVE log[j].n # Home[log[i + k].n]
      <4>1. j - k \in 1..Len(m) /\ m[j - k] = log[j]
        BY <1>1, <2>2, <3>2
      <4>2. j - k < i
        BY <1>1, <2>3, <3>2
      <4> QED BY <2>5, <3>1, <4>1, <4>2
    <3> QED BY <2>1, <2>5, <3>1, <3>2, Keyed
  <2>6. AllAgree(queued, store'.row, cloud, m)
    BY <2>4 DEF AllAgree
  <2>7. AllHoused(queued, store'.row, cloud, m)
    BY <2>5 DEF AllHoused
  <2> QED BY <1>4, <2>3, <2>6, <2>7
<1> QED BY <1>6, <1>7, <1>8, Onward

\* What no command undoes: a row is there, a workspace or environment deleted.
Lasting(r, t) ==
  \A n \in Entity : /\ t[n].state = "absent" => t[n] = r[n]
                    /\ n \in Holders /\ r[n].state = "dead" => t[n].state = "dead"

LEMMA CommandConverges ==
  ASSUME Inv, Converging, NEW s, Command(s), Lasting(store.row, s.row)
  PROVE  Converging'
<1>1. store' = s /\ queued' = queued \cup (Changed(store.row, s.row) \cap Synced)
      /\ UNCHANGED <<conflict, cloud, log>> /\ spent'.restored = spent.restored
  <2>1. spent \in [edits : 0..MaxEdits, writes : 0..MaxWrites, restored : BOOLEAN]
    BY Shape
  <2>2. spent' = [spent EXCEPT !.edits = spent.edits + 1]
    BY DEF Command
  <2>3. spent'.restored = spent.restored
    BY <2>1, <2>2
  <2> QED BY <2>3 DEF Command
<1> DEFINE r == store.row
           t == s.row
           q == queued \cup (Changed(r, t) \cap Synced)
<1>2. /\ queued \subseteq q /\ q \subseteq Synced /\ queued \subseteq Synced
      /\ \A n \in Synced \ q : t[n] = r[n]
  BY SharedPart, Shape DEF Changed
<1>3. \A n \in Synced : n \in Entity
  BY SharedPart
<1> HIDE DEF r, t
<1>4. \A n \in q : n \in queued \/ t[n] # r[n]
  BY DEF Changed
<1> HIDE DEF q
<1>5. Lasting(r, t)
  BY DEF r, t
<1>6. ASSUME NEW n \in q PROVE t[n].state # "absent"
  <2>1. r[n].state # "absent" \/ t[n] # r[n]
    BY <1>4 DEF Converging, QueuedKnown, r
  <2> QED BY <1>2, <1>3, <1>5, <2>1 DEF Lasting
<1>7. \A n \in Synced : Covered(queued, r, n) => Covered(q, t, n)
  <2> SUFFICES ASSUME NEW n \in Synced, NEW a \in Over(n), a \in queued, r[a].state = "dead"
               PROVE  a \in q /\ t[a].state = "dead"
    BY DEF Covered
  <2>1. a \in Holders /\ a \in Entity
    BY <1>3, HolderOf
  <2> QED BY <1>2, <1>5, <2>1 DEF Lasting
<1>8. ASSUME AllAgree(queued, r, cloud, log) PROVE AllAgree(q, t, cloud, log)
  <2> SUFFICES ASSUME NEW n \in Synced \ q, ~Pending(log, n)
               PROVE  Agrees(t, cloud, n) \/ (n \notin Live(t) /\ Covered(q, t, n))
    BY DEF AllAgree
  <2>1. t[n] = r[n] /\ n \notin queued /\ n \in Entity
    BY <1>2, <1>3
  <2>2. Agrees(r, cloud, n) \/ (n \notin Live(r) /\ Covered(queued, r, n))
    BY <1>8, <2>1 DEF AllAgree
  <2> QED BY <1>7, <2>1, <2>2 DEF Agrees, Live
<1>9. ASSUME AllHoused(queued, r, cloud, log) PROVE AllHoused(q, t, cloud, log)
  <2> SUFFICES ASSUME NEW i \in 1..Len(log), log[i].op = "upsert", ~Rooted(log[i].n),
                      Home[log[i].n] \in Live(cloud),
                      \A j \in 1..Len(log) : j < i => log[j].n # Home[log[i].n]
               PROVE  Sheltered(q, t, Home[log[i].n])
    BY DEF AllHoused
  <2>1. PICK h : h = Home[log[i].n]
    OBVIOUS
  <2>2. h \in Synced /\ h \in Entity
    <3>1. log[i] \in Changes
      BY Shape
    <3>2. log[i].n \in Synced \ Workspace
      BY <3>1 DEF Changes, Rooted
    <3> QED BY <2>1, <3>2, HolderOf
  <2>3. h \in Live(r) \/ h \in queued \/ Covered(queued, r, h)
    BY <1>9, <2>1 DEF AllHoused, Sheltered
  <2>4. h \in Live(r) => h \in Live(t) \/ h \in q
    BY <1>2, <2>2 DEF Live
  <2> QED BY <1>2, <1>7, <2>1, <2>2, <2>3, <2>4 DEF Sheltered
<1>10. NoOrphan(cloud) /\ LatestShown(log, cloud) /\ HomesKnown(log, cloud)
       /\ (~spent.restored => StayDead(log, cloud))
       /\ (conflict = {} /\ ~spent.restored => AllAgree(queued, r, cloud, log) /\ AllHoused(queued, r, cloud, log))
  BY DEF Converging, Calm, r
<1>11. store'.row = t /\ queued' = q /\ conflict' = conflict /\ cloud' = cloud /\ log' = log
  BY <1>1 DEF q, r, t
<1>12. QueuedKnown(queued', store'.row)
  BY <1>6, <1>11 DEF QueuedKnown
<1> QED BY <1>1, <1>8, <1>9, <1>10, <1>11, <1>12, Onward

LEMMA RowLasts ==
  ASSUME NEW r \in Rows, NEW n \in Entity
  PROVE  /\ \A name \in Name : r[n].state # "dead" => Lasting(r, Put(r, n, name))
         /\ Lasting(r, Deleted(r, n))
         /\ \A keys \in Lists(n) : Lasting(r, Replaced(r, n, keys))
         /\ Lasting(r, r)
         /\ \A t, u : Lasting(r, t) /\ Lasting(t, u) => Lasting(r, u)
<1>1. ASSUME NEW name \in Name, r[n].state # "dead" PROVE Lasting(r, Put(r, n, name))
  <2> DEFINE t == Put(r, n, name)
  <2>1. /\ t[n] = [state |-> "live", name |-> name]
        /\ \A m \in Entity \ {n} : t[m] = r[m]
    BY PutRow
  <2> HIDE DEF t
  <2>2. t[n].state = "live"
    BY <2>1
  <2>3. Lasting(r, t)
    BY <1>1, <2>1, <2>2 DEF Lasting
  <2> QED BY <2>3 DEF t
<1>2. Lasting(r, Deleted(r, n))
  <2> DEFINE S == ({n} \cup Below(n)) \cap Live(r)
             t == Deleted(r, n)
  <2>1. \A m \in Entity : t[m] = IF m \in S THEN [state |-> "dead", name |-> r[m].name] ELSE r[m]
    BY BuryRow DEF Deleted
  <2> HIDE DEF t, S
  <2>2. ASSUME NEW m \in Entity, m \in S PROVE t[m].state = "dead"
    <3>1. t[m] = [state |-> "dead", name |-> r[m].name]
      BY <2>1, <2>2
    <3> QED BY <3>1
  <2>3. \A m \in Entity : m \notin S => t[m] = r[m]
    BY <2>1
  <2>4. Lasting(r, t)
    BY <2>2, <2>3 DEF Lasting
  <2> QED BY <2>4 DEF t
<1>3. ASSUME NEW keys \in Lists(n) PROVE Lasting(r, Replaced(r, n, keys))
  <2> DEFINE t == Replaced(r, n, keys)
  <2>1. \A m \in Listed(n) : m \notin Holders
    BY ReplacedRow DEF Holders
  <2>2. ASSUME NEW m \in Entity PROVE t[m] = r[m] \/ (m \in Listed(n) /\ t[m].state \in {"live", "dead"})
    <3>1. t[m] = IF m \notin Listed(n) THEN r[m]
                 ELSE IF m \in DOMAIN keys THEN [state |-> "live", name |-> keys[m]]
                 ELSE IF m \in Live(r) THEN [r[m] EXCEPT !.state = "dead"] ELSE r[m]
      BY DEF Replaced
    <3>2. [r[m] EXCEPT !.state = "dead"].state = "dead"
      BY DEF Rows, Row
    <3>3. [state |-> "live", name |-> keys[m]].state = "live"
      OBVIOUS
    <3> HIDE DEF t
    <3> QED BY <3>1, <3>2, <3>3
  <2> HIDE DEF t
  <2>3. Lasting(r, t)
    BY <2>1, <2>2 DEF Lasting
  <2> QED BY <2>3 DEF t
<1>4. Lasting(r, r) /\ \A t, u : Lasting(r, t) /\ Lasting(t, u) => Lasting(r, u)
  BY DEF Lasting
<1> QED BY <1>1, <1>2, <1>3, <1>4

LEMMA Renewed ==
  ASSUME NEW s \in Store, NEW r, NEW d, NEW a, NEW sel
  PROVE  /\ [s EXCEPT !.row = r].row = r
         /\ [s EXCEPT !.row = r, !.active = a].row = r
         /\ [s EXCEPT !.row = r, !.selected = sel].row = r
         /\ [s EXCEPT !.row = r, !.active = a, !.selected = sel].row = r
         /\ [s EXCEPT !.default = d].row = s.row
         /\ [s EXCEPT !.active = a].row = s.row
         /\ [s EXCEPT !.selected = sel].row = s.row
BY DEF Store

Enduring == \E s : Command(s) /\ Lasting(store.row, s.row)

LEMMA Endures ==
  ASSUME Kept(store)
  PROVE  /\ \A w \in Workspace : SetDefault(w) \/ SetActive(w) \/ DeleteWorkspace(w) => Enduring
         /\ \A w \in Workspace, name \in Name : CreateWorkspace(w, name) => Enduring
         /\ \A w \in Workspace : \A keys \in Lists(w) : ReplaceVariables(w, keys) => Enduring
         /\ \A w \in Workspace, e \in Environment \cup {None} : SelectEnvironment(w, e) => Enduring
         /\ \A e \in Environment, name \in Name : CreateEnvironment(e, name) => Enduring
         /\ \A e \in Environment, name \in Name : \A keys \in Lists(e) : UpdateEnvironment(e, name, keys) => Enduring
         /\ \A e \in Environment : DeleteEnvironment(e) => Enduring
         /\ \A v \in Variable \cup EnvVariable : DeleteVariable(v) => Enduring
         /\ \A v \in Variable \cup EnvVariable, name \in Name : CreateVariable(v, name) => Enduring
         /\ \A n \in Entity, name \in Name : Rename(n, name) => Enduring
<1> DEFINE r == store.row
<1>1. store \in Store /\ r \in Rows
  BY Parts DEF Kept
<1>2. \A w \in Workspace : w \in Entity
  BY Kinds
<1>3. \A e \in Environment : e \in Entity
  BY Kinds
<1>4. \A v \in Variable \cup EnvVariable : v \in Entity
  BY DEF Entity
<1>5. Lasting(r, r)
  BY <1>1, <1>2, RowLasts, SharedPart
<1>6. ASSUME NEW w \in Workspace, SetDefault(w) PROVE Enduring
  <2> DEFINE d == (store.default \ Live(store.row)) \cup {w}
             x == [store EXCEPT !.default = d]
  <2>1. Command(x)
    BY <1>6 DEF SetDefault
  <2>2. x.row = r
    BY <1>1, Renewed
  <2> HIDE DEF x
  <2> QED BY <1>5, <2>1, <2>2 DEF Enduring
<1>7. ASSUME NEW w \in Workspace, SetActive(w) PROVE Enduring
  <2> DEFINE x == [store EXCEPT !.active = w]
  <2>1. Command(x)
    BY <1>7 DEF SetActive
  <2>2. x.row = r
    BY <1>1, Renewed
  <2> HIDE DEF x
  <2> QED BY <1>5, <2>1, <2>2 DEF Enduring
<1>8. ASSUME NEW w \in Workspace, DeleteWorkspace(w) PROVE Enduring
  <2> DEFINE t == Deleted(store.row, w)
             a == NextActive(store, t, w)
             sel == [store.selected EXCEPT ![w] = None]
             x == [store EXCEPT !.row = t, !.active = a, !.selected = sel]
  <2>1. Command(x)
    BY <1>8 DEF DeleteWorkspace
  <2>2. Lasting(r, t)
    BY <1>1, <1>2, RowLasts
  <2> HIDE DEF t, a, sel
  <2>3. x.row = t
    BY <1>1, Renewed
  <2> HIDE DEF x
  <2> QED BY <2>1, <2>2, <2>3 DEF Enduring
<1>9. ASSUME NEW w \in Workspace, NEW name \in Name, CreateWorkspace(w, name) PROVE Enduring
  <2> DEFINE t == Put(store.row, w, name)
             x == [store EXCEPT !.row = t, !.active = w]
  <2>1. Command(x) /\ r[w].state # "dead"
    BY <1>9 DEF CreateWorkspace, MayCreate
  <2>2. Lasting(r, t)
    BY <1>1, <1>2, <2>1, RowLasts
  <2> HIDE DEF t
  <2>3. x.row = t
    BY <1>1, Renewed
  <2> HIDE DEF x
  <2> QED BY <2>1, <2>2, <2>3 DEF Enduring
<1>10. ASSUME NEW w \in Workspace, NEW keys \in Lists(w), ReplaceVariables(w, keys) PROVE Enduring
  <2> DEFINE t == Replaced(store.row, w, keys)
             x == [store EXCEPT !.row = t]
  <2>1. Command(x)
    BY <1>10 DEF ReplaceVariables
  <2>2. Lasting(r, t)
    BY <1>1, <1>2, RowLasts
  <2> HIDE DEF t
  <2>3. x.row = t
    BY <1>1, Renewed
  <2> HIDE DEF x
  <2> QED BY <2>1, <2>2, <2>3 DEF Enduring
<1>11. ASSUME NEW w \in Workspace, NEW e \in Environment \cup {None}, SelectEnvironment(w, e) PROVE Enduring
  <2> DEFINE sel == [store.selected EXCEPT ![w] = e]
             x == [store EXCEPT !.selected = sel]
  <2>1. Command(x)
    BY <1>11 DEF SelectEnvironment
  <2> HIDE DEF sel
  <2>2. x.row = r
    BY <1>1, Renewed
  <2> HIDE DEF x
  <2> QED BY <1>5, <2>1, <2>2 DEF Enduring
<1>12. ASSUME NEW e \in Environment, NEW name \in Name, CreateEnvironment(e, name) PROVE Enduring
  <2> DEFINE w == Home[e]
             t == Put(store.row, e, name)
             f == IF \A m \in Live(store.row) \cap Environment : Home[m] # w THEN e ELSE store.selected[w]
             sel == [store.selected EXCEPT ![w] = f]
             x == [store EXCEPT !.row = t, !.selected = sel]
  <2>1. Command(x) /\ r[e].state # "dead"
    BY <1>12 DEF CreateEnvironment, MayCreate
  <2>2. Lasting(r, t)
    BY <1>1, <1>3, <2>1, RowLasts
  <2> HIDE DEF t, sel
  <2>3. x.row = t
    BY <1>1, Renewed
  <2> HIDE DEF x
  <2> QED BY <2>1, <2>2, <2>3 DEF Enduring
<1>13. ASSUME NEW e \in Environment, NEW name \in Name, NEW keys \in Lists(e), UpdateEnvironment(e, name, keys)
       PROVE  Enduring
  <2> DEFINE p == Put(store.row, e, name)
             t == Replaced(p, e, keys)
             x == [store EXCEPT !.row = t]
  <2>1. Command(x) /\ e \in Live(r)
    BY <1>13 DEF UpdateEnvironment
  <2>2. p \in Rows /\ Lasting(r, p)
    BY <1>1, <1>3, <2>1, PutRow, RowLasts DEF Live
  <2> HIDE DEF p
  <2>3. Lasting(p, t)
    BY <1>3, <2>2, RowLasts
  <2> HIDE DEF t
  <2>4. Lasting(r, t)
    BY <1>1, <1>3, <2>2, <2>3, RowLasts
  <2>5. x.row = t
    BY <1>1, Renewed
  <2> HIDE DEF x
  <2> QED BY <2>1, <2>4, <2>5 DEF Enduring
<1>14. ASSUME NEW e \in Environment, DeleteEnvironment(e) PROVE Enduring
  <2> DEFINE t == Deleted(store.row, e)
             sel == NextSelected(store, t, e)
             x == [store EXCEPT !.row = t, !.selected = sel]
  <2>1. Command(x)
    BY <1>14 DEF DeleteEnvironment
  <2>2. Lasting(r, t)
    BY <1>1, <1>3, RowLasts
  <2> HIDE DEF t, sel
  <2>3. x.row = t
    BY <1>1, Renewed
  <2> HIDE DEF x
  <2> QED BY <2>1, <2>2, <2>3 DEF Enduring
<1>15. ASSUME NEW v \in Variable \cup EnvVariable, DeleteVariable(v) PROVE Enduring
  <2> DEFINE t == Deleted(store.row, v)
             x == [store EXCEPT !.row = t]
  <2>1. Command(x)
    BY <1>15 DEF DeleteVariable
  <2>2. Lasting(r, t)
    BY <1>1, <1>4, RowLasts
  <2> HIDE DEF t
  <2>3. x.row = t
    BY <1>1, Renewed
  <2> HIDE DEF x
  <2> QED BY <2>1, <2>2, <2>3 DEF Enduring
<1>16. ASSUME NEW n \in Entity, NEW name \in Name, Command([store EXCEPT !.row = Put(@, n, name)]), r[n].state # "dead"
       PROVE  Enduring
  <2> DEFINE t == Put(store.row, n, name)
             x == [store EXCEPT !.row = t]
  <2>1. Command(x)
    BY <1>16
  <2>2. Lasting(r, t)
    BY <1>1, <1>16, RowLasts
  <2> HIDE DEF t
  <2>3. x.row = t
    BY <1>1, Renewed
  <2> HIDE DEF x
  <2> QED BY <2>1, <2>2, <2>3 DEF Enduring
<1>17. ASSUME NEW v \in Variable \cup EnvVariable, NEW name \in Name, CreateVariable(v, name) PROVE Enduring
  BY <1>4, <1>16, <1>17 DEF CreateVariable, MayCreate
<1>18. ASSUME NEW n \in Entity, NEW name \in Name, Rename(n, name) PROVE Enduring
  BY <1>16, <1>18 DEF Rename, MayRename, Live
<1> HIDE DEF r
<1> QED BY <1>6, <1>7, <1>8, <1>9, <1>10, <1>11, <1>12, <1>13, <1>14, <1>15, <1>17, <1>18

\* The order of due_outbox leaves none of the set out.
LEMMA PlacedAll ==
  ASSUME NEW t, NEW S \in SUBSET Entity, NEW n \in S
  PROVE  \E i \in 1..Len(InOrder(t, S)) : InOrder(t, S)[i] = n
<1> DEFINE Before(m, k) == Key(t, m) < Key(t, k) \/ (Key(t, m) = Key(t, k) /\ Rank[m] < Rank[k])
           Ahead(k) == {m \in S : Before(m, k)}
           c == Cardinality(S)
<1>1. \A k \in Entity : Key(t, k) \in Int /\ Rank[k] \in Int
  BY RankAssumption DEF Key, Depth
<1>2. \A m, k \in Entity : Rank[m] = Rank[k] => m = k
  BY RankAssumption DEF IsInjective
<1>3. IsFiniteSet(S) /\ c \in Nat
  BY IdsAssumption, FS_Subset, FS_CardinalityType
<1>4. ASSUME NEW k \in S PROVE IsFiniteSet(Ahead(k)) /\ Cardinality(Ahead(k)) \in 0..c - 1
  <2>1. Ahead(k) \in SUBSET S /\ k \notin Ahead(k)
    BY <1>1
  <2> HIDE DEF Ahead
  <2>2. IsFiniteSet(Ahead(k)) /\ Cardinality(Ahead(k)) <= c /\ (Cardinality(Ahead(k)) = c => Ahead(k) = S)
    BY <1>3, <2>1, FS_Subset
  <2>3. Cardinality(Ahead(k)) \in Nat
    BY <2>2, FS_CardinalityType
  <2> HIDE DEF c
  <2> QED BY <1>3, <2>1, <2>2, <2>3
<1>5. ASSUME NEW m \in S, NEW k \in S, Before(m, k) PROVE Cardinality(Ahead(m)) # Cardinality(Ahead(k))
  <2>1. Ahead(m) \in SUBSET Ahead(k) /\ m \in Ahead(k) /\ m \notin Ahead(m)
    BY <1>1, <1>5
  <2> HIDE DEF Ahead
  <2> QED BY <1>4, <2>1, FS_Subset
<1>6. ASSUME NEW m \in S, NEW k \in S, m # k PROVE Before(m, k) \/ Before(k, m)
  BY <1>1, <1>2, <1>6
<1>7. PICK i : i = Cardinality(Ahead(n)) + 1
  OBVIOUS
<1>8. i \in 1..c /\ Cardinality(Ahead(n)) = i - 1
  <2> HIDE DEF Ahead, c
  <2> QED BY <1>3, <1>4, <1>7
<1>9. \A m \in S : Cardinality(Ahead(m)) = i - 1 => m = n
  <2> HIDE DEF Ahead, Before, c
  <2> QED BY <1>5, <1>6, <1>8
<1>10. InOrder(t, S) = [j \in 1..c |-> CHOOSE k \in S : Cardinality(Ahead(k)) = j - 1]
  BY DEF InOrder
<1> HIDE DEF Ahead, c
<1>11. Len(InOrder(t, S)) = c
  BY <1>3, <1>10
<1>12. InOrder(t, S)[i] = CHOOSE k \in S : Cardinality(Ahead(k)) = i - 1
  BY <1>8, <1>10
<1>13. InOrder(t, S)[i] = n
  BY <1>8, <1>9, <1>12
<1> QED BY <1>8, <1>11, <1>13

\* The stream m is l with a change of each member of S, as t has it.
Grows(l, m, t, S) ==
  /\ Len(l) \in Nat /\ Len(m) \in Nat
  /\ \A i \in 1..Len(l) : i \in 1..Len(m) /\ m[i] = l[i]
  /\ \A i \in 1..Len(m) : i \in 1..Len(l) \/ (i > Len(l) /\ \E n \in S : m[i] = Change(t, n))
  /\ \A n \in S : \E i \in 1..Len(m) : i > Len(l) /\ m[i] = Change(t, n)

LEMMA StreamGrows ==
  ASSUME NEW l \in Seq(Changes), NEW t, NEW S \in SUBSET Entity, NEW m,
         m = LET seq == InOrder(t, S) IN l \o [i \in 1..Len(seq) |-> Change(t, seq[i])]
  PROVE  Grows(l, m, t, S)
<1> DEFINE seq == InOrder(t, S)
           new == [i \in 1..Len(seq) |-> Change(t, seq[i])]
           N == Len(seq)
           L == Len(l)
<1>1. N \in Nat /\ \A i \in 1..N : seq[i] \in S
  BY Placed
<1>2. \A n \in S : \E i \in 1..N : seq[i] = n
  BY PlacedAll
<1>3. m = l \o new
  OBVIOUS
<1> HIDE DEF seq
<1>4. Len(new) = N /\ \A i \in 1..N : new[i] = Change(t, seq[i])
  BY <1>1
<1>5. new \in Seq({Change(t, n) : n \in S})
  <2>1. new \in [1..N -> {Change(t, n) : n \in S}]
    BY <1>1
  <2> HIDE DEF new, N
  <2> QED BY <1>1, <2>1, SeqDef DEF N
<1> HIDE DEF new, N
<1>6. L \in Nat /\ Len(m) = L + N
  <2> DEFINE T == Changes \cup {Change(t, n) : n \in S}
  <2>1. l \in Seq(T) /\ new \in Seq(T)
    BY <1>5
  <2> HIDE DEF T
  <2>2. Len(l \o new) = Len(l) + Len(new)
    BY <2>1
  <2>3. Len(l) \in Nat
    BY <2>1
  <2> QED BY <1>3, <1>4, <2>2, <2>3
<1>7. /\ \A i \in 1..L : m[i] = l[i]
      /\ \A i \in (L + 1)..(L + N) : m[i] = new[i - L]
  <2> DEFINE T == Changes \cup {Change(t, n) : n \in S}
  <2>1. l \in Seq(T) /\ new \in Seq(T)
    BY <1>5
  <2> HIDE DEF T
  <2>2. \A i \in 1..(Len(l) + Len(new)) : (l \o new)[i] = IF i <= Len(l) THEN l[i] ELSE new[i - Len(l)]
    BY <2>1, ConcatProperties
  <2> QED BY <1>1, <1>3, <1>4, <1>6, <2>2
<1> HIDE DEF L
<1>8. \A i \in 1..L : i \in 1..Len(m) /\ m[i] = l[i]
  BY <1>1, <1>6, <1>7
<1>9. ASSUME NEW i \in 1..Len(m) PROVE i \in 1..L \/ (i > L /\ \E n \in S : m[i] = Change(t, n))
  <2> SUFFICES ASSUME ~(i <= L) PROVE i > L /\ \E n \in S : m[i] = Change(t, n)
    BY <1>6
  <2>1. i > L /\ i \in (L + 1)..(L + N) /\ i - L \in 1..N
    BY <1>1, <1>6
  <2> QED BY <1>1, <1>4, <1>7, <2>1
<1>10. ASSUME NEW n \in S PROVE \E i \in 1..Len(m) : i > L /\ m[i] = Change(t, n)
  <2>1. PICK j \in 1..N : seq[j] = n
    BY <1>2
  <2>2. L + j \in 1..Len(m) /\ L + j > L /\ L + j \in (L + 1)..(L + N) /\ (L + j) - L = j
    BY <1>1, <1>6
  <2> QED BY <1>4, <1>7, <2>1, <2>2
<1>11. Len(m) \in Nat
  BY <1>1, <1>6
<1> QED BY <1>6, <1>8, <1>9, <1>10, <1>11 DEF Grows, L

\* Rows t of the server after a step that adds the changes of S to its stream.
LEMMA GrownShown ==
  ASSUME log \in Seq(Changes), LatestShown(log, cloud), HomesKnown(log, cloud),
         NEW t \in Rows, NEW S \in SUBSET Synced, NEW m, Grows(log, m, t, S),
         \A n \in S : t[n].state # "absent" /\ (~Rooted(n) => t[Home[n]].state # "absent"),
         \A n \in Entity : t[n].state = "absent" => cloud[n].state = "absent",
         \A n \in Synced : Pending(log, n) /\ n \notin S => t[n] = cloud[n]
  PROVE  /\ LatestShown(m, t) /\ HomesKnown(m, t)
         /\ \A n \in Synced : Pending(log, n) => Pending(m, n)
         /\ \A n \in S : Pending(m, n)
         /\ (\A n \in Holders \cap Synced : Pending(log, n) /\ cloud[n].state = "dead" => t[n].state = "dead")
              /\ StayDead(log, cloud) => StayDead(m, t)
<1>1. /\ Len(log) \in Nat /\ Len(m) \in Nat
      /\ \A i \in 1..Len(log) : i \in 1..Len(m) /\ m[i] = log[i]
      /\ \A i \in 1..Len(m) : i \in 1..Len(log) \/ (i > Len(log) /\ \E n \in S : m[i] = Change(t, n))
      /\ \A n \in S : \E i \in 1..Len(m) : i > Len(log) /\ m[i] = Change(t, n)
  BY DEF Grows
<1>2. ASSUME NEW i \in 1..Len(log)
      PROVE  log[i].n \in Synced /\ log[i].n \in Entity /\ Pending(log, log[i].n)
  <2>1. log[i] \in Changes
    OBVIOUS
  <2>2. log[i].n \in Synced
    BY <2>1 DEF Changes
  <2> QED BY <2>2, SharedPart DEF Pending
<1>3. \A n : Change(t, n).n = n /\ (Change(t, n).op = "delete" <=> t[n].state = "dead") /\ Change(t, n).name = t[n].name
  BY DEF Change
<1>4. ASSUME NEW n \in S PROVE n \in Entity /\ t[n].state \in {"live", "dead"}
  <2>1. n \in Entity
    BY SharedPart
  <2>2. t[n] \in Row
    BY <2>1 DEF Rows
  <2> QED BY <2>1, <2>2 DEF Row
<1>5. \A n \in Synced : Pending(log, n) => Pending(m, n)
  BY <1>1 DEF Pending
<1>6. \A n \in S : Pending(m, n)
  BY <1>1, <1>3 DEF Pending
<1>7. ASSUME NEW i \in 1..Len(m), \A j \in 1..Len(m) : j > i => m[j].n # m[i].n PROVE Shows(t, m[i])
  <2>1. CASE i > Len(log) /\ \E n \in S : m[i] = Change(t, n)
    BY <1>3, <1>4, <2>1 DEF Shows, Live
  <2>2. CASE i \in 1..Len(log)
    <3>1. m[i] = log[i]
      BY <1>1, <2>2
    <3>2. log[i].n \notin S
      <4> SUFFICES ASSUME log[i].n \in S PROVE FALSE
        OBVIOUS
      <4>1. PICK j \in 1..Len(m) : j > Len(log) /\ m[j] = Change(t, log[i].n)
        BY <1>1
      <4>2. j > i
        BY <1>1, <2>2, <4>1
      <4> QED BY <1>3, <1>7, <3>1, <4>1, <4>2
    <3>3. t[log[i].n] = cloud[log[i].n]
      BY <1>2, <2>2, <3>2
    <3>4. \A j \in 1..Len(log) : j > i => log[j].n # log[i].n
      BY <1>1, <1>7, <3>1
    <3>5. Shows(cloud, log[i])
      BY <2>2, <3>4 DEF LatestShown
    <3> QED BY <3>1, <3>3, <3>5 DEF Shows, Live
  <2> QED BY <1>1, <2>1, <2>2
<1>8. ASSUME NEW i \in 1..Len(m), ~Rooted(m[i].n) PROVE t[Home[m[i].n]].state # "absent"
  <2>1. CASE i > Len(log) /\ \E n \in S : m[i] = Change(t, n)
    BY <1>3, <1>8, <2>1
  <2>2. CASE i \in 1..Len(log)
    <3>1. m[i] = log[i] /\ log[i].n \in Synced \ Workspace
      BY <1>1, <1>2, <1>8, <2>2 DEF Rooted
    <3>2. Home[log[i].n] \in Entity
      BY <3>1, HolderOf
    <3> QED BY <1>8, <2>2, <3>1, <3>2 DEF HomesKnown
  <2> QED BY <1>1, <2>1, <2>2
<1>9. ASSUME \A n \in Holders \cap Synced : Pending(log, n) /\ cloud[n].state = "dead" => t[n].state = "dead",
             StayDead(log, cloud), NEW i \in 1..Len(m), m[i].op = "delete", m[i].n \in Holders
      PROVE  t[m[i].n].state = "dead"
  <2>1. CASE i > Len(log) /\ \E n \in S : m[i] = Change(t, n)
    BY <1>3, <1>9, <2>1
  <2>2. CASE i \in 1..Len(log)
    BY <1>1, <1>2, <1>9, <2>2 DEF StayDead
  <2> QED BY <1>1, <2>1, <2>2
<1>10. LatestShown(m, t) /\ HomesKnown(m, t)
  BY <1>7, <1>8 DEF LatestShown, HomesKnown
<1> QED BY <1>5, <1>6, <1>9, <1>10 DEF StayDead

\* What a write of the other device makes of the rows of the server.
Edited(t) ==
  /\ t \in Rows /\ NoOrphan(t)
  /\ \A n \in Entity \ Synced : t[n] = cloud[n]
  /\ \A n \in Entity : t[n].state = "absent" => t[n] = cloud[n]
  /\ \A n \in Entity \ Workspace : t[n] # cloud[n] => Home[n] \in Live(cloud)

LEMMA PutEdits ==
  ASSUME cloud \in Rows, NoOrphan(cloud), NEW n \in Synced, NEW name \in Name,
         ~Rooted(n) => Home[n] \in Live(cloud)
  PROVE  Edited(Put(cloud, n, name))
<1> DEFINE t == Put(cloud, n, name)
<1>1. n \in Entity
  BY SharedPart
<1>2. /\ t \in Rows /\ Live(t) = Live(cloud) \cup {n}
      /\ t[n] = [state |-> "live", name |-> name] /\ \A m \in Entity \ {n} : t[m] = cloud[m]
  BY <1>1, PutRow
<1> HIDE DEF t
<1>3. t[n].state = "live"
  BY <1>2
<1>4. ASSUME NEW m \in Live(t) \ Workspace PROVE Home[m] \in Live(t)
  <2>1. CASE m = n
    BY <1>1, <1>2, <1>4, <2>1, Kinds
  <2>2. CASE m # n
    BY <1>2, <1>4, <2>2 DEF NoOrphan
  <2> QED BY <2>1, <2>2
<1>5. \A m \in Entity \ Workspace : t[m] # cloud[m] => Home[m] \in Live(cloud)
  BY <1>1, <1>2, Kinds
<1>6. NoOrphan(t)
  BY <1>4 DEF NoOrphan
<1>7. \A m \in Entity : t[m].state = "absent" => t[m] = cloud[m]
  BY <1>2, <1>3
<1>8. \A m \in Entity \ Synced : t[m] = cloud[m]
  BY <1>2
<1>9. Edited(t)
  BY <1>2, <1>5, <1>6, <1>7, <1>8 DEF Edited
<1> QED BY <1>9 DEF t

LEMMA DeleteEdits ==
  ASSUME cloud \in Rows, NoOrphan(cloud), NEW n \in Synced, n \in Live(cloud)
  PROVE  Edited(Deleted(cloud, n))
<1> DEFINE t == Deleted(cloud, n)
           S == ({n} \cup Below(n)) \cap Live(cloud)
<1>1. n \in Entity /\ {n} \cup Below(n) \subseteq Synced
  BY SharedPart
<1>2. /\ t \in Rows /\ Live(t) = Live(cloud) \ S
      /\ \A m \in Entity : t[m] = IF m \in S THEN [state |-> "dead", name |-> cloud[m].name] ELSE cloud[m]
  BY BuryRow DEF Deleted
<1>3. S \subseteq Synced /\ S \subseteq Live(cloud)
  BY <1>1
<1>4. ASSUME NEW m \in Live(t) \ Workspace PROVE Home[m] \in Live(t)
  <2>1. m \in Entity \ Workspace /\ m \in Live(cloud) /\ m \notin {n} \cup Below(n)
    BY <1>2, <1>4 DEF Live
  <2>2. Home[m] \in Live(cloud)
    BY <2>1 DEF NoOrphan
  <2>3. Home[m] \notin {n} \cup Below(n)
    BY <1>1, <2>1, Descent
  <2> QED BY <1>2, <2>2, <2>3
<1> HIDE DEF t, S
<1>5. ASSUME NEW m \in Entity, m \in S PROVE t[m].state = "dead"
  <2>1. t[m] = [state |-> "dead", name |-> cloud[m].name]
    BY <1>2, <1>5
  <2> QED BY <2>1
<1>6. \A m \in Entity : m \notin S => t[m] = cloud[m]
  BY <1>2
<1>7. \A m \in Entity \ Workspace : t[m] # cloud[m] => Home[m] \in Live(cloud)
  BY <1>3, <1>6 DEF NoOrphan
<1>8. NoOrphan(t)
  BY <1>4 DEF NoOrphan
<1>9. \A m \in Entity : t[m].state = "absent" => t[m] = cloud[m]
  BY <1>5, <1>6
<1>10. \A m \in Entity \ Synced : t[m] = cloud[m]
  BY <1>3, <1>6
<1>11. Edited(t)
  BY <1>2, <1>7, <1>8, <1>9, <1>10 DEF Edited
<1> QED BY <1>11 DEF t

LEMMA ReplaceEdits ==
  ASSUME cloud \in Rows, NoOrphan(cloud), NEW p \in Synced, p \in Holders, p \in Live(cloud), NEW keys \in Lists(p)
  PROVE  Edited(Replaced(cloud, p, keys))
<1> DEFINE t == Replaced(cloud, p, keys)
<1>1. p \in Entity /\ Below(p) \subseteq Synced
  BY SharedPart
<1>2. /\ t \in Rows
      /\ \A n \in Listed(p) : n \in Entity /\ n \notin Holders /\ Home[n] = p
      /\ \A n \in Entity \ Listed(p) : t[n] = cloud[n]
  BY <1>1, ReplacedRow DEF Holders
<1>3. Listed(p) \subseteq Synced
  BY <1>1, <1>2 DEF Below, Holders
<1>4. ASSUME NEW n \in Entity, t[n].state = "absent" PROVE t[n] = cloud[n]
  <2>1. t[n] = IF n \notin Listed(p) THEN cloud[n]
               ELSE IF n \in DOMAIN keys THEN [state |-> "live", name |-> keys[n]]
               ELSE IF n \in Live(cloud) THEN [cloud[n] EXCEPT !.state = "dead"] ELSE cloud[n]
    BY DEF Replaced
  <2>2. [cloud[n] EXCEPT !.state = "dead"].state = "dead"
    BY DEF Rows, Row
  <2>3. [state |-> "live", name |-> keys[n]].state = "live"
    OBVIOUS
  <2> HIDE DEF t
  <2> QED BY <1>4, <2>1, <2>2, <2>3
<1> HIDE DEF t
<1>5. p \in Live(t)
  BY <1>1, <1>2 DEF Live
<1>6. ASSUME NEW n \in Live(t) \ Workspace PROVE Home[n] \in Live(t)
  <2>1. CASE n \in Listed(p)
    BY <1>2, <1>5, <2>1
  <2>2. CASE n \notin Listed(p)
    <3>1. n \in Entity \ Workspace /\ n \in Live(cloud)
      BY <1>2, <1>6, <2>2 DEF Live
    <3>2. Home[n] \in Live(cloud) /\ Home[n] \in Entity /\ Home[n] \in Holders
      BY <3>1, Kinds DEF NoOrphan, Holders
    <3> QED BY <1>2, <3>2 DEF Live
  <2> QED BY <2>1, <2>2
<1>7. \A n \in Entity \ Workspace : t[n] # cloud[n] => Home[n] \in Live(cloud)
  BY <1>2
<1>8. NoOrphan(t)
  BY <1>6 DEF NoOrphan
<1>9. \A n \in Entity \ Synced : t[n] = cloud[n]
  BY <1>2, <1>3
<1>10. Edited(t)
  BY <1>2, <1>4, <1>7, <1>8, <1>9 DEF Edited
<1> QED BY <1>10 DEF t

Edition == \E t : Edited(t) /\ Foreign(t)

LEMMA WritesEdit ==
  ASSUME Inv, NoOrphan(cloud)
  PROVE  /\ \A n \in Entity, name \in Name : CloudRename(n, name) \/ CloudCreate(n, name) => Edition
         /\ \A n \in Entity : CloudDelete(n) \/ CloudRestore(n) => Edition
         /\ \A p \in Workspace \cup Environment : \A keys \in Lists(p) : CloudReplace(p, keys) => Edition
<1>1. cloud \in Rows /\ \A n \in Live(cloud) : n \in Synced /\ n \in Entity
  BY Shape DEF Away, Live
<1>2. \A n \in Synced : n \in Entity
  BY SharedPart
<1>3. ASSUME NEW n \in Entity, NEW name \in Name, CloudRename(n, name) \/ CloudCreate(n, name) PROVE Edition
  <2>1. Foreign(Put(cloud, n, name)) /\ n \in Synced /\ (~Rooted(n) => Home[n] \in Live(cloud))
    BY <1>1, <1>3, Kinds DEF CloudRename, CloudCreate, MayRename, MayCreate, NoOrphan
  <2> QED BY <1>1, <2>1, PutEdits DEF Edition
<1>4. ASSUME NEW n \in Entity, CloudDelete(n) PROVE Edition
  <2>1. n \in Live(cloud) /\ n \in Synced /\ Foreign(Deleted(cloud, n))
    BY <1>1, <1>4 DEF CloudDelete
  <2> QED BY <1>1, <2>1, DeleteEdits DEF Edition
<1>5. ASSUME NEW n \in Entity, CloudRestore(n) PROVE Edition
  <2>1. /\ n \in Synced /\ (~Rooted(n) => Home[n] \in Live(cloud))
        /\ Foreign(Put(cloud, n, cloud[n].name))
    BY <1>5 DEF CloudRestore
  <2>2. cloud[n].name \in Name
    BY <1>1 DEF Rows, Row
  <2> QED BY <1>1, <2>1, <2>2, PutEdits DEF Edition
<1>6. ASSUME NEW p \in Workspace \cup Environment, NEW keys \in Lists(p), CloudReplace(p, keys) PROVE Edition
  <2>1. p \in Live(cloud) /\ p \in Synced /\ p \in Holders /\ Foreign(Replaced(cloud, p, keys))
    BY <1>1, <1>6 DEF CloudReplace, Holders
  <2> QED BY <1>1, <2>1, ReplaceEdits DEF Edition
<1> QED BY <1>3, <1>4, <1>5, <1>6

LEMMA EditionConverges ==
  ASSUME Inv, Converging, NEW t, Edited(t), Foreign(t)
  PROVE  Converging'
<1> DEFINE S == Changed(cloud, t)
           m == LET seq == InOrder(t, S) IN log \o [i \in 1..Len(seq) |-> Change(t, seq[i])]
<1>1. log \in Seq(Changes) /\ cloud \in Rows /\ queued \subseteq Synced
      /\ spent \in [edits : 0..MaxEdits, writes : 0..MaxWrites, restored : BOOLEAN]
  BY Shape
<1>2. /\ cloud' = t /\ log' = m /\ UNCHANGED <<store, queued, conflict>>
      /\ spent' = [spent EXCEPT !.writes = spent.writes + 1, !.restored = spent.restored \/ Restores(t)]
  BY DEF Foreign
<1>3. S \in SUBSET Synced /\ S \in SUBSET Entity /\ (\A n \in S : t[n] # cloud[n])
      /\ (\A n \in Entity : n \notin S => t[n] = cloud[n])
  BY DEF Changed, Edited
<1> HIDE DEF S
<1>4. Grows(log, m, t, S)
  BY <1>1, <1>3, StreamGrows
<1> HIDE DEF m
<1>5. /\ t \in Rows /\ NoOrphan(t)
      /\ \A n \in Entity : t[n].state = "absent" => t[n] = cloud[n]
      /\ \A n \in S : ~Rooted(n) => Home[n] \in Live(cloud)
  BY <1>3, Kinds DEF Edited
<1>6. /\ NoOrphan(cloud) /\ LatestShown(log, cloud) /\ HomesKnown(log, cloud)
      /\ QueuedKnown(queued, store.row)
      /\ ~spent.restored => StayDead(log, cloud)
      /\ Calm => AllAgree(queued, store.row, cloud, log) /\ AllHoused(queued, store.row, cloud, log)
  BY DEF Converging
<1>8. ~spent'.restored => ~spent.restored /\ ~Restores(t)
  <2> DEFINE b == spent.restored \/ Restores(t)
             w == spent.writes + 1
  <2>1. spent' = [spent EXCEPT !.writes = w, !.restored = b]
    BY <1>2
  <2> HIDE DEF b, w
  <2>2. spent'.restored = b
    BY <1>1, <2>1
  <2> QED BY <2>2 DEF b
<1>9. /\ \A n \in S : t[n].state # "absent" /\ (~Rooted(n) => t[Home[n]].state # "absent")
      /\ \A n \in Entity : t[n].state = "absent" => cloud[n].state = "absent"
      /\ \A n \in Synced : Pending(log, n) /\ n \notin S => t[n] = cloud[n]
  <2>1. ASSUME NEW n \in S, ~Rooted(n) PROVE t[Home[n]].state # "absent"
    <3>1. Home[n] \in Entity /\ cloud[Home[n]].state = "live"
      BY <1>5, <2>1 DEF Live
    <3> QED BY <1>5, <3>1
  <2> QED BY <1>3, <1>5, <2>1, SharedPart
<1>10. /\ LatestShown(m, t) /\ HomesKnown(m, t)
       /\ \A n \in Synced : Pending(log, n) => Pending(m, n)
       /\ \A n \in S : Pending(m, n)
       /\ (\A n \in Holders \cap Synced : Pending(log, n) /\ cloud[n].state = "dead" => t[n].state = "dead")
            /\ StayDead(log, cloud) => StayDead(m, t)
  BY <1>1, <1>3, <1>4, <1>5, <1>6, <1>9, GrownShown
<1>11. ASSUME ~Restores(t), NEW n \in Holders, n \in Entity, cloud[n].state = "dead" PROVE t[n].state = "dead"
  <2>1. t[n].state # "absent" /\ n \notin Live(t)
    BY <1>5, <1>11 DEF Restores, Holders
  <2>2. t[n] \in Row
    BY <1>5, <1>11 DEF Rows
  <2> QED BY <1>11, <2>1, <2>2 DEF Live, Row
<1>12. ~spent'.restored => StayDead(m, t)
  BY <1>6, <1>8, <1>10, <1>11, SharedPart
<1>13. ASSUME conflict' = {}, ~spent'.restored
       PROVE  AllAgree(queued, store.row, t, m) /\ AllHoused(queued, store.row, t, m)
  <2>1. AllAgree(queued, store.row, cloud, log) /\ AllHoused(queued, store.row, cloud, log) /\ ~Restores(t)
    BY <1>2, <1>6, <1>8, <1>13 DEF Calm
  <2>2. ASSUME NEW n \in Synced \ queued, ~Pending(m, n)
        PROVE  Agrees(store.row, t, n) \/ (n \notin Live(store.row) /\ Covered(queued, store.row, n))
    <3>1. n \notin S /\ ~Pending(log, n) /\ n \in Entity
      BY <1>10, <2>2, SharedPart
    <3>2. t[n] = cloud[n]
      BY <1>3, <3>1
    <3>3. Agrees(store.row, cloud, n) \/ (n \notin Live(store.row) /\ Covered(queued, store.row, n))
      BY <2>1, <3>1 DEF AllAgree
    <3> QED BY <3>2, <3>3 DEF Agrees, Live
  <2>3. ASSUME NEW i \in 1..Len(m), m[i].op = "upsert", ~Rooted(m[i].n), Home[m[i].n] \in Live(t),
               \A j \in 1..Len(m) : j < i => m[j].n # Home[m[i].n]
        PROVE  Sheltered(queued, store.row, Home[m[i].n])
    <3>1. PICK h : h = Home[m[i].n]
      OBVIOUS
    <3>2. /\ Len(log) \in Nat /\ Len(m) \in Nat
          /\ \A j \in 1..Len(log) : j \in 1..Len(m) /\ m[j] = log[j]
          /\ i \in 1..Len(log) \/ (i > Len(log) /\ \E n \in S : m[i] = Change(t, n))
      BY <1>4 DEF Grows
    <3>3. h \in Entity /\ h \in Live(t)
      BY <2>3, <3>1 DEF Live
    <3>4. CASE i \in 1..Len(log)
      <4>1. m[i] = log[i] /\ \A j \in 1..Len(log) : j < i => log[j].n # h
        BY <2>3, <3>1, <3>2, <3>4
      <4>2. log[i].n \in Synced \ Workspace
        <5>1. log[i] \in Changes
          BY <1>1, <3>4
        <5> QED BY <2>3, <4>1, <5>1 DEF Changes, Rooted
      <4>3. h \in Holders /\ cloud[h].state # "absent"
        BY <1>6, <2>3, <3>1, <3>4, <4>1, <4>2, HolderOf DEF HomesKnown
      <4>4. h \in Live(cloud)
        <5>1. cloud[h] \in Row /\ cloud[h].state # "dead"
          BY <1>1, <1>11, <2>1, <3>3, <4>3 DEF Rows, Live
        <5> QED BY <3>3, <4>3, <5>1 DEF Row, Live
      <4> QED BY <2>1, <2>3, <3>1, <3>4, <4>1, <4>4 DEF AllHoused
    <3>5. CASE i > Len(log) /\ \E n \in S : m[i] = Change(t, n)
      <4>1. PICK n \in S : m[i] = Change(t, n)
        BY <3>5
      <4>2. m[i].n = n /\ n \in Synced \ Workspace
        BY <1>3, <2>3, <4>1 DEF Change, Rooted
      <4>3. h \in Live(cloud) /\ h \in Synced
        BY <1>5, <2>3, <3>1, <4>1, <4>2, HolderOf
      <4>4. ~Pending(log, h)
        <5>1. ASSUME NEW j \in 1..Len(log) PROVE log[j].n # h
          <6>1. j \in 1..Len(m) /\ m[j] = log[j] /\ j < i
            BY <3>2, <3>5
          <6> QED BY <2>3, <3>1, <6>1
        <5> QED BY <5>1 DEF Pending
      <4>5. h \in queued \/ Agrees(store.row, cloud, h) \/ Covered(queued, store.row, h)
        BY <2>1, <4>3, <4>4 DEF AllAgree
      <4> QED BY <3>1, <4>3, <4>5 DEF Agrees, Sheltered
    <3> QED BY <3>2, <3>4, <3>5
  <2>4. AllAgree(queued, store.row, t, m)
    BY <2>2 DEF AllAgree
  <2>5. AllHoused(queued, store.row, t, m)
    BY <2>3 DEF AllHoused
  <2> QED BY <2>4, <2>5
<1>14. store'.row = store.row
  BY <1>2
<1> QED BY <1>2, <1>5, <1>6, <1>10, <1>12, <1>13, <1>14, Onward

\* A push: the server takes the row of n and deletes what it held under a deleted n.
LEMMA PushConverges ==
  ASSUME Inv, Converging, NEW n \in Entity, Push(n)
  PROVE  Converging'
<1>1. PICK r : r = store.row
  OBVIOUS
<1>2. PICK gone : gone = IF n \in Live(r) THEN {} ELSE Below(n) \cap Live(cloud)
  OBVIOUS
<1>3. PICK b : b = Bury(cloud, gone)
  OBVIOUS
<1>4. PICK t : t = [b EXCEPT ![n] = r[n]]
  OBVIOUS
<1>5. PICK m : m = LET seq == InOrder(t, gone) IN log \o [i \in 1..Len(seq) |-> Change(t, seq[i])]
  OBVIOUS
<1>6. /\ n \in queued /\ conflict = {} /\ \A i \in 1..Len(log) : log[i].n # n
      /\ n \in Live(r) /\ ~Rooted(n) => Home[n] \in Live(cloud)
      /\ cloud' = t /\ log' = m /\ queued' = queued \ {n} /\ UNCHANGED <<store, conflict, spent>>
  BY <1>1, <1>2, <1>3, <1>4, <1>5 DEF Push
<1>7. /\ r \in Rows /\ cloud \in Rows /\ queued \subseteq Synced /\ log \in Seq(Changes)
      /\ n \in Synced /\ gone \subseteq Synced /\ gone \subseteq Entity /\ gone \subseteq Live(cloud) /\ n \notin gone
  <2>1. r \in Rows /\ cloud \in Rows /\ queued \subseteq Synced /\ log \in Seq(Changes) /\ n \in Synced
    BY <1>1, <1>6, Shape, Parts DEF Kept
  <2>2. Below(n) \subseteq Synced /\ n \notin Below(n) /\ Synced \subseteq Entity
    BY <2>1, SharedPart, Descent
  <2> QED BY <1>2, <2>1, <2>2
<1>8. /\ t \in Rows /\ t[n] = r[n]
      /\ \A k \in gone : t[k].state = "dead"
      /\ \A k \in Entity : k # n /\ k \notin gone => t[k] = cloud[k]
  <2>1. /\ b \in Rows
        /\ \A k \in Entity : b[k] = IF k \in gone THEN [state |-> "dead", name |-> cloud[k].name] ELSE cloud[k]
    BY <1>3, <1>7, BuryRow
  <2>2. r[n] \in Row
    BY <1>7 DEF Rows
  <2>3. t \in Rows /\ t[n] = r[n] /\ \A k \in Entity : k # n => t[k] = b[k]
    BY <1>4, <2>1, <2>2 DEF Rows
  <2>4. ASSUME NEW k \in gone PROVE t[k].state = "dead"
    <3>1. t[k] = [state |-> "dead", name |-> cloud[k].name]
      BY <1>7, <2>1, <2>3
    <3> QED BY <3>1
  <2> QED BY <2>1, <2>3, <2>4
<1>9. /\ NoOrphan(cloud) /\ LatestShown(log, cloud) /\ HomesKnown(log, cloud)
      /\ QueuedKnown(queued, r)
      /\ ~spent.restored => StayDead(log, cloud)
      /\ ~spent.restored => AllAgree(queued, r, cloud, log) /\ AllHoused(queued, r, cloud, log)
  BY <1>1, <1>6 DEF Converging, Calm
<1>10. r[n].state \in {"live", "dead"} /\ (n \notin Live(r) => r[n].state = "dead")
  <2>1. r[n] \in Row /\ r[n].state # "absent"
    BY <1>6, <1>7, <1>9 DEF Rows, QueuedKnown
  <2> QED BY <2>1 DEF Row, Live
<1>11. ASSUME NEW k \in Entity, k \in Below(n), k \in Live(cloud) PROVE n \in Live(r) \/ k \in gone
  BY <1>2, <1>11
<1>12. ASSUME NEW k \in Live(t) \ Workspace PROVE Home[k] \in Live(t)
  <2>1. k \in Entity \ Workspace /\ Home[k] \in Entity /\ k # Home[k] /\ k \notin gone
    BY <1>8, <1>12, Kinds DEF Live
  <2>2. CASE k = n
    <3>1. n \in Live(r)
      BY <1>8, <1>12, <2>2 DEF Live
    <3>2. gone = {} /\ Home[n] \in Live(cloud)
      BY <1>2, <1>6, <2>1, <2>2, <3>1, Kinds
    <3> QED BY <1>8, <2>1, <2>2, <3>2 DEF Live
  <2>3. CASE k # n
    <3>1. k \in Live(cloud) /\ Home[k] \in Live(cloud)
      BY <1>8, <1>9, <1>12, <2>1, <2>3 DEF Live, NoOrphan
    <3>2. Home[k] \notin gone
      <4> SUFFICES ASSUME Home[k] \in gone PROVE FALSE
        OBVIOUS
      <4>1. n \notin Live(r) /\ Home[k] \in Below(n)
        BY <1>2
      <4> QED BY <1>11, <2>1, <3>1, <4>1, Descent
    <3>3. CASE Home[k] = n
      <4>1. n \in Live(r)
        BY <1>11, <2>1, <3>1, <3>3, Descent
      <4> QED BY <1>8, <3>3, <4>1 DEF Live
    <3>4. CASE Home[k] # n
      BY <1>8, <2>1, <3>1, <3>2, <3>4 DEF Live
    <3> QED BY <3>3, <3>4
  <2> QED BY <2>2, <2>3
<1>13. /\ \A k \in gone : t[k].state # "absent" /\ (~Rooted(k) => t[Home[k]].state # "absent")
       /\ \A k \in Entity : t[k].state = "absent" => cloud[k].state = "absent"
       /\ \A k \in Synced : Pending(log, k) /\ k \notin gone => t[k] = cloud[k]
  <2>1. \A k \in Entity : t[k].state = "absent" => cloud[k].state = "absent"
    BY <1>8, <1>10
  <2>2. ASSUME NEW k \in gone, ~Rooted(k) PROVE t[Home[k]].state # "absent"
    <3>1. Home[k] \in Live(cloud)
      BY <1>7, <1>9, <2>2, Kinds DEF NoOrphan
    <3>2. Home[k] \in Entity /\ cloud[Home[k]].state = "live"
      BY <3>1 DEF Live
    <3> QED BY <2>1, <3>2
  <2>3. \A k \in Synced : Pending(log, k) /\ k \notin gone => t[k] = cloud[k]
    BY <1>6, <1>8, SharedPart DEF Pending
  <2> QED BY <1>8, <2>1, <2>2, <2>3
<1>14. Grows(log, m, t, gone)
  BY <1>5, <1>7, StreamGrows
<1>15. /\ LatestShown(m, t) /\ HomesKnown(m, t)
       /\ \A k \in Synced : Pending(log, k) => Pending(m, k)
       /\ \A k \in gone : Pending(m, k)
       /\ (\A k \in Holders \cap Synced : Pending(log, k) /\ cloud[k].state = "dead" => t[k].state = "dead")
            /\ StayDead(log, cloud) => StayDead(m, t)
  BY <1>7, <1>8, <1>9, <1>13, <1>14, GrownShown
<1>16. ASSUME NEW k \in Synced, Pending(log, k), cloud[k].state = "dead" PROVE t[k].state = "dead"
  BY <1>7, <1>13, <1>16 DEF Live
<1>17. ~spent.restored => StayDead(m, t)
  BY <1>9, <1>15, <1>16
<1>18. ASSUME NEW k \in Synced, k # n, k \notin gone, Covered(queued, r, k) PROVE Covered(queued \ {n}, r, k) \/ k \notin Live(cloud)
  <2>1. PICK a \in Over(k) : a \in queued /\ r[a].state = "dead"
    BY <1>18 DEF Covered
  <2>2. CASE a = n
    <3>1. k \in Entity /\ k \in Below(n) /\ n \notin Live(r)
      BY <2>1, <2>2, SharedPart, HolderOf DEF Live
    <3> QED BY <1>11, <1>18, <3>1
  <2>3. CASE a # n
    BY <2>1, <2>3 DEF Covered
  <2> QED BY <2>2, <2>3
<1>19. ASSUME ~spent.restored PROVE AllAgree(queued \ {n}, r, t, m)
  <2> SUFFICES ASSUME NEW k \in Synced \ (queued \ {n}), ~Pending(m, k)
               PROVE  Agrees(r, t, k) \/ (k \notin Live(r) /\ Covered(queued \ {n}, r, k))
    BY DEF AllAgree
  <2>1. CASE k = n
    BY <1>8, <2>1 DEF Agrees, Live
  <2>2. CASE k # n
    <3>1. k \in Entity /\ k \notin queued /\ k \notin gone /\ ~Pending(log, k)
      BY <1>15, <2>2, SharedPart
    <3>2. t[k] = cloud[k]
      BY <1>8, <2>2, <3>1
    <3>3. Agrees(r, cloud, k) \/ (k \notin Live(r) /\ Covered(queued, r, k))
      BY <1>9, <1>19, <3>1 DEF AllAgree
    <3> QED BY <1>18, <2>2, <3>1, <3>2, <3>3 DEF Agrees, Live
  <2> QED BY <2>1, <2>2
<1>20. ASSUME ~spent.restored PROVE AllHoused(queued \ {n}, r, t, m)
  <2> SUFFICES ASSUME NEW i \in 1..Len(m), m[i].op = "upsert", ~Rooted(m[i].n), Home[m[i].n] \in Live(t),
                      \A j \in 1..Len(m) : j < i => m[j].n # Home[m[i].n]
               PROVE  Sheltered(queued \ {n}, r, Home[m[i].n])
    BY DEF AllHoused
  <2>1. PICK h : h = Home[m[i].n]
    OBVIOUS
  <2>2. /\ \A j \in 1..Len(log) : j \in 1..Len(m) /\ m[j] = log[j]
        /\ i \in 1..Len(log) \/ \E k \in gone : m[i] = Change(t, k)
    BY <1>14 DEF Grows
  <2>3. i \in 1..Len(log)
    <3> SUFFICES ASSUME NEW k \in gone, m[i] = Change(t, k) PROVE FALSE
      BY <2>2
    <3>1. Change(t, k).op = "delete"
      BY <1>8 DEF Change
    <3> QED BY <3>1
  <2>4. m[i] = log[i] /\ \A j \in 1..Len(log) : j < i => log[j].n # h
    BY <2>1, <2>2, <2>3
  <2>5. h \in Synced /\ h \in Entity
    <3>1. log[i] \in Changes
      BY <1>7, <2>3
    <3>2. log[i].n \in Synced \ Workspace
      BY <2>4, <3>1 DEF Changes, Rooted
    <3> QED BY <2>1, <2>4, <3>2, HolderOf
  <2>6. CASE h = n
    BY <1>8, <2>1, <2>5, <2>6 DEF Sheltered, Live
  <2>7. CASE h # n
    <3>1. h \notin gone /\ h \in Live(cloud)
      BY <1>8, <2>1, <2>5, <2>7 DEF Live
    <3>2. Sheltered(queued, r, h)
      BY <1>9, <1>20, <2>1, <2>3, <2>4, <3>1 DEF AllHoused
    <3> QED BY <1>18, <2>1, <2>5, <2>7, <3>1, <3>2 DEF Sheltered
  <2> QED BY <2>6, <2>7
<1>21. NoOrphan(t) /\ QueuedKnown(queued \ {n}, r)
  BY <1>9, <1>12 DEF NoOrphan, QueuedKnown
<1>22. store'.row = r /\ spent'.restored = spent.restored
  BY <1>1, <1>6
<1> QED BY <1>6, <1>15, <1>17, <1>19, <1>20, <1>21, <1>22, Onward

LEMMA InitConverges ==
  ASSUME Init PROVE Converging
<1>1. /\ store \in Start /\ queued = {} /\ conflict = {} /\ log = <<>>
      /\ cloud = [n \in Entity |-> IF n \in Synced THEN store.row[n]
                                   ELSE [store.row[n] EXCEPT !.state = "absent"]]
  BY DEF Init
<1>2. store.row \in Rows /\ NoOrphan(store.row)
  BY <1>1, StartAssumption, Parts
<1>3. \A n \in Synced : cloud[n] = store.row[n] /\ n \in Entity
  BY <1>1, SharedPart
<1>4. ASSUME NEW n \in Entity \ Synced PROVE cloud[n].state = "absent"
  <2>1. cloud[n] = [store.row[n] EXCEPT !.state = "absent"]
    BY <1>1, <1>4
  <2>2. store.row[n] \in Row
    BY <1>2 DEF Rows
  <2> QED BY <2>1, <2>2 DEF Row
<1>5. \A n \in Live(cloud) : n \in Synced
  BY <1>4 DEF Live
<1>6. ASSUME NEW n \in Live(cloud) \ Workspace PROVE Home[n] \in Live(cloud)
  <2>1. n \in Synced \ Workspace /\ n \in Live(store.row)
    BY <1>3, <1>5, <1>6 DEF Live
  <2>2. Home[n] \in Synced /\ Home[n] \in Live(store.row)
    BY <1>2, <2>1, Homeward DEF NoOrphan
  <2> QED BY <1>3, <2>2 DEF Live
<1>7. Len(log) = 0 /\ \A i : i \notin 1..Len(log)
  BY <1>1
<1>8. LatestShown(log, cloud) /\ HomesKnown(log, cloud) /\ StayDead(log, cloud) /\ QueuedKnown(queued, store.row)
  BY <1>1, <1>7 DEF LatestShown, HomesKnown, StayDead, QueuedKnown
<1>9. AllHoused(queued, store.row, cloud, log)
  BY <1>7 DEF AllHoused
<1>10. AllAgree(queued, store.row, cloud, log)
  BY <1>3 DEF AllAgree, Agrees, Live
<1> QED BY <1>6, <1>8, <1>9, <1>10 DEF Converging, NoOrphan

LEMMA StepConverges ==
  ASSUME Inv, Converging, [Next]_vars
  PROVE  Converging'
<1>1. Kept(store) /\ NoOrphan(cloud)
  BY Shape DEF Converging
<1>2. CASE Enduring
  <2>1. PICK s : Command(s) /\ Lasting(store.row, s.row)
    BY <1>2 DEF Enduring
  <2> QED BY <2>1, CommandConverges
<1>3. CASE Edition
  <2>1. PICK t : Edited(t) /\ Foreign(t)
    BY <1>3 DEF Edition
  <2> QED BY <2>1, EditionConverges
<1>4. ASSUME NEW w \in Workspace, SetDefault(w) \/ SetActive(w) \/ DeleteWorkspace(w) PROVE Enduring
  BY <1>1, <1>4, Endures
<1>5. ASSUME NEW w \in Workspace, NEW name \in Name, CreateWorkspace(w, name) PROVE Enduring
  BY <1>1, <1>5, Endures
<1>6. ASSUME NEW w \in Workspace, NEW keys \in Lists(w), ReplaceVariables(w, keys) PROVE Enduring
  BY <1>1, <1>6, Endures
<1>7. ASSUME NEW w \in Workspace, NEW e \in Environment \cup {None}, SelectEnvironment(w, e) PROVE Enduring
  BY <1>1, <1>7, Endures
<1>8. ASSUME NEW e \in Environment, NEW name \in Name,
             CreateEnvironment(e, name) \/ \E keys \in Lists(e) : UpdateEnvironment(e, name, keys)
      PROVE  Enduring
  BY <1>1, <1>8, Endures
<1>9. ASSUME NEW e \in Environment, DeleteEnvironment(e) PROVE Enduring
  BY <1>1, <1>9, Endures
<1>10. ASSUME NEW v \in Variable \cup EnvVariable, DeleteVariable(v) PROVE Enduring
  BY <1>1, <1>10, Endures
<1>11. ASSUME NEW v \in Variable \cup EnvVariable, NEW name \in Name, CreateVariable(v, name) PROVE Enduring
  BY <1>1, <1>11, Endures
<1>12. ASSUME NEW n \in Entity, NEW name \in Name, Rename(n, name) PROVE Enduring
  BY <1>1, <1>12, Endures
<1>13. ASSUME NEW n \in Entity, NEW name \in Name, CloudRename(n, name) \/ CloudCreate(n, name) PROVE Edition
  BY <1>1, <1>13, WritesEdit
<1>14. ASSUME NEW n \in Entity, CloudDelete(n) \/ CloudRestore(n) PROVE Edition
  BY <1>1, <1>14, WritesEdit
<1>15. ASSUME NEW p \in Workspace \cup Environment, NEW keys \in Lists(p), CloudReplace(p, keys) PROVE Edition
  BY <1>1, <1>15, WritesEdit
<1>16. ASSUME NEW n \in Entity, Push(n) PROVE Converging'
  BY <1>16, PushConverges
<1>17. ASSUME NEW k \in 1..PageLimit, PullPage(k) PROVE Converging'
  BY <1>17, PullConverges
<1>18. CASE UNCHANGED vars
  <2>1. store'.row = store.row /\ UNCHANGED <<queued, conflict, cloud, log, spent>>
    BY <1>18 DEF vars
  <2> QED BY <2>1, Onward DEF Converging, Calm
<1> QED BY <1>2, <1>3, <1>4, <1>5, <1>6, <1>7, <1>8, <1>9, <1>10, <1>11, <1>12, <1>13, <1>14,
           <1>15, <1>16, <1>17, <1>18 DEF Next

\* Once nothing is queued, nothing waits for the user and the stream is consumed, the
\* device shows of the shared workspace what the server holds, unless a deleted parent was
\* restored: whatever pages, edits and pushes of both devices came between.
THEOREM StoreConverges == Spec => []Converges
<1>1. Init => Inv /\ Converging
  BY InitKeeps, InitConverges
<1>2. Inv /\ Converging /\ [Next]_vars => Inv' /\ Converging'
  BY Steps, StepConverges
<1>3. ASSUME Inv, Converging PROVE Converges
  <2> SUFFICES ASSUME queued = {}, conflict = {}, log = <<>>, ~spent.restored
               PROVE  Shown(store.row) = Shown(cloud)
    BY DEF Converges
  <2>1. AllAgree(queued, store.row, cloud, log)
    BY <1>3 DEF Converging, Calm
  <2>2. ASSUME NEW n \in Synced PROVE Agrees(store.row, cloud, n)
    BY <2>1 DEF AllAgree, Pending, Covered
  <2>3. \A n \in Synced : (IF n \in Live(store.row) THEN store.row[n].name ELSE None)
                          = (IF n \in Live(cloud) THEN cloud[n].name ELSE None)
    BY <2>2 DEF Agrees
  <2> QED BY <2>3 DEF Shown
<1> QED BY <1>1, <1>2, <1>3, PTL DEF Spec
=============================================================================
