--------------------------- MODULE SessionProofs ----------------------------
(***************************************************************************)
(* Proofs about Session for any number of sessions, databases, watches and *)
(* queued commands.                                                        *)
(***************************************************************************)
EXTENDS Session, FiniteSetTheorems, WellFoundedInduction, TLAPS

LEMMA LeastNat ==
  ASSUME NEW T \in SUBSET Nat, T # {}
  PROVE  \E x \in T : \A y \in T : x <= y
<1> DEFINE R == OpToRel(<, Nat)
<1>1. IsWellFoundedOn(R, Nat)
  BY Zenon, NatLessThanWellFounded
<1>2. \A x, y \in Nat : x < y => <<x, y>> \in R
  BY Zenon DEF OpToRel
<1> HIDE DEF R
<1>3. PICK x \in T : \A y \in T : ~ (<<y, x>> \in R)
  BY Zenon, <1>1, WFMin
<1>4. \A y \in T : ~(y < x)
  BY Zenon, <1>2, <1>3
<1> QED BY <1>4

(* Induction, for a set of numbers.                                        *)
LEMMA Induct ==
  ASSUME NEW S, 0 \in S, \A n \in Nat : n \in S => n + 1 \in S
  PROVE  Nat \subseteq S
<1> SUFFICES ASSUME Nat \ S # {} PROVE FALSE
  BY Zenon
<1>1. PICK x \in Nat \ S : \A y \in Nat \ S : x <= y
  BY Zenon, LeastNat
<1>2. x - 1 \in Nat /\ ~ (x <= x - 1) /\ (x - 1) + 1 = x
  BY <1>1
<1>3. x - 1 \in S
  BY Zenon, <1>1, <1>2
<1> QED BY Zenon, <1>1, <1>2, <1>3

LEMMA CountTagged ==
  ASSUME NEW s, NEW I, IsFiniteSet(I)
  PROVE  IsFiniteSet({s} \X I) /\ Cardinality({s} \X I) = Cardinality(I)
<1> DEFINE f == [i \in I |-> <<s, i>>]
<1>1. f \in [I -> {s} \X I]
  BY Zenon
<1>2. \A i, j \in I : f[i] = f[j] => i = j
  BY Zenon
<1>3. \A p \in {s} \X I : \E i \in I : f[i] = p
  OBVIOUS
<1>4. f \in Bijection(I, {s} \X I)
  BY Zenon, <1>1, <1>2, <1>3 DEF Bijection, Injection, Surjection, IsInjective
<1> QED BY Zenon, <1>4, FS_Bijection DEF ExistsBijection

LEMMA Tagged ==
  ASSUME NEW s, NEW I, NEW p \in {s} \X I
  PROVE  \E i \in I : p = <<s, i>>
OBVIOUS

-----------------------------------------------------------------------------
(* Entries and the sets of entries.                                        *)

LEMMA EntriesFinite ==
  ASSUME NEW ws \in Seq(Watches), NEW d
  PROVE  IsFiniteSet(Entries(ws, d))
<1>1. IsFiniteSet(1..Len(ws))
  BY FS_Interval
<1>2. Entries(ws, d) \subseteq 1..Len(ws)
  BY DEF Entries
<1> QED BY Zenon, <1>1, <1>2, FS_Subset

LEMMA EntriesAppend ==
  ASSUME NEW ws \in Seq(Watches), NEW w \in Watches, NEW d
  PROVE  /\ Entries(Append(ws, w), d) = IF w.db = d THEN Entries(ws, d) \cup {Len(ws) + 1} ELSE Entries(ws, d)
         /\ Len(ws) + 1 \notin Entries(ws, d)
<1> DEFINE n == Len(ws) + 1
<1>0. n \in Nat /\ n \notin 1..Len(ws)
  OBVIOUS
<1>1. DOMAIN Append(ws, w) = (DOMAIN ws) \cup {n}
  OBVIOUS
<1>2. Append(ws, w)[n] = w /\ \A i \in DOMAIN ws : Append(ws, w)[i] = ws[i]
  OBVIOUS
<1>3. n \notin Entries(ws, d)
  BY <1>0 DEF Entries
<1> HIDE DEF n
<1>4. Entries(Append(ws, w), d) = IF w.db = d THEN Entries(ws, d) \cup {n} ELSE Entries(ws, d)
  BY Zenon, <1>1, <1>2 DEF Entries
<1> QED BY Zenon, <1>3, <1>4 DEF n

LEMMA WatchType ==
  ASSUME NEW f \in [Sessions -> SessionStates], NEW s \in Sessions
  PROVE  /\ f[s].watches \in Seq(Watches)
         /\ \A i \in DOMAIN f[s].watches : f[s].watches[i] \in Watches /\ f[s].watches[i].db \in DB
<1>1. f[s].watches \in Seq(Watches)
  BY Zenon DEF SessionStates
<1> DEFINE ws == f[s].watches
<1> HIDE DEF ws
<1>2. \A i \in DOMAIN ws : ws[i] \in Watches
  BY <1>1 DEF ws
<1>3. \A i \in DOMAIN ws : ws[i].db \in DB
  BY Zenon, <1>2 DEF Watches
<1> QED BY Zenon, <1>1, <1>2, <1>3 DEF ws

LEMMA HeldMember ==
  ASSUME NEW f, NEW d, NEW s \in Sessions
  PROVE  {s} \X Entries(f[s].watches, d) \subseteq Held(f, d)
BY Zenon DEF Held

(* A step of s that keeps its watches.                                     *)
LEMMA HeldSame ==
  ASSUME NEW f, NEW g, NEW d, \A s \in Sessions : g[s].watches = f[s].watches
  PROVE  Held(g, d) = Held(f, d)
BY Zenon DEF Held

LEMMA HeldWithout ==
  ASSUME NEW f, NEW g, NEW d, NEW s \in Sessions, g[s].watches = <<>>,
         \A r \in Sessions \ {s} : g[r].watches = f[r].watches
  PROVE  Held(g, d) = Held(f, d) \ ({s} \X Entries(f[s].watches, d))
<1>1. Entries(<<>>, d) = {}
  BY DEF Entries
<1>2. ASSUME NEW p \in Held(g, d) PROVE p \in Held(f, d) \ ({s} \X Entries(f[s].watches, d))
  <2>1. PICK r \in Sessions : p \in {r} \X Entries(g[r].watches, d)
    BY Zenon, <1>2 DEF Held
  <2>2. r # s
    BY Zenon, <2>1, <1>1
  <2>3. p \in {r} \X Entries(f[r].watches, d) /\ p[1] = r
    BY Zenon, <2>1, <2>2
  <2> QED BY Zenon, <2>2, <2>3, HeldMember
<1>3. ASSUME NEW p \in Held(f, d) \ ({s} \X Entries(f[s].watches, d)) PROVE p \in Held(g, d)
  <2>1. PICK r \in Sessions : p \in {r} \X Entries(f[r].watches, d)
    BY Zenon, <1>3 DEF Held
  <2>2. r # s
    BY Zenon, <2>1, <1>3
  <2> QED BY Zenon, <2>1, <2>2, HeldMember
<1> QED BY Zenon, <1>2, <1>3

(* One more entry.                                                         *)
LEMMA HeldMore ==
  ASSUME NEW f \in [Sessions -> SessionStates], NEW g \in [Sessions -> SessionStates], NEW d,
         NEW s \in Sessions, NEW w \in Watches,
         g[s].watches = Append(f[s].watches, w), \A r \in Sessions \ {s} : g[r] = f[r],
         IsFiniteSet(Held(f, d))
  PROVE  /\ IsFiniteSet(Held(g, d))
         /\ Cardinality(Held(g, d)) = Cardinality(Held(f, d)) + (IF w.db = d THEN 1 ELSE 0)
<1> DEFINE ws == f[s].watches
           n  == Len(ws) + 1
<1>f. IsFiniteSet(Held(f, d))
  BY Zenon
<1>t. ws \in Seq(Watches)
  BY Zenon, WatchType
<1>g. f[s].watches = ws /\ g[s].watches = Append(ws, w) /\ \A r \in Sessions \ {s} : g[r].watches = f[r].watches
  BY Zenon
<1> HIDE DEF ws
<1>1. Entries(g[s].watches, d) = IF w.db = d THEN Entries(ws, d) \cup {n} ELSE Entries(ws, d)
  BY <1>t, <1>g, EntriesAppend
<1>2. n \notin Entries(ws, d)
  BY Zenon, <1>t, EntriesAppend
<1>e. \A r \in Sessions \ {s} : Entries(g[r].watches, d) = Entries(f[r].watches, d)
  BY Zenon, <1>g
<1> HIDE DEF n
<1>3. <<s, n>> \notin Held(f, d)
  BY <1>2, <1>g DEF Held
<1>4. CASE w.db = d
  <2>1. Entries(g[s].watches, d) = Entries(ws, d) \cup {n}
    BY Zenon, <1>1, <1>4
  <2>2. ASSUME NEW p \in Held(g, d) PROVE p \in Held(f, d) \cup {<<s, n>>}
    <3>1. PICK r \in Sessions : p \in {r} \X Entries(g[r].watches, d)
      BY Zenon, <2>2 DEF Held
    <3>2. CASE r = s
      <4>a. p \in {s} \X (Entries(ws, d) \cup {n})
        BY Zenon, <3>1, <3>2, <2>1
      <4>0. PICK i \in Entries(ws, d) \cup {n} : p = <<s, i>>
        BY <4>a, Tagged
      <4>1. p = <<s, n>> \/ p \in {s} \X Entries(f[s].watches, d)
        BY Zenon, <4>0, <1>g
      <4> QED BY Zenon, <4>1, HeldMember
    <3>3. CASE r # s
      BY Zenon, <3>1, <3>3, <1>e, HeldMember
    <3> QED BY Zenon, <3>2, <3>3
  <2>3. ASSUME NEW p \in Held(f, d) \cup {<<s, n>>} PROVE p \in Held(g, d)
    <3>1. CASE p = <<s, n>>
      BY Zenon, <3>1, <2>1, HeldMember
    <3>2. CASE p \in Held(f, d)
      <4>1. PICK r \in Sessions : p \in {r} \X Entries(f[r].watches, d)
        BY Zenon, <3>2 DEF Held
      <4>2. p \in {r} \X Entries(g[r].watches, d)
        BY Zenon, <4>1, <2>1, <1>e, <1>g
      <4> QED BY Zenon, <4>2, HeldMember
    <3> QED BY Zenon, <3>1, <3>2
  <2>4. Held(g, d) = Held(f, d) \cup {<<s, n>>}
    BY Zenon, <2>2, <2>3
  <2> DEFINE p == <<s, n>>
  <2>5. p \notin Held(f, d) /\ Held(g, d) = Held(f, d) \cup {p}
    BY Zenon, <1>3, <2>4
  <2> HIDE DEF p
  <2>6. IsFiniteSet(Held(f, d) \cup {p}) /\ Cardinality(Held(f, d) \cup {p}) = Cardinality(Held(f, d)) + 1
    BY Zenon, <2>5, <1>f, FS_AddElement
  <2> QED BY Zenon, <2>5, <2>6, <1>4
<1>5. CASE w.db # d
  <2>1. \A r \in Sessions : Entries(g[r].watches, d) = Entries(f[r].watches, d)
    BY Zenon, <1>1, <1>5, <1>e, <1>g
  <2>2. Held(g, d) = Held(f, d)
    BY Zenon, <2>1 DEF Held
  <2> QED BY <2>2, <1>5, <1>f, FS_CardinalityType
<1> QED BY Zenon, <1>4, <1>5

-----------------------------------------------------------------------------
(* The steps of one database.                                              *)

LEMMA StepKeeps ==
  ASSUME NEW x \in Databases, NEW w \in Watches, NEW t \in Nat, Kept(w, x), x.refs > 0
  PROVE  /\ Kept(w, Touch(x, t)) /\ Kept(w, Flushed(x, t)) /\ Kept(w, Loaded(x, t))
<1>1. /\ Touch(x, t).ver = x.ver + 1 /\ Touch(x, t).epoch = x.epoch
      /\ Flushed(x, t).epoch = x.epoch + 1 /\ Loaded(x, t).epoch = x.epoch + 1
  BY DEF Touch, Flushed, Loaded, Databases
<1>2. w.epoch \in Nat /\ w.ver \in Nat /\ x.epoch \in Nat /\ x.ver \in Nat
  BY Zenon DEF Databases, Watches
<1> QED BY <1>1, <1>2 DEF Kept

LEMMA StepTypes ==
  ASSUME NEW x \in Databases, NEW t \in Nat
  PROVE  \A y \in {Touch(x, t), Flushed(x, t), Loaded(x, t)} :
           y \in Databases /\ y.refs = x.refs /\ y.changed = t + 1
<1> DEFINE P(y) == y \in Databases /\ y.refs = x.refs /\ y.changed = t + 1
<1>t. x.ver \in Nat /\ x.epoch \in Nat /\ t + 1 \in Nat /\ x.epoch + 1 \in Nat /\ 0 \in Nat
  BY DEF Databases
<1>1. P(Touch(x, t))
  <2> DEFINE v == IF x.refs = 0 THEN x.ver ELSE x.ver + 1
  <2>1. v \in Nat
    BY <1>t
  <2>2. Touch(x, t) = [x EXCEPT !.ver = v, !.changed = t + 1]
    BY Zenon DEF Touch
  <2> HIDE DEF v
  <2> QED BY Zenon, <2>1, <2>2, <1>t DEF Databases
<1>2. P(Flushed(x, t))
  <2> DEFINE e == x.epoch + 1
             c == t + 1
  <2>1. Flushed(x, t) = [x EXCEPT !.ver = 0, !.epoch = e, !.changed = c] /\ e \in Nat /\ c \in Nat
    BY Zenon, <1>t DEF Flushed
  <2>2. Flushed(x, t) = [x EXCEPT !.ver = 0, !.epoch = e, !.changed = c] /\ e \in Nat /\ c \in Nat
        => /\ Flushed(x, t) \in Databases /\ Flushed(x, t).refs = x.refs
           /\ Flushed(x, t).changed = c
    <3> HIDE DEF e, c
    <3> QED BY Zenon, <1>t DEF Databases
  <2> QED BY Zenon, <2>1, <2>2
<1>3. P(Loaded(x, t))
  <2> DEFINE e == x.epoch + 1
  <2>1. Loaded(x, t) = [x EXCEPT !.epoch = e, !.changed = t + 1] /\ e \in Nat
    BY Zenon, <1>t DEF Loaded
  <2> HIDE DEF e
  <2> QED BY Zenon, <2>1, <1>t DEF Databases
<1> HIDE DEF P
<1>4. \A y \in {Touch(x, t), Flushed(x, t), Loaded(x, t)} : P(y)
  BY Zenon, <1>1, <1>2, <1>3
<1> QED BY Zenon, <1>4 DEF P

(* A step that changes contents: the watches stay, and who is watched has  *)
(* a reference.                                                            *)
LEMMA ContentsKept ==
  ASSUME NEW dbs, NEW f, NEW t, WatchesKept(dbs, f, t), NEW new \in [DB -> Databases],
         \A d \in DB : new[d] \in {dbs[d], Touch(dbs[d], t), Flushed(dbs[d], t), Loaded(dbs[d], t)}
  PROVE  WatchesKept(new, f, t + 1)
<1>t. dbs \in [DB -> Databases] /\ f \in [Sessions -> SessionStates] /\ t \in Nat
  BY Zenon DEF WatchesKept
<1>1. \A d \in DB : new[d].refs = dbs[d].refs /\ new[d].changed <= t + 1
  <2> SUFFICES ASSUME NEW d \in DB PROVE new[d].refs = dbs[d].refs /\ new[d].changed <= t + 1
    BY Zenon
  <2>1. dbs[d] \in Databases /\ dbs[d].changed \in Nat /\ dbs[d].changed <= t
    BY Zenon, <1>t DEF WatchesKept, Databases
  <2>2. CASE new[d] = dbs[d]
    BY <2>1, <2>2, <1>t
  <2>3. CASE new[d] # dbs[d]
    <3>1. new[d] \in {Touch(dbs[d], t), Flushed(dbs[d], t), Loaded(dbs[d], t)}
      BY Zenon, <2>3
    <3>2. new[d].refs = dbs[d].refs /\ new[d].changed = t + 1
      BY Zenon, <2>1, <3>1, <1>t, StepTypes
    <3> QED BY <3>2, <1>t
  <2> QED BY Zenon, <2>2, <2>3
<1>2. ASSUME NEW s \in Sessions, NEW i \in DOMAIN f[s].watches
      PROVE  Kept(f[s].watches[i], new[f[s].watches[i].db])
  <2> DEFINE w == f[s].watches[i]
             d == w.db
  <2>1. w \in Watches /\ d \in DB
    BY Zenon, <1>t, WatchType
  <2>2. i \in Entries(f[s].watches, d)
    BY Zenon DEF Entries
  <2>3. <<s, i>> \in Held(f, d)
    BY Zenon, <2>2, HeldMember
  <2> HIDE DEF w, d
  <2>4. IsFiniteSet(Held(f, d)) /\ dbs[d].refs = Cardinality(Held(f, d))
    BY Zenon, <2>1 DEF WatchesKept
  <2>5. dbs[d].refs # 0
    BY Zenon, <2>3, <2>4, FS_EmptySet
  <2>6. dbs[d] \in Databases /\ dbs[d].refs > 0
    BY <1>t, <2>1, <2>5 DEF Databases
  <2>7. Kept(w, dbs[d])
    BY Zenon DEF WatchesKept, w, d
  <2>8. Kept(w, new[d])
    BY Zenon, <1>t, <2>1, <2>6, <2>7, StepKeeps
  <2> QED BY Zenon, <2>8 DEF w, d
<1>3. t + 1 \in Nat
  BY <1>t
<1>4. \A d \in DB : IsFiniteSet(Held(f, d)) /\ new[d].refs = Cardinality(Held(f, d))
  BY Zenon, <1>1 DEF WatchesKept
<1> QED BY Zenon, <1>1, <1>2, <1>3, <1>4, <1>t DEF WatchesKept

(* A step of a session that keeps its watches.                             *)
LEMMA SessionKept ==
  ASSUME NEW dbs, NEW f, NEW t, WatchesKept(dbs, f, t), NEW g \in [Sessions -> SessionStates],
         \A s \in Sessions : g[s].watches = f[s].watches
  PROVE  WatchesKept(dbs, g, t)
<1>1. \A d \in DB : Held(g, d) = Held(f, d)
  BY Zenon, HeldSame
<1> QED BY Zenon, <1>1 DEF WatchesKept

(* session_watch_clear releases the references of one session and no other.*)
LEMMA ClearKept ==
  ASSUME NEW dbs, NEW f, NEW t, WatchesKept(dbs, f, t), NEW s \in Sessions,
         NEW new, new = [d \in DB |-> Unreferenced(dbs[d], Cardinality(Entries(f[s].watches, d)))],
         NEW g \in [Sessions -> SessionStates], g[s].watches = <<>>,
         \A r \in Sessions \ {s} : g[r] = f[r]
  PROVE  WatchesKept(new, g, t)
<1>t. /\ dbs \in [DB -> Databases] /\ f \in [Sessions -> SessionStates] /\ t \in Nat
      /\ f[s].watches \in Seq(Watches)
  BY Zenon DEF WatchesKept, SessionStates
<1>1. ASSUME NEW d \in DB
      PROVE  /\ new[d] \in Databases /\ new[d].changed = dbs[d].changed
             /\ new[d].epoch = dbs[d].epoch /\ new[d].ver = dbs[d].ver
             /\ IsFiniteSet(Held(g, d)) /\ new[d].refs = Cardinality(Held(g, d))
  <2> DEFINE E == Entries(f[s].watches, d)
             mine == {s} \X E
  <2>1. IsFiniteSet(E) /\ Cardinality(E) \in Nat
    BY Zenon, <1>t, EntriesFinite, FS_CardinalityType
  <2>2. IsFiniteSet(mine) /\ Cardinality(mine) = Cardinality(E)
    BY Zenon, <2>1, CountTagged
  <2>3. mine \subseteq Held(f, d) /\ Held(g, d) = Held(f, d) \ mine
    BY HeldMember, HeldWithout
  <2> HIDE DEF E, mine
  <2>4. IsFiniteSet(Held(f, d)) /\ dbs[d].refs = Cardinality(Held(f, d)) /\ dbs[d] \in Databases
    BY Zenon, <1>t DEF WatchesKept
  <2>5. /\ IsFiniteSet(Held(g, d))
        /\ Cardinality(Held(g, d)) = Cardinality(Held(f, d)) - Cardinality(Held(f, d) \cap mine)
    <3>1. /\ IsFiniteSet(Held(f, d) \ mine)
          /\ Cardinality(Held(f, d) \ mine) = Cardinality(Held(f, d)) - Cardinality(Held(f, d) \cap mine)
      BY Zenon, <2>4, FS_Difference
    <3> QED BY Zenon, <2>3, <3>1
  <2>6. Held(f, d) \cap mine = mine
    BY Zenon, <2>3
  <2>7. Cardinality(Held(g, d)) \in Nat /\ Cardinality(Held(f, d)) \in Nat
    BY Zenon, <2>4, <2>5, FS_CardinalityType
  <2>8. new[d] = Unreferenced(dbs[d], Cardinality(E))
    BY Zenon DEF E
  <2>9. IF dbs[d].refs > Cardinality(E) THEN dbs[d].refs - Cardinality(E) = Cardinality(Held(g, d))
                                        ELSE Cardinality(Held(g, d)) = 0
    <3> DEFINE a == Cardinality(Held(f, d))
               b == Cardinality(Held(g, d))
               m == Cardinality(E)
    <3>1. a \in Nat /\ b \in Nat /\ m \in Nat /\ b = a - m /\ dbs[d].refs = a
      BY Zenon, <2>1, <2>2, <2>4, <2>5, <2>6, <2>7
    <3> HIDE DEF a, b, m
    <3>2. IF a > m THEN a - m = b ELSE b = 0
      BY <3>1
    <3> QED BY Zenon, <3>1, <3>2 DEF a, b, m
  <2> QED BY <2>1, <2>4, <2>5, <2>7, <2>8, <2>9 DEF Unreferenced, Databases
<1>2. new \in [DB -> Databases]
  BY Zenon, <1>1
<1>3. ASSUME NEW r \in Sessions, NEW i \in DOMAIN g[r].watches
      PROVE  Kept(g[r].watches[i], new[g[r].watches[i].db])
  <2>1. r # s
    BY <1>3
  <2>2. g[r] = f[r] /\ g[r].watches[i] \in Watches /\ g[r].watches[i].db \in DB
    BY Zenon, <2>1, WatchType
  <2>3. Kept(g[r].watches[i], dbs[g[r].watches[i].db])
    BY Zenon, <2>2 DEF WatchesKept
  <2> QED BY Zenon, <2>2, <2>3, <1>1 DEF Kept
<1>4. \A d \in DB : new[d].changed <= t
  BY Zenon, <1>1 DEF WatchesKept
<1> QED BY Zenon, <1>1, <1>2, <1>3, <1>4, <1>t DEF WatchesKept

(* session_watch_add                                                       *)
Entry(w, c, dbs, t) ==
  w \in Watches /\ w.db = c /\ w.ver = dbs[c].ver /\ w.epoch = dbs[c].epoch /\ w.at = t

Extended(g, f, s, w) ==
  /\ g \in [Sessions -> SessionStates] /\ g[s].watches = Append(f[s].watches, w)
  /\ \A r \in Sessions \ {s} : g[r] = f[r]

Raised(new, dbs, c) ==
  /\ new \in [DB -> Databases]
  /\ \A d \in DB : /\ new[d].refs = (IF d = c THEN dbs[d].refs + 1 ELSE dbs[d].refs)
                   /\ new[d].ver = dbs[d].ver /\ new[d].epoch = dbs[d].epoch
                   /\ new[d].changed = dbs[d].changed

LEMMA AddKept ==
  ASSUME NEW dbs, NEW f, NEW t, WatchesKept(dbs, f, t), NEW s \in Sessions, NEW c \in DB,
         NEW w, Entry(w, c, dbs, t), NEW g, Extended(g, f, s, w), NEW new, Raised(new, dbs, c)
  PROVE  WatchesKept(new, g, t)
<1> USE DEF Entry, Extended, Raised
<1>t. /\ dbs \in [DB -> Databases] /\ f \in [Sessions -> SessionStates] /\ t \in Nat
      /\ f[s].watches \in Seq(Watches)
  BY Zenon DEF WatchesKept, SessionStates
<1>w. w \in Watches /\ w.db = c
  BY Zenon, <1>t DEF Watches, Databases
<1>1. /\ new \in [DB -> Databases]
      /\ \A d \in DB : /\ new[d].refs = (IF d = c THEN dbs[d].refs + 1 ELSE dbs[d].refs)
                       /\ new[d].ver = dbs[d].ver /\ new[d].epoch = dbs[d].epoch
                       /\ new[d].changed = dbs[d].changed
  BY Zenon
<1>2. ASSUME NEW d \in DB PROVE IsFiniteSet(Held(g, d)) /\ new[d].refs = Cardinality(Held(g, d))
  <2>1. IsFiniteSet(Held(f, d)) /\ dbs[d].refs = Cardinality(Held(f, d))
    BY Zenon DEF WatchesKept
  <2>2. /\ IsFiniteSet(Held(g, d))
        /\ Cardinality(Held(g, d)) = Cardinality(Held(f, d)) + (IF w.db = d THEN 1 ELSE 0)
    BY <1>t, <2>1, HeldMore
  <2>3. Cardinality(Held(f, d)) \in Nat
    BY Zenon, <2>1, FS_CardinalityType
  <2> QED BY <2>1, <2>2, <2>3, <1>1, <1>w
<1>3. ASSUME NEW r \in Sessions, NEW i \in DOMAIN g[r].watches
      PROVE  Kept(g[r].watches[i], new[g[r].watches[i].db])
  <2> DEFINE v == g[r].watches[i]
  <2>0. v \in Watches /\ v.db \in DB
    BY Zenon, WatchType
  <2>1. CASE r # s \/ i \in DOMAIN f[s].watches
    <3>1. i \in DOMAIN f[r].watches /\ v = f[r].watches[i]
      <4>1. CASE r # s
        BY Zenon, <4>1
      <4>2. CASE r = s
        <5> DEFINE ws == f[s].watches
        <5>1. ws \in Seq(Watches) /\ i \in DOMAIN ws /\ v = Append(ws, w)[i]
          BY Zenon, <4>2, <2>1, <1>t
        <5> HIDE DEF ws, v
        <5>2. Append(ws, w)[i] = ws[i]
          BY <5>1
        <5> QED BY Zenon, <4>2, <5>1, <5>2 DEF ws
      <4> QED BY Zenon, <4>1, <4>2
    <3>2. Kept(v, dbs[v.db])
      BY Zenon, <3>1 DEF WatchesKept
    <3> QED BY Zenon, <2>0, <3>2, <1>1 DEF Kept
  <2>2. CASE r = s /\ i \notin DOMAIN f[s].watches
    <3>1. v = w
      BY <2>2, <1>t, <1>w
    <3>2. new[c].ver = w.ver /\ new[c].epoch = w.epoch /\ new[c].changed <= w.at
      BY Zenon, <1>1 DEF WatchesKept
    <3>3. w.ver \in Nat /\ w.epoch \in Nat
      BY Zenon, <1>w DEF Watches
    <3> QED BY <3>1, <3>2, <3>3, <1>w DEF Kept
  <2> QED BY Zenon, <2>1, <2>2
<1>4. \A d \in DB : new[d].changed <= t
  BY Zenon, <1>1 DEF WatchesKept
<1> QED BY Zenon, <1>1, <1>2, <1>3, <1>4, <1>t DEF WatchesKept

-----------------------------------------------------------------------------
(* Commands.                                                               *)

States == [db : [DB -> Databases], me : SessionStates, t : Nat]

(* The state e of session s, the other sessions as they are.               *)
Good(s, e) == e \in States /\ WatchesKept(e.db, [ses EXCEPT ![s] = e.me], e.t)

LEMMA GoodParts ==
  ASSUME NEW s \in Sessions, NEW dbs, NEW m, NEW t, ses \in [Sessions -> SessionStates],
         m \in SessionStates, WatchesKept(dbs, [ses EXCEPT ![s] = m], t)
  PROVE  Good(s, [db |-> dbs, me |-> m, t |-> t])
<1>1. dbs \in [DB -> Databases] /\ t \in Nat
  BY Zenon DEF WatchesKept
<1> QED BY Zenon, <1>1 DEF Good, States

LEMMA GoodClear ==
  ASSUME NEW s \in Sessions, NEW e, Good(s, e), ses \in [Sessions -> SessionStates]
  PROVE  Good(s, WatchClear(e)) /\ WatchClear(e).t = e.t
<1> DEFINE m == [e.me EXCEPT !.watches = <<>>]
           f == [ses EXCEPT ![s] = e.me]
           g == [ses EXCEPT ![s] = m]
           new == [d \in DB |-> Unreferenced(e.db[d], Cardinality(Entries(e.me.watches, d)))]
<1>t. e \in States /\ e.me \in SessionStates /\ e = [db |-> e.db, me |-> e.me, t |-> e.t]
  BY Zenon DEF Good, States
<1>1. WatchClear(e) = [db |-> new, me |-> m, t |-> e.t]
  <2>1. WatchClear(e) = [e EXCEPT !.db = new, !.me = m]
    BY Zenon DEF WatchClear
  <2> HIDE DEF new, m
  <2> QED BY Zenon, <2>1, <1>t DEF States
<1>2. m \in SessionStates /\ m.watches = <<>>
  <2>1. <<>> \in Seq(Watches)
    OBVIOUS
  <2> QED BY Zenon, <1>t, <2>1 DEF SessionStates
<1>3. f[s] = e.me /\ g[s] = m /\ g \in [Sessions -> SessionStates] /\ \A r \in Sessions \ {s} : g[r] = f[r]
  BY Zenon, <1>2
<1>4. WatchesKept(e.db, f, e.t)
  BY Zenon DEF Good
<1>5. new = [d \in DB |-> Unreferenced(e.db[d], Cardinality(Entries(f[s].watches, d)))]
  BY Zenon, <1>3
<1> HIDE DEF m, f, g, new
<1>6. WatchesKept(new, g, e.t)
  <2>1. g[s].watches = <<>>
    BY Zenon, <1>2, <1>3
  <2> QED BY <1>3, <1>4, <1>5, <2>1, ClearKept
<1>7. Good(s, [db |-> new, me |-> m, t |-> e.t])
  BY Zenon, <1>2, <1>6, GoodParts DEF g
<1> QED BY <1>1, <1>7

(* The session changes, its watches do not.                                *)
LEMMA GoodSession ==
  ASSUME NEW s \in Sessions, NEW e, Good(s, e), ses \in [Sessions -> SessionStates],
         NEW m \in SessionStates, m.watches = e.me.watches
  PROVE  Good(s, [db |-> e.db, me |-> m, t |-> e.t])
<1> DEFINE f == [ses EXCEPT ![s] = e.me]
           g == [ses EXCEPT ![s] = m]
<1>1. WatchesKept(e.db, f, e.t) /\ e.me \in SessionStates
  BY Zenon DEF Good, States
<1>2. g \in [Sessions -> SessionStates] /\ \A r \in Sessions : g[r].watches = f[r].watches
  BY Zenon, <1>1
<1> HIDE DEF f
<1>3. WatchesKept(e.db, g, e.t)
  BY Zenon, <1>1, <1>2, SessionKept
<1> QED BY Zenon, <1>3, GoodParts

(* The contents change.                                                    *)
LEMMA GoodContents ==
  ASSUME NEW s \in Sessions, NEW e, Good(s, e), ses \in [Sessions -> SessionStates],
         NEW new, DOMAIN new = DB, new = [d \in DB |-> new[d]],
         \A d \in DB : new[d] \in {e.db[d], Touch(e.db[d], e.t), Flushed(e.db[d], e.t), Loaded(e.db[d], e.t)}
  PROVE  Good(s, [db |-> new, me |-> e.me, t |-> e.t + 1])
<1> DEFINE f == [ses EXCEPT ![s] = e.me]
<1>1. WatchesKept(e.db, f, e.t) /\ e.me \in SessionStates /\ e.db \in [DB -> Databases] /\ e.t \in Nat
  BY Zenon DEF Good, States
<1> HIDE DEF f
<1>2. new \in [DB -> Databases]
  <2> SUFFICES ASSUME NEW d \in DB PROVE new[d] \in Databases
    BY Zenon
  <2>1. e.db[d] \in Databases
    BY Zenon, <1>1
  <2> QED BY <2>1, <1>1, StepTypes
<1>3. WatchesKept(new, f, e.t + 1)
  BY Zenon, <1>1, <1>2, ContentsKept
<1> QED BY Zenon, <1>1, <1>3, GoodParts DEF f

LEMMA GoodDispatch ==
  ASSUME NEW s \in Sessions, NEW e, Good(s, e), ses \in [Sessions -> SessionStates],
         NEW cmd \in Commands \ {"swapdb"}
  PROVE  Good(s, Dispatch(e, cmd))
<1> DEFINE c == e.me.cur
<1>t. /\ e = [db |-> e.db, me |-> e.me, t |-> e.t] /\ e.me \in SessionStates
      /\ e.db \in [DB -> Databases] /\ e.t \in Nat /\ c \in DB
  BY Zenon DEF Good, States, SessionStates
<1>1. CASE cmd = "set"
  <2> DEFINE new == [e.db EXCEPT ![c] = Touch(e.db[c], e.t)]
  <2>1. Dispatch(e, cmd) = [db |-> new, me |-> e.me, t |-> e.t + 1]
    BY Zenon, <1>1, <1>t DEF Dispatch
  <2>2. /\ DOMAIN new = DB /\ new = [d \in DB |-> new[d]]
        /\ \A d \in DB : new[d] = e.db[d] \/ new[d] = Touch(e.db[d], e.t)
    BY Zenon, <1>t
  <2> HIDE DEF new
  <2>3. Good(s, [db |-> new, me |-> e.me, t |-> e.t + 1])
    BY Zenon, <2>2, GoodContents
  <2> QED BY Zenon, <2>1, <2>3
<1>2. CASE cmd = "flushdb"
  <2> DEFINE new == [e.db EXCEPT ![c] = Flushed(e.db[c], e.t)]
  <2>1. Dispatch(e, cmd) = [db |-> new, me |-> e.me, t |-> e.t + 1]
    BY Zenon, <1>2, <1>t DEF Dispatch
  <2>2. /\ DOMAIN new = DB /\ new = [d \in DB |-> new[d]]
        /\ \A d \in DB : new[d] = e.db[d] \/ new[d] = Flushed(e.db[d], e.t)
    BY Zenon, <1>t
  <2> HIDE DEF new
  <2>3. Good(s, [db |-> new, me |-> e.me, t |-> e.t + 1])
    BY Zenon, <2>2, GoodContents
  <2> QED BY Zenon, <2>1, <2>3
<1>3. CASE cmd = "flushall"
  <2> DEFINE new == [i \in DB |-> Flushed(e.db[i], e.t)]
  <2>1. Dispatch(e, cmd) = [db |-> new, me |-> e.me, t |-> e.t + 1]
    BY Zenon, <1>3, <1>t DEF Dispatch
  <2>2. /\ DOMAIN new = DB /\ new = [d \in DB |-> new[d]]
        /\ \A d \in DB : new[d] = Flushed(e.db[d], e.t)
    BY Zenon
  <2> HIDE DEF new
  <2>3. Good(s, [db |-> new, me |-> e.me, t |-> e.t + 1])
    BY Zenon, <2>2, GoodContents
  <2> QED BY Zenon, <2>1, <2>3
<1>4. CASE cmd = "select"
  <2> DEFINE m == [e.me EXCEPT !.cur = (c + 1) % NDB]
  <2>1. Dispatch(e, cmd) = [db |-> e.db, me |-> m, t |-> e.t]
    BY Zenon, <1>4, <1>t DEF Dispatch
  <2>2. (c + 1) % NDB \in DB
    BY <1>t, SessionAssumption DEF DB
  <2>3. m \in SessionStates /\ m.watches = e.me.watches
    BY Zenon, <2>2, <1>t DEF SessionStates
  <2> HIDE DEF m
  <2> QED BY Zenon, <2>1, <2>3, GoodSession
<1>5. CASE cmd = "unwatch"
  <2>1. Dispatch(e, cmd) = WatchClear(e)
    BY Zenon, <1>5 DEF Dispatch
  <2> QED BY Zenon, <2>1, GoodClear
<1> QED BY Zenon, <1>1, <1>2, <1>3, <1>4, <1>5 DEF Commands

(* The queue, command by command.                                          *)
LEMMA GoodExecuted ==
  ASSUME NEW s \in Sessions, NEW e, Good(s, e), ses \in [Sessions -> SessionStates],
         NEW queue \in Seq(Commands \ {"swapdb"})
  PROVE  Good(s, Executed(e, queue))
<1> DEFINE F(f, n) == [i \in 0..n |-> IF i = 0 THEN e ELSE Dispatch(f[i - 1], queue[i])]
           Runs == {n \in Nat : n <= Len(queue) => \E f : f = F(f, n)}
<1>q. Len(queue) \in Nat /\ \A i \in 1..Len(queue) : queue[i] \in Commands \ {"swapdb"}
  OBVIOUS
<1>1. 0 \in Runs
  <2>1. [i \in 0..0 |-> e] = F([i \in 0..0 |-> e], 0)
    OBVIOUS
  <2> QED BY Zenon, <2>1
<1>2. ASSUME NEW n \in Nat, n \in Runs PROVE n + 1 \in Runs
  <2> SUFFICES ASSUME n + 1 <= Len(queue) PROVE \E f : f = F(f, n + 1)
    OBVIOUS
  <2>1. PICK f : f = F(f, n)
    BY <1>2, <1>q
  <2> DEFINE g == [i \in 0..(n + 1) |-> IF i = n + 1 THEN Dispatch(f[n], queue[n + 1]) ELSE f[i]]
  <2>2. \A i \in 0..(n + 1) : g[i] = IF i = 0 THEN e ELSE Dispatch(g[i - 1], queue[i])
    <3> SUFFICES ASSUME NEW i \in 0..(n + 1)
                 PROVE  g[i] = IF i = 0 THEN e ELSE Dispatch(g[i - 1], queue[i])
      BY Zenon
    <3>1. CASE i = n + 1
      <4>1. g[i] = Dispatch(f[n], queue[i]) /\ i # 0 /\ i - 1 = n
        BY <3>1
      <4>2. g[n] = f[n]
        OBVIOUS
      <4> HIDE DEF g
      <4> QED BY Zenon, <4>1, <4>2
    <3>2. CASE i # n + 1
      <4>1. i \in 0..n /\ g[i] = f[i] /\ (i # 0 => i - 1 \in 0..(n + 1) /\ i - 1 # n + 1)
        BY <3>2
      <4>2. i # 0 => g[i - 1] = f[i - 1]
        BY Zenon, <4>1
      <4>3. f[i] = IF i = 0 THEN e ELSE Dispatch(f[i - 1], queue[i])
        BY Zenon, <2>1, <4>1
      <4> HIDE DEF g
      <4> QED BY Zenon, <4>1, <4>2, <4>3
    <3> QED BY Zenon, <3>1, <3>2
  <2>3. g = F(g, n + 1)
    <3>1. g = [i \in 0..(n + 1) |-> g[i]]
      BY Zenon
    <3> HIDE DEF g
    <3> QED BY Zenon, <2>2, <3>1
  <2> QED BY Zenon, <2>3
<1> HIDE DEF Runs
<1>3. Len(queue) \in Runs
  BY Zenon, <1>1, <1>2, <1>q, Induct
<1>4. \E f : f = F(f, Len(queue))
  BY <1>3 DEF Runs
<1> DEFINE after == CHOOSE f : f = F(f, Len(queue))
<1>5. after = F(after, Len(queue))
  BY Zenon, <1>4
<1>6. Executed(e, queue) = after[Len(queue)]
  BY Zenon DEF Executed
<1> HIDE DEF after
<1>7. after[0] = e /\ \A i \in 1..Len(queue) : after[i] = Dispatch(after[i - 1], queue[i])
  BY <1>5, <1>q
<1> DEFINE OK == {n \in Nat : n <= Len(queue) => Good(s, after[n])}
<1>8. 0 \in OK
  BY Zenon, <1>7
<1>9. ASSUME NEW n \in Nat, n \in OK PROVE n + 1 \in OK
  <2> SUFFICES ASSUME n + 1 <= Len(queue) PROVE Good(s, after[n + 1])
    OBVIOUS
  <2>1. n + 1 \in 1..Len(queue) /\ (n + 1) - 1 = n /\ Good(s, after[n])
    BY <1>9, <1>q
  <2>2. after[n + 1] = Dispatch(after[n], queue[n + 1])
    BY Zenon, <2>1, <1>7
  <2> QED BY Zenon, <2>1, <2>2, <1>q, GoodDispatch
<1> HIDE DEF OK
<1>10. Len(queue) \in OK
  BY Zenon, <1>8, <1>9, <1>q, Induct
<1> QED BY <1>6, <1>10, <1>q DEF OK

LEMMA GoodEnded ==
  ASSUME NEW s \in Sessions, NEW e, Good(s, e), ses \in [Sessions -> SessionStates]
  PROVE  Good(s, Ended(e)) /\ Ended(e).t = e.t
<1> DEFINE c == WatchClear(e)
           m == [c.me EXCEPT !.queue = <<>>, !.multi = FALSE, !.error = FALSE]
<1>1. Good(s, c) /\ c.t = e.t
  BY Zenon, GoodClear
<1>2. Ended(e) = [c EXCEPT !.me = m]
  BY Zenon DEF Ended
<1> HIDE DEF c
<1>3. c \in States /\ c.me \in SessionStates
  BY Zenon, <1>1 DEF Good, States
<1>4. m \in SessionStates /\ m.watches = c.me.watches
  <2>1. <<>> \in Seq(Cmds)
    OBVIOUS
  <2> QED BY Zenon, <1>3, <2>1 DEF SessionStates
<1> HIDE DEF m
<1>5. Ended(e) = [db |-> c.db, me |-> m, t |-> c.t]
  BY Zenon, <1>2, <1>3 DEF States
<1>6. Good(s, [db |-> c.db, me |-> m, t |-> c.t])
  BY Zenon, <1>1, <1>4, GoodSession
<1> QED BY <1>1, <1>5, <1>6

-----------------------------------------------------------------------------
(* The steps of the server.                                                *)

LEMMA StateGood ==
  ASSUME SessionInv, NEW s \in Sessions
  PROVE  /\ Good(s, State(s)) /\ ses \in [Sessions -> SessionStates] /\ ses[s] \in SessionStates
         /\ State(s).db = db /\ State(s).me = ses[s] /\ State(s).t = changes
<1>1. WatchesKept(db, ses, changes) /\ ses \in [Sessions -> SessionStates]
  BY Zenon DEF SessionInv, WatchesKept
<1>2. ses[s] \in SessionStates /\ [ses EXCEPT ![s] = ses[s]] = ses
  BY Zenon, <1>1
<1>3. Good(s, [db |-> db, me |-> ses[s], t |-> changes])
  BY Zenon, <1>1, <1>2, GoodParts
<1> QED BY Zenon, <1>1, <1>2, <1>3 DEF State

LEMMA BecomesGood ==
  ASSUME NEW s \in Sessions, NEW e, Good(s, e), Becomes(s, e)
  PROVE  SessionInv'
BY Zenon DEF Good, Becomes, SessionInv

(* A step that only changes fields of the session other than its watches.  *)
LEMMA FieldStep ==
  ASSUME SessionInv, NEW s \in Sessions, NEW m \in SessionStates, m.watches = ses[s].watches,
         Becomes(s, [State(s) EXCEPT !.me = m])
  PROVE  SessionInv' /\ changes' = changes
<1> DEFINE e == [db |-> db, me |-> m, t |-> changes]
<1>1. [State(s) EXCEPT !.me = m] = e
  BY DEF State
<1>2. Good(s, e)
  BY Zenon, StateGood, GoodSession
<1>3. Becomes(s, e)
  BY Zenon, <1>1
<1> QED BY Zenon, <1>2, <1>3, BecomesGood DEF Becomes

LEMMA MultiStep ==
  ASSUME SessionInv, NEW s \in Sessions, Multi(s) PROVE SessionInv'
<1> DEFINE m == [ses[s] EXCEPT !.multi = TRUE, !.error = FALSE]
<1>1. ses[s] \in SessionStates
  BY Zenon, StateGood
<1>2. m \in SessionStates /\ m.watches = ses[s].watches
  BY Zenon, <1>1 DEF SessionStates
<1>3. Becomes(s, [State(s) EXCEPT !.me = m])
  BY Zenon DEF Multi, State
<1> HIDE DEF m
<1> QED BY Zenon, <1>2, <1>3, FieldStep

LEMMA QueueStep ==
  ASSUME SessionInv, NEW s \in Sessions, Queue(s) PROVE SessionInv' /\ changes' = changes
<1>1. PICK cmd \in Cmds : Becomes(s, [State(s) EXCEPT !.me.queue = Append(@, cmd)])
  BY Zenon DEF Queue
<1> DEFINE m == [ses[s] EXCEPT !.queue = Append(ses[s].queue, cmd)]
<1>2. ses[s] \in SessionStates
  BY Zenon, StateGood
<1>3. m \in SessionStates /\ m.watches = ses[s].watches
  <2>1. Append(ses[s].queue, cmd) \in Seq(Cmds)
    BY <1>2 DEF SessionStates
  <2> QED BY Zenon, <1>2, <2>1 DEF SessionStates
<1>4. Becomes(s, [State(s) EXCEPT !.me = m])
  BY Zenon, <1>1 DEF State
<1> HIDE DEF m
<1> QED BY Zenon, <1>3, <1>4, FieldStep

LEMMA QueueRejectsStep ==
  ASSUME SessionInv, NEW s \in Sessions, QueueRejects(s) PROVE SessionInv' /\ changes' = changes
<1> DEFINE m == [ses[s] EXCEPT !.error = TRUE]
<1>1. ses[s] \in SessionStates
  BY Zenon, StateGood
<1>2. m \in SessionStates /\ m.watches = ses[s].watches
  BY Zenon, <1>1 DEF SessionStates
<1>3. Becomes(s, [State(s) EXCEPT !.me = m])
  BY Zenon DEF QueueRejects, State
<1> HIDE DEF m
<1> QED BY Zenon, <1>2, <1>3, FieldStep

LEMMA WatchStep ==
  ASSUME SessionInv, NEW s \in Sessions, Watch(s) PROVE SessionInv'
<1> DEFINE c == ses[s].cur
           w == [db |-> c, ver |-> db[c].ver, epoch |-> db[c].epoch, at |-> changes]
           m == [ses[s] EXCEPT !.watches = Append(ses[s].watches, w)]
           new == [db EXCEPT ![c] = [db[c] EXCEPT !.refs = @ + 1]]
           g == [ses EXCEPT ![s] = m]
<1>t. /\ ses \in [Sessions -> SessionStates] /\ ses[s] \in SessionStates /\ c \in DB
      /\ db \in [DB -> Databases] /\ changes \in Nat /\ db[c] \in Databases
  BY Zenon, StateGood DEF SessionStates, SessionInv, WatchesKept
<1>1. Becomes(s, [db |-> new, me |-> m, t |-> changes])
  <2> DEFINE e == State(s)
             a == WatchAdd(e)
  <2>1. e = [db |-> db, me |-> ses[s], t |-> changes]
    BY Zenon DEF State
  <2>2. a.t = changes
    BY <2>1 DEF WatchAdd
  <2>3. a.me = m
    BY <2>1 DEF WatchAdd
  <2>4. a.db = new
    BY <2>1 DEF WatchAdd
  <2>5. Becomes(s, a)
    BY Zenon DEF Watch
  <2> HIDE DEF a, new, m
  <2> QED BY Zenon, <2>2, <2>3, <2>4, <2>5 DEF Becomes
<1>2. w \in Watches /\ w.db = c /\ w.ver = db[c].ver /\ w.epoch = db[c].epoch /\ w.at = changes
  BY Zenon, <1>t DEF Watches, Databases
<1>3. /\ new \in [DB -> Databases]
      /\ \A d \in DB : /\ new[d].refs = (IF d = c THEN db[d].refs + 1 ELSE db[d].refs)
                       /\ new[d].ver = db[d].ver /\ new[d].epoch = db[d].epoch
                       /\ new[d].changed = db[d].changed
  <2> DEFINE x == [db[c] EXCEPT !.refs = @ + 1]
  <2>1. x \in Databases /\ x.refs = db[c].refs + 1 /\ x.ver = db[c].ver /\ x.epoch = db[c].epoch
        /\ x.changed = db[c].changed
    BY <1>t DEF Databases
  <2> HIDE DEF x
  <2> QED BY Zenon, <2>1, <1>t DEF x
<1> HIDE DEF w
<1>4. m \in SessionStates /\ m.watches = Append(ses[s].watches, w)
  <2>1. Append(ses[s].watches, w) \in Seq(Watches)
    BY <1>t, <1>2 DEF SessionStates
  <2> QED BY Zenon, <1>t, <2>1 DEF SessionStates
<1> HIDE DEF m, new
<1>5. /\ g \in [Sessions -> SessionStates] /\ g[s].watches = Append(ses[s].watches, w)
      /\ \A r \in Sessions \ {s} : g[r] = ses[r]
  BY Zenon, <1>t, <1>4
<1> HIDE DEF g, c
<1>6. WatchesKept(new, g, changes)
  <2>1. WatchesKept(db, ses, changes)
    BY Zenon DEF SessionInv
  <2>2. Entry(w, c, db, changes) /\ Extended(g, ses, s, w) /\ Raised(new, db, c)
    BY Zenon, <1>2, <1>3, <1>5 DEF Entry, Extended, Raised
  <2> QED BY Zenon, <1>t, <2>1, <2>2, AddKept
<1>7. Good(s, [db |-> new, me |-> m, t |-> changes])
  BY Zenon, <1>t, <1>4, <1>6, GoodParts DEF g
<1> QED BY Zenon, <1>1, <1>7, BecomesGood

LEMMA RunStep ==
  ASSUME SessionInv, "swapdb" \notin Cmds, NEW s \in Sessions, Run(s) PROVE SessionInv'
<1>1. PICK cmd \in Cmds : Becomes(s, Dispatch(State(s), cmd))
  BY Zenon DEF Run
<1>2. cmd \in Commands \ {"swapdb"}
  BY Zenon, SessionAssumption
<1> QED BY Zenon, <1>1, <1>2, StateGood, GoodDispatch, BecomesGood

LEMMA ExecStep ==
  ASSUME SessionInv, "swapdb" \notin Cmds, NEW s \in Sessions, Exec(s)
  PROVE  SessionInv' /\ (~Commits(s) => changes' = changes)
<1> DEFINE e == State(s)
           x == IF Commits(s) THEN Executed(e, e.me.queue) ELSE e
<1>1. Good(s, e) /\ e.me = ses[s] /\ e.t = changes /\ ses \in [Sessions -> SessionStates]
      /\ ses[s] \in SessionStates
  BY Zenon, StateGood
<1>2. Becomes(s, Ended(x))
  BY Zenon DEF Exec
<1> HIDE DEF e
<1>3. ses[s].queue \in Seq(Commands \ {"swapdb"})
  <2>1. ses[s].queue \in Seq(Cmds)
    BY Zenon, <1>1 DEF SessionStates
  <2>2. Cmds \subseteq Commands \ {"swapdb"}
    BY Zenon, SessionAssumption
  <2> QED BY <2>1, <2>2
<1>4. Good(s, Executed(e, e.me.queue))
  BY Zenon, <1>1, <1>3, GoodExecuted
<1>5. Good(s, x)
  BY Zenon, <1>1, <1>4
<1>6. ~Commits(s) => x.t = changes
  BY Zenon, <1>1
<1> HIDE DEF x
<1>7. Good(s, Ended(x)) /\ Ended(x).t = x.t
  BY Zenon, <1>1, <1>5, GoodEnded
<1>8. SessionInv' /\ changes' = Ended(x).t
  BY Zenon, <1>2, <1>7, BecomesGood DEF Becomes
<1> QED BY Zenon, <1>6, <1>7, <1>8

LEMMA EndStep ==
  ASSUME SessionInv, NEW s \in Sessions, Discard(s) \/ Reset(s) \/ Disconnect(s)
  PROVE  SessionInv' /\ changes' = changes
<1> DEFINE e == State(s)
<1>1. Good(s, e) /\ e.t = changes /\ ses \in [Sessions -> SessionStates]
  BY Zenon, StateGood
<1> HIDE DEF e
<1>2. CASE Discard(s)
  <2>1. Becomes(s, Ended(e))
    BY Zenon, <1>2 DEF Discard, e
  <2>2. Good(s, Ended(e)) /\ Ended(e).t = changes
    BY Zenon, <1>1, GoodEnded
  <2> QED BY Zenon, <2>1, <2>2, BecomesGood DEF Becomes
<1>3. CASE Reset(s)
  <2> DEFINE x == Ended(e)
             m == [x.me EXCEPT !.cur = 0]
  <2>1. Becomes(s, [x EXCEPT !.me = m])
    BY Zenon, <1>3 DEF Reset, e
  <2>2. Good(s, x) /\ x.t = changes
    BY Zenon, <1>1, GoodEnded
  <2> HIDE DEF x
  <2>3. x \in States /\ x.me \in SessionStates
    BY Zenon, <2>2 DEF Good, States
  <2>4. m \in SessionStates /\ m.watches = x.me.watches
    <3>1. 0 \in DB
      BY SessionAssumption DEF DB
    <3> QED BY Zenon, <2>3, <3>1 DEF SessionStates
  <2> HIDE DEF m
  <2>5. [x EXCEPT !.me = m] = [db |-> x.db, me |-> m, t |-> x.t]
    BY <2>3 DEF States
  <2>6. Good(s, [db |-> x.db, me |-> m, t |-> x.t])
    BY Zenon, <1>1, <2>2, <2>4, GoodSession
  <2>7. Becomes(s, [db |-> x.db, me |-> m, t |-> x.t])
    BY Zenon, <2>1, <2>5
  <2> QED BY Zenon, <2>2, <2>6, <2>7, BecomesGood DEF Becomes
<1>4. CASE Disconnect(s)
  <2> DEFINE x == WatchClear(e)
  <2>1. Becomes(s, [x EXCEPT !.me = NewSession])
    BY Zenon, <1>4 DEF Disconnect, e
  <2>2. Good(s, x) /\ x.t = changes
    BY Zenon, <1>1, GoodClear
  <2>3. x.me.watches = <<>>
    <3>1. e \in States /\ e.me \in SessionStates
      BY Zenon, <1>1 DEF Good, States
    <3> QED BY Zenon, <3>1 DEF WatchClear, States, SessionStates
  <2> HIDE DEF x
  <2>4. NewSession \in SessionStates /\ NewSession.watches = x.me.watches
    <3>1. 0 \in DB /\ <<>> \in Seq(Cmds) /\ <<>> \in Seq(Watches)
      BY SessionAssumption DEF DB
    <3> QED BY Zenon, <2>3, <3>1 DEF SessionStates, NewSession
  <2>5. [x EXCEPT !.me = NewSession] = [db |-> x.db, me |-> NewSession, t |-> x.t]
    BY <2>2 DEF Good, States
  <2>6. Good(s, [db |-> x.db, me |-> NewSession, t |-> x.t])
    BY Zenon, <1>1, <2>2, <2>4, GoodSession
  <2>7. Becomes(s, [db |-> x.db, me |-> NewSession, t |-> x.t])
    BY Zenon, <2>1, <2>5
  <2> QED BY Zenon, <2>2, <2>6, <2>7, BecomesGood DEF Becomes
<1> QED BY Zenon, <1>2, <1>3, <1>4

LEMMA LoadStep ==
  ASSUME SessionInv, LoadSnapshot PROVE SessionInv'
<1>1. /\ db' = [d \in DB |-> Loaded(db[d], changes)] /\ changes' = changes + 1 /\ ses' = ses
      /\ WatchesKept(db, ses, changes) /\ db \in [DB -> Databases] /\ changes \in Nat
  BY Zenon DEF LoadSnapshot, SessionInv, WatchesKept
<1>2. \A d \in DB : db'[d] = Loaded(db[d], changes) /\ db'[d] \in Databases
  BY Zenon, <1>1, StepTypes
<1>3. db' \in [DB -> Databases]
  BY Zenon, <1>1, <1>2
<1>4. WatchesKept(db', ses, changes + 1)
  BY Zenon, <1>1, <1>2, <1>3, ContentsKept
<1> QED BY Zenon, <1>1, <1>4 DEF SessionInv

LEMMA InitInv == Init => SessionInv
<1> SUFFICES ASSUME Init PROVE SessionInv
  BY Zenon
<1>1. /\ db = [d \in DB |-> NewDb] /\ ses = [s \in Sessions |-> NewSession] /\ changes = 0
  BY Zenon DEF Init
<1>2. NewDb \in Databases /\ NewSession \in SessionStates
  <2>1. 0 \in DB /\ <<>> \in Seq(Cmds) /\ <<>> \in Seq(Watches)
    BY SessionAssumption DEF DB
  <2> QED BY Zenon, <2>1 DEF NewDb, NewSession, Databases, SessionStates
<1>3. \A s \in Sessions : ses[s].watches = <<>>
  BY Zenon, <1>1 DEF NewSession
<1>4. ASSUME NEW d \in DB PROVE Held(ses, d) = {}
  BY <1>3 DEF Held, Entries
<1>5. \A d \in DB : db[d].refs = 0 /\ db[d].changed = 0
  BY Zenon, <1>1 DEF NewDb
<1>6. \A d \in DB : IsFiniteSet(Held(ses, d)) /\ db[d].refs = Cardinality(Held(ses, d))
  BY Zenon, <1>4, <1>5, FS_EmptySet
<1>7. \A s \in Sessions : DOMAIN ses[s].watches = {}
  BY <1>3
<1>8. db \in [DB -> Databases] /\ ses \in [Sessions -> SessionStates] /\ changes \in Nat
  BY Zenon, <1>1, <1>2
<1>9. \A d \in DB : db[d].changed <= changes
  BY <1>1, <1>5
<1> QED BY Zenon, <1>6, <1>7, <1>8, <1>9 DEF SessionInv, WatchesKept

LEMMA NextInv ==
  ASSUME "swapdb" \notin Cmds, SessionInv, [Next]_vars PROVE SessionInv'
<1>1. CASE UNCHANGED vars
  BY Zenon, <1>1 DEF vars, SessionInv
<1>2. CASE LoadSnapshot
  BY Zenon, <1>2, LoadStep
<1>3. ASSUME NEW s \in Sessions,
             \/ Multi(s) \/ Watch(s) \/ Run(s) \/ Queue(s) \/ QueueRejects(s)
             \/ Exec(s) \/ Discard(s) \/ Reset(s) \/ Disconnect(s)
      PROVE  SessionInv'
  BY Zenon, <1>3, MultiStep, WatchStep, RunStep, QueueStep, QueueRejectsStep, ExecStep, EndStep
<1> QED BY Zenon, <1>1, <1>2, <1>3 DEF Next

(* Only an EXEC that commits ends a transaction and changes the keyspace.  *)
LEMMA OnlyExec ==
  ASSUME "swapdb" \notin Cmds, SessionInv, [Next]_vars, NEW s \in Sessions,
         ses[s].multi, ~ses'[s].multi, changes' # changes
  PROVE  Commits(s)
<1>1. ~ UNCHANGED vars
  BY Zenon DEF vars
<1>2. ~ LoadSnapshot
  BY Zenon DEF LoadSnapshot
<1>3. PICK r \in Sessions :
        \/ Multi(r) \/ Watch(r) \/ Run(r) \/ Queue(r) \/ QueueRejects(r)
        \/ Exec(r) \/ Discard(r) \/ Reset(r) \/ Disconnect(r)
  BY Zenon, <1>1, <1>2 DEF Next
<1>4. \E e : ses' = [ses EXCEPT ![r] = e.me]
  BY Zenon, <1>3 DEF Multi, Watch, Run, Queue, QueueRejects, Exec, Discard, Reset, Disconnect, Becomes
<1>5. r = s
  BY Zenon, <1>4, StateGood
<1>6. ~Multi(s) /\ ~Watch(s) /\ ~Run(s)
  BY Zenon DEF Multi, Watch, Run
<1>7. ~Queue(s) /\ ~QueueRejects(s) /\ ~Discard(s) /\ ~Reset(s) /\ ~Disconnect(s)
  BY Zenon, QueueStep, QueueRejectsStep, EndStep
<1> QED BY Zenon, <1>3, <1>5, <1>6, <1>7, ExecStep

(* WATCH makes EXEC optimistic, for any number of sessions and databases,  *)
(* whatever is queued and wherever it is watched, as long as no session    *)
(* runs SWAPDB: an EXEC that changes the keyspace had no rejected command, *)
(* and no key its session watches has changed since.  The references that  *)
(* db_touch_key tests are exactly the entries session_watch_add made and   *)
(* session_watch_clear has not released.                                   *)
THEOREM TransactionsAreOptimistic ==
  ASSUME "swapdb" \notin Cmds
  PROVE  Spec => ExecIsOptimistic
<1> DEFINE A == \A s \in Sessions :
             /\ ses[s].multi /\ ~ses'[s].multi
             /\ changes' # changes
             => /\ ~ses[s].error
                /\ \A i \in 1..Len(ses[s].watches) :
                     db[ses[s].watches[i].db].changed <= ses[s].watches[i].at
<1>1. SessionInv /\ [Next]_vars => SessionInv'
  BY Zenon, NextInv
<1>2. SessionInv /\ [Next]_vars => [A]_vars
  <2> SUFFICES ASSUME SessionInv, [Next]_vars, NEW s \in Sessions,
                      ses[s].multi, ~ses'[s].multi, changes' # changes
               PROVE  /\ ~ses[s].error
                      /\ \A i \in 1..Len(ses[s].watches) :
                           db[ses[s].watches[i].db].changed <= ses[s].watches[i].at
    BY Zenon
  <2>1. Commits(s)
    BY Zenon, OnlyExec
  <2>2. ASSUME NEW i \in 1..Len(ses[s].watches)
        PROVE  db[ses[s].watches[i].db].changed <= ses[s].watches[i].at
    <3>1. ses[s].watches \in Seq(Watches)
      BY Zenon, StateGood DEF SessionStates
    <3>2. Kept(ses[s].watches[i], db[ses[s].watches[i].db])
      BY <3>1 DEF SessionInv, WatchesKept
    <3>3. Clean(ses[s].watches[i])
      BY Zenon, <2>1 DEF Commits, WatchesClean
    <3> QED BY Zenon, <3>2, <3>3 DEF Kept, Clean
  <2> QED BY Zenon, <2>1, <2>2 DEF Commits
<1> QED BY <1>1, <1>2, InitInv, PTL DEF Spec, ExecIsOptimistic
=============================================================================
