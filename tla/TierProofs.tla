----------------------------- MODULE TierProofs -----------------------------
(***************************************************************************)
(* Proofs about Tier, for any keys, databases, values, size of the log and *)
(* failures of the disk:                                                   *)
(*   ReplayIsExact      the index that a replay of the log builds is the   *)
(*                      one the store maintained;                          *)
(*   ColdTierInvisible  a key has the value and the deadline it would have *)
(*                      without the tier.                                  *)
(***************************************************************************)
EXTENDS Tier, FiniteSetTheorems, WellFoundedInduction, TLAPS

-----------------------------------------------------------------------------
(* Replaying a log.                                                        *)

\* after[i] is what the first i records of the log make of an empty index.
Runs(log, after) ==
  /\ after[0] = Blank
  /\ \A i \in 1 .. Len(log) : after[i] = ReplayRecord(after[i - 1], log[i])

(* Induction, for a set of numbers.                                        *)
LEMMA Induction ==
  ASSUME NEW S, 0 \in S, \A n \in Nat : n \in S => n + 1 \in S
  PROVE  Nat \subseteq S
<1> SUFFICES ASSUME Nat \ S # {} PROVE FALSE
  BY Zenon
<1> DEFINE R == OpToRel(<, Nat)
<1>1. IsWellFoundedOn(R, Nat)
  BY Zenon, NatLessThanWellFounded
<1>2. \A x, y \in Nat : x < y => <<x, y>> \in R
  BY Zenon DEF OpToRel
<1> HIDE DEF R
<1>3. PICK x \in Nat \ S : \A y \in Nat \ S : ~ (<<y, x>> \in R)
  BY Zenon, <1>1, WFMin
<1>4. x # 0 /\ x - 1 \in Nat /\ x - 1 < x /\ (x - 1) + 1 = x
  BY <1>3
<1>5. x - 1 \in S
  BY Zenon, <1>2, <1>3, <1>4
<1> QED BY Zenon, <1>3, <1>4, <1>5

(* The replay of a log is the last of the states its records lead through. *)
LEMMA ReplayRuns ==
  ASSUME NEW log, Len(log) \in Nat
  PROVE  \E after : ReplayLog(log) = after[Len(log)] /\ Runs(log, after)
<1> DEFINE N == Len(log)
           Step(v, i) == CHOOSE z \in {ReplayRecord(y, log[i]) : y \in {v}} : TRUE
           F(h, k) == [i \in 0 .. k |-> IF i = 0 THEN Blank ELSE Step(h[i - 1], i)]
           Done == {k \in Nat : \E h : h = F(h, k)}
<1>1. 0 \in Done
  <2>1. [i \in 0 .. 0 |-> Blank] = F([i \in 0 .. 0 |-> Blank], 0)
    OBVIOUS
  <2> QED BY Zenon, <2>1
<1>2. ASSUME NEW k \in Nat, k \in Done PROVE k + 1 \in Done
  <2>1. PICK h : h = F(h, k)
    BY Zenon, <1>2
  <2> DEFINE g == [i \in 0 .. (k + 1) |-> IF i = k + 1 THEN Step(h[k], k + 1) ELSE h[i]]
  <2>2. ASSUME NEW i \in 0 .. (k + 1) PROVE g[i] = IF i = 0 THEN Blank ELSE Step(g[i - 1], i)
    <3>1. CASE i = k + 1
      <4>1. g[i] = Step(h[k], i) /\ i # 0 /\ i - 1 = k
        BY <3>1
      <4>2. g[k] = h[k]
        OBVIOUS
      <4> HIDE DEF g
      <4> QED BY Zenon, <4>1, <4>2
    <3>2. CASE i # k + 1
      <4>1. i \in 0 .. k /\ g[i] = h[i] /\ (i # 0 => i - 1 \in 0 .. (k + 1) /\ i - 1 # k + 1)
        BY <3>2
      <4>2. i # 0 => g[i - 1] = h[i - 1]
        BY Zenon, <4>1
      <4>3. h[i] = IF i = 0 THEN Blank ELSE Step(h[i - 1], i)
        BY Zenon, <2>1, <4>1
      <4> HIDE DEF g
      <4> QED BY Zenon, <4>1, <4>2, <4>3
    <3> QED BY Zenon, <3>1, <3>2
  <2>3. g = F(g, k + 1)
    <3>1. g = [i \in 0 .. (k + 1) |-> g[i]]
      BY Zenon
    <3> HIDE DEF g, Step
    <3>2. F(g, k + 1) = [i \in 0 .. (k + 1) |-> g[i]]
      BY Zenon, <2>2
    <3> QED BY Zenon, <3>1, <3>2
  <2> HIDE DEF g, Step
  <2>4. \E p : p = F(p, k + 1)
    BY Zenon, <2>3
  <2> QED BY <2>4
<1> HIDE DEF Done
<1>3. N \in Done
  BY Zenon, <1>1, <1>2, Induction
<1>4. \E h : h = F(h, N)
  BY Zenon, <1>3 DEF Done
<1> DEFINE after == CHOOSE h : h = F(h, N)
<1>5. after = F(after, N)
  BY Zenon, <1>4
<1>6. ReplayLog(log) = after[N]
  BY Zenon DEF ReplayLog
<1> HIDE DEF after
<1>7. after[0] = Blank /\ \A i \in 1 .. N : after[i] = Step(after[i - 1], i)
  BY <1>5
<1>8. ASSUME NEW v, NEW i PROVE Step(v, i) = ReplayRecord(v, log[i])
  <2> DEFINE w == ReplayRecord(v, log[i])
             T == {ReplayRecord(y, log[i]) : y \in {v}}
  <2>1. T = {w}
    BY Zenon
  <2> HIDE DEF T, w
  <2>2. (CHOOSE z \in T : TRUE) = w
    BY Zenon, <2>1
  <2> QED BY Zenon, <2>2 DEF T, w
<1> HIDE DEF Step
<1> QED BY Zenon, <1>6, <1>7, <1>8 DEF Runs

(* Two ways through the same records are the same.                         *)
LEMMA RunsAgree ==
  ASSUME NEW log, NEW more, NEW a, NEW b, Runs(log, a), Runs(more, b),
         Len(log) \in Nat, Len(more) \in Nat, Len(log) <= Len(more),
         \A i \in 1 .. Len(log) : more[i] = log[i]
  PROVE  \A i \in 0 .. Len(log) : b[i] = a[i]
<1> DEFINE S == {i \in Nat : i <= Len(log) => b[i] = a[i]}
<1>1. 0 \in S
  BY Zenon DEF Runs
<1>2. ASSUME NEW i \in Nat, i \in S PROVE i + 1 \in S
  <2> SUFFICES ASSUME i + 1 <= Len(log) PROVE b[i + 1] = a[i + 1]
    OBVIOUS
  <2>1. i + 1 \in 1 .. Len(log) /\ i + 1 \in 1 .. Len(more) /\ (i + 1) - 1 = i /\ b[i] = a[i]
    BY <1>2
  <2>2. a[i + 1] = ReplayRecord(a[i], log[i + 1])
    BY Zenon, <2>1 DEF Runs
  <2>3. b[i + 1] = ReplayRecord(b[i], more[i + 1])
    BY Zenon, <2>1 DEF Runs
  <2> QED BY Zenon, <2>1, <2>2, <2>3
<1>3. Nat \subseteq S
  <2> HIDE DEF S
  <2> QED BY Zenon, <1>1, <1>2, Induction
<1> QED BY <1>3

(* One more record.                                                        *)
LEMMA ReplayAppend ==
  ASSUME NEW R, NEW log \in Seq(R), NEW r \in R
  PROVE  ReplayLog(Append(log, r)) = ReplayRecord(ReplayLog(log), r)
<1> DEFINE more == Append(log, r)
<1>1. /\ Len(log) \in Nat /\ Len(more) = Len(log) + 1 /\ more[Len(log) + 1] = r
      /\ \A i \in 1 .. Len(log) : more[i] = log[i]
  OBVIOUS
<1> HIDE DEF more
<1>2. PICK a : ReplayLog(log) = a[Len(log)] /\ Runs(log, a)
  BY Zenon, <1>1, ReplayRuns
<1>3. PICK b : ReplayLog(more) = b[Len(more)] /\ Runs(more, b)
  BY <1>1, ReplayRuns
<1>4. b[Len(log)] = a[Len(log)]
  BY <1>1, <1>2, <1>3, RunsAgree
<1>5. b[Len(log) + 1] = ReplayRecord(b[Len(log)], more[Len(log) + 1])
  BY <1>1, <1>3 DEF Runs
<1> QED BY Zenon, <1>1, <1>2, <1>3, <1>4, <1>5 DEF more

(* An empty log.                                                           *)
LEMMA ReplayEmpty == ReplayLog(<<>>) = Blank
<1>1. PICK a : ReplayLog(<<>>) = a[Len(<<>>)] /\ Runs(<<>>, a)
  BY Zenon, ReplayRuns
<1> QED BY Zenon, <1>1 DEF Runs

-----------------------------------------------------------------------------
(* Records, and the index that a replay builds.                            *)

Vals == UNION {ColdVals[k] : k \in ColdKeys}
Dbs == {f[k] : f \in Layouts, k \in ColdKeys}

Puts == [op : {"put"}, rid : Nat, db : Dbs, v : Vals, x : {0, 1}]
Dels == [op : {"del"}, rid : Nat, db : {0}]
Flushes == [op : {"flush"}, rid : {0}, db : Dbs]
Records == Puts \cup Dels \cup Flushes

\* f maps some numbers to numbers.
IsMap(f) ==
  /\ f = [r \in DOMAIN f |-> f[r]]
  /\ DOMAIN f \subseteq Nat
  /\ \A r \in DOMAIN f : f[r] \in Nat

\* Every id of the index leads to the record of the log that has put it.
Indexes(index, log, next) ==
  /\ IsMap(index)
  /\ \A rid \in DOMAIN index :
       /\ rid < next
       /\ index[rid] \in DOMAIN log
       /\ log[index[rid]] \in Puts
       /\ log[index[rid]].rid = rid

\* a is the state of a replay after i records, and what it says of the log when it
\* has gone well.
IsReplay(a) == a \in [ok : BOOLEAN, index : {a.index}, dbs : {a.dbs}, next : Nat, n : Nat]
Replays(a, log, i) ==
  /\ IsReplay(a)
  /\ a.ok => /\ a.n = i /\ a.next >= 1
             /\ Indexes(a.index, log, a.next)
             /\ \A rid \in DOMAIN a.index : a.dbs[rid] = log[a.index[rid]].db
             /\ DOMAIN a.index \subseteq DOMAIN a.dbs

(* What a record does to the state of a replay.                            *)
LEMMA RecordReplayed ==
  ASSUME NEW a, IsReplay(a), NEW r \in Records
  PROVE  LET b == ReplayRecord(a, r) IN
         /\ IsReplay(b)
         /\ b.ok <=> a.ok /\ ~ (r.op = "put" /\ r.rid < a.next)
         /\ b.ok => /\ b.n = a.n + 1
                    /\ b.next = IF r.rid >= a.next THEN r.rid + 1 ELSE a.next
                    /\ r.op = "put" => /\ b.index = With(a.index, r.rid, a.n + 1)
                                       /\ b.dbs = With(a.dbs, r.rid, r.db)
                    /\ r.op = "del" => b.index = Without(a.index, {r.rid}) /\ b.dbs = a.dbs
                    /\ r.op = "flush" => /\ b.dbs = a.dbs
                                         /\ b.index = Without(a.index, {i \in DOMAIN a.index : a.dbs[i] = r.db})
<1> DEFINE m == a.n + 1
           x == IF r.rid >= a.next THEN r.rid + 1 ELSE a.next
           n == [a EXCEPT !.n = m, !.next = x]
           b == ReplayRecord(a, r)
<1>1. r.rid \in Nat /\ r.op \in {"put", "del", "flush"}
  BY DEF Records, Puts, Dels, Flushes
<1>2. /\ IsReplay(n) /\ n.ok = a.ok /\ n.index = a.index /\ n.dbs = a.dbs /\ n.n = m
      /\ n.next = x
  <2>1. m \in Nat /\ x \in Nat
    BY <1>1 DEF IsReplay
  <2> HIDE DEF m, x
  <2> QED BY Zenon, <2>1 DEF IsReplay
<1>3. b = IF ~a.ok \/ (r.op = "put" /\ r.rid < a.next) THEN [a EXCEPT !.ok = FALSE]
          ELSE CASE r.op = "put"   -> [n EXCEPT !.index = With(@, r.rid, n.n), !.dbs = With(@, r.rid, r.db)]
                 [] r.op = "del"   -> [n EXCEPT !.index = Without(@, {r.rid})]
                 [] r.op = "flush" -> [n EXCEPT !.index = Without(@, {i \in DOMAIN @ : n.dbs[i] = r.db})]
  BY Zenon DEF ReplayRecord
<1> HIDE DEF n
<1>4. CASE ~a.ok \/ (r.op = "put" /\ r.rid < a.next)
  <2>1. b = [a EXCEPT !.ok = FALSE]
    BY Zenon, <1>3, <1>4
  <2> QED BY Zenon, <2>1, <1>4 DEF IsReplay
<1>5. CASE a.ok /\ r.op = "put" /\ ~ (r.rid < a.next)
  <2>1. b = [n EXCEPT !.index = With(@, r.rid, n.n), !.dbs = With(@, r.rid, r.db)]
    BY Zenon, <1>3, <1>5
  <2>2. /\ IsReplay(b) /\ b.ok = n.ok /\ b.n = n.n /\ b.next = n.next
        /\ b.index = With(n.index, r.rid, n.n) /\ b.dbs = With(n.dbs, r.rid, r.db)
    BY Zenon, <2>1, <1>2 DEF IsReplay
  <2> QED BY Zenon, <2>2, <1>2, <1>5
<1>6. CASE a.ok /\ r.op = "del"
  <2>1. b = [n EXCEPT !.index = Without(@, {r.rid})]
    BY Zenon, <1>3, <1>6
  <2>2. /\ IsReplay(b) /\ b.ok = n.ok /\ b.n = n.n /\ b.next = n.next
        /\ b.index = Without(n.index, {r.rid}) /\ b.dbs = n.dbs
    BY Zenon, <2>1, <1>2 DEF IsReplay
  <2> QED BY Zenon, <2>2, <1>2, <1>6
<1>7. CASE a.ok /\ r.op = "flush"
  <2>1. b = [n EXCEPT !.index = Without(@, {i \in DOMAIN @ : n.dbs[i] = r.db})]
    BY Zenon, <1>3, <1>7
  <2>2. /\ IsReplay(b) /\ b.ok = n.ok /\ b.n = n.n /\ b.next = n.next
        /\ b.index = Without(n.index, {i \in DOMAIN n.index : n.dbs[i] = r.db}) /\ b.dbs = n.dbs
    BY Zenon, <2>1, <1>2 DEF IsReplay
  <2> QED BY Zenon, <2>2, <1>2, <1>7
<1> HIDE DEF b
<1>8. \/ ~a.ok \/ (r.op = "put" /\ r.rid < a.next)
      \/ a.ok /\ r.op = "put" /\ ~ (r.rid < a.next)
      \/ a.ok /\ r.op = "del"
      \/ a.ok /\ r.op = "flush"
  BY Zenon, <1>1
<1> QED BY Zenon, <1>4, <1>5, <1>6, <1>7, <1>8 DEF b

(* Adding a pair to a map, and taking pairs away.                          *)
LEMMA WithHas ==
  ASSUME NEW f, NEW r, NEW x
  PROVE  DOMAIN With(f, r, x) = DOMAIN f \cup {r}
  BY Zenon DEF With

LEMMA WithAt ==
  ASSUME NEW f, NEW r, NEW x
  PROVE  With(f, r, x)[r] = x /\ \A i \in DOMAIN f : i # r => With(f, r, x)[i] = f[i]
  BY Zenon DEF With

LEMMA WithIsMap ==
  ASSUME NEW f, IsMap(f), NEW r \in Nat, NEW x \in Nat
  PROVE  IsMap(With(f, r, x))
  BY Zenon DEF With, IsMap

LEMMA WithoutIs ==
  ASSUME NEW f, NEW S
  PROVE  /\ DOMAIN Without(f, S) = DOMAIN f \ S
         /\ \A i \in DOMAIN f \ S : Without(f, S)[i] = f[i]
         /\ IsMap(f) => IsMap(Without(f, S))
<1>1. Without(f, S) = [i \in DOMAIN f \ S |-> f[i]]
  BY Zenon DEF Without, Restrict
<1> HIDE DEF Without
<1> QED BY Zenon, <1>1 DEF IsMap

(* A replay keeps an index of the log.                                     *)
LEMMA RecordKeepsIndex ==
  ASSUME NEW log \in Seq(Records), NEW i \in Nat, i + 1 \in DOMAIN log,
         NEW a, Replays(a, log, i)
  PROVE  Replays(ReplayRecord(a, log[i + 1]), log, i + 1)
<1> DEFINE r == log[i + 1]
           b == ReplayRecord(a, r)
<1>1. r \in Records /\ IsReplay(a) /\ r.rid \in Nat /\ (r.op = "put" => r \in Puts)
      /\ r.op \in {"put", "del", "flush"}
  <2>1. r \in Records
    OBVIOUS
  <2> HIDE DEF r
  <2> QED BY <2>1 DEF Replays, Records, Puts, Dels, Flushes
<1>2. /\ IsReplay(b)
      /\ b.ok <=> a.ok /\ ~ (r.op = "put" /\ r.rid < a.next)
      /\ b.ok => /\ b.n = a.n + 1
                 /\ b.next = IF r.rid >= a.next THEN r.rid + 1 ELSE a.next
                 /\ r.op = "put" => /\ b.index = With(a.index, r.rid, a.n + 1)
                                    /\ b.dbs = With(a.dbs, r.rid, r.db)
                 /\ r.op = "del" => b.index = Without(a.index, {r.rid}) /\ b.dbs = a.dbs
                 /\ r.op = "flush" => /\ b.dbs = a.dbs
                                      /\ b.index = Without(a.index, {j \in DOMAIN a.index : a.dbs[j] = r.db})
  BY Zenon, <1>1, RecordReplayed
<1> HIDE DEF b
<1> SUFFICES ASSUME b.ok
             PROVE  /\ b.n = i + 1 /\ b.next >= 1
                    /\ Indexes(b.index, log, b.next)
                    /\ \A rid \in DOMAIN b.index : b.dbs[rid] = log[b.index[rid]].db
                    /\ DOMAIN b.index \subseteq DOMAIN b.dbs
  BY Zenon, <1>2 DEF Replays, b
<1>3. /\ a.ok /\ a.n = i /\ a.next >= 1 /\ a.next \in Nat
      /\ Indexes(a.index, log, a.next)
      /\ \A rid \in DOMAIN a.index : a.dbs[rid] = log[a.index[rid]].db
      /\ DOMAIN a.index \subseteq DOMAIN a.dbs
  BY Zenon, <1>2 DEF Replays, IsReplay
<1>4. b.n = i + 1 /\ b.next >= 1 /\ b.next >= a.next /\ b.next > r.rid /\ b.next \in Nat
  BY <1>1, <1>2, <1>3
<1>5. CASE r.op = "put"
  <2>1. b.index = With(a.index, r.rid, i + 1) /\ b.dbs = With(a.dbs, r.rid, r.db)
    BY Zenon, <1>2, <1>3, <1>5
  <2>2. r \in Puts /\ log[i + 1] = r
    BY Zenon, <1>1, <1>5
  <2> HIDE DEF r
  <2>3. IsMap(b.index) /\ DOMAIN b.index = DOMAIN a.index \cup {r.rid} /\ b.index[r.rid] = i + 1
        /\ \A rid \in DOMAIN a.index : rid # r.rid => b.index[rid] = a.index[rid]
    <3> DEFINE w == With(a.index, r.rid, i + 1)
    <3>1. IsMap(a.index) /\ r.rid \in Nat /\ i + 1 \in Nat
      BY <1>1, <1>3 DEF Indexes
    <3>2. DOMAIN w = DOMAIN a.index \cup {r.rid}
      BY Zenon, WithHas
    <3>3. w[r.rid] = i + 1 /\ \A rid \in DOMAIN a.index : rid # r.rid => w[rid] = a.index[rid]
      BY WithAt
    <3>4. IsMap(w)
      BY Zenon, <3>1, WithIsMap
    <3> HIDE DEF w
    <3> QED BY Zenon, <3>2, <3>3, <3>4, <2>1 DEF w
  <2>4. DOMAIN b.dbs = DOMAIN a.dbs \cup {r.rid} /\ b.dbs[r.rid] = r.db
        /\ \A rid \in DOMAIN a.dbs : rid # r.rid => b.dbs[rid] = a.dbs[rid]
    <3> DEFINE w == With(a.dbs, r.rid, r.db)
    <3>1. DOMAIN w = DOMAIN a.dbs \cup {r.rid}
      BY Zenon, WithHas
    <3>2. w[r.rid] = r.db /\ \A rid \in DOMAIN a.dbs : rid # r.rid => w[rid] = a.dbs[rid]
      BY WithAt
    <3> HIDE DEF w
    <3> QED BY Zenon, <3>1, <3>2, <2>1 DEF w
  <2>5. ASSUME NEW rid \in DOMAIN b.index
        PROVE  /\ rid < b.next /\ b.index[rid] \in DOMAIN log /\ log[b.index[rid]] \in Puts
               /\ log[b.index[rid]].rid = rid /\ b.dbs[rid] = log[b.index[rid]].db
    <3>1. CASE rid = r.rid
      BY Zenon, <3>1, <2>2, <2>3, <2>4, <1>4
    <3>2. CASE rid # r.rid
      <4>1. rid \in DOMAIN a.index /\ b.index[rid] = a.index[rid] /\ b.dbs[rid] = a.dbs[rid] /\ rid \in Nat
        BY Zenon, <3>2, <2>3, <2>4, <1>3 DEF IsMap, Indexes
      <4> QED BY <4>1, <1>3, <1>4 DEF Indexes
    <3> QED BY Zenon, <3>1, <3>2
  <2> QED BY Zenon, <1>3, <1>4, <2>3, <2>4, <2>5 DEF Indexes
<1>6. ASSUME NEW S, b.index = Without(a.index, S), b.dbs = a.dbs
      PROVE  /\ Indexes(b.index, log, b.next)
             /\ \A rid \in DOMAIN b.index : b.dbs[rid] = log[b.index[rid]].db
             /\ DOMAIN b.index \subseteq DOMAIN b.dbs
  <2>1. IsMap(b.index) /\ DOMAIN b.index = DOMAIN a.index \ S
        /\ \A rid \in DOMAIN a.index \ S : b.index[rid] = a.index[rid]
    <3> DEFINE w == Without(a.index, S)
    <3>1. IsMap(a.index)
      BY Zenon, <1>3 DEF Indexes
    <3>2. IsMap(w) /\ DOMAIN w = DOMAIN a.index \ S /\ \A rid \in DOMAIN a.index \ S : w[rid] = a.index[rid]
      BY Zenon, <3>1, WithoutIs
    <3> HIDE DEF w
    <3> QED BY Zenon, <3>2, <1>6 DEF w
  <2>2. ASSUME NEW rid \in DOMAIN b.index
        PROVE  /\ rid < b.next /\ b.index[rid] \in DOMAIN log /\ log[b.index[rid]] \in Puts
               /\ log[b.index[rid]].rid = rid /\ b.dbs[rid] = log[b.index[rid]].db
    <3>1. rid \in DOMAIN a.index /\ b.index[rid] = a.index[rid] /\ b.dbs[rid] = a.dbs[rid] /\ rid \in Nat
      BY Zenon, <2>1, <1>3, <1>6 DEF IsMap, Indexes
    <3> QED BY <3>1, <1>3, <1>4 DEF Indexes
  <2> QED BY Zenon, <2>1, <2>2, <1>3, <1>6 DEF Indexes
<1> QED BY Zenon, <1>1, <1>2, <1>4, <1>5, <1>6

LEMMA ReplayKeepsIndex ==
  ASSUME NEW log \in Seq(Records)
  PROVE  Replays(ReplayLog(log), log, Len(log))
<1>1. Len(log) \in Nat /\ DOMAIN log = 1 .. Len(log)
  OBVIOUS
<1>2. PICK a : ReplayLog(log) = a[Len(log)] /\ Runs(log, a)
  BY Zenon, <1>1, ReplayRuns
<1> DEFINE S == {i \in Nat : i <= Len(log) => Replays(a[i], log, i)}
<1>3. 0 \in S
  <2>1. Replays(Blank, log, 0)
    BY DEF Blank, Replays, IsReplay, Indexes, IsMap
  <2> QED BY Zenon, <1>2, <2>1 DEF Runs
<1>4. ASSUME NEW i \in Nat, i \in S PROVE i + 1 \in S
  <2> SUFFICES ASSUME i + 1 <= Len(log) PROVE Replays(a[i + 1], log, i + 1)
    OBVIOUS
  <2>1. i + 1 \in 1 .. Len(log) /\ (i + 1) - 1 = i /\ Replays(a[i], log, i)
    BY <1>1, <1>4
  <2>2. a[i + 1] = ReplayRecord(a[i], log[i + 1])
    BY Zenon, <1>2, <2>1 DEF Runs
  <2> QED BY Zenon, <1>1, <2>1, <2>2, RecordKeepsIndex
<1>5. Nat \subseteq S
  <2> HIDE DEF S
  <2> QED BY Zenon, <1>3, <1>4, Induction
<1> QED BY <1>1, <1>2, <1>5

-----------------------------------------------------------------------------
(* The store, and the references that a keyspace holds to its records.     *)

Entries == {Gone} \cup [is : {"hot"}, v : Vals] \cup [is : {"cold"}, rid : Nat]
Tables == [ColdKeys -> Entries]

IsStore(s) ==
  s \in [log : Seq(Records), index : {s.index}, next : Nat, failed : BOOLEAN, torn : BOOLEAN,
         rc : BOOLEAN, io : Nat, left : {"none", "half", "whole"}]

\* The index leads to live records; unless a write has failed, a replay that gets
\* to the end of the log finds the same ones.
StoreOk(s) ==
  /\ IsStore(s)
  /\ s.next >= 1
  /\ Indexes(s.index, s.log, s.next)
  /\ ~s.failed /\ ReplayLog(s.log).ok =>
       ReplayLog(s.log).index = s.index /\ ReplayLog(s.log).next <= s.next

\* Every reference of the table t leads to a record of its database, with and
\* without a replay, even after a failed write, and to one that no other
\* reference leads to.
RefsOk(t, s) ==
  \A k \in ColdKeys : t[k].is = "cold" =>
    /\ t[k].rid \in DOMAIN s.index
    /\ RecordOf(s, t[k].rid).db = dbOf[k]
    /\ ReplayLog(s.log).ok => /\ t[k].rid \in DOMAIN ReplayLog(s.log).index
                              /\ ReplayLog(s.log).index[t[k].rid] = s.index[t[k].rid]
    /\ \A j \in ColdKeys : j # k /\ t[j].is = "cold" => t[j].rid # t[k].rid

Fits(t, s) == t \in Tables /\ StoreOk(s) /\ RefsOk(t, s)

\* The references of t lead to the same records in s and in z.
Kept(t, s, z) ==
  \A k \in ColdKeys : t[k].is = "cold" => RecordOf(z, t[k].rid) = RecordOf(s, t[k].rid)

(* append_record writes the record or not; when it does and reports a      *)
(* failure, the store has failed.                                          *)
LEMMA AppendIs ==
  ASSUME NEW s, IsStore(s), NEW r \in Records
  PROVE  LET a == AppendRecord(s, r) IN
         /\ IsStore(a) /\ a.index = s.index /\ a.next = s.next
         /\ \/ a.log = s.log /\ ~a.rc /\ (s.failed => a.failed)
            \/ a.log = Append(s.log, r) /\ ~s.failed /\ (a.failed <=> ~a.rc)
<1> DEFINE a == AppendRecord(s, r)
<1>1. /\ s.io \in Nat /\ s.log \in Seq(Records) /\ Append(s.log, r) \in Seq(Records)
      /\ s.failed \in BOOLEAN /\ s.left \in {"none", "half", "whole"}
  BY DEF IsStore
<1>2. CASE s.failed \/ Len(s.log) >= MaxDisk
  <2>1. a = [s EXCEPT !.rc = FALSE]
    BY Zenon, <1>2 DEF AppendRecord
  <2> QED BY Zenon, <2>1, <1>2 DEF IsStore
<1>3. CASE ~ (s.failed \/ Len(s.log) >= MaxDisk) /\ s.io = 0
  <2> DEFINE l == IF s.left = "whole" THEN Append(s.log, r) ELSE s.log
             w == s.left = "half"
  <2>1. a = [s EXCEPT !.rc = FALSE, !.failed = TRUE, !.torn = w, !.log = l]
    BY Zenon, <1>3 DEF AppendRecord
  <2>2. l \in Seq(Records) /\ w \in BOOLEAN /\ l \in {s.log, Append(s.log, r)}
    BY Zenon, <1>1
  <2> HIDE DEF l, w
  <2>3. /\ IsStore(a) /\ a.index = s.index /\ a.next = s.next
        /\ a.log = l /\ ~a.rc /\ a.failed
    BY Zenon, <2>1, <2>2 DEF IsStore
  <2> QED BY Zenon, <2>2, <2>3, <1>3
<1>4. CASE ~ (s.failed \/ Len(s.log) >= MaxDisk) /\ s.io # 0
  <2> DEFINE l == Append(s.log, r)
             i == s.io - 1
  <2>1. a = [s EXCEPT !.rc = TRUE, !.io = i, !.log = l]
    BY Zenon, <1>4 DEF AppendRecord
  <2>2. l \in Seq(Records) /\ i \in Nat
    BY <1>1, <1>4
  <2> HIDE DEF l, i
  <2>3. /\ IsStore(a) /\ a.index = s.index /\ a.next = s.next
        /\ a.log = l /\ a.rc /\ a.failed = s.failed
    BY Zenon, <2>1, <2>2 DEF IsStore
  <2> QED BY Zenon, <2>2, <2>3, <1>3, <1>4 DEF l
<1> HIDE DEF a
<1> QED BY Zenon, <1>2, <1>3, <1>4 DEF a

(* A record more in the log does not move the others.                      *)
LEMMA AppendKeeps ==
  ASSUME NEW log \in Seq(Records), NEW r \in Records, NEW index, NEW next, Indexes(index, log, next)
  PROVE  \A rid \in DOMAIN index : index[rid] \in DOMAIN Append(log, r) /\ Append(log, r)[index[rid]] = log[index[rid]]
<1>1. /\ DOMAIN log = 1 .. Len(log) /\ Len(log) \in Nat
      /\ DOMAIN Append(log, r) = 1 .. (Len(log) + 1)
      /\ \A i \in 1 .. Len(log) : Append(log, r)[i] = log[i]
  OBVIOUS
<1>2. \A i \in DOMAIN log : i \in DOMAIN Append(log, r) /\ Append(log, r)[i] = log[i]
  BY <1>1
<1>3. \A rid \in DOMAIN index : index[rid] \in DOMAIN log
  BY Zenon DEF Indexes
<1> QED BY Zenon, <1>2, <1>3

LEMMA IndexesAppend ==
  ASSUME NEW log \in Seq(Records), NEW r \in Records, NEW index, NEW next, Indexes(index, log, next)
  PROVE  Indexes(index, Append(log, r), next)
<1> DEFINE more == Append(log, r)
<1>1. \A rid \in DOMAIN index : index[rid] \in DOMAIN more /\ more[index[rid]] = log[index[rid]]
  BY AppendKeeps
<1> HIDE DEF more
<1>2. Indexes(index, more, next)
  BY Zenon, <1>1 DEF Indexes
<1> QED BY Zenon, <1>2 DEF more

LEMMA IndexesWithout ==
  ASSUME NEW log, NEW index, NEW next, Indexes(index, log, next), NEW G
  PROVE  Indexes(Without(index, G), log, next)
<1> DEFINE w == Without(index, G)
<1>1. IsMap(w) /\ DOMAIN w = DOMAIN index \ G /\ \A i \in DOMAIN index \ G : w[i] = index[i]
  BY Zenon, WithoutIs DEF Indexes
<1> HIDE DEF w
<1>2. Indexes(w, log, next)
  BY Zenon, <1>1 DEF Indexes
<1> QED BY Zenon, <1>2 DEF w

\* The record r is logged, and with it the ids of G leave the index.
Removed(s, r, G) ==
  LET a == AppendRecord(s, r) IN IF a.rc THEN [a EXCEPT !.index = Without(@, G)] ELSE a

(* tier_del and tier_flush_db: when a replay of r takes the same ids away, *)
(* and no reference leads to one of them, the references stay good.        *)
LEMMA RemovedFits ==
  ASSUME NEW t, NEW s, Fits(t, s), NEW r \in Records, r.op # "put", r.rid < s.next, NEW G,
         \A a : Replays(a, s.log, Len(s.log)) /\ a.ok /\ a.index = s.index
                  => ReplayRecord(a, r).index = Without(s.index, G),
         \A k \in ColdKeys : t[k].is = "cold" => t[k].rid \notin G
  PROVE  LET z == Removed(s, r, G) IN Fits(t, z) /\ Kept(t, s, z) /\ z.next = s.next
<1> DEFINE a == AppendRecord(s, r)
           z == Removed(s, r, G)
           R == ReplayLog(s.log)
           Q == ReplayLog(z.log)
           W == Without(s.index, G)
<1>1. /\ t \in Tables /\ IsStore(s) /\ s.next >= 1 /\ Indexes(s.index, s.log, s.next)
      /\ s.log \in Seq(Records) /\ s.next \in Nat /\ r.rid \in Nat /\ RefsOk(t, s)
      /\ ~s.failed /\ R.ok => R.index = s.index /\ R.next <= s.next
  BY DEF Fits, StoreOk, IsStore, Records, Dels, Flushes, Puts
<1>2. /\ IsStore(a) /\ a.index = s.index /\ a.next = s.next
      /\ \/ a.log = s.log /\ ~a.rc /\ (s.failed => a.failed)
         \/ a.log = Append(s.log, r) /\ ~s.failed /\ (a.failed <=> ~a.rc)
  BY Zenon, <1>1, AppendIs
<1>3. /\ IsStore(z) /\ z.next = s.next /\ z.log = a.log /\ z.rc = a.rc /\ z.failed = a.failed
      /\ z.index = IF a.rc THEN W ELSE s.index
  <2>1. z = IF a.rc THEN [a EXCEPT !.index = Without(@, G)] ELSE a
    BY Zenon DEF Removed
  <2> HIDE DEF a, z
  <2>2. CASE a.rc
    <3>1. z = [a EXCEPT !.index = W]
      BY Zenon, <2>1, <2>2, <1>2 DEF IsStore
    <3> HIDE DEF W
    <3> QED BY Zenon, <3>1, <2>2, <1>2 DEF IsStore
  <2>3. CASE ~a.rc
    BY Zenon, <2>1, <2>3, <1>2
  <2> QED BY Zenon, <2>2, <2>3
<1> HIDE DEF a, z
<1>4. DOMAIN W = DOMAIN s.index \ G /\ \A i \in DOMAIN s.index \ G : W[i] = s.index[i]
  BY Zenon, WithoutIs
<1>5. Indexes(W, s.log, s.next)
  BY Zenon, <1>1, IndexesWithout
<1> HIDE DEF W, R, Q
<1>6. /\ \A k \in ColdKeys : t[k].is = "cold" =>
           t[k].rid \in DOMAIN z.index /\ z.index[t[k].rid] = s.index[t[k].rid]
      /\ z.index = s.index \/ z.index = W
      /\ Indexes(z.index, s.log, s.next)
  BY Zenon, <1>1, <1>3, <1>4, <1>5 DEF RefsOk
<1>7. CASE a.log = s.log /\ ~a.rc /\ (s.failed => a.failed)
  <2>1. z.log = s.log /\ z.index = s.index /\ (s.failed => z.failed) /\ Q = R
    BY Zenon, <1>3, <1>7 DEF Q, R
  <2>2. StoreOk(z)
    BY Zenon, <2>1, <1>1, <1>3 DEF StoreOk, Q, R
  <2>3. RefsOk(t, z)
    BY Zenon, <2>1, <1>1 DEF RefsOk, RecordOf
  <2>4. Kept(t, s, z)
    BY Zenon, <2>1 DEF Kept, RecordOf
  <2> QED BY Zenon, <2>2, <2>3, <2>4, <1>1, <1>3 DEF Fits, z
<1>8. CASE a.log = Append(s.log, r) /\ ~s.failed /\ (a.failed <=> ~a.rc)
  <2>1. z.log = Append(s.log, r) /\ (z.failed <=> ~z.rc)
    BY Zenon, <1>3, <1>8
  <2>2. /\ Indexes(z.index, z.log, z.next)
        /\ \A rid \in DOMAIN z.index : z.log[z.index[rid]] = s.log[z.index[rid]]
    <3>1. Indexes(z.index, Append(s.log, r), s.next)
      BY Zenon, <1>1, <1>6, IndexesAppend
    <3>2. \A rid \in DOMAIN z.index : Append(s.log, r)[z.index[rid]] = s.log[z.index[rid]]
      BY <1>1, <1>6, AppendKeeps
    <3> QED BY Zenon, <3>1, <3>2, <2>1, <1>3
  <2>3. Q = ReplayRecord(R, r) /\ Replays(R, s.log, Len(s.log))
    BY Zenon, <2>1, <1>1, ReplayAppend, ReplayKeepsIndex DEF Q, R
  <2>4. Q.ok => R.ok /\ Q.next = (IF r.rid >= R.next THEN r.rid + 1 ELSE R.next) /\ R.next \in Nat
    <3>1. IsReplay(R)
      BY Zenon, <2>3 DEF Replays
    <3>2. Q.ok => R.ok /\ Q.next = IF r.rid >= R.next THEN r.rid + 1 ELSE R.next
      BY Zenon, <2>3, <3>1, RecordReplayed
    <3> QED BY Zenon, <3>1, <3>2 DEF IsReplay
  <2>5. Q.ok => Q.index = W /\ Q.next <= s.next
    <3> SUFFICES ASSUME Q.ok PROVE Q.index = W /\ Q.next <= s.next
      BY Zenon
    <3>1. R.ok /\ R.index = s.index /\ R.next <= s.next
      BY Zenon, <2>4, <1>1, <1>8
    <3>2. Q.index = W
      BY Zenon, <3>1, <2>3 DEF W
    <3> QED BY <3>1, <3>2, <2>4, <1>1
  <2>6. StoreOk(z)
    BY Zenon, <2>1, <2>2, <2>5, <1>1, <1>3 DEF StoreOk, Q
  <2>7. Kept(t, s, z)
    BY Zenon, <2>2, <1>6 DEF Kept, RecordOf
  <2>8. RefsOk(t, z)
    <3> SUFFICES ASSUME NEW k \in ColdKeys, t[k].is = "cold"
                 PROVE  /\ t[k].rid \in DOMAIN z.index
                        /\ RecordOf(z, t[k].rid).db = dbOf[k]
                        /\ Q.ok => t[k].rid \in DOMAIN Q.index /\ Q.index[t[k].rid] = z.index[t[k].rid]
                        /\ \A j \in ColdKeys : j # k /\ t[j].is = "cold" => t[j].rid # t[k].rid
      BY Zenon DEF RefsOk, Q
    <3>1. /\ t[k].rid \in DOMAIN s.index /\ RecordOf(s, t[k].rid).db = dbOf[k]
          /\ \A j \in ColdKeys : j # k /\ t[j].is = "cold" => t[j].rid # t[k].rid
      BY Zenon, <1>1 DEF RefsOk
    <3>2. t[k].rid \in DOMAIN W /\ W[t[k].rid] = s.index[t[k].rid]
      BY Zenon, <1>4, <3>1
    <3>3. RecordOf(z, t[k].rid) = RecordOf(s, t[k].rid)
      BY Zenon, <2>7 DEF Kept
    <3> QED BY Zenon, <3>1, <3>2, <3>3, <2>5, <1>6
  <2> QED BY Zenon, <2>6, <2>7, <2>8, <1>1, <1>3 DEF Fits, z
<1> QED BY Zenon, <1>2, <1>7, <1>8 DEF z

(* tier_del of a record that no reference of t leads to.                   *)
LEMMA TierDelFits ==
  ASSUME NEW t, NEW s, Fits(t, s), NEW rid \in Nat, rid < s.next,
         \A k \in ColdKeys : t[k].is = "cold" => t[k].rid # rid
  PROVE  LET z == TierDel(s, rid) IN Fits(t, z) /\ Kept(t, s, z) /\ z.next = s.next
<1> DEFINE r == [op |-> "del", rid |-> rid, db |-> 0]
           G == {rid}
<1>1. r \in Records /\ r.op = "del" /\ r.rid = rid
  BY Zenon DEF Records, Dels
<1>2. TierDel(s, rid) = Removed(s, r, G)
  BY Zenon DEF TierDel, Removed
<1> HIDE DEF r
<1>3. ASSUME NEW a, Replays(a, s.log, Len(s.log)), a.ok, a.index = s.index
      PROVE  ReplayRecord(a, r).index = Without(s.index, G)
  <2>1. IsReplay(a)
    BY Zenon, <1>3 DEF Replays
  <2>2. ReplayRecord(a, r).ok
    BY Zenon, <2>1, <1>1, <1>3, RecordReplayed
  <2>3. ReplayRecord(a, r).index = Without(a.index, {r.rid})
    BY Zenon, <2>1, <2>2, <1>1, RecordReplayed
  <2> QED BY Zenon, <2>3, <1>1, <1>3
<1>4. \A k \in ColdKeys : t[k].is = "cold" => t[k].rid \notin G
  BY Zenon
<1> HIDE DEF G
<1>5. r.op # "put" /\ r.rid < s.next
  BY Zenon, <1>1
<1>6. Fits(t, Removed(s, r, G)) /\ Kept(t, s, Removed(s, r, G)) /\ Removed(s, r, G).next = s.next
  BY <1>1, <1>3, <1>4, <1>5, RemovedFits
<1> QED BY Zenon, <1>2, <1>6

(* tier_flush_db of a database that no reference of t is in.               *)
LEMMA TierFlushFits ==
  ASSUME NEW t, NEW s, Fits(t, s), NEW d \in Dbs,
         \A k \in ColdKeys : t[k].is = "cold" => dbOf[k] # d
  PROVE  LET z == TierFlushDb(s, d) IN Fits(t, z) /\ Kept(t, s, z) /\ z.next = s.next
<1> DEFINE r == [op |-> "flush", rid |-> 0, db |-> d]
           G == InDb(s.log, s.index, d)
<1>1. r \in Records /\ r.op = "flush" /\ r.rid = 0 /\ r.db = d
  BY Zenon DEF Records, Flushes
<1>2. /\ IsStore(s) /\ s.log \in Seq(Records) /\ Indexes(s.index, s.log, s.next) /\ RefsOk(t, s)
      /\ r.rid < s.next
  BY <1>1 DEF Fits, StoreOk, IsStore
<1>3. TierFlushDb(s, d) = Removed(s, r, G)
  <2> DEFINE a == AppendRecord(s, r)
  <2>1. /\ IsStore(a) /\ a.index = s.index /\ a.next = s.next
        /\ \/ a.log = s.log /\ ~a.rc /\ (s.failed => a.failed)
           \/ a.log = Append(s.log, r) /\ ~s.failed /\ (a.failed <=> ~a.rc)
    BY Zenon, <1>1, <1>2, AppendIs
  <2>2. InDb(a.log, a.index, d) = G
    <3>1. \A i \in DOMAIN s.index : Append(s.log, r)[s.index[i]] = s.log[s.index[i]]
      BY <1>1, <1>2, AppendKeeps
    <3>2. \A i \in DOMAIN s.index : a.log[s.index[i]] = s.log[s.index[i]]
      BY Zenon, <2>1, <3>1
    <3> HIDE DEF a
    <3> QED BY Zenon, <2>1, <3>2 DEF InDb
  <2>3. TierFlushDb(s, d) = IF a.rc THEN [a EXCEPT !.index = Without(@, InDb(a.log, @, d))] ELSE a
    BY Zenon DEF TierFlushDb
  <2>4. Removed(s, r, G) = IF a.rc THEN [a EXCEPT !.index = Without(@, G)] ELSE a
    BY Zenon DEF Removed
  <2> HIDE DEF a, G
  <2> QED BY Zenon, <2>2, <2>3, <2>4
<1> HIDE DEF r
<1>4. ASSUME NEW a, Replays(a, s.log, Len(s.log)), a.ok, a.index = s.index
      PROVE  ReplayRecord(a, r).index = Without(s.index, G)
  <2>1. IsReplay(a) /\ \A i \in DOMAIN a.index : a.dbs[i] = s.log[a.index[i]].db
    BY Zenon, <1>4 DEF Replays
  <2>2. ReplayRecord(a, r).ok
    BY Zenon, <2>1, <1>1, <1>4, RecordReplayed
  <2>3. ReplayRecord(a, r).index = Without(a.index, {i \in DOMAIN a.index : a.dbs[i] = r.db})
    BY Zenon, <2>1, <2>2, <1>1, RecordReplayed
  <2>4. {i \in DOMAIN a.index : a.dbs[i] = r.db} = G
    BY Zenon, <2>1, <1>1, <1>4 DEF InDb
  <2> QED BY Zenon, <2>3, <2>4, <1>4
<1>5. \A k \in ColdKeys : t[k].is = "cold" => t[k].rid \notin G
  BY Zenon, <1>2 DEF RefsOk, InDb, RecordOf
<1> HIDE DEF G
<1> QED BY <1>1, <1>2, <1>3, <1>4, <1>5, RemovedFits

\* tier_put has left z: either it failed and k keeps its entry, or k may have a
\* reference to the new record.
PutDone(t, s, z, k, v, x) ==
  /\ Kept(t, s, z)
  /\ ~z.rc => Fits(t, z)
  /\ z.rc => /\ Fits([t EXCEPT ![k] = Cold(z.next - 1)], z)
             /\ RecordOf(z, z.next - 1).v = v /\ RecordOf(z, z.next - 1).x = x

(* tier_put for a key that holds no reference.                             *)
LEMMA TierPutFits ==
  ASSUME NEW t, NEW s, Fits(t, s), NEW k \in ColdKeys, t[k].is # "cold", dbOf[k] \in Dbs,
         NEW v \in Vals, NEW x \in {0, 1}
  PROVE  PutDone(t, s, TierPut(s, k, v, x), k, v, x)
<1> DEFINE r == [op |-> "put", rid |-> s.next, db |-> dbOf[k], v |-> v, x |-> x]
           a == AppendRecord(s, r)
           z == TierPut(s, k, v, x)
           R == ReplayLog(s.log)
           Q == ReplayLog(z.log)
           W == With(s.index, s.next, Len(s.log) + 1)
<1>1. /\ t \in Tables /\ IsStore(s) /\ s.next >= 1 /\ Indexes(s.index, s.log, s.next)
      /\ s.log \in Seq(Records) /\ s.next \in Nat /\ RefsOk(t, s) /\ Len(s.log) \in Nat
      /\ ~s.failed /\ R.ok => R.index = s.index /\ R.next <= s.next
  BY DEF Fits, StoreOk, IsStore
<1>2. r \in Puts /\ r \in Records /\ r.op = "put" /\ r.rid = s.next /\ r.db = dbOf[k] /\ r.v = v /\ r.x = x
  BY Zenon, <1>1 DEF Records, Puts
<1>3. /\ IsStore(a) /\ a.index = s.index /\ a.next = s.next
      /\ \/ a.log = s.log /\ ~a.rc /\ (s.failed => a.failed)
         \/ a.log = Append(s.log, r) /\ ~s.failed /\ (a.failed <=> ~a.rc)
  BY Zenon, <1>1, <1>2, AppendIs
<1>4. z = IF ~a.rc THEN a ELSE [a EXCEPT !.index = With(@, s.next, Len(a.log)), !.next = @ + 1]
  BY Zenon DEF TierPut
<1> HIDE DEF a, z, r
<1>5. /\ IsStore(z) /\ z.log = a.log /\ z.rc = a.rc /\ z.failed = a.failed
      /\ ~a.rc => z.index = s.index /\ z.next = s.next
      /\ a.rc => z.index = W /\ z.next = s.next + 1
  <2>1. CASE a.rc
    <3>1. Len(a.log) = Len(s.log) + 1
      BY <2>1, <1>1, <1>2, <1>3
    <3> DEFINE m == s.next + 1
    <3>2. z = [a EXCEPT !.index = W, !.next = m]
      BY Zenon, <2>1, <1>3, <1>4, <3>1
    <3>3. m \in Nat
      BY <1>1
    <3> HIDE DEF W, m
    <3>4. /\ IsStore(z) /\ z.log = a.log /\ z.rc = a.rc /\ z.failed = a.failed
          /\ z.index = W /\ z.next = m
      BY Zenon, <3>2, <3>3, <1>3 DEF IsStore
    <3> QED BY Zenon, <3>4, <2>1 DEF m
  <2>2. CASE ~a.rc
    BY Zenon, <2>2, <1>3, <1>4
  <2> QED BY Zenon, <2>1, <2>2
<1>6. /\ DOMAIN W = DOMAIN s.index \cup {s.next} /\ W[s.next] = Len(s.log) + 1
      /\ \A i \in DOMAIN s.index : i # s.next => W[i] = s.index[i]
      /\ IsMap(W) /\ s.next \notin DOMAIN s.index
  <2>1. IsMap(s.index) /\ s.next \in Nat /\ Len(s.log) + 1 \in Nat
    BY <1>1 DEF Indexes
  <2>2. DOMAIN W = DOMAIN s.index \cup {s.next}
    BY Zenon, WithHas
  <2>3. W[s.next] = Len(s.log) + 1 /\ \A i \in DOMAIN s.index : i # s.next => W[i] = s.index[i]
    BY WithAt
  <2>4. IsMap(W)
    BY Zenon, <2>1, WithIsMap
  <2>5. s.next \notin DOMAIN s.index
    BY <1>1 DEF Indexes
  <2> QED BY Zenon, <2>2, <2>3, <2>4, <2>5
<1> HIDE DEF W
<1>7. CASE a.log = s.log /\ ~a.rc /\ (s.failed => a.failed)
  <2>1. z.log = s.log /\ z.index = s.index /\ (s.failed => z.failed) /\ Q = R /\ z.next = s.next /\ ~z.rc
    BY Zenon, <1>5, <1>7
  <2>2. StoreOk(z)
    BY Zenon, <2>1, <1>1, <1>5 DEF StoreOk
  <2>3. RefsOk(t, z) /\ Kept(t, s, z)
    BY Zenon, <2>1, <1>1 DEF RefsOk, Kept, RecordOf
  <2> QED BY Zenon, <2>1, <2>2, <2>3, <1>1, <1>5 DEF Fits, PutDone, z
<1>8. CASE a.log = Append(s.log, r) /\ ~s.failed /\ (a.failed <=> ~a.rc)
  <2>1. z.log = Append(s.log, r) /\ (z.failed <=> ~z.rc)
    BY Zenon, <1>5, <1>8
  <2>2. /\ Indexes(s.index, z.log, s.next)
        /\ \A rid \in DOMAIN s.index : z.log[s.index[rid]] = s.log[s.index[rid]]
    <3>1. Indexes(s.index, Append(s.log, r), s.next)
      BY Zenon, <1>1, <1>2, IndexesAppend
    <3>2. \A rid \in DOMAIN s.index : Append(s.log, r)[s.index[rid]] = s.log[s.index[rid]]
      BY <1>1, <1>2, AppendKeeps
    <3> QED BY Zenon, <3>1, <3>2, <2>1
  <2>3. z.log[Len(s.log) + 1] = r /\ Len(s.log) + 1 \in DOMAIN z.log
    BY <2>1, <1>1, <1>2
  <2>4. Q = ReplayRecord(R, r) /\ Replays(R, s.log, Len(s.log))
    BY Zenon, <2>1, <1>1, <1>2, ReplayAppend, ReplayKeepsIndex
  <2> HIDE DEF R, Q
  <2>5. Q.ok => /\ R.ok /\ R.index = s.index /\ R.next <= s.next /\ R.next \in Nat
                /\ Q.index = W /\ Q.next = s.next + 1
    <3> SUFFICES ASSUME Q.ok
                 PROVE  /\ R.ok /\ R.index = s.index /\ R.next <= s.next /\ R.next \in Nat
                        /\ Q.index = W /\ Q.next = s.next + 1
      BY Zenon
    <3>1. IsReplay(R) /\ R.next \in Nat
      BY Zenon, <2>4 DEF Replays, IsReplay
    <3>2. R.ok
      BY Zenon, <2>4, <3>1, <1>2, RecordReplayed
    <3>3. R.n = Len(s.log) /\ R.index = s.index /\ R.next <= s.next
      BY Zenon, <3>2, <2>4, <1>1, <1>8 DEF Replays
    <3>4. Q.index = With(R.index, r.rid, R.n + 1) /\ Q.next = IF r.rid >= R.next THEN r.rid + 1 ELSE R.next
      BY Zenon, <2>4, <3>1, <1>2, RecordReplayed
    <3> QED BY Zenon, <3>1, <3>2, <3>3, <3>4, <1>1, <1>2 DEF W
  <2>6. \A j \in ColdKeys : t[j].is = "cold" =>
          /\ t[j].rid \in DOMAIN s.index /\ t[j].rid # s.next /\ W[t[j].rid] = s.index[t[j].rid]
          /\ t[j].rid \in DOMAIN W /\ s.log[s.index[t[j].rid]].db = dbOf[j]
    BY Zenon, <1>1, <1>6 DEF RefsOk, RecordOf
  <2>7. Kept(t, s, z)
    <3> SUFFICES ASSUME NEW j \in ColdKeys, t[j].is = "cold"
                 PROVE  z.log[z.index[t[j].rid]] = s.log[s.index[t[j].rid]]
      BY Zenon DEF Kept, RecordOf
    <3>1. t[j].rid \in DOMAIN s.index /\ W[t[j].rid] = s.index[t[j].rid]
      BY Zenon, <2>6
    <3>2. z.index = s.index \/ z.index = W
      BY Zenon, <1>5
    <3> QED BY Zenon, <3>1, <3>2, <2>2
  <2>8. CASE ~a.rc
    <3>1. StoreOk(z)
      BY Zenon, <2>1, <2>2, <2>8, <1>1, <1>5 DEF StoreOk
    <3>2. RefsOk(t, z)
      <4>1. z.index = s.index
        BY Zenon, <2>8, <1>5
      <4> SUFFICES ASSUME NEW j \in ColdKeys, t[j].is = "cold"
                   PROVE  /\ t[j].rid \in DOMAIN z.index
                          /\ RecordOf(z, t[j].rid).db = dbOf[j]
                          /\ Q.ok => t[j].rid \in DOMAIN Q.index /\ Q.index[t[j].rid] = z.index[t[j].rid]
                          /\ \A i \in ColdKeys : i # j /\ t[i].is = "cold" => t[i].rid # t[j].rid
        BY Zenon DEF RefsOk, Q
      <4>2. RecordOf(z, t[j].rid).db = dbOf[j]
        BY Zenon, <2>6, <2>7 DEF Kept, RecordOf
      <4>3. \A i \in ColdKeys : i # j /\ t[i].is = "cold" => t[i].rid # t[j].rid
        BY Zenon, <1>1 DEF RefsOk
      <4> QED BY Zenon, <4>1, <4>2, <4>3, <2>5, <2>6
    <3> QED BY Zenon, <3>1, <3>2, <2>7, <2>8, <1>1, <1>5 DEF Fits, PutDone, z
  <2>9. CASE a.rc
    <3> DEFINE u == [t EXCEPT ![k] = Cold(s.next)]
    <3>1. z.index = W /\ z.next = s.next + 1 /\ z.next - 1 = s.next /\ z.rc
      BY <2>9, <1>1, <1>5
    <3>2. Indexes(z.index, z.log, z.next)
      <4> SUFFICES ASSUME NEW rid \in DOMAIN W
                   PROVE  /\ rid < s.next + 1 /\ W[rid] \in DOMAIN z.log
                          /\ z.log[W[rid]] \in Puts /\ z.log[W[rid]].rid = rid
        BY Zenon, <3>1, <1>6 DEF Indexes
      <4>1. CASE rid = s.next
        BY <4>1, <2>3, <1>1, <1>2, <1>6
      <4>2. CASE rid # s.next
        <5>1. rid \in DOMAIN s.index /\ W[rid] = s.index[rid] /\ rid \in Nat
          BY Zenon, <4>2, <1>1, <1>6 DEF Indexes, IsMap
        <5> QED BY <5>1, <2>2, <1>1 DEF Indexes
      <4> QED BY Zenon, <4>1, <4>2
    <3>3. StoreOk(z)
      BY <3>1, <3>2, <2>5, <1>1, <1>5 DEF StoreOk, Q
    <3>4. u \in Tables /\ u[k].is = "cold" /\ u[k].rid = s.next /\ \A j \in ColdKeys : j # k => u[j] = t[j]
      BY Zenon, <1>1 DEF Tables, Entries, Cold
    <3> HIDE DEF u
    <3>5. RecordOf(z, s.next) = r
      BY Zenon, <3>1, <1>6, <2>3 DEF RecordOf
    <3>6. RefsOk(u, z)
      <4> SUFFICES ASSUME NEW j \in ColdKeys, u[j].is = "cold"
                   PROVE  /\ u[j].rid \in DOMAIN z.index
                          /\ RecordOf(z, u[j].rid).db = dbOf[j]
                          /\ Q.ok => u[j].rid \in DOMAIN Q.index /\ Q.index[u[j].rid] = z.index[u[j].rid]
                          /\ \A i \in ColdKeys : i # j /\ u[i].is = "cold" => u[i].rid # u[j].rid
        BY Zenon DEF RefsOk, Q
      <4>1. CASE j = k
        <5>1. u[j].rid = s.next /\ s.next \in DOMAIN W
          BY Zenon, <4>1, <3>4, <1>6
        <5>2. RecordOf(z, u[j].rid).db = dbOf[j]
          BY Zenon, <5>1, <4>1, <3>5, <1>2
        <5>3. Q.ok => Q.index = z.index
          BY Zenon, <3>1, <2>5
        <5>4. \A i \in ColdKeys : i # j /\ u[i].is = "cold" => u[i].rid # s.next
          BY Zenon, <4>1, <3>4, <2>6
        <5> QED BY Zenon, <5>1, <5>2, <5>3, <5>4, <3>1
      <4>2. CASE j # k
        <5>1. u[j] = t[j] /\ RecordOf(z, t[j].rid) = RecordOf(s, t[j].rid) /\ RecordOf(s, t[j].rid).db = dbOf[j]
          BY Zenon, <4>2, <3>4, <2>7, <1>1 DEF Kept, RefsOk
        <5>2. \A i \in ColdKeys : i # j /\ t[i].is = "cold" => t[i].rid # t[j].rid
          BY Zenon, <5>1, <1>1 DEF RefsOk
        <5>3. t[j].rid \in DOMAIN W /\ t[j].rid # s.next
          BY Zenon, <5>1, <2>6
        <5>4. Q.ok => Q.index = z.index
          BY Zenon, <3>1, <2>5
        <5>5. \A i \in ColdKeys : i # j /\ u[i].is = "cold" => u[i].rid # u[j].rid
          BY Zenon, <5>1, <5>2, <5>3, <3>4
        <5> QED BY Zenon, <5>1, <5>3, <5>4, <5>5, <3>1
      <4> QED BY Zenon, <4>1, <4>2
    <3>7. Fits(u, z) /\ RecordOf(z, z.next - 1).v = v /\ RecordOf(z, z.next - 1).x = x
      BY Zenon, <3>1, <3>3, <3>4, <3>5, <3>6, <1>2 DEF Fits
    <3>8. u = [t EXCEPT ![k] = Cold(z.next - 1)]
      BY Zenon, <3>1 DEF u
    <3>9. PutDone(t, s, z, k, v, x)
      BY Zenon, <3>1, <3>7, <3>8, <2>7 DEF PutDone
    <3> QED BY Zenon, <3>9 DEF z
  <2> QED BY Zenon, <2>8, <2>9
<1> QED BY Zenon, <1>3, <1>7, <1>8 DEF z

(* A call that only reads, or fails before it writes.                      *)
LEMMA StillFits ==
  ASSUME NEW t, NEW s, Fits(t, s), NEW z, IsStore(z), z.log = s.log, z.index = s.index,
         z.next = s.next, s.failed => z.failed
  PROVE  Fits(t, z) /\ Kept(t, s, z)
<1>1. StoreOk(z)
  BY Zenon DEF Fits, StoreOk
<1>2. RefsOk(t, z) /\ Kept(t, s, z)
  BY DEF Fits, RefsOk, Kept, RecordOf
<1> QED BY Zenon, <1>1, <1>2 DEF Fits

(* tier_get.                                                               *)
LEMMA TierGetFits ==
  ASSUME NEW t, NEW s, Fits(t, s), NEW rid
  PROVE  LET z == TierGet(s, rid) IN
         /\ Fits(t, z) /\ Kept(t, s, z) /\ z.log = s.log /\ z.index = s.index /\ z.next = s.next
         /\ z.rc => rid \in DOMAIN s.index
<1> DEFINE z == TierGet(s, rid)
<1>1. IsStore(s) /\ s.io \in Nat
  BY Zenon DEF Fits, StoreOk, IsStore
<1>2. /\ IsStore(z) /\ z.log = s.log /\ z.index = s.index /\ z.next = s.next /\ (s.failed => z.failed)
      /\ z.rc => rid \in DOMAIN s.index
  <2>1. CASE s.failed \/ rid \notin DOMAIN s.index
    <3>1. z = [s EXCEPT !.rc = FALSE]
      BY Zenon, <2>1 DEF TierGet
    <3> QED BY Zenon, <3>1, <1>1 DEF IsStore
  <2>2. CASE ~ (s.failed \/ rid \notin DOMAIN s.index) /\ s.io = 0
    <3>1. z = [s EXCEPT !.rc = FALSE, !.failed = TRUE]
      BY Zenon, <2>2 DEF TierGet
    <3> QED BY Zenon, <3>1, <1>1 DEF IsStore
  <2>3. CASE ~ (s.failed \/ rid \notin DOMAIN s.index) /\ s.io # 0
    <3> DEFINE i == s.io - 1
    <3>1. z = [s EXCEPT !.rc = TRUE, !.io = i] /\ i \in Nat
      BY <2>3, <1>1 DEF TierGet
    <3> HIDE DEF i
    <3>2. IsStore(z) /\ z.log = s.log /\ z.index = s.index /\ z.next = s.next /\ z.failed = s.failed
      BY Zenon, <3>1, <1>1 DEF IsStore
    <3> QED BY Zenon, <3>2, <2>3
  <2> QED BY Zenon, <2>1, <2>2, <2>3
<1> HIDE DEF z
<1> QED BY Zenon, <1>2, StillFits DEF z

LEMMA MapsEqual ==
  ASSUME NEW f, NEW g, IsMap(f), IsMap(g), DOMAIN f = DOMAIN g, \A i \in DOMAIN f : f[i] = g[i]
  PROVE  f = g
  BY Zenon DEF IsMap

(* The replay of a log of puts, when it goes well: every record is         *)
(* indexed.                                                                *)
LEMMA PutsReplay ==
  ASSUME NEW log \in Seq(Records), \A i \in DOMAIN log : log[i] \in Puts,
         NEW next \in Nat, next >= 1, \A i \in DOMAIN log : log[i].rid < next
  PROVE  LET R == ReplayLog(log) IN
         R.ok => /\ DOMAIN R.index = {log[i].rid : i \in DOMAIN log}
                 /\ \A i \in DOMAIN log : R.index[log[i].rid] = i
                 /\ R.next <= next
<1>1. Len(log) \in Nat /\ DOMAIN log = 1 .. Len(log)
  OBVIOUS
<1>2. PICK a : ReplayLog(log) = a[Len(log)] /\ Runs(log, a)
  BY Zenon, <1>1, ReplayRuns
<1> DEFINE P(i) == /\ Replays(a[i], log, i)
                   /\ a[i].ok => /\ DOMAIN a[i].index = {log[j].rid : j \in 1 .. i}
                                 /\ \A j \in 1 .. i : a[i].index[log[j].rid] = j
                                 /\ a[i].next <= next
           S == {i \in Nat : i <= Len(log) => P(i)}
<1>3. 0 \in S
  <2>1. Replays(Blank, log, 0)
    BY DEF Blank, Replays, IsReplay, Indexes, IsMap
  <2>2. DOMAIN Blank.index = {} /\ Blank.next = 1 /\ 1 .. 0 = {}
    BY DEF Blank
  <2>3. a[0] = Blank
    BY Zenon, <1>2 DEF Runs
  <2> QED BY Zenon, <2>1, <2>2, <2>3
<1>4. ASSUME NEW i \in Nat, i \in S PROVE i + 1 \in S
  <2> SUFFICES ASSUME i + 1 <= Len(log) PROVE P(i + 1)
    OBVIOUS
  <2> DEFINE r == log[i + 1]
             b == a[i + 1]
  <2>1. i + 1 \in 1 .. Len(log) /\ (i + 1) - 1 = i /\ P(i)
    BY <1>1, <1>4
  <2>2. b = ReplayRecord(a[i], r)
    BY Zenon, <1>2, <2>1 DEF Runs
  <2>3. Replays(b, log, i + 1)
    BY <1>1, <2>1, <2>2, RecordKeepsIndex
  <2>4. r \in Puts /\ r \in Records /\ r.rid < next /\ r.op = "put" /\ r.rid \in Nat
    <3>1. r \in Puts /\ r \in Records /\ r.rid < next
      BY <1>1, <2>1
    <3> HIDE DEF r
    <3> QED BY Zenon, <3>1 DEF Puts
  <2> HIDE DEF b, r
  <2> SUFFICES ASSUME b.ok
               PROVE  /\ DOMAIN b.index = {log[j].rid : j \in 1 .. (i + 1)}
                      /\ \A j \in 1 .. (i + 1) : b.index[log[j].rid] = j
                      /\ b.next <= next
    BY Zenon, <2>3 DEF b
  <2>5. IsReplay(a[i]) /\ a[i].next \in Nat
    BY Zenon, <2>1 DEF Replays, IsReplay
  <2>6. /\ a[i].ok /\ ~ (r.rid < a[i].next)
        /\ b.index = With(a[i].index, r.rid, a[i].n + 1)
        /\ b.next = IF r.rid >= a[i].next THEN r.rid + 1 ELSE a[i].next
    BY Zenon, <2>2, <2>4, <2>5, RecordReplayed
  <2>7. /\ a[i].n = i /\ Indexes(a[i].index, log, a[i].next)
        /\ DOMAIN a[i].index = {log[j].rid : j \in 1 .. i}
        /\ \A j \in 1 .. i : a[i].index[log[j].rid] = j
    BY Zenon, <2>1, <2>6 DEF Replays
  <2>8. \A rid \in DOMAIN a[i].index : rid # r.rid
    BY <2>4, <2>5, <2>6, <2>7 DEF Indexes, IsMap
  <2>9. /\ DOMAIN b.index = DOMAIN a[i].index \cup {r.rid} /\ b.index[r.rid] = i + 1
        /\ \A rid \in DOMAIN a[i].index : b.index[rid] = a[i].index[rid]
    <3> DEFINE f == a[i].index
               w == With(f, r.rid, i + 1)
    <3>1. b.index = w
      BY Zenon, <2>6, <2>7
    <3>2. DOMAIN w = DOMAIN f \cup {r.rid}
      BY Zenon, WithHas
    <3>3. w[r.rid] = i + 1 /\ \A rid \in DOMAIN f : rid # r.rid => w[rid] = f[rid]
      BY WithAt
    <3> HIDE DEF w
    <3> QED BY Zenon, <3>1, <3>2, <3>3, <2>8
  <2>10. \A j \in 1 .. (i + 1) : j \in 1 .. i \/ (j = i + 1 /\ log[j] = r)
    BY DEF r
  <2>11. \A j \in 1 .. (i + 1) : b.index[log[j].rid] = j
    BY Zenon, <2>7, <2>9, <2>10
  <2>12. DOMAIN b.index = {log[j].rid : j \in 1 .. (i + 1)}
    <3>1. \A j \in 1 .. i : j \in 1 .. (i + 1)
      OBVIOUS
    <3>2. i + 1 \in 1 .. (i + 1) /\ log[i + 1] = r
      BY DEF r
    <3> QED BY <3>1, <3>2, <2>7, <2>9, <2>10
  <2> QED BY <2>4, <2>5, <2>6, <2>11, <2>12
<1>5. Nat \subseteq S
  <2> HIDE DEF S
  <2> QED BY Zenon, <1>3, <1>4, Induction
<1>6. P(Len(log))
  BY <1>1, <1>5
<1> QED BY Zenon, <1>1, <1>2, <1>6

(* tier_compact, with the live records in any order: no reference changes  *)
(* its record, and a replay that accepts the order finds the new places.   *)
LEMMA TierCompactFits ==
  ASSUME NEW t, NEW s, Fits(t, s), NEW order \in Orders(DOMAIN s.index)
  PROVE  LET z == TierCompact(s, order) IN Fits(t, z) /\ Kept(t, s, z)
<1> DEFINE D == DOMAIN s.index
           z == TierCompact(s, order)
           l == [i \in DOMAIN order |-> RecordOf(s, order[i])]
           x == [rid \in Range(order) |-> CHOOSE i \in DOMAIN order : order[i] = rid]
<1>1. IsStore(s) /\ s.next \in Nat /\ s.next >= 1 /\ Indexes(s.index, s.log, s.next) /\ RefsOk(t, s) /\ t \in Tables
  BY Zenon DEF Fits, StoreOk, IsStore
<1>2. Cardinality(D) \in Nat
  <2>1. D \subseteq 0 .. s.next
    BY <1>1 DEF Indexes, IsMap
  <2>2. IsFiniteSet(D)
    <3>1. IsFiniteSet(0 .. s.next)
      BY <1>1, FS_Interval
    <3> QED BY Zenon, <2>1, <3>1, FS_Subset
  <2> QED BY Zenon, <2>2, FS_CardinalityType
<1>3. CASE s.failed
  <2>1. z = [s EXCEPT !.rc = FALSE]
    BY Zenon, <1>3 DEF TierCompact
  <2>2. IsStore(z) /\ z.log = s.log /\ z.index = s.index /\ z.next = s.next /\ (s.failed => z.failed)
    BY Zenon, <2>1, <1>1 DEF IsStore
  <2> HIDE DEF z
  <2> QED BY Zenon, <2>2, StillFits DEF z
<1>4. CASE ~s.failed /\ s.io = 0
  <2>1. z = [s EXCEPT !.rc = FALSE, !.failed = TRUE]
    BY Zenon, <1>4 DEF TierCompact
  <2>2. IsStore(z) /\ z.log = s.log /\ z.index = s.index /\ z.next = s.next /\ (s.failed => z.failed)
    BY Zenon, <2>1, <1>1 DEF IsStore
  <2> HIDE DEF z
  <2> QED BY Zenon, <2>2, StillFits DEF z
<1>5. CASE ~s.failed /\ s.io # 0
  <2>1. z = [s EXCEPT !.rc = TRUE, !.log = l, !.index = x]
    BY Zenon, <1>5 DEF TierCompact
  <2>2. DOMAIN order = 1 .. Cardinality(D) /\ Range(order) = D /\ \A i \in DOMAIN order : order[i] \in D
    BY Zenon DEF Orders
  <2>3. \A rid \in D : \E i \in DOMAIN order : order[i] = rid
    BY Zenon, <2>2 DEF Range
  <2>4. \A rid \in D : RecordOf(s, rid) \in Puts /\ RecordOf(s, rid).rid = rid /\ rid < s.next /\ rid \in Nat
    BY Zenon, <1>1 DEF Indexes, RecordOf, IsMap
  <2>5. /\ DOMAIN l = 1 .. Cardinality(D)
        /\ \A i \in DOMAIN l : l[i] = RecordOf(s, order[i]) /\ l[i] \in Puts /\ l[i].rid = order[i] /\ l[i].rid < s.next
    BY Zenon, <2>2, <2>4
  <2>6. l \in Seq(Records)
    <3>1. l = [i \in 1 .. Cardinality(D) |-> l[i]]
      BY Zenon, <2>2
    <3>2. Puts \subseteq Records
      BY Zenon DEF Records
    <3> HIDE DEF l
    <3> QED BY <1>2, <2>5, <3>1, <3>2
  <2>7. DOMAIN x = D /\ \A rid \in D : x[rid] \in DOMAIN order /\ order[x[rid]] = rid
    BY Zenon, <2>2, <2>3
  <2>8. x = [rid \in DOMAIN x |-> x[rid]]
    OBVIOUS
  <2> HIDE DEF l, x
  <2>9. IsMap(x)
    BY <2>2, <2>4, <2>7, <2>8, <1>2 DEF IsMap
  <2>10. IsStore(z) /\ z.log = l /\ z.index = x /\ z.next = s.next
    BY Zenon, <2>1, <2>6, <1>1 DEF IsStore
  <2> HIDE DEF z
  <2>11. \A rid \in D : RecordOf(z, rid) = RecordOf(s, rid) /\ x[rid] \in DOMAIN l
    BY Zenon, <2>2, <2>5, <2>7, <2>10 DEF RecordOf
  <2>12. Indexes(x, l, s.next)
    <3>1. \A rid \in D : l[x[rid]] = RecordOf(s, rid)
      BY Zenon, <2>11, <2>10 DEF RecordOf
    <3> QED BY Zenon, <3>1, <2>4, <2>7, <2>9, <2>11 DEF Indexes
  <2>13. ReplayLog(l).ok => ReplayLog(l).index = x /\ ReplayLog(l).next <= s.next
    <3> DEFINE R == ReplayLog(l)
    <3> SUFFICES ASSUME R.ok PROVE R.index = x /\ R.next <= s.next
      BY Zenon
    <3>1. /\ DOMAIN R.index = {l[i].rid : i \in DOMAIN l}
          /\ \A i \in DOMAIN l : R.index[l[i].rid] = i
          /\ R.next <= s.next
      BY Zenon, <2>5, <2>6, <1>1, PutsReplay
    <3>2. IsMap(R.index)
      BY Zenon, <2>6, ReplayKeepsIndex DEF Replays, Indexes
    <3> HIDE DEF R
    <3>3. DOMAIN R.index = D
      BY <3>1, <2>2, <2>3, <2>5
    <3>4. \A rid \in D : R.index[rid] = x[rid]
      BY <3>1, <2>2, <2>5, <2>7
    <3> QED BY <3>1, <3>2, <3>3, <3>4, <2>7, <2>9, MapsEqual
  <2>14. StoreOk(z)
    BY Zenon, <2>10, <2>12, <2>13, <1>1 DEF StoreOk
  <2>15. RefsOk(t, z)
    BY Zenon, <1>1, <2>7, <2>10, <2>11, <2>13 DEF RefsOk
  <2>16. Kept(t, s, z)
    BY Zenon, <1>1, <2>11 DEF Kept, RefsOk
  <2> QED BY Zenon, <2>14, <2>15, <2>16, <1>1 DEF Fits, z
<1> HIDE DEF z
<1> QED BY Zenon, <1>3, <1>4, <1>5 DEF z

(* tier_open of a log that replays, whatever happened to it before.        *)
LEMMA TierOpenFits ==
  ASSUME NEW t, NEW s, Fits(t, s), Opens(s)
  PROVE  Fits(t, TierOpen(s)) /\ Kept(t, s, TierOpen(s))
<1> DEFINE R == ReplayLog(s.log)
           z == TierOpen(s)
<1>1. s.log \in Seq(Records) /\ RefsOk(t, s) /\ t \in Tables /\ R.ok
  BY Zenon DEF Fits, StoreOk, IsStore, Opens
<1>2. Replays(R, s.log, Len(s.log))
  BY Zenon, <1>1, ReplayKeepsIndex
<1>3. z = [EmptyStore EXCEPT !.log = s.log, !.index = R.index, !.next = R.next]
  BY Zenon DEF TierOpen
<1> HIDE DEF R
<1>4. R.next \in Nat /\ R.next >= 1 /\ Indexes(R.index, s.log, R.next)
  BY Zenon, <1>1, <1>2 DEF Replays, IsReplay
<1>5. IsStore(z) /\ z.log = s.log /\ z.index = R.index /\ z.next = R.next
  <2>1. z = [log |-> s.log, index |-> R.index, next |-> R.next, failed |-> FALSE, torn |-> FALSE,
             rc |-> TRUE, io |-> 9, left |-> "none"]
    BY Zenon, <1>3 DEF EmptyStore, Plenty
  <2> QED BY <2>1, <1>1, <1>4 DEF IsStore
<1> HIDE DEF z
<1>6. StoreOk(z)
  BY <1>4, <1>5 DEF StoreOk, R
<1>7. ASSUME NEW k \in ColdKeys, t[k].is = "cold"
      PROVE  t[k].rid \in DOMAIN z.index /\ RecordOf(z, t[k].rid) = RecordOf(s, t[k].rid)
  BY Zenon, <1>1, <1>5, <1>7 DEF RefsOk, RecordOf, R
<1>8. RefsOk(t, z)
  BY Zenon, <1>1, <1>5, <1>7 DEF RefsOk, R
<1> QED BY Zenon, <1>1, <1>6, <1>7, <1>8 DEF Fits, Kept, z

-----------------------------------------------------------------------------
(* The keyspace.                                                           *)

Deads == [ColdKeys -> {0, 1}]
IsHost(h) == h \in [tab : Tables, dead : Deads, err : BOOLEAN, s : {h.s}]

\* The table and the store go together.  As long as PERSIST leaves offloaded keys
\* alone, a record has the deadline of the key it belongs to.
Holds(h) ==
  /\ IsHost(h)
  /\ Fits(h.tab, h.s)
  /\ ~PersistCold => \A k \in ColdKeys : h.tab[k].is = "cold" => RecordOf(h.s, h.tab[k].rid).x = h.dead[k]

\* The value and the deadline of k, wherever they are.
Content(h, k) ==
  IF h.tab[k] = Gone THEN Gone
  ELSE [v |-> IF h.tab[k].is = "hot" THEN h.tab[k].v ELSE RecordOf(h.s, h.tab[k].rid).v, x |-> h.dead[k]]

\* Nothing but k differs between h and z.
Agree(h, z, k) ==
  \A j \in ColdKeys : j # k =>
    z.tab[j] = h.tab[j] /\ z.dead[j] = h.dead[j] /\ Content(z, j) = Content(h, j)

(* Entries are told apart by what they are.                                *)
LEMMA EntryIs ==
  ASSUME NEW e \in Entries
  PROVE  /\ e.is \in {"gone", "hot", "cold"}
         /\ e = Gone <=> e.is = "gone"
         /\ e.is = "hot" => e.v \in Vals /\ e = Hot(e.v)
         /\ e.is = "cold" => e.rid \in Nat
  BY DEF Entries, Gone, Hot

LEMMA EntriesAre ==
  /\ Gone \in Entries /\ Gone.is = "gone"
  /\ \A v \in Vals : Hot(v) \in Entries /\ Hot(v).is = "hot" /\ Hot(v).v = v /\ Hot(v) # Gone
  BY Zenon DEF Entries, Gone, Hot

(* Fewer references are as good.                                           *)
LEMMA FewerFit ==
  ASSUME NEW t, NEW s, Fits(t, s), NEW u \in Tables,
         \A k \in ColdKeys : u[k].is = "cold" => u[k] = t[k]
  PROVE  Fits(u, s)
<1>1. RefsOk(u, s)
  BY DEF Fits, RefsOk
<1> QED BY Zenon, <1>1 DEF Fits

(* RENAME: another key of the database takes the reference over.           *)
LEMMA MovedFit ==
  ASSUME NEW t, NEW s, Fits(t, s), NEW src \in ColdKeys, NEW dst \in ColdKeys, src # dst,
         dbOf[src] = dbOf[dst], t[dst] = Gone, NEW u \in Tables, u[src] = Gone, u[dst] = t[src],
         \A k \in ColdKeys : k \notin {src, dst} => u[k] = t[k]
  PROVE  Fits(u, s)
<1> DEFINE From(k) == IF k = dst THEN src ELSE k
<1>1. ASSUME NEW k \in ColdKeys, u[k].is = "cold"
      PROVE  From(k) \in ColdKeys /\ u[k] = t[From(k)] /\ dbOf[From(k)] = dbOf[k] /\ k # src
  BY Zenon, <1>1, EntriesAre
<1>2. \A k, j \in ColdKeys : k # j /\ k # src /\ j # src => From(k) # From(j)
  BY Zenon
<1> HIDE DEF From
<1>3. RefsOk(t, s)
  BY Zenon DEF Fits
<1>4. RefsOk(u, s)
  BY <1>1, <1>2, <1>3 DEF RefsOk
<1> QED BY Zenon, <1>4 DEF Fits

(* The record of an entry that goes away is deleted (db_set_kv, db_del_kv, *)
(* db_expire_if_needed): the other references stay good.                   *)
LEMMA ForgetFits ==
  ASSUME NEW h, Holds(h), NEW k \in ColdKeys
  PROVE  LET g == Forget(h, k)
             u == [h.tab EXCEPT ![k] = Gone]
         IN /\ IsHost(g) /\ g.tab = h.tab /\ g.dead = h.dead /\ g.s.next = h.s.next
            /\ u \in Tables /\ Fits(u, g.s) /\ Kept(u, h.s, g.s)
<1> DEFINE g == Forget(h, k)
           u == [h.tab EXCEPT ![k] = Gone]
<1>1. IsHost(h) /\ h.tab \in Tables /\ Fits(h.tab, h.s)
  BY Zenon DEF Holds, IsHost
<1>2. u \in Tables /\ u[k] = Gone /\ \A j \in ColdKeys : j # k => u[j] = h.tab[j]
  BY Zenon, <1>1, EntriesAre DEF Tables
<1> HIDE DEF u
<1>3. \A j \in ColdKeys : u[j].is = "cold" => j # k /\ u[j] = h.tab[j]
  BY Zenon, <1>2, EntriesAre
<1>4. Fits(u, h.s)
  BY Zenon, <1>1, <1>2, <1>3, FewerFit
<1>5. CASE ~ IsCold(h, k)
  <2>1. g = h
    BY Zenon, <1>5 DEF Forget
  <2> QED BY Zenon, <2>1, <1>1, <1>2, <1>4 DEF Kept, u
<1>6. CASE IsCold(h, k)
  <2> DEFINE rid == h.tab[k].rid
             s == TierDel(h.s, rid)
             e == h.err \/ ~s.rc
  <2>1. h.tab[k].is = "cold"
    BY Zenon, <1>6 DEF IsCold
  <2>2. rid \in DOMAIN h.s.index /\ \A j \in ColdKeys : u[j].is = "cold" => u[j].rid # rid
    BY <2>1, <1>1, <1>3 DEF Fits, RefsOk
  <2>3. rid \in Nat /\ rid < h.s.next
    BY Zenon, <2>2, <1>1 DEF Fits, StoreOk, Indexes, IsMap
  <2>4. Fits(u, s) /\ Kept(u, h.s, s) /\ s.next = h.s.next
    BY <2>2, <2>3, <1>4, TierDelFits
  <2>5. g = [h EXCEPT !.s = s, !.err = e]
    BY Zenon, <1>6 DEF Forget
  <2>6. e \in BOOLEAN
    BY Zenon
  <2> HIDE DEF s, e
  <2>7. IsHost(g) /\ g.tab = h.tab /\ g.dead = h.dead /\ g.s = s
    BY Zenon, <2>5, <2>6, <1>1 DEF IsHost
  <2> QED BY Zenon, <2>4, <2>7, <1>2 DEF u
<1> HIDE DEF g
<1> QED BY Zenon, <1>5, <1>6 DEF g, u

(* The contents of the keys that a call does not touch.                    *)
LEMMA AgreeIf ==
  ASSUME NEW h, NEW z, NEW k, NEW u, Kept(u, h.s, z.s), h.tab \in Tables,
         \A j \in ColdKeys : j # k => u[j] = h.tab[j] /\ z.tab[j] = h.tab[j] /\ z.dead[j] = h.dead[j]
  PROVE  Agree(h, z, k)
<1> SUFFICES ASSUME NEW j \in ColdKeys, j # k PROVE Content(z, j) = Content(h, j)
  BY Zenon DEF Agree
<1>1. u[j] = h.tab[j] /\ z.tab[j] = h.tab[j] /\ z.dead[j] = h.dead[j] /\ h.tab[j] \in Entries
  BY Zenon DEF Tables
<1>2. h.tab[j].is = "cold" => RecordOf(z.s, h.tab[j].rid) = RecordOf(h.s, h.tab[j].rid)
  BY Zenon, <1>1 DEF Kept
<1>3. h.tab[j] = Gone \/ h.tab[j].is = "hot" \/ h.tab[j].is = "cold"
  BY Zenon, <1>1, EntryIs
<1> QED BY Zenon, <1>1, <1>2, <1>3 DEF Content

(* db_set_kv with a hot value, and the removal of a key.                   *)
LEMMA SetHolds ==
  ASSUME NEW h, Holds(h), NEW k \in ColdKeys, NEW e \in Entries, e.is # "cold"
  PROVE  LET z == SetKv(h, k, e) IN
         /\ Holds(z) /\ Agree(h, z, k) /\ z.tab[k] = e /\ z.dead[k] = 0 /\ z.s.next = h.s.next
<1> DEFINE g == Forget(h, k)
           u == [h.tab EXCEPT ![k] = Gone]
           t == [h.tab EXCEPT ![k] = e]
           d == [h.dead EXCEPT ![k] = 0]
           z == SetKv(h, k, e)
<1>1. IsHost(h) /\ h.tab \in Tables /\ h.dead \in Deads
  BY Zenon DEF Holds, IsHost
<1>2. /\ IsHost(g) /\ g.tab = h.tab /\ g.dead = h.dead /\ g.s.next = h.s.next
      /\ u \in Tables /\ Fits(u, g.s) /\ Kept(u, h.s, g.s)
  BY Zenon, ForgetFits
<1>3. z = [g EXCEPT !.tab[k] = e, !.dead[k] = 0]
  BY Zenon DEF SetKv
<1>4. /\ t \in Tables /\ t[k] = e /\ \A j \in ColdKeys : j # k => t[j] = h.tab[j]
      /\ u[k] = Gone /\ \A j \in ColdKeys : j # k => u[j] = h.tab[j]
      /\ d \in Deads /\ d[k] = 0 /\ \A j \in ColdKeys : j # k => d[j] = h.dead[j]
  BY Zenon, <1>1 DEF Tables, Deads
<1> HIDE DEF g, z, u
<1>5. z = [g EXCEPT !.tab = t, !.dead = d]
  BY Zenon, <1>2, <1>3 DEF IsHost
<1> HIDE DEF t, d
<1>6. IsHost(z) /\ z.tab = t /\ z.dead = d /\ z.s = g.s
  BY Zenon, <1>2, <1>4, <1>5 DEF IsHost
<1>7. Fits(t, g.s)
  BY <1>2, <1>4, FewerFit
<1>8. Agree(h, z, k)
  BY <1>1, <1>2, <1>4, <1>6, AgreeIf
<1>9. ASSUME ~PersistCold, NEW j \in ColdKeys, t[j].is = "cold"
      PROVE  RecordOf(z.s, t[j].rid).x = d[j]
  <2>1. j # k /\ t[j] = h.tab[j] /\ u[j] = h.tab[j] /\ d[j] = h.dead[j]
    BY Zenon, <1>4, <1>9
  <2>2. RecordOf(z.s, t[j].rid) = RecordOf(h.s, t[j].rid)
    BY Zenon, <2>1, <1>2, <1>6, <1>9 DEF Kept
  <2> QED BY Zenon, <2>1, <2>2, <1>9 DEF Holds
<1> QED BY <1>2, <1>4, <1>6, <1>7, <1>8, <1>9 DEF Holds, z

LEMMA DropHolds ==
  ASSUME NEW h, Holds(h), NEW k \in ColdKeys
  PROVE  LET z == Drop(h, k) IN Holds(z) /\ Agree(h, z, k) /\ z.tab[k] = Gone /\ z.dead[k] = 0
<1>1. Drop(h, k) = SetKv(h, k, Gone)
  BY Zenon DEF Drop, SetKv
<1> QED BY <1>1, SetHolds, EntriesAre

LEMMA ExpireHolds ==
  ASSUME NEW h, Holds(h), NEW k \in ColdKeys
  PROVE  LET z == ExpireIfNeeded(h, k) IN
         /\ Holds(z) /\ Agree(h, z, k)
         /\ Expired(h, k) => z.tab[k] = Gone
         /\ ~Expired(h, k) => z = h
<1> DEFINE z == ExpireIfNeeded(h, k)
<1>1. CASE Expired(h, k)
  <2>1. z = Drop(h, k)
    BY Zenon, <1>1 DEF ExpireIfNeeded
  <2> QED BY Zenon, <2>1, <1>1, DropHolds
<1>2. CASE ~Expired(h, k)
  <2>1. z = h
    BY Zenon, <1>2 DEF ExpireIfNeeded
  <2> QED BY Zenon, <2>1, <1>2 DEF Agree
<1> QED BY Zenon, <1>1, <1>2

(* db_tier_materialize: the value is hot again, or the reference stays.    *)
LEMMA MaterializeHolds ==
  ASSUME NEW h, Holds(h), NEW k \in ColdKeys, IsCold(h, k)
  PROVE  LET z == Materialize(h, k) IN
         /\ Holds(z) /\ Agree(h, z, k)
         /\ ~PersistCold => z.tab[k] # Gone /\ Content(z, k) = Content(h, k)
<1> DEFINE rid == h.tab[k].rid
           g == TierGet(h.s, rid)
           rec == RecordOf(g, rid)
           y == [h EXCEPT !.s = g]
           i == SetKv(y, k, Hot(rec.v))
           s == TierDel(i.s, rid)
           z == Materialize(h, k)
<1>1. /\ IsHost(h) /\ h.tab \in Tables /\ h.dead \in Deads /\ Fits(h.tab, h.s) /\ h.tab[k].is = "cold"
      /\ h.tab[k] # Gone /\ h.tab[k] \in Entries
  BY Zenon, EntriesAre DEF Holds, IsHost, IsCold, Tables
<1>2. /\ Fits(h.tab, g) /\ Kept(h.tab, h.s, g) /\ g.log = h.s.log /\ g.index = h.s.index /\ g.next = h.s.next
  BY <1>1, TierGetFits
<1>3. /\ rid \in DOMAIN h.s.index /\ \A j \in ColdKeys : j # k /\ h.tab[j].is = "cold" => h.tab[j].rid # rid
  BY Zenon, <1>1 DEF Fits, RefsOk
<1>4. rid \in Nat /\ rid < h.s.next /\ RecordOf(h.s, rid) \in Puts
  BY Zenon, <1>1, <1>3 DEF Fits, StoreOk, Indexes, IsMap, RecordOf
<1>5. rec = RecordOf(h.s, rid) /\ rec.v \in Vals /\ rec.x \in {0, 1}
  <2>1. rec = RecordOf(h.s, rid)
    BY Zenon, <1>2 DEF RecordOf
  <2> HIDE DEF rec
  <2> QED BY Zenon, <2>1, <1>4 DEF Puts
<1>6. z = IF ~g.rc THEN [h EXCEPT !.s = g, !.err = TRUE]
          ELSE [i EXCEPT !.dead[k] = rec.x, !.s = s, !.err = @ \/ ~s.rc]
  BY Zenon DEF Materialize
<1> HIDE DEF rec, g
<1>7. IsHost(y) /\ y.tab = h.tab /\ y.dead = h.dead /\ y.s = g
  BY Zenon, <1>1 DEF IsHost
<1>8. \A j \in ColdKeys : h.tab[j].is = "cold" => RecordOf(g, h.tab[j].rid) = RecordOf(h.s, h.tab[j].rid)
  BY Zenon, <1>2 DEF Kept
<1>9. Holds(y)
  <2> HIDE DEF y
  <2> QED BY Zenon, <1>2, <1>7, <1>8 DEF Holds
<1>10. Agree(h, y, k)
  <2> HIDE DEF y
  <2> QED BY Zenon, <1>1, <1>2, <1>7, AgreeIf
<1> HIDE DEF y
<1>11. CASE ~g.rc
  <2>1. z = [h EXCEPT !.s = g, !.err = TRUE]
    BY Zenon, <1>6, <1>11
  <2>2. IsHost(z) /\ z.tab = h.tab /\ z.dead = h.dead /\ z.s = g
    BY Zenon, <2>1, <1>1 DEF IsHost
  <2> HIDE DEF z
  <2>3. Holds(z)
    BY Zenon, <2>2, <1>2, <1>8 DEF Holds
  <2>4. Agree(h, z, k)
    BY Zenon, <2>2, <1>1, <1>2, AgreeIf
  <2>5. Content(z, k) = Content(h, k)
    BY Zenon, <2>2, <1>1, <1>8 DEF Content
  <2> QED BY Zenon, <2>2, <2>3, <2>4, <2>5, <1>1 DEF z
<1>12. CASE g.rc
  <2> DEFINE d == [i.dead EXCEPT ![k] = rec.x]
             e == i.err \/ ~s.rc
  <2>1. Hot(rec.v) \in Entries /\ Hot(rec.v).is = "hot" /\ Hot(rec.v).v = rec.v /\ Hot(rec.v) # Gone
    BY Zenon, <1>5, EntriesAre
  <2>2. /\ Holds(i) /\ Agree(y, i, k) /\ i.tab[k] = Hot(rec.v) /\ i.s.next = h.s.next
    BY Zenon, <2>1, <1>2, <1>7, <1>9, SetHolds
  <2>3. z = [i EXCEPT !.dead = d, !.s = s, !.err = e]
    <3> HIDE DEF i, s
    <3>1. z = [i EXCEPT !.dead[k] = rec.x, !.s = s, !.err = @ \/ ~s.rc]
      BY Zenon, <1>6, <1>12
    <3> HIDE DEF z
    <3> QED BY Zenon, <3>1
  <2> HIDE DEF i
  <2>4. IsHost(i) /\ i.tab \in Tables /\ i.dead \in Deads /\ Fits(i.tab, i.s)
    BY Zenon, <2>2 DEF Holds, IsHost
  <2>5. \A j \in ColdKeys : j # k => i.tab[j] = h.tab[j] /\ i.dead[j] = h.dead[j]
    BY Zenon, <2>2, <1>7 DEF Agree
  <2>6. \A j \in ColdKeys : i.tab[j].is = "cold" => i.tab[j].rid # rid
    BY Zenon, <2>1, <2>2, <2>5, <1>3
  <2>7. Fits(i.tab, s) /\ Kept(i.tab, i.s, s)
    BY Zenon, <2>2, <2>4, <2>6, <1>4, TierDelFits
  <2>8. d \in Deads /\ d[k] = rec.x /\ (\A j \in ColdKeys : j # k => d[j] = i.dead[j]) /\ e \in BOOLEAN
    BY Zenon, <2>4, <1>5 DEF Deads
  <2> HIDE DEF d, e, s, z
  <2>9. IsHost(z) /\ z.tab = i.tab /\ z.dead = d /\ z.s = s
    BY Zenon, <2>3, <2>4, <2>8 DEF IsHost
  <2>10. \A j \in ColdKeys : i.tab[j].is = "cold" =>
           RecordOf(s, i.tab[j].rid) = RecordOf(i.s, i.tab[j].rid) /\ j # k
    BY Zenon, <2>1, <2>2, <2>7 DEF Kept
  <2>11. Holds(z)
    BY Zenon, <2>2, <2>7, <2>8, <2>9, <2>10 DEF Holds
  <2>12. Agree(i, z, k)
    BY Zenon, <2>4, <2>7, <2>8, <2>9, AgreeIf
  <2>13. Agree(h, z, k)
    BY Zenon, <2>2, <2>12, <1>10 DEF Agree
  <2>14. ASSUME ~PersistCold PROVE Content(z, k) = Content(h, k) /\ z.tab[k] # Gone
    <3>1. rec.x = h.dead[k]
      BY Zenon, <2>14, <1>1, <1>5 DEF Holds
    <3>2. Content(z, k) = [v |-> rec.v, x |-> rec.x]
      BY Zenon, <2>1, <2>2, <2>8, <2>9 DEF Content
    <3>3. Content(h, k) = [v |-> rec.v, x |-> h.dead[k]]
      BY Zenon, <1>1, <1>5 DEF Content
    <3> QED BY Zenon, <3>1, <3>2, <3>3, <2>1, <2>2, <2>9
  <2> QED BY Zenon, <2>11, <2>13, <2>14 DEF z
<1> HIDE DEF z
<1> QED BY Zenon, <1>11, <1>12 DEF z

(* db_get: an expired key goes, any other keeps its content, cold or not.  *)
LEMMA DbGetHolds ==
  ASSUME NEW h, Holds(h), NEW k \in ColdKeys
  PROVE  LET z == DbGet(h, k) IN
         /\ Holds(z) /\ Agree(h, z, k)
         /\ Expired(h, k) => z.tab[k] = Gone
         /\ ~Expired(h, k) /\ ~PersistCold =>
              (z.tab[k] = Gone <=> h.tab[k] = Gone) /\ Content(z, k) = Content(h, k)
<1> DEFINE y == ExpireIfNeeded(h, k)
           z == DbGet(h, k)
<1>1. /\ Holds(y) /\ Agree(h, y, k)
      /\ Expired(h, k) => y.tab[k] = Gone
      /\ ~Expired(h, k) => y = h
  BY Zenon, ExpireHolds
<1>2. z = IF IsCold(y, k) THEN Materialize(y, k) ELSE y
  BY Zenon DEF DbGet
<1> HIDE DEF y
<1>3. CASE IsCold(y, k)
  <2>1. z = Materialize(y, k)
    BY Zenon, <1>2, <1>3
  <2>2. Holds(z) /\ Agree(y, z, k) /\ (~PersistCold => z.tab[k] # Gone /\ Content(z, k) = Content(y, k))
    BY Zenon, <2>1, <1>1, <1>3, MaterializeHolds
  <2>3. y.tab[k] # Gone
    BY Zenon, <1>3, EntriesAre DEF IsCold
  <2>4. ~Expired(h, k) /\ y = h
    BY Zenon, <2>3, <1>1
  <2> HIDE DEF z
  <2>5. Agree(h, z, k)
    BY Zenon, <2>2, <2>4
  <2> QED BY Zenon, <2>2, <2>3, <2>4, <2>5 DEF z
<1>4. CASE ~IsCold(y, k)
  <2>1. z = y
    BY Zenon, <1>2, <1>4
  <2> QED BY Zenon, <2>1, <1>1
<1> QED BY Zenon, <1>3, <1>4

(* db_tier_offload of a hot value.                                         *)
LEMMA OffloadHolds ==
  ASSUME NEW h, Holds(h), NEW k \in ColdKeys, h.tab[k].is = "hot", dbOf[k] \in Dbs
  PROVE  LET z == Offload(h, k) IN
         Holds(z) /\ Agree(h, z, k) /\ z.tab[k] # Gone /\ Content(z, k) = Content(h, k)
<1> DEFINE s == TierPut(h.s, k, h.tab[k].v, h.dead[k])
           t == [h.tab EXCEPT ![k] = Cold(s.next - 1)]
           z == Offload(h, k)
<1>1. /\ IsHost(h) /\ h.tab \in Tables /\ h.dead \in Deads /\ Fits(h.tab, h.s)
      /\ h.tab[k] \in Entries /\ h.tab[k] # Gone /\ h.tab[k].v \in Vals /\ h.dead[k] \in {0, 1}
  <2>1. IsHost(h) /\ h.tab \in Tables /\ h.dead \in Deads /\ Fits(h.tab, h.s)
    BY Zenon DEF Holds, IsHost
  <2>2. h.tab[k] \in Entries /\ h.dead[k] \in {0, 1}
    BY Zenon, <2>1 DEF Tables, Deads
  <2> QED BY Zenon, <2>1, <2>2, EntryIs
<1>2. /\ Kept(h.tab, h.s, s)
      /\ ~s.rc => Fits(h.tab, s)
      /\ s.rc => /\ Fits(t, s)
                 /\ RecordOf(s, s.next - 1).v = h.tab[k].v /\ RecordOf(s, s.next - 1).x = h.dead[k]
  <2> DEFINE v == h.tab[k].v
             x == h.dead[k]
             f == h.tab
  <2>1. f[k].is # "cold" /\ Fits(f, h.s) /\ v \in Vals /\ x \in {0, 1}
    BY Zenon, <1>1
  <2> HIDE DEF v, x, f
  <2>2. PutDone(f, h.s, TierPut(h.s, k, v, x), k, v, x)
    BY Zenon, <2>1, TierPutFits
  <2>3. PutDone(h.tab, h.s, s, k, h.tab[k].v, h.dead[k])
    BY Zenon, <2>2 DEF v, x, f
  <2> HIDE DEF s
  <2> QED BY Zenon, <2>3 DEF PutDone
<1>3. z = IF s.rc THEN [h EXCEPT !.s = s, !.tab[k] = Cold(s.next - 1)] ELSE [h EXCEPT !.s = s, !.err = TRUE]
  BY Zenon DEF Offload
<1> HIDE DEF s
<1>4. \A j \in ColdKeys : h.tab[j].is = "cold" => RecordOf(s, h.tab[j].rid) = RecordOf(h.s, h.tab[j].rid)
  BY Zenon, <1>2 DEF Kept
<1>5. CASE ~s.rc
  <2>1. z = [h EXCEPT !.s = s, !.err = TRUE]
    BY Zenon, <1>3, <1>5
  <2>2. IsHost(z) /\ z.tab = h.tab /\ z.dead = h.dead /\ z.s = s
    BY Zenon, <2>1, <1>1 DEF IsHost
  <2> HIDE DEF z
  <2>3. Holds(z)
    BY Zenon, <2>2, <1>2, <1>4, <1>5 DEF Holds
  <2>4. Agree(h, z, k)
    BY Zenon, <2>2, <1>1, <1>2, AgreeIf
  <2>5. Content(z, k) = Content(h, k)
    BY Zenon, <2>2 DEF Content
  <2> QED BY Zenon, <2>2, <2>3, <2>4, <2>5, <1>1 DEF z
<1>6. CASE s.rc
  <2>1. Fits(t, s) /\ RecordOf(s, s.next - 1).v = h.tab[k].v /\ RecordOf(s, s.next - 1).x = h.dead[k]
    BY Zenon, <1>2, <1>6
  <2>2. z = [h EXCEPT !.s = s, !.tab = t]
    BY Zenon, <1>3, <1>6
  <2>3. /\ t \in Tables /\ t[k] = Cold(s.next - 1) /\ t[k].is = "cold" /\ t[k].rid = s.next - 1 /\ t[k] # Gone
        /\ \A j \in ColdKeys : j # k => t[j] = h.tab[j]
    <3>1. t \in Tables
      BY Zenon, <2>1 DEF Fits
    <3> QED BY Zenon, <3>1, <1>1 DEF Cold, Tables, Gone
  <2> HIDE DEF t
  <2>4. IsHost(z) /\ z.tab = t /\ z.dead = h.dead /\ z.s = s
    BY Zenon, <2>2, <2>3, <1>1 DEF IsHost
  <2> HIDE DEF z
  <2>5. Holds(z)
    <3> SUFFICES ASSUME ~PersistCold, NEW j \in ColdKeys, t[j].is = "cold"
                 PROVE  RecordOf(s, t[j].rid).x = h.dead[j]
      BY Zenon, <2>1, <2>4 DEF Holds
    <3>1. CASE j = k
      BY Zenon, <3>1, <2>1, <2>3
    <3>2. CASE j # k
      <4>1. t[j] = h.tab[j] /\ RecordOf(s, t[j].rid) = RecordOf(h.s, h.tab[j].rid)
        BY Zenon, <3>2, <2>3, <1>4
      <4> QED BY Zenon, <4>1 DEF Holds
    <3> QED BY Zenon, <3>1, <3>2
  <2>6. Agree(h, z, k)
    BY Zenon, <2>3, <2>4, <1>1, <1>2, AgreeIf
  <2>7. Content(z, k) = [v |-> h.tab[k].v, x |-> h.dead[k]]
    BY Zenon, <2>1, <2>3, <2>4 DEF Content
  <2>8. Content(h, k) = [v |-> h.tab[k].v, x |-> h.dead[k]]
    BY Zenon, <1>1 DEF Content
  <2> QED BY Zenon, <2>3, <2>4, <2>5, <2>6, <2>7, <2>8 DEF z
<1> HIDE DEF z
<1> QED BY Zenon, <1>5, <1>6 DEF z

-----------------------------------------------------------------------------
(* The invariant.                                                          *)

Here == [tab |-> tab, dead |-> dead, err |-> FALSE, s |-> store]
Wants == {Gone} \cup [v : Vals, x : {0, 1}]

\* The deadline of what the client wrote has passed at time c.
Lapsed(e, c) == e # Gone /\ e.x # 0 /\ e.x <= c

\* The contents are what the clients wrote, w, but for expired keys that are gone.
MatchAt(h, w, c, k) == Content(h, k) = w[k] \/ (h.tab[k] = Gone /\ Lapsed(w[k], c))
Match(h, w, c) == w \in [ColdKeys -> Wants] /\ \A k \in ColdKeys : MatchAt(h, w, c, k)

TierInv ==
  /\ dbOf \in Layouts
  /\ clock \in {0, 1}
  /\ Holds(Here)
  /\ ~PersistCold => Match(Here, want, clock)

(* The state before and after a command.                                   *)
LEMMA HereIs ==
  ASSUME TierInv
  PROVE  /\ tab \in Tables /\ dead \in Deads /\ Fits(tab, store) /\ IsStore(store)
         /\ Here.tab = tab /\ Here.dead = dead /\ Here.s = store
         /\ \A k \in ColdKeys : dbOf[k] \in Dbs
<1>1. Holds(Here) /\ Here.tab = tab /\ Here.dead = dead /\ Here.s = store /\ dbOf \in Layouts
  BY Zenon DEF Here, TierInv
<1>2. tab \in Tables /\ dead \in Deads /\ Fits(tab, store)
  BY Zenon, <1>1 DEF Holds, IsHost
<1>3. \A k \in ColdKeys : dbOf[k] \in Dbs
  BY <1>1 DEF Dbs
<1> QED BY Zenon, <1>1, <1>2, <1>3 DEF Fits, StoreOk

LEMMA BeforeHolds ==
  ASSUME TierInv, NEW disk \in Disk
  PROVE  LET b == Before(disk) IN
         /\ Holds(b) /\ b.tab = tab /\ b.dead = dead
         /\ ~PersistCold => Match(b, want, clock)
<1> DEFINE b == Before(disk)
           z == [store EXCEPT !.io = disk.io, !.left = disk.left]
<1>1. disk.io \in Nat /\ disk.left \in {"none", "half", "whole"}
  BY DEF Disk, Plenty
<1>2. /\ tab \in Tables /\ dead \in Deads /\ Fits(tab, store) /\ IsStore(store)
      /\ Here.tab = tab /\ Here.dead = dead /\ Here.s = store
  BY Zenon, HereIs
<1>3. IsStore(z) /\ z.log = store.log /\ z.index = store.index /\ z.next = store.next /\ z.failed = store.failed
  BY Zenon, <1>1, <1>2 DEF IsStore
<1>4. b = [tab |-> tab, dead |-> dead, err |-> FALSE, s |-> z]
  BY Zenon DEF Before
<1> HIDE DEF z
<1>5. IsHost(b) /\ b.tab = tab /\ b.dead = dead /\ b.s = z
  BY <1>2, <1>4 DEF IsHost
<1> HIDE DEF b
<1>6. Fits(tab, z) /\ \A rid : RecordOf(z, rid) = RecordOf(store, rid)
  BY Zenon, <1>2, <1>3, StillFits DEF RecordOf
<1>7. Holds(b)
  BY Zenon, <1>2, <1>5, <1>6 DEF Holds, TierInv
<1>8. \A k \in ColdKeys : Content(b, k) = Content(Here, k)
  BY Zenon, <1>2, <1>5, <1>6 DEF Content
<1>9. ~PersistCold => Match(b, want, clock)
  BY Zenon, <1>2, <1>5, <1>8 DEF TierInv, Match, MatchAt
<1> QED BY Zenon, <1>5, <1>7, <1>9 DEF b

LEMMA StepKeeps ==
  ASSUME TierInv, NEW h, Holds(h), tab' = h.tab, dead' = h.dead, dbOf' = dbOf, clock' \in {0, 1},
         IsStore(store'), store'.log = h.s.log, store'.index = h.s.index, store'.next = h.s.next,
         h.s.failed => store'.failed, ~PersistCold => Match(h, want', clock')
  PROVE  TierInv'
<1> DEFINE z == [tab |-> tab', dead |-> dead', err |-> FALSE, s |-> store']
<1>1. /\ h.tab \in Tables /\ h.dead \in Deads /\ Fits(h.tab, h.s)
  BY Zenon DEF Holds, IsHost
<1>2. Fits(tab', store') /\ \A rid : RecordOf(store', rid) = RecordOf(h.s, rid)
  BY Zenon, <1>1, StillFits DEF RecordOf
<1>3. IsHost(z) /\ z.tab = h.tab /\ z.dead = h.dead /\ z.s = store'
  BY Zenon, <1>1 DEF IsHost
<1>4. (Here)' = z
  BY Zenon DEF Here
<1> HIDE DEF z
<1>5. \A k \in ColdKeys : Content(z, k) = Content(h, k)
  BY Zenon, <1>2, <1>3 DEF Content
<1>6. ~PersistCold => Match(z, want', clock')
  BY Zenon, <1>3, <1>5 DEF Match, MatchAt
<1>7. Holds(z)
  BY <1>2, <1>3 DEF Holds
<1>8. Holds(Here)'
  BY Zenon, <1>4, <1>7 DEF Holds, Fits, RefsOk
<1>9. ~PersistCold => Match(Here, want, clock)'
  BY Zenon, <1>4, <1>6
<1>10. dbOf' \in Layouts
  BY Zenon DEF TierInv
<1> QED BY Zenon, <1>8, <1>9, <1>10 DEF TierInv

LEMMA AfterKeeps ==
  ASSUME TierInv, NEW disk, NEW h, Holds(h), After(h, disk), ~PersistCold => Match(h, want', clock)
  PROVE  TierInv'
<1>1. tab' = h.tab /\ dead' = h.dead /\ dbOf' = dbOf /\ clock' = clock /\ clock' \in {0, 1}
      /\ store' = [h.s EXCEPT !.io = Plenty, !.left = "none", !.rc = TRUE]
  BY Zenon DEF After, TierInv
<1>2. IsStore(h.s)
  BY Zenon DEF Holds, Fits, StoreOk
<1>3. /\ IsStore(store') /\ store'.log = h.s.log /\ store'.index = h.s.index
      /\ store'.next = h.s.next /\ store'.failed = h.s.failed
  BY Zenon, <1>1, <1>2 DEF IsStore, Plenty
<1> QED BY Zenon, <1>1, <1>3, StepKeeps

(* Contents and what was wanted.                                           *)
LEMMA ContentIs ==
  ASSUME NEW h, NEW k
  PROVE  /\ h.tab[k] = Gone => Content(h, k) = Gone
         /\ h.tab[k] # Gone => Content(h, k) # Gone /\ Content(h, k).x = h.dead[k]
  BY Zenon DEF Content, Gone

LEMMA AgreeMatch ==
  ASSUME NEW h, NEW z, NEW w, NEW c, NEW k, Match(h, w, c), Agree(h, z, k), MatchAt(z, w, c, k)
  PROVE  Match(z, w, c)
  BY Zenon DEF Match, MatchAt, Agree

LEMMA AgreeMatchNew ==
  ASSUME NEW h, NEW z, NEW w, NEW c, NEW k \in ColdKeys, Match(h, w, c), Agree(h, z, k),
         NEW e \in Wants, Content(z, k) = e
  PROVE  Match(z, [w EXCEPT ![k] = e], c)
<1> DEFINE u == [w EXCEPT ![k] = e]
<1>1. w \in [ColdKeys -> Wants]
  BY Zenon DEF Match
<1>2. u \in [ColdKeys -> Wants] /\ u[k] = e /\ \A j \in ColdKeys : j # k => u[j] = w[j]
  BY Zenon, <1>1
<1> HIDE DEF u
<1>3. \A j \in ColdKeys : MatchAt(z, u, c, j)
  BY Zenon, <1>2 DEF Match, MatchAt, Agree
<1> QED BY Zenon, <1>2, <1>3 DEF Match, u

LEMMA ExpiredMatches ==
  ASSUME NEW h, NEW z, NEW w, NEW k \in ColdKeys, Match(h, w, clock), Expired(h, k), z.tab[k] = Gone
  PROVE  MatchAt(z, w, clock, k)
<1>1. MatchAt(h, w, clock, k)
  BY Zenon DEF Match
<1>2. CASE h.tab[k] = Gone
  BY Zenon, <1>1, <1>2, ContentIs DEF MatchAt
<1>3. CASE h.tab[k] # Gone
  <2>1. Content(h, k) = w[k] /\ w[k] # Gone /\ w[k].x = h.dead[k]
    BY Zenon, <1>1, <1>3, ContentIs DEF MatchAt
  <2>2. Lapsed(w[k], clock)
    BY Zenon, <2>1 DEF Lapsed, Expired
  <2> QED BY Zenon, <2>2 DEF MatchAt
<1> QED BY Zenon, <1>2, <1>3

\* h goes together with what was wanted.
Good(h) == Holds(h) /\ (~PersistCold => Match(h, want, clock))

LEMMA BeforeGood ==
  ASSUME TierInv, NEW disk \in Disk
  PROVE  Good(Before(disk)) /\ Before(disk).tab = tab /\ Before(disk).dead = dead
  BY Zenon, BeforeHolds DEF Good

LEMMA ExpireGood ==
  ASSUME NEW h, Good(h), NEW k \in ColdKeys
  PROVE  LET z == ExpireIfNeeded(h, k) IN
         Good(z) /\ Agree(h, z, k) /\ (z.tab[k] # Gone => ~Expired(z, k))
<1> DEFINE z == ExpireIfNeeded(h, k)
<1>1. /\ Holds(z) /\ Agree(h, z, k)
      /\ Expired(h, k) => z.tab[k] = Gone
      /\ ~Expired(h, k) => z = h
  BY Zenon, ExpireHolds DEF Good
<1> HIDE DEF z
<1>2. ASSUME ~PersistCold PROVE Match(z, want, clock)
  <2>1. Match(h, want, clock)
    BY Zenon, <1>2 DEF Good
  <2>2. CASE Expired(h, k)
    <3>1. MatchAt(z, want, clock, k)
      BY Zenon, <2>1, <2>2, <1>1, ExpiredMatches
    <3> QED BY Zenon, <3>1, <2>1, <1>1, AgreeMatch
  <2>3. CASE ~Expired(h, k)
    BY Zenon, <2>1, <2>3, <1>1
  <2> QED BY Zenon, <2>2, <2>3
<1> QED BY Zenon, <1>1, <1>2 DEF Good, z

LEMMA DbGetGood ==
  ASSUME NEW h, Good(h), NEW k \in ColdKeys
  PROVE  Good(DbGet(h, k))
<1> DEFINE z == DbGet(h, k)
<1>1. /\ Holds(z) /\ Agree(h, z, k)
      /\ Expired(h, k) => z.tab[k] = Gone
      /\ ~Expired(h, k) /\ ~PersistCold =>
           (z.tab[k] = Gone <=> h.tab[k] = Gone) /\ Content(z, k) = Content(h, k)
  BY Zenon, DbGetHolds DEF Good
<1> HIDE DEF z
<1>2. ASSUME ~PersistCold PROVE Match(z, want, clock)
  <2>1. Match(h, want, clock)
    BY Zenon, <1>2 DEF Good
  <2>2. MatchAt(z, want, clock, k)
    <3>1. CASE Expired(h, k)
      BY Zenon, <3>1, <2>1, <1>1, ExpiredMatches
    <3>2. CASE ~Expired(h, k)
      <4>1. MatchAt(h, want, clock, k)
        BY Zenon, <2>1 DEF Match
      <4> QED BY Zenon, <4>1, <3>2, <1>1, <1>2 DEF MatchAt
    <3> QED BY Zenon, <3>1, <3>2
  <2> QED BY Zenon, <2>1, <2>2, <1>1, AgreeMatch
<1> QED BY Zenon, <1>1, <1>2 DEF Good, z

LEMMA AfterGood ==
  ASSUME TierInv, NEW disk, NEW h, Good(h), After(h, disk), UNCHANGED want
  PROVE  TierInv'
<1>1. ~PersistCold => Match(h, want', clock)
  BY Zenon DEF Good
<1> QED BY Zenon, <1>1, AfterKeeps DEF Good

(* The commands.                                                           *)
LEMMA GetKeeps ==
  ASSUME TierInv, NEW disk \in Disk, NEW k \in ColdKeys, ColdGet(k, disk)
  PROVE  TierInv'
<1>1. Good(DbGet(Before(disk), k))
  BY Zenon, BeforeGood, DbGetGood
<1> QED BY Zenon, <1>1, AfterGood DEF ColdGet

\* A command that writes k, which then has the content e.
LEMMA WriteKeeps ==
  ASSUME TierInv, NEW disk, NEW k \in ColdKeys, NEW h, Good(h), NEW z, Holds(z), Agree(h, z, k),
         After(z, disk), NEW e \in Wants, Content(z, k) = e, Want(k, e)
  PROVE  TierInv'
<1>1. want' = [want EXCEPT ![k] = e]
  BY Zenon DEF Want
<1>2. ~PersistCold => Match(z, want', clock)
  BY Zenon, <1>1, AgreeMatchNew DEF Good
<1> QED BY Zenon, <1>2, AfterKeeps

LEMMA SetKeeps ==
  ASSUME TierInv, NEW disk \in Disk, NEW k \in ColdKeys, NEW v \in ColdVals[k], NEW looks \in BOOLEAN,
         ColdSet(k, v, looks, disk)
  PROVE  TierInv'
<1> DEFINE b == Before(disk)
           h == DbGet(b, k)
           y == IF looks THEN h ELSE b
           z == SetKv(y, k, Hot(v))
           e == [v |-> v, x |-> 0]
<1>1. Good(b) /\ Good(h)
  BY Zenon, BeforeGood, DbGetGood
<1>2. CASE looks /\ h.err
  <2>1. After(h, disk) /\ UNCHANGED want
    BY Zenon, <1>2 DEF ColdSet
  <2> QED BY Zenon, <2>1, <1>1, AfterGood
<1>3. CASE ~ (looks /\ h.err)
  <2>1. After(z, disk) /\ Want(k, e)
    BY Zenon, <1>3 DEF ColdSet
  <2>2. Good(y)
    BY Zenon, <1>1
  <2> HIDE DEF y
  <2>3. v \in Vals /\ e \in Wants
    BY Zenon DEF Vals, Wants
  <2>4. Hot(v) \in Entries /\ Hot(v).is # "cold" /\ Hot(v).is = "hot" /\ Hot(v).v = v /\ Hot(v) # Gone
    BY Zenon, <2>3, EntriesAre
  <2>5. Holds(z) /\ Agree(y, z, k) /\ z.tab[k] = Hot(v) /\ z.dead[k] = 0
    BY <2>2, <2>4, SetHolds DEF Good
  <2> HIDE DEF z
  <2>6. Content(z, k) = e
    BY Zenon, <2>4, <2>5 DEF Content
  <2> HIDE DEF e
  <2> QED BY Zenon, <2>1, <2>2, <2>3, <2>5, <2>6, WriteKeeps
<1> QED BY Zenon, <1>2, <1>3

LEMMA DelKeeps ==
  ASSUME TierInv, NEW disk \in Disk, NEW k \in ColdKeys, ColdDel(k, disk)
  PROVE  TierInv'
<1> DEFINE y == ExpireIfNeeded(Before(disk), k)
           z == Drop(y, k)
<1>1. Good(y)
  BY Zenon, BeforeGood, ExpireGood
<1>2. After(z, disk) /\ Want(k, Gone)
  BY Zenon DEF ColdDel
<1> HIDE DEF y
<1>3. Holds(z) /\ Agree(y, z, k) /\ z.tab[k] = Gone
  BY Zenon, <1>1, DropHolds DEF Good
<1> HIDE DEF z
<1>4. Content(z, k) = Gone /\ Gone \in Wants
  BY Zenon, <1>3, ContentIs DEF Wants
<1> QED BY Zenon, <1>1, <1>2, <1>3, <1>4, WriteKeeps

\* A deadline is set or removed for a key; its record, if it has one, does not count.
LEMMA DeadHolds ==
  ASSUME NEW h, Holds(h), NEW k \in ColdKeys, NEW x \in {0, 1}, ~PersistCold => h.tab[k].is # "cold"
  PROVE  LET z == [h EXCEPT !.dead[k] = x] IN
         Holds(z) /\ Agree(h, z, k) /\ z.tab = h.tab /\ z.dead[k] = x /\ z.s = h.s
<1> DEFINE d == [h.dead EXCEPT ![k] = x]
           z == [h EXCEPT !.dead[k] = x]
<1>1. IsHost(h) /\ h.dead \in Deads /\ h.tab \in Tables /\ Fits(h.tab, h.s)
  BY Zenon DEF Holds, IsHost
<1>2. d \in Deads /\ d[k] = x /\ \A j \in ColdKeys : j # k => d[j] = h.dead[j]
  BY Zenon, <1>1 DEF Deads
<1>3. z = [h EXCEPT !.dead = d]
  BY Zenon, <1>1 DEF IsHost
<1> HIDE DEF d, z
<1>4. IsHost(z) /\ z.tab = h.tab /\ z.dead = d /\ z.s = h.s
  BY Zenon, <1>1, <1>2, <1>3 DEF IsHost
<1>5. Holds(z)
  BY Zenon, <1>1, <1>2, <1>4 DEF Holds
<1>6. Kept(h.tab, h.s, z.s)
  BY Zenon, <1>4 DEF Kept
<1>7. Agree(h, z, k)
  BY Zenon, <1>1, <1>2, <1>4, <1>6, AgreeIf
<1> QED BY Zenon, <1>2, <1>4, <1>5, <1>7 DEF z

LEMMA ExpireKeeps ==
  ASSUME TierInv, NEW disk \in Disk, NEW k \in ColdKeys, ColdExpire(k, disk)
  PROVE  TierInv'
<1> DEFINE h == DbGet(Before(disk), k)
           z == [h EXCEPT !.dead[k] = 1]
           e == [want[k] EXCEPT !.x = 1]
<1>1. Good(h)
  BY Zenon, BeforeGood, DbGetGood
<1>2. CASE ~Finds(h, k)
  <2>1. After(h, disk) /\ UNCHANGED want
    BY Zenon, <1>2 DEF ColdExpire
  <2> QED BY Zenon, <2>1, <1>1, AfterGood
<1>3. CASE Finds(h, k)
  <2>1. After(z, disk) /\ want' = [want EXCEPT ![k] = e]
    BY Zenon, <1>3 DEF ColdExpire, Want
  <2> HIDE DEF h
  <2>2. h.tab[k].is = "hot" /\ h.tab[k] # Gone
    BY <1>3 DEF Finds, Gone
  <2>3. Holds(z) /\ Agree(h, z, k) /\ z.tab = h.tab /\ z.dead[k] = 1 /\ z.s = h.s
    BY Zenon, <1>1, <2>2, DeadHolds DEF Good
  <2> HIDE DEF z
  <2>4. ASSUME ~PersistCold PROVE Match(z, want', clock)
    <3>1. Match(h, want, clock)
      BY Zenon, <1>1, <2>4 DEF Good
    <3>2. want[k] = Content(h, k) /\ want[k] \in Wants
      BY Zenon, <3>1, <2>2 DEF Match, MatchAt
    <3>3. want[k] = [v |-> h.tab[k].v, x |-> h.dead[k]]
      BY Zenon, <3>2, <2>2 DEF Content
    <3>4. e = [v |-> h.tab[k].v, x |-> 1]
      BY <3>3
    <3>5. h.tab[k].v \in Vals
      <4>1. h.tab[k] \in Entries
        BY Zenon, <1>1 DEF Good, Holds, IsHost, Tables
      <4> QED BY Zenon, <4>1, <2>2, EntryIs
    <3>6. e \in Wants
      BY Zenon, <3>4, <3>5 DEF Wants
    <3>7. Content(z, k) = e
      BY Zenon, <3>4, <2>2, <2>3 DEF Content
    <3> HIDE DEF e
    <3> QED BY Zenon, <3>1, <3>6, <3>7, <2>1, <2>3, AgreeMatchNew
  <2> QED BY Zenon, <2>1, <2>3, <2>4, AfterKeeps
<1> QED BY Zenon, <1>2, <1>3

LEMMA PersistKeeps ==
  ASSUME TierInv, NEW disk \in Disk, NEW k \in ColdKeys, ColdPersist(k, disk)
  PROVE  TierInv'
<1> DEFINE h == ExpireIfNeeded(Before(disk), k)
           z == [h EXCEPT !.dead[k] = 0]
           e == [want[k] EXCEPT !.x = 0]
<1>1. Good(h) /\ (h.tab[k] # Gone => ~Expired(h, k))
  BY Zenon, BeforeGood, ExpireGood
<1>2. /\ PersistCold \/ h.tab[k].is # "cold"
      /\ After(z, disk)
      /\ Wanted(k) # Gone => want' = [want EXCEPT ![k] = e]
      /\ Wanted(k) = Gone => want' = want
  BY Zenon DEF ColdPersist, IsCold, Want
<1> HIDE DEF h
<1>3. Holds(z) /\ Agree(h, z, k) /\ z.tab = h.tab /\ z.dead[k] = 0 /\ z.s = h.s
  BY Zenon, <1>1, <1>2, DeadHolds DEF Good
<1> HIDE DEF z
<1>4. ASSUME ~PersistCold PROVE Match(z, want', clock)
  <2>1. Match(h, want, clock) /\ MatchAt(h, want, clock, k) /\ want[k] \in Wants
    BY Zenon, <1>1, <1>4 DEF Good, Match
  <2>2. CASE h.tab[k] = Gone
    <3>1. want[k] = Gone \/ Lapsed(want[k], clock)
      BY Zenon, <2>1, <2>2, ContentIs DEF MatchAt
    <3>2. Wanted(k) = Gone
      BY Zenon, <3>1 DEF Wanted, Lapsed
    <3>3. MatchAt(z, want, clock, k)
      BY Zenon, <2>2, <3>1, <1>3, ContentIs DEF MatchAt
    <3> QED BY Zenon, <3>2, <3>3, <1>2, <1>3, <2>1, AgreeMatch
  <2>3. CASE h.tab[k] # Gone
    <3>1. h.tab[k] \in Entries
      BY Zenon, <1>1 DEF Good, Holds, IsHost, Tables
    <3>2. h.tab[k].is = "hot" /\ h.tab[k].v \in Vals
      BY Zenon, <3>1, <2>3, <1>2, <1>4, EntryIs
    <3>3. want[k] = [v |-> h.tab[k].v, x |-> h.dead[k]]
      BY Zenon, <2>1, <2>3, <3>2 DEF MatchAt, Content
    <3>4. want[k] # Gone /\ want[k].x = h.dead[k] /\ e = [v |-> h.tab[k].v, x |-> 0]
      BY <3>3 DEF Gone
    <3>5. ~Expired(h, k)
      BY Zenon, <1>1, <2>3
    <3>6. Wanted(k) # Gone
      BY Zenon, <3>4, <3>5 DEF Wanted, Expired
    <3>7. e \in Wants /\ Content(z, k) = e
      BY Zenon, <3>4, <3>2, <2>3, <1>3 DEF Wants, Content
    <3> HIDE DEF e
    <3> QED BY <3>6, <3>7, <2>1, <1>2, <1>3, AgreeMatchNew
  <2> QED BY Zenon, <2>2, <2>3
<1> QED BY Zenon, <1>2, <1>3, <1>4, AfterKeeps

LEMMA EvictKeeps ==
  ASSUME TierInv, NEW disk \in Disk, NEW k \in ColdKeys, NEW enabled \in BOOLEAN,
         Evict(k, enabled, disk)
  PROVE  TierInv'
<1> DEFINE b == Before(disk)
<1>1. Good(b) /\ b.tab = tab
  BY Zenon, BeforeGood
<1>2. b.tab[k] \in Entries /\ b.tab[k] # Gone /\ dbOf[k] \in Dbs
  BY Zenon, <1>1, HereIs DEF Tables, Evict
<1>3. CASE enabled /\ ~IsCold(b, k)
  <2> DEFINE z == Offload(b, k)
  <2>1. After(z, disk) /\ UNCHANGED want
    BY Zenon, <1>3 DEF Evict
  <2> HIDE DEF b
  <2>2. b.tab[k].is = "hot"
    BY Zenon, <1>2, <1>3, EntryIs DEF IsCold
  <2>3. Holds(z) /\ Agree(b, z, k) /\ Content(z, k) = Content(b, k)
    BY Zenon, <1>1, <1>2, <2>2, OffloadHolds DEF Good
  <2> HIDE DEF z
  <2>4. ASSUME ~PersistCold PROVE Match(z, want, clock)
    <3>1. Match(b, want, clock) /\ MatchAt(b, want, clock, k)
      BY Zenon, <1>1, <2>4 DEF Good, Match
    <3>2. MatchAt(z, want, clock, k)
      BY Zenon, <3>1, <2>3, <1>2 DEF MatchAt
    <3> QED BY Zenon, <3>1, <3>2, <2>3, AgreeMatch
  <2>5. Good(z)
    BY Zenon, <2>3, <2>4 DEF Good
  <2> QED BY Zenon, <2>1, <2>5, AfterGood
<1>4. CASE ~ (enabled /\ ~IsCold(b, k))
  <2> DEFINE z == Drop(b, k)
  <2>1. After(z, disk) /\ Want(k, Gone)
    BY Zenon, <1>4 DEF Evict
  <2> HIDE DEF b
  <2>2. Holds(z) /\ Agree(b, z, k) /\ z.tab[k] = Gone
    BY Zenon, <1>1, DropHolds DEF Good
  <2> HIDE DEF z
  <2>3. Content(z, k) = Gone /\ Gone \in Wants
    BY Zenon, <2>2, ContentIs DEF Wants
  <2> QED BY Zenon, <1>1, <2>1, <2>2, <2>3, WriteKeeps
<1> QED BY Zenon, <1>3, <1>4

(* Flushing: the keys of a database are gone, and wanted gone.             *)
Flushed(f, d, x) == [k \in ColdKeys |-> IF dbOf[k] = d THEN x ELSE f[k]]

LEMMA FlushedGood ==
  ASSUME TierInv, NEW h, Good(h), h.tab = tab, h.dead = dead, NEW d, NEW z, IsHost(z),
         z.tab = Flushed(tab, d, Gone), z.dead = Flushed(dead, d, 0),
         Fits(z.tab, z.s), Kept(z.tab, h.s, z.s), want' = Flushed(want, d, Gone)
  PROVE  Holds(z) /\ (~PersistCold => Match(z, want', clock))
<1>1. \A k \in ColdKeys : /\ dbOf[k] = d => z.tab[k] = Gone /\ z.dead[k] = 0
                          /\ dbOf[k] # d => z.tab[k] = tab[k] /\ z.dead[k] = dead[k]
  BY Zenon DEF Flushed
<1>2. tab \in Tables /\ Gone.is # "cold" /\ Gone.is # "hot"
  BY Zenon, HereIs DEF Gone
<1>3. ASSUME NEW k \in ColdKeys, dbOf[k] # d PROVE Content(z, k) = Content(h, k)
  <2>1. z.tab[k] = h.tab[k] /\ z.dead[k] = h.dead[k] /\ h.tab[k] \in Entries
    BY Zenon, <1>1, <1>2, <1>3 DEF Tables
  <2>2. h.tab[k].is = "cold" => RecordOf(z.s, h.tab[k].rid) = RecordOf(h.s, h.tab[k].rid)
    BY Zenon, <2>1 DEF Kept
  <2>3. h.tab[k] = Gone \/ h.tab[k].is = "hot" \/ h.tab[k].is = "cold"
    BY Zenon, <2>1, EntryIs
  <2> QED BY Zenon, <2>1, <2>2, <2>3 DEF Content
<1>4. ASSUME ~PersistCold, NEW k \in ColdKeys, z.tab[k].is = "cold"
      PROVE  RecordOf(z.s, z.tab[k].rid).x = z.dead[k]
  <2>1. z.tab[k] = h.tab[k] /\ z.dead[k] = h.dead[k]
    BY Zenon, <1>1, <1>2, <1>4
  <2>2. RecordOf(h.s, h.tab[k].rid).x = h.dead[k]
    BY Zenon, <2>1, <1>4 DEF Good, Holds
  <2>3. RecordOf(z.s, z.tab[k].rid) = RecordOf(h.s, z.tab[k].rid)
    BY Zenon, <1>4 DEF Kept
  <2> QED BY Zenon, <2>1, <2>2, <2>3
<1>5. Holds(z)
  BY Zenon, <1>4 DEF Holds
<1>6. ASSUME ~PersistCold PROVE Match(z, want', clock)
  <2>1. Match(h, want, clock)
    BY Zenon, <1>6 DEF Good
  <2>2. want' \in [ColdKeys -> Wants]
    BY Zenon, <2>1 DEF Match, Wants, Flushed
  <2>3. ASSUME NEW k \in ColdKeys PROVE MatchAt(z, want', clock, k)
    <3>1. CASE dbOf[k] = d
      <4>1. want'[k] = Gone /\ z.tab[k] = Gone
        BY Zenon, <3>1, <1>1 DEF Flushed
      <4> QED BY <4>1, ContentIs DEF MatchAt
    <3>2. CASE dbOf[k] # d
      <4>1. want'[k] = want[k] /\ z.tab[k] = h.tab[k] /\ Content(z, k) = Content(h, k)
        BY Zenon, <3>2, <1>1, <1>3 DEF Flushed
      <4>2. MatchAt(h, want, clock, k)
        BY Zenon, <2>1 DEF Match
      <4> QED BY Zenon, <4>1, <4>2 DEF MatchAt
    <3> QED BY Zenon, <3>1, <3>2
  <2> QED BY Zenon, <2>2, <2>3 DEF Match
<1> QED BY Zenon, <1>5, <1>6

LEMMA HereGood ==
  ASSUME TierInv
  PROVE  Good(Here) /\ Here.tab = tab /\ Here.dead = dead /\ Here.s = store /\ Here.err = FALSE
  BY Zenon DEF TierInv, Good, Here

LEMMA ColdFlushKeeps ==
  ASSUME TierInv, NEW j \in ColdKeys, ColdFlush(dbOf[j])
  PROVE  TierInv'
<1> DEFINE d == dbOf[j]
           t == Flushed(tab, d, Gone)
           e == Flushed(dead, d, 0)
           z == [tab |-> t, dead |-> e, err |-> FALSE, s |-> store]
<1>1. /\ tab' = t /\ dead' = e /\ dbOf' = dbOf /\ store' = store /\ clock' = clock
      /\ want' = Flushed(want, d, Gone)
  BY Zenon DEF ColdFlush, Flushed
<1>2. tab \in Tables /\ dead \in Deads /\ Fits(tab, store) /\ IsStore(store) /\ clock \in {0, 1}
  BY Zenon, HereIs DEF TierInv
<1> HIDE DEF d
<1>3. t \in Tables /\ e \in Deads
  BY Zenon, <1>2 DEF Tables, Deads, Entries, Flushed
<1>4. \A k \in ColdKeys : t[k].is = "cold" => t[k] = tab[k]
  BY Zenon DEF Gone, Flushed
<1>5. z.tab = t /\ z.dead = e /\ z.s = store
  BY Zenon
<1>6. t = Flushed(tab, d, Gone) /\ e = Flushed(dead, d, 0)
  BY Zenon
<1> HIDE DEF t, e
<1>7. IsHost(z)
  BY Zenon, <1>3 DEF IsHost
<1>8. Fits(t, store) /\ Kept(t, store, store)
  BY Zenon, <1>2, <1>3, <1>4, FewerFit DEF Kept
<1> HIDE DEF z
<1>9. Holds(z) /\ (~PersistCold => Match(z, want', clock))
  <2>1. z.tab = Flushed(tab, d, Gone) /\ z.dead = Flushed(dead, d, 0)
    BY Zenon, <1>5, <1>6
  <2>2. Fits(z.tab, z.s) /\ Kept(z.tab, Here.s, z.s)
    BY Zenon, <1>5, <1>8, HereGood
  <2> QED BY Zenon, <1>1, <1>7, <2>1, <2>2, HereGood, FlushedGood
<1> QED BY Zenon, <1>1, <1>2, <1>5, <1>9, StepKeeps

LEMMA DbFlushKeeps ==
  ASSUME TierInv, NEW disk \in Disk, NEW j \in ColdKeys, DbFlush(dbOf[j], disk)
  PROVE  TierInv'
<1> DEFINE d == dbOf[j]
           b == Before(disk)
           t == Flushed(tab, d, Gone)
           e == Flushed(dead, d, 0)
           n == TierFlushDb(b.s, d)
           z == [b EXCEPT !.tab = t, !.dead = e, !.s = n]
<1>1. Good(b) /\ b.tab = tab /\ b.dead = dead /\ d \in Dbs
  BY Zenon, BeforeGood, HereIs
<1>2. After(z, disk) /\ want' = Flushed(want, d, Gone)
  BY Zenon, <1>1 DEF DbFlush, Flushed
<1> HIDE DEF d, b
<1>3. tab \in Tables /\ dead \in Deads /\ Fits(tab, b.s) /\ IsHost(b)
  BY Zenon, <1>1, HereIs DEF Good, Holds
<1>4. t \in Tables /\ e \in Deads
  BY Zenon, <1>3 DEF Tables, Deads, Entries, Flushed
<1>5. \A k \in ColdKeys : t[k].is = "cold" => t[k] = tab[k] /\ dbOf[k] # d
  BY Zenon DEF Gone, Flushed
<1>6. t = Flushed(tab, d, Gone) /\ e = Flushed(dead, d, 0)
  BY Zenon
<1> HIDE DEF t, e
<1>7. Fits(t, b.s)
  BY Zenon, <1>3, <1>4, <1>5, FewerFit
<1>8. Fits(t, n) /\ Kept(t, b.s, n)
  BY Zenon, <1>1, <1>5, <1>7, TierFlushFits
<1> HIDE DEF n
<1>9. IsHost(z) /\ z.tab = t /\ z.dead = e /\ z.s = n
  BY Zenon, <1>3, <1>4 DEF IsHost
<1> HIDE DEF z
<1>10. Holds(z) /\ (~PersistCold => Match(z, want', clock))
  <2>1. z.tab = Flushed(tab, d, Gone) /\ z.dead = Flushed(dead, d, 0)
    BY Zenon, <1>6, <1>9
  <2>2. Fits(z.tab, z.s) /\ Kept(z.tab, b.s, z.s) /\ IsHost(z)
    BY Zenon, <1>8, <1>9
  <2>3. want' = Flushed(want, d, Gone)
    BY Zenon, <1>2
  <2> QED BY Zenon, <1>1, <2>1, <2>2, <2>3, FlushedGood
<1> QED BY Zenon, <1>2, <1>10, AfterKeeps

(* The store moves its records, and nothing else changes.                  *)
LEMMA MovedGood ==
  ASSUME NEW h, Good(h), NEW z, IsHost(z), z.tab = h.tab, z.dead = h.dead,
         Fits(h.tab, z.s), Kept(h.tab, h.s, z.s)
  PROVE  Good(z)
<1>1. h.tab \in Tables
  BY Zenon DEF Good, Holds, IsHost
<1>2. ASSUME NEW k \in ColdKeys PROVE Content(z, k) = Content(h, k)
  <2>1. h.tab[k] \in Entries
    BY Zenon, <1>1 DEF Tables
  <2>2. h.tab[k].is = "cold" => RecordOf(z.s, h.tab[k].rid) = RecordOf(h.s, h.tab[k].rid)
    BY Zenon DEF Kept
  <2>3. h.tab[k] = Gone \/ h.tab[k].is = "hot" \/ h.tab[k].is = "cold"
    BY Zenon, <2>1, EntryIs
  <2> QED BY Zenon, <2>2, <2>3 DEF Content
<1>3. Holds(z)
  <2>1. ASSUME ~PersistCold, NEW k \in ColdKeys, z.tab[k].is = "cold"
        PROVE  RecordOf(z.s, z.tab[k].rid).x = z.dead[k]
    BY Zenon, <2>1 DEF Good, Holds, Kept
  <2> QED BY Zenon, <2>1 DEF Holds
<1>4. ASSUME ~PersistCold PROVE Match(z, want, clock)
  BY Zenon, <1>2, <1>4 DEF Good, Match, MatchAt
<1> QED BY Zenon, <1>3, <1>4 DEF Good

LEMMA CompactKeeps ==
  ASSUME TierInv, NEW disk \in Disk, NEW order \in Orders(DOMAIN store.index), Compact(order, disk)
  PROVE  TierInv'
<1> DEFINE b == Before(disk)
           n == TierCompact(b.s, order)
           z == [b EXCEPT !.s = n]
<1>1. Good(b)
  BY Zenon, BeforeGood
<1>2. After(z, disk) /\ UNCHANGED want
  BY Zenon DEF Compact
<1>3. b.s.index = store.index
  <2>1. IsStore(store)
    BY Zenon, HereIs
  <2> QED BY Zenon, <2>1 DEF Before, IsStore
<1> HIDE DEF b
<1>4. IsHost(b) /\ Fits(b.tab, b.s)
  BY Zenon, <1>1 DEF Good, Holds
<1>5. order \in Orders(DOMAIN b.s.index)
  BY Zenon, <1>3
<1>6. Fits(b.tab, n) /\ Kept(b.tab, b.s, n)
  BY Zenon, <1>4, <1>5, TierCompactFits
<1> HIDE DEF n
<1>7. IsHost(z) /\ z.tab = b.tab /\ z.dead = b.dead /\ z.s = n
  BY Zenon, <1>4 DEF IsHost
<1> HIDE DEF z
<1>8. Good(z)
  BY Zenon, <1>1, <1>6, <1>7, MovedGood
<1> QED BY Zenon, <1>2, <1>8, AfterGood

LEMMA ReopenKeeps ==
  ASSUME TierInv, Reopen
  PROVE  TierInv'
<1> DEFINE n == TierOpen(store)
           z == [tab |-> tab, dead |-> dead, err |-> FALSE, s |-> n]
<1>1. /\ Opens(store) /\ store' = n /\ tab' = tab /\ dead' = dead /\ dbOf' = dbOf
      /\ clock' = clock /\ want' = want /\ clock \in {0, 1}
  BY Zenon DEF Reopen, TierInv
<1>2. tab \in Tables /\ dead \in Deads /\ Fits(tab, store)
  BY Zenon, HereIs
<1>3. Fits(tab, n) /\ Kept(tab, store, n)
  BY Zenon, <1>1, <1>2, TierOpenFits
<1> HIDE DEF n
<1>4. IsHost(z) /\ z.tab = tab /\ z.dead = dead /\ z.s = n
  BY Zenon, <1>2 DEF IsHost
<1> HIDE DEF z
<1>5. Good(z)
  BY Zenon, <1>3, <1>4, HereGood, MovedGood
<1>6. IsStore(n)
  BY Zenon, <1>3 DEF Fits, StoreOk
<1>7. Holds(z) /\ (~PersistCold => Match(z, want', clock'))
  BY Zenon, <1>1, <1>5 DEF Good
<1> QED BY Zenon, <1>1, <1>4, <1>6, <1>7, StepKeeps

LEMMA TickKeeps ==
  ASSUME TierInv, TierTick
  PROVE  TierInv'
<1>1. /\ clock = 0 /\ clock' = 1 /\ tab' = tab /\ dead' = dead /\ dbOf' = dbOf
      /\ want' = want /\ store' = store /\ IsStore(store)
  BY Zenon, HereIs DEF TierTick
<1>2. Good(Here) /\ Here.tab = tab /\ Here.dead = dead /\ Here.s = store
  BY Zenon, HereGood
<1>3. ASSUME ~PersistCold PROVE Match(Here, want', clock')
  <2>1. Match(Here, want, clock)
    BY Zenon, <1>2, <1>3 DEF Good
  <2>2. \A k \in ColdKeys : Lapsed(want[k], clock) => FALSE
    BY <1>1, <2>1 DEF Lapsed, Match, Wants
  <2> QED BY Zenon, <1>1, <2>1, <2>2 DEF Match, MatchAt
<1> QED BY Zenon, <1>1, <1>2, <1>3, StepKeeps DEF Good

\* RENAME: dst gets the entry and the deadline of src.
Renamed(h, src, dst) ==
  [SetKv(h, dst, h.tab[src]) EXCEPT !.dead[dst] = h.dead[src], !.tab[src] = Gone, !.dead[src] = 0]

(* Nothing else changes, and dst has what src had.                         *)
LEMMA RenamedHolds ==
  ASSUME NEW h, Holds(h), NEW src \in ColdKeys, NEW dst \in ColdKeys, src # dst,
         dbOf[src] = dbOf[dst], h.tab[src] # Gone
  PROVE  LET z == Renamed(h, src, dst) IN
         /\ Holds(z) /\ Content(z, src) = Gone /\ Content(z, dst) = Content(h, src)
         /\ \A j \in ColdKeys : j \notin {src, dst} =>
              z.tab[j] = h.tab[j] /\ Content(z, j) = Content(h, j)
<1> DEFINE g == Forget(h, dst)
           u == [h.tab EXCEPT ![dst] = Gone]
           t == [[h.tab EXCEPT ![dst] = h.tab[src]] EXCEPT ![src] = Gone]
           e == [[[h.dead EXCEPT ![dst] = 0] EXCEPT ![dst] = h.dead[src]] EXCEPT ![src] = 0]
           m == SetKv(h, dst, h.tab[src])
           z == Renamed(h, src, dst)
<1>1. /\ IsHost(g) /\ g.tab = h.tab /\ g.dead = h.dead
      /\ u \in Tables /\ Fits(u, g.s) /\ Kept(u, h.s, g.s)
  BY Zenon, ForgetFits
<1>2. h.tab \in Tables /\ h.dead \in Deads
  BY Zenon DEF Holds, IsHost
<1>3. m = [g EXCEPT !.tab[dst] = h.tab[src], !.dead[dst] = 0]
  BY Zenon DEF SetKv
<1>0. z = [m EXCEPT !.dead[dst] = h.dead[src], !.tab[src] = Gone, !.dead[src] = 0]
  BY Zenon DEF Renamed
<1> HIDE DEF g, m, z
<1>4. t \in Tables /\ e \in Deads
  BY Zenon, <1>2 DEF Tables, Deads, Entries
<1>5. IsHost(z) /\ z.tab = t /\ z.dead = e /\ z.s = g.s
  <2>1. /\ IsHost(m) /\ m.s = g.s /\ m.tab = [h.tab EXCEPT ![dst] = h.tab[src]]
        /\ m.dead = [h.dead EXCEPT ![dst] = 0]
    <3> DEFINE t1 == [h.tab EXCEPT ![dst] = h.tab[src]]
               e1 == [h.dead EXCEPT ![dst] = 0]
    <3>1. t1 \in Tables /\ e1 \in Deads
      BY Zenon, <1>2 DEF Tables, Deads
    <3>2. m = [g EXCEPT !.tab = t1, !.dead = e1]
      BY Zenon, <1>1, <1>3
    <3> HIDE DEF t1, e1
    <3>3. IsHost(m) /\ m.s = g.s /\ m.tab = t1 /\ m.dead = e1
      BY Zenon, <1>1, <3>1, <3>2 DEF IsHost
    <3> QED BY Zenon, <3>3 DEF t1, e1
  <2>2. z = [m EXCEPT !.tab = t, !.dead = e]
    BY Zenon, <1>0, <2>1 DEF IsHost
  <2> HIDE DEF t, e
  <2> QED BY Zenon, <1>4, <2>1, <2>2 DEF IsHost
<1>6. /\ t[src] = Gone /\ t[dst] = h.tab[src] /\ e[dst] = h.dead[src]
      /\ \A j \in ColdKeys : j \notin {src, dst} => t[j] = h.tab[j] /\ e[j] = h.dead[j]
  BY Zenon, <1>2 DEF Tables, Deads
<1>7. u[dst] = Gone /\ \A j \in ColdKeys : j # dst => u[j] = h.tab[j]
  BY Zenon, <1>2 DEF Tables
<1> HIDE DEF t, e, u
<1>8. Fits(t, g.s)
  <2>1. u[src] = t[dst] /\ \A k \in ColdKeys : k \notin {src, dst} => t[k] = u[k]
    BY Zenon, <1>6, <1>7
  <2> QED BY Zenon, <2>1, <1>1, <1>4, <1>6, <1>7, MovedFit
<1> DEFINE From(k) == IF k = dst THEN src ELSE k
<1>9. ASSUME NEW k \in ColdKeys, k # src
      PROVE  /\ From(k) \in ColdKeys
             /\ z.tab[k] = h.tab[From(k)] /\ z.dead[k] = h.dead[From(k)]
             /\ z.tab[k].is = "cold" => RecordOf(z.s, z.tab[k].rid) = RecordOf(h.s, z.tab[k].rid)
  <2>1. From(k) \in ColdKeys /\ From(k) # dst
    BY Zenon, <1>9
  <2>2. z.tab[k] = h.tab[From(k)] /\ z.dead[k] = h.dead[From(k)]
    BY Zenon, <1>9, <1>5, <1>6
  <2> HIDE DEF From
  <2>3. u[From(k)] = z.tab[k]
    BY Zenon, <1>7, <2>1, <2>2
  <2>4. z.tab[k].is = "cold" => RecordOf(g.s, z.tab[k].rid) = RecordOf(h.s, z.tab[k].rid)
    BY Zenon, <1>1, <2>1, <2>3 DEF Kept
  <2> QED BY Zenon, <2>1, <2>2, <2>4, <1>5
<1>10. ASSUME NEW k \in ColdKeys, k # src PROVE Content(z, k) = Content(h, From(k))
  <2>1. z.tab[k] \in Entries
    BY Zenon, <1>4, <1>5 DEF Tables
  <2>2. z.tab[k] = Gone \/ z.tab[k].is = "hot" \/ z.tab[k].is = "cold"
    BY Zenon, <2>1, EntryIs
  <2>3. /\ z.tab[k] = h.tab[From(k)] /\ z.dead[k] = h.dead[From(k)]
        /\ z.tab[k].is = "cold" => RecordOf(z.s, z.tab[k].rid) = RecordOf(h.s, z.tab[k].rid)
    BY Zenon, <1>9, <1>10
  <2> HIDE DEF From
  <2> QED BY Zenon, <2>2, <2>3 DEF Content
<1>11. Holds(z)
  <2>1. ASSUME ~PersistCold, NEW k \in ColdKeys, z.tab[k].is = "cold"
        PROVE  RecordOf(z.s, z.tab[k].rid).x = z.dead[k]
    <3>1. k # src
      BY <2>1, <1>5, <1>6 DEF Gone
    <3>2. /\ From(k) \in ColdKeys /\ z.tab[k] = h.tab[From(k)] /\ z.dead[k] = h.dead[From(k)]
          /\ RecordOf(z.s, z.tab[k].rid) = RecordOf(h.s, z.tab[k].rid)
      BY Zenon, <1>9, <2>1, <3>1
    <3> HIDE DEF From
    <3> QED BY Zenon, <2>1, <3>2 DEF Holds
  <2> QED BY Zenon, <2>1, <1>5, <1>8 DEF Holds
<1>12. Content(z, src) = Gone
  BY Zenon, <1>5, <1>6, ContentIs
<1>13. Content(z, dst) = Content(h, src)
  BY Zenon, <1>10
<1>14. \A j \in ColdKeys : j \notin {src, dst} => z.tab[j] = h.tab[j] /\ Content(z, j) = Content(h, j)
  BY Zenon, <1>5, <1>6, <1>10
<1> HIDE DEF From
<1> QED BY Zenon, <1>11, <1>12, <1>13, <1>14 DEF z

LEMMA RenameKeeps ==
  ASSUME TierInv, NEW disk \in Disk, NEW src \in ColdKeys, NEW dst \in ColdKeys, src # dst,
         ColdRename(src, dst, disk)
  PROVE  TierInv'
<1> DEFINE f == ExpireIfNeeded(Before(disk), src)
           h == ExpireIfNeeded(f, dst)
           z == Renamed(h, src, dst)
           w == [[want EXCEPT ![dst] = Wanted(src)] EXCEPT ![src] = Gone]
<1>1. Good(f) /\ (f.tab[src] # Gone => ~Expired(f, src))
  BY Zenon, BeforeGood, ExpireGood
<1>2. Good(h) /\ Agree(f, h, dst)
  <2> HIDE DEF f
  <2> QED BY Zenon, <1>1, ExpireGood
<1>3. h.tab[src] # Gone => ~Expired(h, src)
  <2> HIDE DEF f, h
  <2> QED BY Zenon, <1>1, <1>2 DEF Agree, Expired
<1>4. CASE h.tab[src] = Gone
  <2>1. After(h, disk) /\ UNCHANGED want
    BY Zenon, <1>4 DEF ColdRename
  <2> HIDE DEF h
  <2> QED BY Zenon, <2>1, <1>2, AfterGood
<1>5. CASE h.tab[src] # Gone
  <2>1. dbOf[src] = dbOf[dst] /\ After(z, disk) /\ want' = w
    BY Zenon, <1>5 DEF ColdRename, Renamed
  <2> HIDE DEF h
  <2>2. /\ Holds(z) /\ Content(z, src) = Gone /\ Content(z, dst) = Content(h, src)
        /\ \A j \in ColdKeys : j \notin {src, dst} =>
             z.tab[j] = h.tab[j] /\ Content(z, j) = Content(h, j)
    <3>1. Holds(h)
      BY Zenon, <1>2 DEF Good
    <3>2. dbOf[src] = dbOf[dst]
      BY Zenon, <2>1
    <3> QED BY Zenon, <3>1, <3>2, <1>5, RenamedHolds
  <2> HIDE DEF z
  <2>3. ASSUME ~PersistCold PROVE Match(z, want', clock)
    <3>1. Match(h, want, clock)
      BY Zenon, <1>2, <2>3 DEF Good
    <3>2. want \in [ColdKeys -> Wants] /\ want[src] = Content(h, src)
      BY Zenon, <3>1, <1>5 DEF Match, MatchAt
    <3>3. Wanted(src) = want[src]
      BY Zenon, <3>2, <1>3, <1>5, ContentIs DEF Wanted, Expired
    <3>4. w \in [ColdKeys -> Wants]
      BY Zenon, <3>2, <3>3 DEF Wants
    <3>5. w[src] = Gone /\ w[dst] = want[src] /\ \A j \in ColdKeys : j \notin {src, dst} => w[j] = want[j]
      BY Zenon, <3>2, <3>3
    <3> HIDE DEF w
    <3>6. \A j \in ColdKeys : MatchAt(z, w, clock, j)
      BY Zenon, <3>1, <3>2, <3>5, <2>2 DEF Match, MatchAt
    <3> QED BY Zenon, <3>4, <3>6, <2>1 DEF Match
  <2> QED BY Zenon, <2>1, <2>2, <2>3, AfterKeeps
<1> QED BY Zenon, <1>4, <1>5

LEMMA TierInitially ==
  ASSUME TierInit
  PROVE  TierInv
<1> DEFINE t == [k \in ColdKeys |-> Gone]
<1>1. /\ tab = t /\ dead = [k \in ColdKeys |-> 0] /\ store = EmptyStore /\ clock = 0
      /\ want = t /\ dbOf \in Layouts
  BY Zenon DEF TierInit
<1>2. /\ IsStore(store) /\ store.next = 1 /\ store.log = <<>> /\ store.index = [r \in {} |-> 0]
      /\ DOMAIN store.index = {}
  <2>1. /\ store.log = <<>> /\ store.index = [r \in {} |-> 0] /\ store.next = 1 /\ store.failed = FALSE
        /\ store.torn = FALSE /\ store.rc = TRUE /\ store.io = 9 /\ store.left = "none"
    BY <1>1 DEF EmptyStore, Plenty
  <2>2. <<>> \in Seq(Records)
    OBVIOUS
  <2>3. IsStore(store)
    BY <1>1, <2>2 DEF IsStore, EmptyStore, Plenty
  <2> QED BY <2>1, <2>3
<1>3. ReplayLog(store.log) = Blank
  BY Zenon, <1>2, ReplayEmpty
<1>4. StoreOk(store)
  <2>1. ReplayLog(store.log).index = store.index /\ ReplayLog(store.log).next <= store.next
    BY <1>2, <1>3 DEF Blank
  <2>2. Indexes(store.index, store.log, store.next)
    BY Zenon, <1>2 DEF Indexes, IsMap
  <2> QED BY <1>2, <2>1, <2>2 DEF StoreOk
<1>5. t \in Tables /\ want \in [ColdKeys -> Wants] /\ dead \in Deads /\ \A k \in ColdKeys : t[k] = Gone
  BY Zenon, <1>1 DEF Tables, Entries, Wants, Deads
<1>6. Gone.is # "cold"
  BY Zenon DEF Gone
<1>7. Fits(tab, store)
  BY Zenon, <1>1, <1>4, <1>5, <1>6 DEF Fits, RefsOk
<1>8. IsHost(Here) /\ Here.tab = t /\ Here.s = store
  BY Zenon, <1>1, <1>5 DEF IsHost, Here
<1>9. Holds(Here)
  BY Zenon, <1>1, <1>5, <1>6, <1>7, <1>8 DEF Holds
<1>10. Match(Here, want, clock)
  BY Zenon, <1>1, <1>5, <1>8, ContentIs DEF Match, MatchAt
<1> QED BY Zenon, <1>1, <1>9, <1>10 DEF TierInv

LEMMA TierStep ==
  ASSUME TierInv, [TierNext]_tierVars
  PROVE  TierInv'
<1>1. ASSUME NEW k \in ColdKeys, NEW disk \in Disk, ColdGet(k, disk) PROVE TierInv'
  BY Zenon, <1>1, GetKeeps
<1>2. ASSUME NEW k \in ColdKeys, NEW disk \in Disk, ColdDel(k, disk) PROVE TierInv'
  BY Zenon, <1>2, DelKeeps
<1>3. ASSUME NEW k \in ColdKeys, NEW disk \in Disk, ColdExpire(k, disk) PROVE TierInv'
  BY Zenon, <1>3, ExpireKeeps
<1>4. ASSUME NEW k \in ColdKeys, NEW disk \in Disk, ColdPersist(k, disk) PROVE TierInv'
  BY Zenon, <1>4, PersistKeeps
<1>5. ASSUME NEW k \in ColdKeys, NEW disk \in Disk, NEW enabled \in BOOLEAN, Evict(k, enabled, disk)
      PROVE  TierInv'
  BY Zenon, <1>5, EvictKeeps
<1>6. ASSUME NEW k \in ColdKeys, NEW disk \in Disk, DbFlush(dbOf[k], disk) PROVE TierInv'
  BY Zenon, <1>6, DbFlushKeeps
<1>7. ASSUME NEW k \in ColdKeys, NEW disk \in Disk, NEW v \in ColdVals[k], NEW looks \in BOOLEAN,
             ColdSet(k, v, looks, disk)
      PROVE  TierInv'
  BY Zenon, <1>7, SetKeeps
<1>8. ASSUME NEW k \in ColdKeys, NEW disk \in Disk, NEW dst \in ColdKeys \ {k}, ColdRename(k, dst, disk)
      PROVE  TierInv'
  BY Zenon, <1>8, RenameKeeps
<1>9. ASSUME NEW k \in ColdKeys, ColdFlush(dbOf[k]) PROVE TierInv'
  BY Zenon, <1>9, ColdFlushKeeps
<1>10. ASSUME NEW disk \in Disk, NEW order \in Orders(DOMAIN store.index), Compact(order, disk)
       PROVE  TierInv'
  BY Zenon, <1>10, CompactKeeps
<1>11. CASE UNCHANGED tierVars
  <2>1. /\ dbOf' = dbOf /\ tab' = tab /\ dead' = dead /\ store' = store /\ clock' = clock
        /\ want' = want /\ clock \in {0, 1} /\ IsStore(store)
    BY Zenon, <1>11, HereIs DEF tierVars, TierInv
  <2>2. Holds(Here) /\ (~PersistCold => Match(Here, want', clock'))
    BY Zenon, <2>1, HereGood DEF Good
  <2> QED BY Zenon, <2>1, <2>2, HereGood, StepKeeps
<1> QED BY Zenon, <1>1, <1>2, <1>3, <1>4, <1>5, <1>6, <1>7, <1>8, <1>9, <1>10, <1>11,
           ReopenKeeps, TickKeeps DEF TierNext

(* What the invariant says.                                                *)
LEMMA InvReplays ==
  ASSUME TierInv
  PROVE  ReplayExact
<1> SUFFICES ASSUME ~store.failed, Opens(store)
             PROVE  /\ ReplayLog(store.log).index = store.index
                    /\ \A rid \in DOMAIN store.index :
                         rid < ReplayLog(store.log).next /\ ReplayLog(store.log).next <= store.next
  BY Zenon DEF ReplayExact
<1> DEFINE R == ReplayLog(store.log)
<1>1. R.ok /\ store.log \in Seq(Records) /\ R.index = store.index /\ R.next <= store.next
  BY Zenon, HereIs DEF Fits, StoreOk, IsStore, Opens
<1>2. Replays(R, store.log, Len(store.log))
  BY Zenon, <1>1, ReplayKeepsIndex
<1> HIDE DEF R
<1>3. \A rid \in DOMAIN R.index : rid < R.next
  BY Zenon, <1>1, <1>2 DEF Replays, Indexes
<1> QED BY Zenon, <1>1, <1>3 DEF R

LEMMA InvReadsBack ==
  ASSUME TierInv, ~PersistCold
  PROVE  ColdReadsBack
<1> SUFFICES ASSUME NEW k \in ColdKeys PROVE Seen(k) = Wanted(k)
  BY Zenon DEF ColdReadsBack
<1>1. /\ Here.tab = tab /\ Here.dead = dead /\ Here.s = store /\ Holds(Here)
      /\ MatchAt(Here, want, clock, k) /\ tab[k] \in Entries /\ Fits(tab, store)
  BY Zenon, HereGood, HereIs DEF Good, Match, Tables
<1>2. CASE tab[k] = Gone
  <2>1. want[k] = Gone \/ Lapsed(want[k], clock)
    BY Zenon, <1>1, <1>2, ContentIs DEF MatchAt
  <2> QED BY Zenon, <1>2, <2>1 DEF Seen, Wanted, Lapsed
<1>3. CASE tab[k] # Gone
  <2>1. want[k] = Content(Here, k) /\ want[k] # Gone /\ want[k].x = dead[k]
    BY Zenon, <1>1, <1>3, ContentIs DEF MatchAt
  <2>2. CASE dead[k] # 0 /\ dead[k] <= clock
    BY Zenon, <2>1, <2>2 DEF Seen, Wanted
  <2>3. CASE ~ (dead[k] # 0 /\ dead[k] <= clock)
    <3>1. Wanted(k) = Content(Here, k)
      BY Zenon, <2>1, <2>3 DEF Wanted
    <3>2. CASE tab[k].is = "hot"
      BY Zenon, <3>1, <3>2, <2>3, <1>1, <1>3 DEF Seen, Content
    <3>3. CASE tab[k].is = "cold"
      <4>1. tab[k].rid \in DOMAIN store.index
        BY Zenon, <3>3, <1>1 DEF Fits, RefsOk
      <4>2. RecordOf(store, tab[k].rid).x = dead[k]
        BY Zenon, <3>3, <1>1 DEF Holds
      <4> QED BY Zenon, <3>1, <3>3, <4>1, <4>2, <2>3, <1>1, <1>3 DEF Seen, Content
    <3> QED BY Zenon, <3>2, <3>3, <1>1, <1>3, EntryIs
  <2> QED BY Zenon, <2>2, <2>3
<1> QED BY Zenon, <1>2, <1>3

-----------------------------------------------------------------------------
(* A log that is opened again gives the index that the store had, whatever *)
(* was put, deleted, flushed, compacted and replayed before, and wherever  *)
(* reads and writes of the log failed, as long as no failure has closed it *)
(* to writes (tier_open, append_record, tier_compact).                     *)
THEOREM ReplayIsExact == TierSpec => []ReplayExact
<1>1. TierInit => TierInv
  BY Zenon, TierInitially
<1>2. TierInv /\ [TierNext]_tierVars => TierInv'
  BY Zenon, TierStep
<1>3. TierInv => ReplayExact
  BY Zenon, InvReplays
<1> QED BY <1>1, <1>2, <1>3, PTL DEF TierSpec

(* The cold tier cannot be told from a keyspace without it: every lookup   *)
(* finds the value and the deadline that the commands gave the key, hot or *)
(* offloaded, failures of the disk included (db_tier_offload,              *)
(* db_tier_materialize, tier_compact, tier_open).  PERSIST of an offloaded *)
(* key is the exception, and left out.                                     *)
THEOREM ColdTierInvisible ==
  ASSUME ~PersistCold
  PROVE  TierSpec => []ColdReadsBack
<1>1. TierInit => TierInv
  BY Zenon, TierInitially
<1>2. TierInv /\ [TierNext]_tierVars => TierInv'
  BY Zenon, TierStep
<1>3. TierInv => ColdReadsBack
  BY Zenon, InvReadsBack
<1> QED BY <1>1, <1>2, <1>3, PTL DEF TierSpec
=============================================================================
