---------------------------- MODULE QuorumProofs ----------------------------
(***************************************************************************)
(* FAIL in a cluster of masters, of any size, each of which keeps the      *)
(* slots it started with.                                                  *)
(***************************************************************************)
EXTENDS ClusterProofs

\* No replicas; operators neither take a slot from its first owner nor remove
\* a node from a table.
MastersOnly(c) ==
  /\ \A m \in c.nodes : c.of[m] = None /\ c.slots[m] \cap c.claims = {}
  /\ c.masters = {m \in c.nodes : c.slots[m] # {}}
  /\ c.acts \cap {"FlushSlots", "Replicate", "Forget", "Reset"} = {}

\* sus[m]: who ever found m silent.
Agreed(c, sus, m) ==
  \/ m \in c.down
  \/ Cardinality({k \in sus[m] : c.of[k] = None}) >= Cardinality(c.masters) \div 2 + 1

Blames(c, sus, k, m) == k \in sus[m] \/ Agreed(c, sus, m)

\* The slots S that somebody takes for m's, and those of the first owners.
Keeps(c, m, S) == \A k \in c.nodes : IF k = m THEN c.slots[k] \subseteq S ELSE S \cap c.slots[k] = {}

\* What n may have in its table about m, and what r may tell of it.
HonestEntry(c, sus, n, m, e) ==
  /\ e.of = None /\ Keeps(c, m, e.slots)
  /\ e.fail => Agreed(c, sus, m)
  /\ e.pfail => Blames(c, sus, n, m)
  /\ \A r \in e.reps : r # n /\ Blames(c, sus, r, m)

Honest(c, sus, n, t) == DOMAIN t = c.nodes /\ \A m \in c.nodes : HonestEntry(c, sus, n, m, t[m])

HonestGossip(c, sus, r, m, g) == Keeps(c, m, g.slots) /\ (g.pfail \/ g.fail => Blames(c, sus, r, m))

HonestFrame(c, sus, k, f) ==
  /\ f.type \in {"PING", "PONG", "MEET"} =>
       /\ f.from = Sender(k) /\ f.of = None /\ Keeps(c, f.from, f.slots)
       /\ \A m \in DOMAIN f.gossip : HonestGossip(c, sus, f.from, m, f.gossip[m])
  /\ f.type = "FAIL" => Agreed(c, sus, f.node)

HonestNet(c, sus, q) == \A k \in DOMAIN q : \A i \in 1 .. Len(q[k]) : HonestFrame(c, sus, k, q[k][i])

QuorumInv ==
  MastersOnly(conf) =>
    /\ suspects \in [conf.nodes -> SUBSET conf.nodes]
    /\ \A n \in conf.nodes : /\ Honest(conf, suspects, n, nd[n].tab) /\ ~nd[n].due
                             /\ Honest(conf, suspects, n, disk[n])
    /\ HonestNet(conf, suspects, net)

-----------------------------------------------------------------------------
(* Suspicions only grow, and what was honest stays so.                     *)

Grows(c, sus, sus2) ==
  /\ sus \in [c.nodes -> SUBSET c.nodes] /\ sus2 \in [c.nodes -> SUBSET c.nodes]
  /\ \A m \in c.nodes : sus[m] \subseteq sus2[m]

LEMMA AgreedGrows ==
  ASSUME NEW c \in Confs, MastersOnly(c), NEW sus, NEW sus2, Grows(c, sus, sus2), NEW m \in c.nodes
  PROVE  /\ Agreed(c, sus, m) => Agreed(c, sus2, m)
         /\ \A k : Blames(c, sus, k, m) => Blames(c, sus2, k, m)
<1> DEFINE A == {k \in sus[m] : c.of[k] = None}
           B == {k \in sus2[m] : c.of[k] = None}
           q == Cardinality(c.masters) \div 2 + 1
<1>1. sus2[m] \subseteq c.nodes /\ sus[m] \subseteq sus2[m]
  BY Zenon DEF Grows
<1>2. IsFiniteSet(B) /\ A \subseteq B
  BY Zenon, <1>1, NodesAre, FS_Subset
<1> HIDE DEF A, B
<1>3. Cardinality(A) \in Nat /\ Cardinality(B) \in Nat /\ Cardinality(A) <= Cardinality(B)
  BY Zenon, <1>2, FS_Subset, FS_CardinalityType
<1>4. /\ Agreed(c, sus, m) <=> m \in c.down \/ Cardinality(A) >= q
      /\ Agreed(c, sus2, m) <=> m \in c.down \/ Cardinality(B) >= q
  BY Zenon DEF Agreed, A, B
<1>5. Agreed(c, sus, m) => Agreed(c, sus2, m)
  <2> SUFFICES ASSUME Cardinality(A) >= q PROVE Cardinality(B) >= q
    BY Zenon, <1>4
  <2>1. IsFiniteSet(c.masters)
    BY Zenon, NodesAre, FS_Subset DEF MastersOnly
  <2>2. Cardinality(c.masters) \in Nat
    BY Zenon, <2>1, FS_CardinalityType
  <2>3. q \in Nat
    BY <2>2
  <2> HIDE DEF q
  <2>4. \A a, b, d \in Nat : a <= b /\ a >= d => b >= d
    OBVIOUS
  <2> QED BY Zenon, <1>3, <2>3, <2>4
<1> QED BY Zenon, <1>1, <1>5 DEF Blames

LEMMA HonestGrows ==
  ASSUME NEW c \in Confs, MastersOnly(c), NEW sus, NEW sus2, Grows(c, sus, sus2)
  PROVE  /\ \A n, t : Honest(c, sus, n, t) => Honest(c, sus2, n, t)
         /\ \A q \in Nets(c) : HonestNet(c, sus, q) => HonestNet(c, sus2, q)
<1>1. \A n, e : \A m \in c.nodes : HonestEntry(c, sus, n, m, e) => HonestEntry(c, sus2, n, m, e)
  BY Zenon, AgreedGrows DEF HonestEntry
<1>2. ASSUME NEW k, NEW f \in Frames(c), HonestFrame(c, sus, k, f) PROVE HonestFrame(c, sus2, k, f)
  <2>1. ASSUME f.type \in {"PING", "PONG", "MEET"}
        PROVE  \A m \in DOMAIN f.gossip : HonestGossip(c, sus2, f.from, m, f.gossip[m])
    <3>1. f \in Pings(c)
      BY Zenon, <2>1 DEF Frames
    <3>2. \A m \in DOMAIN f.gossip : m \in c.nodes
      BY Zenon, <3>1, PingIs
    <3> QED BY Zenon, <1>2, <2>1, <3>2, AgreedGrows DEF HonestFrame, HonestGossip
  <2>2. ASSUME f.type = "FAIL" PROVE Agreed(c, sus2, f.node)
    <3>1. f.node \in c.nodes
      BY Zenon, <2>2 DEF Frames, Pings
    <3> QED BY Zenon, <1>2, <2>2, <3>1, AgreedGrows DEF HonestFrame
  <2> QED BY Zenon, <1>2, <2>1, <2>2 DEF HonestFrame
<1>3. ASSUME NEW q \in Nets(c), HonestNet(c, sus, q) PROVE HonestNet(c, sus2, q)
  <2>1. \A k \in DOMAIN q : \A i \in 1 .. Len(q[k]) : q[k][i] \in Frames(c)
    BY NetIs
  <2> QED BY Zenon, <1>2, <1>3, <2>1 DEF HonestNet
<1> QED BY Zenon, <1>1, <1>3 DEF Honest

-----------------------------------------------------------------------------
(* A quorum in an honest table is a majority of suspicions.                *)

Sound(c, sus) == c \in Confs /\ MastersOnly(c) /\ sus \in [c.nodes -> SUBSET c.nodes]

Calm(c, sus, n, x) == n \in c.nodes /\ Good(c, n, x) /\ Honest(c, sus, n, x.tab) /\ ~x.due

LEMMA QuorumAgrees ==
  ASSUME NEW c, NEW sus, Sound(c, sus), NEW n, NEW x, Calm(c, sus, n, x), NEW m \in c.nodes,
         Quorum(x, n, m)
  PROVE  Agreed(c, sus, m)
<1> SUFFICES ASSUME ~Agreed(c, sus, m) PROVE FALSE
  BY Zenon
<1> DEFINE t == x.tab
           R == t[m].reps
           M == Cardinality(c.masters)
           V == Cardinality(Serving(t))
<1>1. /\ c \in Confs /\ \A k \in c.nodes : c.of[k] = None
      /\ c.masters = {k \in c.nodes : c.slots[k] # {}} /\ sus[m] \subseteq c.nodes
  BY Zenon DEF Sound, MastersOnly
<1>2. HonestEntry(c, sus, n, m, t[m]) /\ DOMAIN t = c.nodes /\ n \in c.nodes
  BY Zenon DEF Calm, Honest
<1>3. t[m].pfail
  BY Zenon DEF Quorum
<1>4. n \in sus[m] /\ R \subseteq sus[m] /\ n \notin R
  BY Zenon, <1>2, <1>3 DEF HonestEntry, Blames
<1>5. IsFiniteSet(sus[m]) /\ IsFiniteSet(R) /\ IsFiniteSet(R \cup {n})
  <2>1. IsFiniteSet(c.nodes) /\ R \cup {n} \subseteq sus[m]
    BY Zenon, <1>1, <1>4, NodesAre
  <2> QED BY Zenon, <1>1, <1>4, <2>1, FS_Subset
<1>6. /\ Cardinality(R) \in Nat /\ Cardinality(R \cup {n}) = Cardinality(R) + 1
      /\ Cardinality(R \cup {n}) <= Cardinality(sus[m]) /\ Cardinality(sus[m]) \in Nat
  <2>1. R \cup {n} \subseteq sus[m]
    BY Zenon, <1>4
  <2> QED BY Zenon, <1>4, <1>5, <2>1, FS_Subset, FS_AddElement, FS_CardinalityType
<1>7. {k \in sus[m] : c.of[k] = None} = sus[m]
  BY Zenon, <1>1
<1>8. ~(Cardinality(sus[m]) >= M \div 2 + 1)
  BY Zenon, <1>7 DEF Agreed
<1>9. c.masters \subseteq Serving(t) /\ IsFiniteSet(Serving(t))
  <2>1. \A k \in c.masters : k \in c.nodes /\ t[k].of = None /\ c.slots[k] # {} /\ c.slots[k] \subseteq t[k].slots
    BY Zenon, <1>1 DEF Calm, Honest, HonestEntry, Keeps
  <2>2. c.masters \subseteq Serving(t)
    BY Zenon, <1>2, <2>1 DEF Serving, IsMaster
  <2>3. Serving(t) \subseteq c.nodes
    BY Zenon, <1>2 DEF Serving
  <2> QED BY Zenon, <1>1, <2>2, <2>3, NodesAre, FS_Subset
<1>10. M \in Nat /\ V \in Nat /\ M <= V
  BY Zenon, <1>9, FS_Subset, FS_CardinalityType
<1>11. Failures(x, n, m) <= Cardinality(R) + 1 /\ Failures(x, n, m) >= V \div 2 + 1 /\ Failures(x, n, m) \in Nat
  BY <1>6 DEF Failures, Quorum
<1> HIDE DEF R, M, V
<1> QED BY <1>6, <1>8, <1>10, <1>11

-----------------------------------------------------------------------------
(* What the operations do to an honest table.                              *)

LEMMA CalmTable ==
  ASSUME NEW c, NEW sus, NEW n, NEW x, Calm(c, sus, n, x), NEW t, Honest(c, sus, n, t),
         Good(c, n, [x EXCEPT !.tab = t])
  PROVE  Calm(c, sus, n, [x EXCEPT !.tab = t]) /\ [x EXCEPT !.tab = t].tab = t
<1>1. x \in States(c)
  BY Zenon DEF Calm, Good
<1>2. [x EXCEPT !.tab = t].tab = t /\ [x EXCEPT !.tab = t].due = x.due
  BY Zenon, <1>1 DEF States
<1> QED BY Zenon, <1>2 DEF Calm

LEMMA HonestSet ==
  ASSUME NEW c, NEW sus, NEW n, NEW t, Honest(c, sus, n, t), NEW m \in c.nodes, NEW e,
         HonestEntry(c, sus, n, m, e)
  PROVE  Honest(c, sus, n, [t EXCEPT ![m] = e])
BY Zenon DEF Honest

LEMMA MarkFailCalm ==
  ASSUME NEW c, NEW sus, NEW n, NEW x, Calm(c, sus, n, x), NEW m \in c.nodes, Agreed(c, sus, m)
  PROVE  Calm(c, sus, n, MarkFail(x, n, m))
<1> DEFINE e == [x.tab[m] EXCEPT !.pfail = FALSE, !.fail = TRUE]
           t == [x.tab EXCEPT ![m] = e]
<1>1. /\ Good(c, n, x) /\ x \in States(c) /\ Honest(c, sus, n, x.tab) /\ DOMAIN x.tab = c.nodes
      /\ HonestEntry(c, sus, n, m, x.tab[m])
  BY Zenon DEF Calm, Good, Honest
<1>2. x.tab[m] \in Entries(Slots(c))
  BY Zenon, <1>1, EntryIs
<1>3. HonestEntry(c, sus, n, m, e)
  BY Zenon, <1>1, <1>2 DEF HonestEntry, Entries
<1>4. [x EXCEPT !.tab[m].pfail = FALSE, !.tab[m].fail = TRUE] = [x EXCEPT !.tab = t]
  BY Zenon, <1>1 DEF States
<1>5. Good(c, n, MarkFail(x, n, m))
  BY Zenon, <1>1, MarkFailGood
<1> HIDE DEF e
<1>6. Honest(c, sus, n, t)
  BY Zenon, <1>1, <1>3, HonestSet
<1> HIDE DEF t
<1>7. CASE m = n \/ x.tab[m].fail
  BY Zenon, <1>7 DEF MarkFail
<1>8. CASE ~(m = n \/ x.tab[m].fail)
  <2>1. MarkFail(x, n, m) = [x EXCEPT !.tab = t]
    BY Zenon, <1>4, <1>8 DEF MarkFail
  <2> QED BY <1>5, <1>6, <2>1, CalmTable
<1> QED BY Zenon, <1>7, <1>8

LEMMA QuorumCalm ==
  ASSUME NEW c, NEW sus, Sound(c, sus), NEW n, NEW x, Calm(c, sus, n, x), NEW m \in c.nodes
  PROVE  Calm(c, sus, n, MarkFailIfQuorum(x, n, m))
BY Zenon, QuorumAgrees, MarkFailCalm DEF MarkFailIfQuorum

(* The entry of m with other reports.                                      *)
LEMMA ReportsCalm ==
  ASSUME NEW c, NEW sus, NEW n, NEW x, Calm(c, sus, n, x), NEW m \in c.nodes, NEW R \in SUBSET Int,
         \A r \in R : r # n /\ Blames(c, sus, r, m), Good(c, n, [x EXCEPT !.tab[m].reps = R])
  PROVE  Calm(c, sus, n, [x EXCEPT !.tab[m].reps = R])
<1> DEFINE e == [x.tab[m] EXCEPT !.reps = R]
           t == [x.tab EXCEPT ![m] = e]
<1>1. /\ Good(c, n, x) /\ x \in States(c) /\ Honest(c, sus, n, x.tab) /\ DOMAIN x.tab = c.nodes
      /\ HonestEntry(c, sus, n, m, x.tab[m])
  BY Zenon DEF Calm, Good, Honest
<1>2. x.tab[m] \in Entries(Slots(c))
  BY Zenon, <1>1, EntryIs
<1>3. HonestEntry(c, sus, n, m, e)
  BY Zenon, <1>1, <1>2 DEF HonestEntry, Entries
<1>4. [x EXCEPT !.tab[m].reps = R] = [x EXCEPT !.tab = t]
  BY Zenon, <1>1 DEF States
<1> HIDE DEF e
<1>5. Honest(c, sus, n, t)
  BY Zenon, <1>1, <1>3, HonestSet
<1> HIDE DEF t
<1> QED BY <1>4, <1>5, CalmTable

LEMMA HealCalm ==
  ASSUME NEW c, NEW sus, NEW n, NEW x, Calm(c, sus, n, x), NEW m \in c.nodes, NEW r \in Int
  PROVE  Calm(c, sus, n, ReportHeal(x, m, r))
<1> DEFINE R == x.tab[m].reps \ {r}
<1>1. Good(c, n, x) /\ m \in DOMAIN x.tab /\ HonestEntry(c, sus, n, m, x.tab[m])
  BY Zenon DEF Calm, Honest
<1>2. R \in SUBSET Int
  BY Zenon, <1>1, EntryIs DEF Entries
<1>3. \A k \in R : k # n /\ Blames(c, sus, k, m)
  BY Zenon, <1>1 DEF HonestEntry
<1>4. ReportHeal(x, m, r) = [x EXCEPT !.tab[m].reps = R]
  BY Zenon DEF ReportHeal
<1>5. Good(c, n, ReportHeal(x, m, r))
  BY Zenon, <1>1, ReportsGood
<1> HIDE DEF R
<1> QED BY <1>2, <1>3, <1>4, <1>5, ReportsCalm

LEMMA FailureCalm ==
  ASSUME NEW c, NEW sus, NEW n, NEW x, Calm(c, sus, n, x), NEW m \in c.nodes, NEW r \in Int,
         r # n, Blames(c, sus, r, m)
  PROVE  Calm(c, sus, n, ReportFailure(x, m, r))
<1> DEFINE R == x.tab[m].reps \cup {r}
<1>1. Good(c, n, x) /\ m \in DOMAIN x.tab /\ HonestEntry(c, sus, n, m, x.tab[m])
  BY Zenon DEF Calm, Honest
<1>2. R \in SUBSET Int
  BY Zenon, <1>1, EntryIs DEF Entries
<1>3. \A k \in R : k # n /\ Blames(c, sus, k, m)
  BY Zenon, <1>1 DEF HonestEntry
<1>4. ReportFailure(x, m, r) = [x EXCEPT !.tab[m].reps = R]
  BY Zenon DEF ReportFailure
<1>5. Good(c, n, ReportFailure(x, m, r))
  BY Zenon, <1>1, ReportsGood
<1> HIDE DEF R
<1> QED BY <1>2, <1>3, <1>4, <1>5, ReportsCalm

LEMMA ReportCalm ==
  ASSUME NEW c, NEW sus, Sound(c, sus), NEW n, NEW x, Calm(c, sus, n, x), NEW m \in c.nodes,
         NEW f, f.from \in Int, f.from # n, NEW g, HonestGossip(c, sus, f.from, m, g)
  PROVE  Calm(c, sus, n, Report(x, n, f, m, g))
<1>1. CASE g.pfail \/ g.fail
  <2>1. Blames(c, sus, f.from, m)
    BY Zenon, <1>1 DEF HonestGossip
  <2>2. Calm(c, sus, n, ReportFailure(x, m, f.from))
    BY Zenon, <2>1, FailureCalm
  <2>3. Calm(c, sus, n, MarkFailIfQuorum(ReportFailure(x, m, f.from), n, m))
    BY Zenon, <2>2, QuorumCalm
  <2> QED BY Zenon, <1>1, <2>3 DEF Report
<1>2. CASE ~(g.pfail \/ g.fail)
  <2>1. Calm(c, sus, n, ReportHeal(x, m, f.from))
    BY Zenon, HealCalm
  <2> QED BY Zenon, <1>2, <2>1 DEF Report
<1> QED BY Zenon, <1>1, <1>2

(* The first owners win every contest for their slots.                     *)
LEMMA ContestHonest ==
  ASSUME NEW c \in Confs, NEW sus, NEW n, NEW t, TableGood(c, n, t), Honest(c, sus, n, t),
         NEW k \in c.nodes, NEW bm, Keeps(c, k, bm)
  PROVE  Honest(c, sus, n, Contest(t, k, bm))
<1> DEFINE u == Contest(t, k, bm)
<1>1. DOMAIN t = c.nodes /\ DOMAIN u = c.nodes /\ t \in [c.nodes -> Entries(Slots(c))]
  BY Zenon, TableIs DEF Honest, Contest, TableGood
<1>2. ASSUME NEW o \in c.nodes PROVE HonestEntry(c, sus, n, o, u[o])
  <2> DEFINE S == IF o = k THEN {s \in bm : \A h \in Holders(t, s) \ {k} : Better(t, k, h)}
                  ELSE {s \in t[o].slots : s \in bm => ~Better(t, k, o)}
  <2>1. u[o] = [t[o] EXCEPT !.slots = S]
    BY Zenon, <1>1 DEF Contest
  <2>2. HonestEntry(c, sus, n, o, t[o]) /\ t[o] \in Entries(Slots(c))
    BY Zenon, <1>1 DEF Honest
  <2>3. Keeps(c, o, S)
    <3>1. CASE o = k
      <4>1. ASSUME NEW s \in c.slots[k] PROVE s \in bm /\ Holders(t, s) \subseteq {k}
        <5>1. \A h \in c.nodes : h # k => s \notin t[h].slots
          BY Zenon, <4>1 DEF Honest, HonestEntry, Keeps
        <5> QED BY Zenon, <1>1, <4>1, <5>1 DEF Keeps, Holders
      <4>2. c.slots[k] \subseteq S
        BY Zenon, <3>1, <4>1
      <4>3. S \subseteq bm
        BY Zenon, <3>1
      <4> QED BY Zenon, <3>1, <4>2, <4>3 DEF Keeps
    <3>2. CASE o # k
      <4>1. c.slots[o] \cap bm = {}
        BY Zenon, <3>2 DEF Keeps
      <4>2. c.slots[o] \subseteq t[o].slots
        BY Zenon, <2>2 DEF HonestEntry, Keeps
      <4>3. c.slots[o] \subseteq S /\ S \subseteq t[o].slots
        BY Zenon, <3>2, <4>1, <4>2
      <4> HIDE DEF S
      <4> QED BY Zenon, <2>2, <4>3 DEF HonestEntry, Keeps
    <3> QED BY Zenon, <3>1, <3>2
  <2> HIDE DEF S, u
  <2>4. /\ u[o].slots = S /\ u[o].of = t[o].of /\ u[o].fail = t[o].fail /\ u[o].pfail = t[o].pfail
        /\ u[o].reps = t[o].reps
    BY Zenon, <2>1, <2>2 DEF Entries
  <2> QED BY Zenon, <2>2, <2>3, <2>4 DEF HonestEntry
<1> HIDE DEF u
<1>3. Honest(c, sus, n, u)
  BY Zenon, <1>1, <1>2 DEF Honest
<1> QED BY Zenon, <1>3 DEF u

LEMMA EpochHonest ==
  ASSUME NEW c, NEW sus, NEW n, NEW t, TableGood(c, n, t), Honest(c, sus, n, t), NEW k \in c.nodes, NEW e
  PROVE  Honest(c, sus, n, [t EXCEPT ![k].epoch = e])
<1> DEFINE y == [t[k] EXCEPT !.epoch = e]
<1>1. t[k] \in Entries(Slots(c)) /\ HonestEntry(c, sus, n, k, t[k])
  BY Zenon, TableIs DEF TableGood, Honest
<1>2. HonestEntry(c, sus, n, k, y)
  BY Zenon, <1>1 DEF HonestEntry, Entries
<1>3. [t EXCEPT ![k].epoch = e] = [t EXCEPT ![k] = y]
  BY Zenon
<1> HIDE DEF y
<1> QED BY Zenon, <1>2, <1>3, HonestSet

LEMMA MergeCalm ==
  ASSUME NEW c \in Confs, NEW sus, NEW n, NEW x, Calm(c, sus, n, x), NEW k \in c.nodes,
         NEW bm \in SUBSET Slots(c), NEW e \in Nat, Keeps(c, k, bm)
  PROVE  Calm(c, sus, n, MergeClaims(x, n, k, bm, e))
<1> DEFINE ep == Max2(x.tab[k].epoch, e)
           cu == Max2(x.cur, e)
           t == [x.tab EXCEPT ![k].epoch = ep]
           u == IF k = n THEN t ELSE Contest(t, k, bm)
           y == MergeClaims(x, n, k, bm, e)
<1>1. /\ Good(c, n, x) /\ x \in States(c) /\ TableGood(c, n, x.tab) /\ Honest(c, sus, n, x.tab)
      /\ k \in DOMAIN x.tab /\ n \in c.nodes /\ ~x.due
  BY Zenon DEF Calm, Good, Honest
<1>2. y = [x EXCEPT !.cur = cu, !.tab = u]
  BY Zenon DEF MergeClaims
<1>3. Good(c, n, y)
  BY Zenon, <1>1, MergeGood
<1>4. ep \in Nat
  BY Zenon, <1>1, EntryIs, MaxNat DEF Entries
<1> HIDE DEF ep, cu, y
<1>5. TableGood(c, n, t) /\ Honest(c, sus, n, t)
  BY Zenon, <1>1, <1>4, EpochGood, EpochHonest
<1> HIDE DEF t
<1>6. Honest(c, sus, n, u)
  BY Zenon, <1>5, ContestHonest
<1> HIDE DEF u
<1>7. y.tab = u /\ y.due = x.due
  BY Zenon, <1>1, <1>2 DEF States
<1>8. Calm(c, sus, n, y)
  BY Zenon, <1>1, <1>3, <1>6, <1>7 DEF Calm
<1> QED BY Zenon, <1>8 DEF y

LEMMA HeaderCalm ==
  ASSUME NEW c, NEW sus, NEW n, NEW x, Calm(c, sus, n, x), NEW f, f.from \in c.nodes, f.of = None
  PROVE  Calm(c, sus, n, Header(x, f))
<1> DEFINE k == f.from
           e == [x.tab[k] EXCEPT !.of = f.of, !.pfail = FALSE, !.fail = FALSE, !.disc = FALSE,
                                !.seen = TRUE]
           t == [m \in DOMAIN x.tab \cup {k} |-> IF m = k THEN e ELSE x.tab[m]]
<1>1. /\ Good(c, n, x) /\ Honest(c, sus, n, x.tab) /\ DOMAIN x.tab = c.nodes
      /\ HonestEntry(c, sus, n, k, x.tab[k])
  BY Zenon DEF Calm, Good, Honest
<1>2. Header(x, f) = [x EXCEPT !.tab = t]
  BY Zenon, <1>1 DEF Header
<1>3. Good(c, n, Header(x, f))
  BY <1>1, HeaderGood DEF None
<1>4. HonestEntry(c, sus, n, k, e)
  <2>1. x.tab[k] \in Entries(Slots(c))
    BY Zenon, <1>1, EntryIs
  <2>2. e.of = None /\ e.slots = x.tab[k].slots /\ e.fail = FALSE /\ e.pfail = FALSE /\ e.reps = x.tab[k].reps
    BY Zenon, <2>1 DEF Entries
  <2> HIDE DEF e
  <2> QED BY Zenon, <1>1, <2>2 DEF HonestEntry
<1> HIDE DEF e
<1>5. Honest(c, sus, n, t)
  BY Zenon, <1>1, <1>4 DEF Honest
<1> HIDE DEF t
<1> QED BY <1>2, <1>3, <1>5, CalmTable

-----------------------------------------------------------------------------
(* An honest frame.                                                        *)

HonestPing(c, sus, n, f) ==
  /\ f \in Pings(c) /\ f.from # n /\ f.of = None /\ Keeps(c, f.from, f.slots)
  /\ \A m \in DOMAIN f.gossip : HonestGossip(c, sus, f.from, m, f.gossip[m])

LEMMA GossipStepCalm ==
  ASSUME NEW sus, Sound(conf, sus), NEW n, NEW x, Calm(conf, sus, n, x),
         NEW f, HonestPing(conf, sus, n, f), NEW m \in DOMAIN f.gossip
  PROVE  Calm(conf, sus, n, GossipStep(x, n, f, m))
<1> DEFINE g == f.gossip[m]
           y == Report(x, n, f, m, g)
<1>1. /\ conf \in Confs /\ m \in conf.nodes /\ g \in GossipEntries(conf) /\ f.from \in Int
      /\ f.from # n /\ HonestGossip(conf, sus, f.from, m, g)
  BY PingIs, NodesAre DEF HonestPing, Sound
<1>2. GossipStep(x, n, f, m) =
        IF ~conf.redis /\ g.epoch >= Learn(y, m, g).tab[m].epoch
        THEN MergeClaims(Learn(y, m, g), n, m, g.slots, g.epoch) ELSE Learn(y, m, g)
  BY Zenon DEF GossipStep
<1> HIDE DEF g
<1>3. Calm(conf, sus, n, y)
  BY Zenon, <1>1, ReportCalm
<1> HIDE DEF y
<1>4. Learn(y, m, g) = y
  BY Zenon, <1>1, <1>3 DEF Learn, Calm, Honest
<1>5. g.slots \in SUBSET Slots(conf) /\ g.epoch \in Nat /\ Keeps(conf, m, g.slots)
  BY Zenon, <1>1 DEF GossipEntries, HonestGossip
<1>6. Calm(conf, sus, n, MergeClaims(y, n, m, g.slots, g.epoch))
  BY Zenon, <1>1, <1>3, <1>5, MergeCalm
<1> QED BY Zenon, <1>2, <1>3, <1>4, <1>6

LEMMA GossipStepsCalm ==
  ASSUME NEW sus, Sound(conf, sus), NEW n, NEW x, Calm(conf, sus, n, x),
         NEW f, HonestPing(conf, sus, n, f)
  PROVE  Calm(conf, sus, n, GossipSteps(x, n, f))
<1> DEFINE N == Cardinality(conf.nodes)
<1>n. N \in Nat
  BY Zenon, NodesAre DEF Sound
<1>1. PICK after :
        /\ GossipSteps(x, n, f) = after[N] /\ after[0] = x
        /\ \A i \in 1 .. N :
             after[i] = IF i \in DOMAIN f.gossip THEN GossipStep(after[i - 1], n, f, i) ELSE after[i - 1]
  BY <1>n, GossipStepsIs
<1> HIDE DEF N
<1> DEFINE OK == {i \in Nat : i <= N => Calm(conf, sus, n, after[i])}
<1>2. 0 \in OK
  BY Zenon, <1>1
<1>3. ASSUME NEW i \in Nat, i \in OK PROVE i + 1 \in OK
  <2> SUFFICES ASSUME i + 1 <= N PROVE Calm(conf, sus, n, after[i + 1])
    OBVIOUS
  <2>1. i + 1 \in 1 .. N /\ (i + 1) - 1 = i /\ Calm(conf, sus, n, after[i])
    BY <1>3, <1>n
  <2>2. after[i + 1] = IF i + 1 \in DOMAIN f.gossip THEN GossipStep(after[i], n, f, i + 1) ELSE after[i]
    BY Zenon, <2>1, <1>1
  <2> QED BY Zenon, <2>1, <2>2, GossipStepCalm
<1> HIDE DEF OK
<1>4. N \in OK
  BY Zenon, <1>2, <1>3, <1>n, Induction
<1> QED BY <1>1, <1>4, <1>n DEF OK

LEMMA HandlePingCalm ==
  ASSUME NEW sus, Sound(conf, sus), NEW n, NEW x, Calm(conf, sus, n, x),
         NEW f, HonestPing(conf, sus, n, f)
  PROVE  Calm(conf, sus, n, HandlePing(x, n, f))
<1> DEFINE h == Header(x, f)
           y == MergeClaims(h, n, f.from, f.slots, f.epoch)
           cu == Max2(y.cur, f.cur)
           z == IF conf.redis THEN [y EXCEPT !.cur = cu] ELSE y
<1>p. /\ conf \in Confs /\ f.from \in conf.nodes /\ f.slots \in SUBSET Slots(conf) /\ f.cur \in Nat
      /\ f.epoch \in Nat /\ f.of = None /\ Keeps(conf, f.from, f.slots)
  BY Zenon, PingIs DEF HonestPing, Sound
<1>1. HandlePing(x, n, f) = GossipSteps(z, n, f)
  BY Zenon DEF HandlePing
<1>2. Calm(conf, sus, n, h)
  BY Zenon, <1>p, HeaderCalm
<1> HIDE DEF h
<1>3. Calm(conf, sus, n, y)
  BY Zenon, <1>p, <1>2, MergeCalm
<1> HIDE DEF y
<1>4. cu \in Nat /\ y \in States(conf)
  BY Zenon, <1>3, <1>p, MaxNat DEF Calm, Good, States
<1> HIDE DEF cu
<1>5. Calm(conf, sus, n, [y EXCEPT !.cur = cu])
  <2>1. Good(conf, n, [y EXCEPT !.cur = cu]) /\ [y EXCEPT !.cur = cu].tab = y.tab
    BY Zenon, <1>3, <1>4, WithCur DEF Calm
  <2>2. [y EXCEPT !.cur = cu].due = y.due
    BY Zenon, <1>4 DEF States
  <2> QED BY Zenon, <1>3, <2>1, <2>2 DEF Calm
<1>6. Calm(conf, sus, n, z)
  BY Zenon, <1>3, <1>5
<1> HIDE DEF z
<1> QED BY Zenon, <1>1, <1>6, GossipStepsCalm

LEMMA FailChecksCalm ==
  ASSUME NEW c, NEW sus, Sound(c, sus), NEW n, NEW x, Calm(c, sus, n, x), NEW S \in SUBSET c.nodes,
         \A m \in S : n \in sus[m]
  PROVE  Calm(c, sus, n, FailChecks(x, n, S))
<1> DEFINE u == [m \in DOMAIN x.tab |-> IF m \in S THEN Silent(x, n, m).tab[m] ELSE x.tab[m]]
<1>g. /\ Good(c, n, x) /\ x \in States(c) /\ TableGood(c, n, x.tab) /\ Honest(c, sus, n, x.tab)
      /\ DOMAIN x.tab = c.nodes
  BY Zenon DEF Calm, Good, Honest
<1>1. ASSUME NEW m \in S PROVE HonestEntry(c, sus, n, m, Silent(x, n, m).tab[m])
  <2> DEFINE e == [x.tab[m] EXCEPT !.disc = TRUE, !.pfail = TRUE]
             t == [x.tab EXCEPT ![m] = e]
             y == [x EXCEPT !.tab = t]
  <2>1. x.tab[m] \in Entries(Slots(c)) /\ HonestEntry(c, sus, n, m, x.tab[m]) /\ m \in c.nodes
    BY Zenon, <1>g, EntryIs DEF Honest
  <2>2. e \in Entries(Slots(c)) /\ e.slots = x.tab[m].slots
    BY Zenon, <2>1 DEF Entries
  <2>3. Silent(x, n, m) = MarkFailIfQuorum(y, n, m)
    BY Zenon, <1>g DEF Silent, States
  <2>4. HonestEntry(c, sus, n, m, e)
    <3>1. Blames(c, sus, n, m)
      BY Zenon, <1>1 DEF Blames
    <3> QED BY Zenon, <2>1, <3>1 DEF HonestEntry, Entries
  <2> HIDE DEF e
  <2>5. TableGood(c, n, t) /\ Honest(c, sus, n, t)
    BY Zenon, <1>g, <2>1, <2>2, <2>4, SetEntry, HonestSet
  <2> HIDE DEF t
  <2>6. Good(c, n, y)
    BY Zenon, <1>g, <2>5, WithTable
  <2>7. Calm(c, sus, n, y)
    BY Zenon, <2>5, <2>6, CalmTable
  <2> HIDE DEF y
  <2>8. Calm(c, sus, n, MarkFailIfQuorum(y, n, m))
    BY Zenon, <2>1, <2>7, QuorumCalm
  <2> QED BY Zenon, <2>1, <2>3, <2>8 DEF Calm, Honest
<1>2. FailChecks(x, n, S) = [x EXCEPT !.tab = u]
  BY Zenon DEF FailChecks
<1>3. Good(c, n, FailChecks(x, n, S))
  BY Zenon, <1>g, FailChecksGood
<1>4. Honest(c, sus, n, u)
  BY Zenon, <1>g, <1>1 DEF Honest
<1> HIDE DEF u
<1> QED BY <1>2, <1>3, <1>4, CalmTable

-----------------------------------------------------------------------------
(* The frames sent.                                                        *)

LEMMA SenderIs ==
  ASSUME NEW c, NEW k \in Channels({l \in c.nodes \X c.nodes : l[1] # l[2]})
  PROVE  Sender(k) # k[2] /\ Sender(<<k[1], Sender(k)>>) = k[2] /\ k = <<k[1], k[2]>>
<1>1. PICK l \in {l \in c.nodes \X c.nodes : l[1] # l[2]} : k = <<l, l[1]>> \/ k = <<l, l[2]>>
  BY Zenon DEF Channels
<1>2. k[1] = l /\ (k[2] = l[1] \/ k[2] = l[2]) /\ k = <<k[1], k[2]>> /\ l[1] # l[2]
  BY <1>1
<1> QED BY Zenon, <1>2 DEF Sender

LEMMA SendHonest ==
  ASSUME NEW c, NEW sus, NEW q \in Nets(c), HonestNet(c, sus, q), NEW ks, NEW f,
         \A k \in DOMAIN q \cap ks : HonestFrame(c, sus, k, f)
  PROVE  HonestNet(c, sus, Send(q, ks, f))
<1> DEFINE p == Send(q, ks, f)
<1>1. q \in [DOMAIN q -> Seq(Frames(c))]
  BY Zenon, NetIs
<1>2. DOMAIN p = DOMAIN q
  BY Zenon DEF Send
<1>3. ASSUME NEW k \in DOMAIN q, NEW i \in 1 .. Len(p[k]) PROVE HonestFrame(c, sus, k, p[k][i])
  <2>1. q[k] \in Seq(Frames(c))
    BY Zenon, <1>1
  <2>2. CASE k \in ks
    <3>1. p[k] = Append(q[k], f)
      BY Zenon, <2>2 DEF Send
    <3> HIDE DEF p
    <3>2. Len(p[k]) = Len(q[k]) + 1 /\ \A j \in 1 .. Len(p[k]) : p[k][j] = IF j = Len(q[k]) + 1 THEN f ELSE q[k][j]
      BY <2>1, <3>1
    <3>3. CASE i = Len(q[k]) + 1
      BY Zenon, <2>2, <3>2, <3>3
    <3>4. CASE i # Len(q[k]) + 1
      <4>1. i \in 1 .. Len(q[k])
        BY <2>1, <3>2, <3>4
      <4> QED BY Zenon, <3>2, <3>4, <4>1 DEF HonestNet
    <3> QED BY Zenon, <3>3, <3>4
  <2>3. CASE k \notin ks
    BY Zenon, <2>3 DEF Send, HonestNet
  <2> QED BY Zenon, <2>2, <2>3
<1> HIDE DEF p
<1>4. HonestNet(c, sus, p)
  BY Zenon, <1>2, <1>3 DEF HonestNet
<1> QED BY Zenon, <1>4 DEF p

LEMMA TailHonest ==
  ASSUME NEW c, NEW sus, NEW q \in Nets(c), HonestNet(c, sus, q), NEW k \in DOMAIN q, q[k] # <<>>
  PROVE  HonestNet(c, sus, [q EXCEPT ![k] = Tail(@)]) /\ HonestFrame(c, sus, k, Head(q[k]))
<1>1. q \in [DOMAIN q -> Seq(Frames(c))]
  BY Zenon, NetIs
<1>2. q[k] \in Seq(Frames(c))
  BY Zenon, <1>1
<1>3. Head(q[k]) = q[k][1] /\ 1 \in 1 .. Len(q[k])
  BY <1>2
<1>4. ASSUME NEW i \in 1 .. Len(Tail(q[k])) PROVE Tail(q[k])[i] = q[k][i + 1] /\ i + 1 \in 1 .. Len(q[k])
  BY <1>2
<1>5. \A j \in DOMAIN q : [q EXCEPT ![k] = Tail(@)][j] = IF j = k THEN Tail(q[k]) ELSE q[j]
  BY Zenon, <1>1
<1>6. DOMAIN [q EXCEPT ![k] = Tail(@)] = DOMAIN q
  BY Zenon
<1> DEFINE p == [q EXCEPT ![k] = Tail(@)]
<1> HIDE DEF p
<1>7. HonestNet(c, sus, p)
  BY <1>4, <1>5, <1>6 DEF HonestNet, p
<1> QED BY Zenon, <1>3, <1>7 DEF HonestNet, p

LEMMA CutHonest ==
  ASSUME NEW c, NEW sus, NEW q, HonestNet(c, sus, q), NEW K \in SUBSET DOMAIN q
  PROVE  HonestNet(c, sus, [k \in K |-> q[k]])
BY Zenon DEF HonestNet

LEMMA FrameHonest ==
  ASSUME NEW c, NEW sus, NEW n, NEW x, Calm(c, sus, n, x), NEW type \in {"PING", "PONG", "MEET"},
         NEW k, Sender(k) = n
  PROVE  HonestFrame(c, sus, k, Frame(type, n, x))
<1> DEFINE f == Frame(type, n, x)
<1>1. DOMAIN x.tab = c.nodes /\ n \in c.nodes /\ \A m \in c.nodes : HonestEntry(c, sus, n, m, x.tab[m])
  BY Zenon DEF Calm, Honest
<1>2. /\ f.type = type /\ f.from = n /\ f.of = x.tab[n].of /\ f.slots = x.tab[n].slots
      /\ DOMAIN f.gossip = c.nodes \ {n}
      /\ \A m \in c.nodes \ {n} : f.gossip[m] = GossipEntry(x.tab, m)
  BY Zenon, <1>1 DEF Frame
<1> HIDE DEF f
<1>3. ASSUME NEW m \in c.nodes \ {n} PROVE HonestGossip(c, sus, n, m, f.gossip[m])
  <2>1. /\ f.gossip[m].slots = x.tab[m].slots /\ f.gossip[m].pfail = x.tab[m].pfail
        /\ f.gossip[m].fail = x.tab[m].fail
    <3>1. f.gossip[m] = GossipEntry(x.tab, m)
      BY Zenon, <1>2
    <3> QED BY <3>1 DEF GossipEntry
  <2>2. HonestEntry(c, sus, n, m, x.tab[m])
    BY Zenon, <1>1
  <2> QED BY Zenon, <2>1, <2>2 DEF HonestEntry, HonestGossip, Blames
<1>4. f.of = None /\ Keeps(c, n, f.slots)
  BY Zenon, <1>1, <1>2 DEF HonestEntry
<1>5. HonestFrame(c, sus, k, f)
  BY Zenon, <1>2, <1>3, <1>4 DEF HonestFrame
<1> QED BY Zenon, <1>5 DEF f

LEMMA RoundHonest ==
  ASSUME NEW c, NEW sus, NEW q \in Nets(c), HonestNet(c, sus, q), NEW n, NEW x, Calm(c, sus, n, x)
  PROVE  HonestNet(c, sus, Round(q, n, x))
<1>1. \A k \in From(q, n) : HonestFrame(c, sus, k, Frame("PING", n, x))
  BY Zenon, FrameHonest DEF From
<1> QED BY Zenon, <1>1, SendHonest DEF Round

LEMMA BroadcastHonest ==
  ASSUME NEW c \in Confs, NEW sus, NEW q \in Nets(c), HonestNet(c, sus, q), NEW n, NEW x, Good(c, n, x),
         NEW y, Honest(c, sus, n, y.tab)
  PROVE  HonestNet(c, sus, Broadcast(q, n, x, y))
<1> DEFINE S == NewlyFailed(x, y)
           last == CHOOSE m \in S : \A k \in S : k <= m
<1>1. CASE S = {}
  BY Zenon, <1>1 DEF Broadcast
<1>2. CASE S # {}
  <2>1. S \subseteq c.nodes
    BY Zenon, EntryIs DEF NewlyFailed
  <2>2. last \in S
    <3>1. S \subseteq 1 .. Cardinality(c.nodes) /\ Cardinality(c.nodes) \in Nat
      BY <2>1, NodesAre, ConfsAssumption
    <3>2. \E m \in S : \A k \in S : k <= m
      BY Zenon, <1>2, <3>1, LastOf
    <3> QED BY Zenon, <3>2
  <2>3. Agreed(c, sus, last)
    <3>1. \A m \in S : y.tab[m].fail
      BY Zenon DEF NewlyFailed
    <3> QED BY Zenon, <2>1, <2>2, <3>1 DEF Honest, HonestEntry
  <2>4. \A k : HonestFrame(c, sus, k, FailFrame(last))
    BY Zenon, <2>3 DEF HonestFrame, FailFrame
  <2>5. HonestNet(c, sus, Send(q, From(q, n), FailFrame(last)))
    BY Zenon, <2>4, SendHonest
  <2> QED BY Zenon, <1>2, <2>5 DEF Broadcast
<1> QED BY Zenon, <1>1, <1>2

-----------------------------------------------------------------------------
(* The steps of the cluster.                                               *)

Both == HolderInv /\ QuorumInv /\ MastersOnly(conf)

LEMMA Known ==
  ASSUME Both
  PROVE  /\ conf \in Confs /\ net \in Nets(conf) /\ Sound(conf, suspects) /\ HonestNet(conf, suspects, net)
         /\ \A n \in conf.nodes : /\ Calm(conf, suspects, n, nd[n]) /\ Good(conf, n, nd[n])
                                  /\ TableGood(conf, n, disk[n]) /\ Honest(conf, suspects, n, disk[n])
         /\ nd = [m \in conf.nodes |-> nd[m]] /\ disk = [m \in conf.nodes |-> disk[m]]
BY Zenon, Facts DEF Both, QuorumInv, Calm, Sound

(* Node n becomes y.                                                       *)
LEMMA CalmStep ==
  ASSUME Both, NEW n \in conf.nodes, NEW y, nd' = [nd EXCEPT ![n] = y], conf' = conf, disk' = disk,
         Grows(conf, suspects, suspects'), Calm(conf, suspects', n, y), HonestNet(conf, suspects', net')
  PROVE  QuorumInv'
<1>1. conf \in Confs /\ nd = [m \in conf.nodes |-> nd[m]]
  BY Zenon, Known
<1>2. \A m \in conf.nodes : nd'[m] = IF m = n THEN y ELSE nd[m]
  BY Zenon, <1>1
<1>3. \A m, t : Honest(conf, suspects, m, t) => Honest(conf, suspects', m, t)
  BY Zenon, <1>1, HonestGrows DEF Both
<1>4. \A m \in conf.nodes : Honest(conf, suspects', m, nd'[m].tab) /\ ~nd'[m].due
  BY Zenon, <1>2, <1>3, Known DEF Calm
<1>5. \A m \in conf.nodes : Honest(conf, suspects', m, disk[m])
  BY Zenon, <1>3, Known
<1>6. suspects' \in [conf.nodes -> SUBSET conf.nodes]
  BY Zenon DEF Grows
<1> QED BY Zenon, <1>4, <1>5, <1>6 DEF QuorumInv

LEMMA SameSuspects ==
  ASSUME Both, suspects' = suspects
  PROVE  Grows(conf, suspects, suspects')
BY Zenon, Known DEF Grows, Sound

LEMMA CalmNet ==
  ASSUME Both, UNCHANGED <<conf, nd, disk, suspects>>, HonestNet(conf, suspects, net')
  PROVE  QuorumInv'
BY Zenon DEF Both, QuorumInv

LEMMA ReceiveCalm ==
  ASSUME Both, NEW k \in DOMAIN net, Receive(k[1], k[2]) PROVE QuorumInv'
<1> DEFINE n == k[2]
           f == Head(net[<<k[1], n>>])
           j == <<k[1], n>>
           q == [net EXCEPT ![j] = Tail(@)]
<1>f. conf \in Confs /\ net \in Nets(conf) /\ Sound(conf, suspects) /\ HonestNet(conf, suspects, net)
  BY Zenon, Known
<1>1. /\ j \in DOMAIN net /\ net[j] # <<>> /\ n \in conf.nodes /\ conf' = conf /\ disk' = disk
      /\ suspects' = suspects
  BY Zenon DEF Receive, Up, Ghosts
<1>2. ReceivePing(j, n, f) \/ ReceiveFail(j, n, f) \/ ReceiveRequest(j, n, f) \/ ReceiveAck(j, n, f)
  BY Zenon DEF Receive
<1>s. Sender(j) # n /\ Sender(<<j[1], Sender(j)>>) = n
  BY Zenon, <1>f, <1>1, NetIs, SenderIs
<1> HIDE DEF n, j
<1>3. /\ q \in Nets(conf) /\ f \in Frames(conf)
      /\ HonestNet(conf, suspects, q) /\ HonestFrame(conf, suspects, j, f)
  BY Zenon, <1>f, <1>1, TailGood, TailHonest DEF j
<1>g. Calm(conf, suspects, n, nd[n]) /\ Good(conf, n, nd[n]) /\ nd[n] \in States(conf)
  BY Zenon, <1>1, Known DEF Good
<1>h. Grows(conf, suspects, suspects')
  BY Zenon, <1>1, SameSuspects
<1> HIDE DEF f
<1>4. CASE ReceivePing(j, n, f)
  <2> DEFINE y == HandlePing(nd[n], n, f)
             r == IF f.type = "PONG" THEN q ELSE Send(q, {<<j[1], f.from>>}, Frame("PONG", n, y))
  <2>1. nd' = [nd EXCEPT ![n] = y] /\ net' = Broadcast(r, n, nd[n], y)
    BY Zenon, <1>4 DEF ReceivePing
  <2>2. f \in Pings(conf) /\ f.type \in {"PING", "PONG", "MEET"}
    BY Zenon, <1>3, <1>4 DEF ReceivePing, Frames
  <2>3. HonestPing(conf, suspects, n, f) /\ f.from = Sender(j)
    BY Zenon, <1>3, <1>s, <2>2 DEF HonestPing, HonestFrame
  <2>4. Calm(conf, suspects, n, y)
    BY Zenon, <1>f, <1>g, <2>3, HandlePingCalm
  <2> HIDE DEF y, q
  <2>5. HonestFrame(conf, suspects, <<j[1], f.from>>, Frame("PONG", n, y))
    BY Zenon, <1>s, <2>3, <2>4, FrameHonest
  <2>6. Frame("PONG", n, y) \in Frames(conf)
    BY Zenon, <1>1, <2>4, FrameGood DEF Calm
  <2>7. r \in Nets(conf) /\ HonestNet(conf, suspects, r)
    BY Zenon, <1>3, <2>5, <2>6, SendGood, SendHonest
  <2> HIDE DEF r
  <2>8. HonestNet(conf, suspects, Broadcast(r, n, nd[n], y))
    BY Zenon, <1>f, <1>g, <2>4, <2>7, BroadcastHonest DEF Calm
  <2>9. Calm(conf, suspects', n, y) /\ HonestNet(conf, suspects', net')
    BY Zenon, <1>1, <2>1, <2>4, <2>8
  <2> QED BY Zenon, <1>1, <1>h, <2>1, <2>9, CalmStep
<1>5. CASE ReceiveFail(j, n, f)
  <2>1. net' = q
    BY Zenon, <1>5 DEF ReceiveFail
  <2>2. CASE f.node \in DOMAIN nd[n].tab
    <3>1. nd' = [nd EXCEPT ![n] = MarkFail(nd[n], n, f.node)]
      BY Zenon, <1>5, <2>2 DEF ReceiveFail
    <3>2. Agreed(conf, suspects, f.node) /\ f.node \in conf.nodes
      BY Zenon, <1>3, <1>5, <1>g, <2>2 DEF ReceiveFail, HonestFrame, Calm, Honest
    <3>3. Calm(conf, suspects, n, MarkFail(nd[n], n, f.node))
      BY Zenon, <1>g, <3>2, MarkFailCalm
    <3> HIDE DEF q
    <3>4. Calm(conf, suspects', n, MarkFail(nd[n], n, f.node)) /\ HonestNet(conf, suspects', net')
      BY Zenon, <1>1, <1>3, <2>1, <3>3
    <3> QED BY Zenon, <1>1, <1>h, <3>1, <3>4, CalmStep
  <2>3. CASE f.node \notin DOMAIN nd[n].tab
    <3>1. nd' = nd
      BY Zenon, <1>5, <2>3 DEF ReceiveFail
    <3> HIDE DEF q
    <3> QED BY Zenon, <1>1, <1>3, <2>1, <3>1, CalmNet
  <2> QED BY Zenon, <2>2, <2>3
<1>6. CASE ReceiveRequest(j, n, f)
  <2> DEFINE x == RaiseEpoch(nd[n], n, f)
             y == IF MayVote(x, n, f, x.cur) THEN [x EXCEPT !.vote = x.cur] ELSE x
  <2>1. /\ nd' = [nd EXCEPT ![n] = y]
        /\ net' = IF MayVote(x, n, f, x.cur) THEN Send(q, {<<j[1], f.from>>}, Ack(n, x)) ELSE q
    BY Zenon, <1>6 DEF ReceiveRequest
  <2>2. Calm(conf, suspects, n, x)
    <3>1. f.cur \in Nat
      BY Zenon, <1>3, <1>6 DEF ReceiveRequest, Frames, Pings
    <3> DEFINE cu == Max2(nd[n].cur, f.cur)
    <3>2. cu \in Nat /\ x = IF n \in Serving(nd[n].tab) THEN [nd[n] EXCEPT !.cur = cu] ELSE nd[n]
      BY Zenon, <1>g, <3>1, MaxNat DEF States, RaiseEpoch
    <3> HIDE DEF cu
    <3>3. /\ Good(conf, n, [nd[n] EXCEPT !.cur = cu]) /\ [nd[n] EXCEPT !.cur = cu].tab = nd[n].tab
      BY <1>g, <3>2, WithCur
    <3>4. [nd[n] EXCEPT !.cur = cu].due = nd[n].due
      BY Zenon, <1>g DEF States
    <3>5. Calm(conf, suspects, n, [nd[n] EXCEPT !.cur = cu])
      BY Zenon, <1>g, <3>3, <3>4 DEF Calm
    <3> QED BY Zenon, <1>g, <3>2, <3>5
  <2> HIDE DEF x, q
  <2>3. Calm(conf, suspects, n, y)
    <3>1. x \in States(conf)
      BY Zenon, <2>2 DEF Calm, Good
    <3>2. /\ [x EXCEPT !.vote = x.cur] \in States(conf) /\ [x EXCEPT !.vote = x.cur].tab = x.tab
          /\ [x EXCEPT !.vote = x.cur].due = x.due
      BY Zenon, <3>1 DEF States
    <3>3. Calm(conf, suspects, n, [x EXCEPT !.vote = x.cur])
      BY Zenon, <2>2, <3>2 DEF Calm, Good
    <3> QED BY Zenon, <2>2, <3>3
  <2>4. HonestNet(conf, suspects, net')
    <3>1. \A i : HonestFrame(conf, suspects, i, Ack(n, x))
      BY Zenon DEF HonestFrame, Ack
    <3>2. HonestNet(conf, suspects, Send(q, {<<j[1], f.from>>}, Ack(n, x)))
      BY Zenon, <1>3, <3>1, SendHonest
    <3> QED BY Zenon, <1>3, <2>1, <3>2
  <2> HIDE DEF y
  <2>5. Calm(conf, suspects', n, y) /\ HonestNet(conf, suspects', net')
    BY Zenon, <1>1, <2>3, <2>4
  <2> QED BY Zenon, <1>1, <1>h, <2>1, <2>5, CalmStep
<1>7. CASE ReceiveAck(j, n, f)
  <2> DEFINE y == HandleAck(nd[n], f)
             z == [nd[n] EXCEPT !.acks = @ \cup {f.from}]
  <2>1. net' = q /\ nd' = [nd EXCEPT ![n] = y]
    BY Zenon, <1>7 DEF ReceiveAck
  <2>2. f.from \in conf.nodes
    BY Zenon, <1>3, <1>7 DEF ReceiveAck, Frames, Pings
  <2>3. z \in States(conf) /\ z.tab = nd[n].tab /\ z.due = nd[n].due
    BY Zenon, <1>g, <2>2 DEF States
  <2>4. y = z \/ y = nd[n]
    BY Zenon DEF HandleAck
  <2> HIDE DEF z, y, q
  <2>5. Calm(conf, suspects, n, y)
    BY Zenon, <1>g, <2>3, <2>4 DEF Calm, Good
  <2>6. Calm(conf, suspects', n, y) /\ HonestNet(conf, suspects', net')
    BY Zenon, <1>1, <1>3, <2>1, <2>5
  <2> QED BY Zenon, <1>1, <1>h, <2>1, <2>6, CalmStep
<1> QED BY Zenon, <1>2, <1>4, <1>5, <1>6, <1>7

LEMMA CronCalm ==
  ASSUME Both, NEW n \in conf.nodes, NEW S \in Suspicions, NEW late \in BOOLEAN, NEW loud \in BOOLEAN,
         Cron(n, S, late, loud)
  PROVE  QuorumInv'
<1> DEFINE x == FailChecks(nd[n], n, S)
           p == IF loud THEN Round(net, n, nd[n]) ELSE net
           q == Broadcast(p, n, nd[n], x)
           o == IF late THEN FailoverCheck(Schedule(x, n), n) ELSE <<"none", Schedule(x, n)>>
<1>f. /\ conf \in Confs /\ net \in Nets(conf) /\ Good(conf, n, nd[n]) /\ Sound(conf, suspects)
      /\ Calm(conf, suspects, n, nd[n]) /\ HonestNet(conf, suspects, net)
  BY Zenon, Known
<1>1. /\ nd' = [nd EXCEPT ![n] = o[2]]
      /\ net' = CASE o[1] = "ask"      -> Send(q, From(q, n), AuthRequest(n, o[2]))
                  [] o[1] = "promoted" -> Round(q, n, o[2])
                  [] OTHER             -> q
      /\ conf' = conf /\ disk' = disk /\ S \subseteq DOMAIN nd[n].tab /\ (late => nd[n].due)
      /\ suspects' = [m \in conf.nodes |-> suspects[m] \cup (IF m \in S THEN {n} ELSE {})]
  BY Zenon DEF Cron
<1>2. S \in SUBSET conf.nodes /\ ~late
  BY Zenon, <1>f, <1>1 DEF Calm, Honest
<1>3. Grows(conf, suspects, suspects') /\ \A m \in S : n \in suspects'[m]
  BY Zenon, <1>f, <1>1, <1>2 DEF Sound, Grows
<1>4. Sound(conf, suspects')
  BY Zenon, <1>f, <1>3 DEF Sound, Grows
<1>5. Calm(conf, suspects', n, nd[n]) /\ HonestNet(conf, suspects', net)
  <2>1. MastersOnly(conf)
    BY Zenon DEF Both
  <2> QED BY Zenon, <1>f, <1>3, <2>1, HonestGrows DEF Calm
<1>6. Calm(conf, suspects', n, x)
  BY Zenon, <1>2, <1>3, <1>4, <1>5, FailChecksCalm
<1>7. Schedule(x, n) = x
  <2>1. x.tab[n].of = None /\ DOMAIN x.tab = conf.nodes
    BY Zenon, <1>6 DEF Calm, Honest, HonestEntry
  <2>2. None \notin conf.nodes
    BY Zenon, <1>f, NodesAre DEF None
  <2> QED BY Zenon, <2>1, <2>2 DEF Schedule
<1>8. o = <<"none", x>>
  BY Zenon, <1>2, <1>7
<1> HIDE DEF x, o
<1>9. nd' = [nd EXCEPT ![n] = x] /\ net' = q
  BY Zenon, <1>1, <1>8
<1>10. p \in Nets(conf) /\ HonestNet(conf, suspects', p)
  BY Zenon, <1>f, <1>5, RoundGood, RoundHonest
<1> HIDE DEF p
<1>11. HonestNet(conf, suspects', q)
  BY Zenon, <1>f, <1>6, <1>10, BroadcastHonest DEF Calm
<1> HIDE DEF q
<1> QED BY Zenon, <1>1, <1>3, <1>6, <1>9, <1>11, CalmStep

LEMMA CommandCalm ==
  ASSUME Both, NEW n \in conf.nodes, NEW y, Calm(conf, suspects, n, y), Command(n, y)
  PROVE  QuorumInv'
<1>1. nd' = [nd EXCEPT ![n] = y] /\ net' = net /\ conf' = conf /\ disk' = disk /\ suspects' = suspects
  BY Zenon DEF Command, Ghosts
<1>2. Calm(conf, suspects', n, y) /\ HonestNet(conf, suspects', net')
  BY Zenon, <1>1, Known
<1> QED BY Zenon, <1>1, <1>2, SameSuspects, CalmStep

LEMMA NextEpochCalm ==
  ASSUME NEW c, NEW sus, NEW n, NEW x, Calm(c, sus, n, x), NEW m \in c.nodes
  PROVE  Calm(c, sus, n, NextEpoch(x, m))
<1> DEFINE e == x.cur + 1
           t == [x.tab EXCEPT ![m].epoch = e]
           y == NextEpoch(x, m)
<1>1. /\ Good(c, n, x) /\ x \in States(c) /\ TableGood(c, n, x.tab) /\ Honest(c, sus, n, x.tab)
      /\ m \in DOMAIN x.tab /\ n \in c.nodes /\ ~x.due
  BY Zenon DEF Calm, Good, Honest
<1>2. y = [x EXCEPT !.cur = e, !.tab = t]
  BY Zenon, <1>1 DEF NextEpoch, States
<1>3. Good(c, n, y)
  BY Zenon, <1>1, NextEpochGood
<1> HIDE DEF e, y
<1>4. Honest(c, sus, n, t)
  BY Zenon, <1>1, EpochHonest
<1> HIDE DEF t
<1>5. y.tab = t /\ y.due = x.due
  BY Zenon, <1>1, <1>2 DEF States
<1>6. Calm(c, sus, n, y)
  BY Zenon, <1>1, <1>3, <1>4, <1>5 DEF Calm
<1> QED BY Zenon, <1>6 DEF y

(* Node n has other slots.                                                 *)
LEMMA SlotsCalm ==
  ASSUME NEW c, NEW sus, NEW n, NEW x, Calm(c, sus, n, x), NEW S, Keeps(c, n, S),
         Good(c, n, [x EXCEPT !.tab[n].slots = S])
  PROVE  Calm(c, sus, n, [x EXCEPT !.tab[n].slots = S])
<1> DEFINE e == [x.tab[n] EXCEPT !.slots = S]
           t == [x.tab EXCEPT ![n] = e]
<1>1. /\ Good(c, n, x) /\ x \in States(c) /\ Honest(c, sus, n, x.tab) /\ DOMAIN x.tab = c.nodes
      /\ n \in c.nodes /\ HonestEntry(c, sus, n, n, x.tab[n])
  BY Zenon DEF Calm, Good, Honest
<1>2. x.tab[n] \in Entries(Slots(c))
  BY Zenon, <1>1, EntryIs
<1>3. HonestEntry(c, sus, n, n, e)
  BY Zenon, <1>1, <1>2 DEF HonestEntry, Entries
<1>4. [x EXCEPT !.tab[n].slots = S] = [x EXCEPT !.tab = t]
  BY Zenon, <1>1 DEF States
<1> HIDE DEF e
<1>5. Honest(c, sus, n, t)
  BY Zenon, <1>1, <1>3, HonestSet
<1> HIDE DEF t
<1> QED BY <1>4, <1>5, CalmTable

LEMMA AssignCalm ==
  ASSUME NEW c \in Confs, MastersOnly(c), NEW sus, NEW n, NEW x, Calm(c, sus, n, x),
         NEW s \in c.claims, NEW m \in c.nodes
  PROVE  Calm(c, sus, n, [x EXCEPT !.tab = Assign(@, s, m)])
<1> DEFINE t == x.tab
           u == Assign(t, s, m)
<1>1. /\ Good(c, n, x) /\ Honest(c, sus, n, t) /\ DOMAIN t = c.nodes /\ DOMAIN u = c.nodes
      /\ s \in Slots(c)
  BY Zenon DEF Calm, Honest, Assign, Slots
<1>2. Good(c, n, [x EXCEPT !.tab = u])
  BY Zenon, <1>1, AssignGood
<1>3. ASSUME NEW o \in c.nodes PROVE HonestEntry(c, sus, n, o, u[o])
  <2> DEFINE S == IF o = m THEN t[o].slots \cup {s} ELSE t[o].slots \ {s}
  <2>1. u[o] = [t[o] EXCEPT !.slots = S]
    BY Zenon, <1>1 DEF Assign
  <2>2. HonestEntry(c, sus, n, o, t[o]) /\ t[o] \in Entries(Slots(c))
    BY Zenon, <1>1, EntryIs DEF Honest
  <2>3. \A k \in c.nodes : s \notin c.slots[k]
    BY Zenon DEF MastersOnly
  <2>4. Keeps(c, o, S)
    BY Zenon, <2>2, <2>3 DEF HonestEntry, Keeps
  <2> HIDE DEF S, u
  <2>5. /\ u[o].slots = S /\ u[o].of = t[o].of /\ u[o].fail = t[o].fail /\ u[o].pfail = t[o].pfail
        /\ u[o].reps = t[o].reps
    BY Zenon, <2>1, <2>2 DEF Entries
  <2> QED BY Zenon, <2>2, <2>4, <2>5 DEF HonestEntry
<1> HIDE DEF u
<1>4. Honest(c, sus, n, u)
  BY Zenon, <1>1, <1>3 DEF Honest
<1>5. Calm(c, sus, n, [x EXCEPT !.tab = u])
  BY Zenon, <1>2, <1>4, CalmTable
<1> QED BY Zenon, <1>5 DEF u

LEMMA CommandsCalm ==
  ASSUME Both, NEW n \in conf.nodes, Commands(n) PROVE QuorumInv'
<1> DEFINE x == nd[n]
<1>f. /\ conf \in Confs /\ net \in Nets(conf) /\ Good(conf, n, x) /\ x \in States(conf)
      /\ Calm(conf, suspects, n, x) /\ HonestNet(conf, suspects, net) /\ MastersOnly(conf)
      /\ HonestEntry(conf, suspects, n, n, x.tab[n]) /\ DOMAIN x.tab = conf.nodes
      /\ TableGood(conf, n, x.tab) /\ Honest(conf, suspects, n, x.tab)
  BY Zenon, Known DEF Good, Calm, Honest, Sound
<1>a. \A a \in {"FlushSlots", "Replicate", "Forget", "Reset"} : ~Does(a)
  BY Zenon, <1>f DEF Does, MastersOnly
<1>c. \A s \in conf.claims : \A k \in conf.nodes : s \notin conf.slots[k]
  BY Zenon, <1>f DEF MastersOnly
<1>k. Keeps(conf, n, x.tab[n].slots)
  BY Zenon, <1>f DEF HonestEntry
<1>1. ASSUME NEW s \in conf.claims, NEW whole \in BOOLEAN, AddSlots(n, s, whole) PROVE QuorumInv'
  <2> DEFINE S == x.tab[n].slots \cup {s}
             y == [x EXCEPT !.tab[n].slots = S]
  <2>1. s \in Slots(conf) /\ Holders(x.tab, s) = {} /\ (Command(n, NextEpoch(y, n)) \/ Command(n, y))
    BY Zenon, <1>1 DEF AddSlots, Slots
  <2>2. Good(conf, n, y)
    BY Zenon, <1>f, <2>1, AddSlotsGood
  <2>3. Keeps(conf, n, S)
    BY Zenon, <1>c, <1>k DEF Keeps
  <2> HIDE DEF S
  <2>4. Calm(conf, suspects, n, y)
    BY Zenon, <1>f, <2>2, <2>3, SlotsCalm
  <2> HIDE DEF y
  <2>5. Calm(conf, suspects, n, NextEpoch(y, n))
    BY Zenon, <2>4, NextEpochCalm
  <2> QED BY Zenon, <2>1, <2>4, <2>5, CommandCalm
<1>2. ASSUME NEW s \in conf.claims, DelSlots(n, s) PROVE QuorumInv'
  <2> DEFINE S == x.tab[n].slots \ {s}
             y == [x EXCEPT !.tab[n].slots = S]
  <2>1. Command(n, y)
    BY Zenon, <1>2 DEF DelSlots
  <2>2. Good(conf, n, y)
    BY Zenon, <1>f, FewerSlotsGood
  <2>3. Keeps(conf, n, S)
    BY Zenon, <1>c, <1>k DEF Keeps
  <2> HIDE DEF S
  <2>4. Calm(conf, suspects, n, y)
    BY Zenon, <1>f, <2>2, <2>3, SlotsCalm
  <2> QED BY Zenon, <2>1, <2>4, CommandCalm
<1>3. ~FlushSlots(n)
  BY Zenon, <1>a DEF FlushSlots
<1>4. ASSUME NEW s \in conf.claims, NEW m \in conf.nodes, SetSlot(n, s, m) PROVE QuorumInv'
  <2> DEFINE y == [x EXCEPT !.tab = Assign(@, s, m)]
  <2>1. Command(n, NextEpoch(y, m))
    BY Zenon, <1>4 DEF SetSlot
  <2>2. Calm(conf, suspects, n, y)
    BY Zenon, <1>f, AssignCalm
  <2> HIDE DEF y
  <2>3. Calm(conf, suspects, n, NextEpoch(y, m))
    BY Zenon, <2>2, NextEpochCalm
  <2> QED BY Zenon, <2>1, <2>3, CommandCalm
<1>5. ASSUME BumpEpoch(n) PROVE QuorumInv'
  <2>1. Calm(conf, suspects, n, NextEpoch(x, n)) /\ Command(n, NextEpoch(x, n))
    BY Zenon, <1>5, <1>f, NextEpochCalm DEF BumpEpoch
  <2> QED BY Zenon, <2>1, CommandCalm
<1>6. ASSUME NEW e \in 1 .. MaxEpoch, SetConfigEpoch(n, e) PROVE QuorumInv'
  <2> DEFINE t == [x.tab EXCEPT ![n].epoch = e]
             z == [x EXCEPT !.cur = e]
             y == [z EXCEPT !.tab = t]
  <2>0. e \in Nat
    BY EpochAssumption
  <2>1. [x EXCEPT !.cur = e, !.tab[n].epoch = e] = y
    BY Zenon, <1>f DEF States
  <2>2. Command(n, y)
    BY Zenon, <1>6, <2>1 DEF SetConfigEpoch
  <2>3. TableGood(conf, n, t) /\ Honest(conf, suspects, n, t)
    BY Zenon, <1>f, <2>0, EpochGood, EpochHonest
  <2> HIDE DEF t
  <2>4. Good(conf, n, z) /\ z.tab = x.tab
    <3>1. Good(conf, n, x)
      BY Zenon, <1>f
    <3> HIDE DEF x
    <3> QED BY Zenon, <2>0, <3>1, WithCur
  <2>5. z.due = x.due
    BY Zenon, <1>f DEF States
  <2>6. Calm(conf, suspects, n, z)
    BY Zenon, <1>f, <2>4, <2>5 DEF Calm
  <2> HIDE DEF z
  <2>7. Good(conf, n, y)
    BY Zenon, <2>3, <2>4, WithTable
  <2>8. Calm(conf, suspects, n, y)
    BY Zenon, <2>3, <2>6, <2>7, CalmTable
  <2> QED BY Zenon, <2>2, <2>8, CommandCalm
<1>7. \A m : ~Replicate(n, m) /\ ~Forget(n, m)
  BY Zenon, <1>a DEF Replicate, Forget
<1>8. ~Takeover(n)
  BY Zenon, <1>f DEF Takeover, HonestEntry
<1>9. \A hard : ~Reset(n, hard)
  BY Zenon, <1>a DEF Reset
<1>10. ASSUME NEW m \in conf.nodes, Meet(n, m) PROVE QuorumInv'
  <2> DEFINE K == DOMAIN net \cup Channels({<<n, m>>})
             f == Frame("MEET", n, x)
             q == [k \in K |-> IF k = <<<<n, m>>, m>> THEN <<f>>
                                ELSE IF k \in DOMAIN net THEN net[k] ELSE <<>>]
  <2>1. net' = q /\ conf' = conf /\ nd' = nd /\ disk' = disk /\ m # n /\ suspects' = suspects
    BY Zenon, <1>10 DEF Meet, Ghosts
  <2>2. HonestFrame(conf, suspects, <<<<n, m>>, m>>, f)
    <3>1. Sender(<<<<n, m>>, m>>) = n
      BY Zenon, <2>1 DEF Sender
    <3> QED BY Zenon, <1>f, <3>1, FrameHonest
  <2> HIDE DEF f
  <2>3. ASSUME NEW k \in K, NEW i \in 1 .. Len(q[k]) PROVE HonestFrame(conf, suspects, k, q[k][i])
    <3>1. CASE k = <<<<n, m>>, m>>
      <4>1. q[k] = <<f>>
        BY Zenon, <3>1
      <4> HIDE DEF q, K
      <4>2. i = 1 /\ q[k][i] = f
        <5>1. Len(<<f>>) = 1 /\ <<f>>[1] = f /\ \A j \in 1 .. 1 : j = 1
          OBVIOUS
        <5> QED BY Zenon, <4>1, <5>1
      <4> QED BY Zenon, <2>2, <3>1, <4>2
    <3>2. CASE k # <<<<n, m>>, m>> /\ k \in DOMAIN net
      <4>1. q[k] = net[k]
        BY Zenon, <3>2
      <4> HIDE DEF q
      <4> QED BY Zenon, <1>f, <3>2, <4>1 DEF HonestNet
    <3>3. CASE k # <<<<n, m>>, m>> /\ k \notin DOMAIN net
      <4>1. q[k] = <<>>
        BY Zenon, <3>3
      <4> HIDE DEF q
      <4> QED BY <4>1
    <3> QED BY Zenon, <3>1, <3>2, <3>3
  <2>4. DOMAIN q = K
    BY Zenon
  <2> HIDE DEF q
  <2>5. HonestNet(conf, suspects, q)
    BY Zenon, <2>3, <2>4 DEF HonestNet
  <2> QED BY Zenon, <2>1, <2>5, CalmNet
<1> QED BY Zenon, <1>1, <1>2, <1>3, <1>4, <1>5, <1>6, <1>7, <1>8, <1>9, <1>10 DEF Commands

LEMMA RestartCalm ==
  ASSUME Both, NEW n \in conf.nodes, NodesSave(n) \/ Restart(n) PROVE QuorumInv'
<1>f. /\ conf \in Confs /\ net \in Nets(conf) /\ HonestNet(conf, suspects, net)
      /\ TableGood(conf, n, disk[n]) /\ Honest(conf, suspects, n, disk[n])
      /\ Calm(conf, suspects, n, nd[n])
      /\ nd = [m \in conf.nodes |-> nd[m]] /\ disk = [m \in conf.nodes |-> disk[m]]
  BY Zenon, Known
<1>1. CASE NodesSave(n)
  <2>1. disk' = [disk EXCEPT ![n] = nd[n].tab] /\ UNCHANGED <<conf, nd, net, suspects>>
    BY Zenon, <1>1 DEF NodesSave, Ghosts
  <2>2. \A m \in conf.nodes : disk'[m] = IF m = n THEN nd[n].tab ELSE disk[m]
    BY Zenon, <1>f, <2>1
  <2>3. \A m \in conf.nodes : Honest(conf, suspects, m, disk'[m])
    BY Zenon, <1>f, <2>2, Known DEF Calm
  <2> QED BY Zenon, <2>1, <2>3 DEF Both, QuorumInv
<1>2. CASE Restart(n)
  <2> DEFINE t == disk[n]
             e(m) == IF m = n THEN [ParseLine(t[m]) EXCEPT !.of = None] ELSE ParseLine(t[m])
             u == [m \in DOMAIN t |-> e(m)]
             y == [cur |-> 1, vote |-> 0, req |-> 0, acks |-> {}, due |-> FALSE, tab |-> u]
             K == {j \in DOMAIN net : n \notin {j[1][1], j[1][2]}}
  <2>1. /\ nd' = [nd EXCEPT ![n] = y] /\ net' = [k \in K |-> net[k]] /\ conf' = conf /\ disk' = disk
        /\ suspects' = suspects
    BY Zenon, <1>2 DEF Restart, Ghosts
  <2>2. DOMAIN t = conf.nodes /\ t \in [DOMAIN t -> Entries(Slots(conf))]
    BY Zenon, <1>f, TableIs DEF TableGood, Honest
  <2>3. ASSUME NEW m \in conf.nodes PROVE HonestEntry(conf, suspects, n, m, e(m))
    <3> DEFINE d == ParseLine(t[m])
    <3>1. t[m] \in Entries(Slots(conf)) /\ HonestEntry(conf, suspects, n, m, t[m])
      BY Zenon, <1>f, <2>2 DEF Honest
    <3>2. /\ d.of = t[m].of /\ d.slots = t[m].slots /\ d.pfail = t[m].pfail /\ d.reps = {}
          /\ d.fail = (t[m].fail /\ ~t[m].pfail) /\ [d EXCEPT !.of = None].of = None
          /\ [d EXCEPT !.of = None].slots = d.slots /\ [d EXCEPT !.of = None].pfail = d.pfail
          /\ [d EXCEPT !.of = None].fail = d.fail /\ [d EXCEPT !.of = None].reps = {}
      BY Zenon, <3>1 DEF ParseLine, Entries
    <3>3. e(m) = d \/ e(m) = [d EXCEPT !.of = None]
      BY Zenon
    <3> HIDE DEF d, e
    <3> QED BY Zenon, <3>1, <3>2, <3>3 DEF HonestEntry
  <2> HIDE DEF e
  <2>4. Honest(conf, suspects, n, u)
    BY Zenon, <2>2, <2>3 DEF Honest
  <2>5. Good(conf, n, y)
    <3>1. HolderInv'
      BY Zenon, <1>2, RestartStep DEF Both
    <3>2. Good(conf, n, nd'[n])
      BY Zenon, <2>1, <3>1 DEF HolderInv
    <3>3. nd'[n] = y
      BY Zenon, <1>f, <2>1
    <3> QED BY Zenon, <3>2, <3>3
  <2> HIDE DEF u
  <2>6. Calm(conf, suspects, n, y)
    BY Zenon, <2>4, <2>5 DEF Calm
  <2> HIDE DEF y
  <2>7. HonestNet(conf, suspects, net')
    <3>1. K \in SUBSET DOMAIN net
      BY Zenon
    <3> HIDE DEF K
    <3> QED BY Zenon, <1>f, <2>1, <3>1, CutHonest
  <2>8. Calm(conf, suspects', n, y) /\ HonestNet(conf, suspects', net')
    BY Zenon, <2>1, <2>6, <2>7
  <2> QED BY Zenon, <2>1, <2>8, SameSuspects, CalmStep
<1> QED BY Zenon, <1>1, <1>2

LEMMA OtherCalm ==
  ASSUME Both,
         \/ \E l : Break(l)
         \/ \E n, m, r \in conf.nodes : ReportExpires(n, m, r)
         \/ UNCHANGED cvars
  PROVE  QuorumInv'
<1>f. conf \in Confs /\ HonestNet(conf, suspects, net) /\ \A n \in conf.nodes : Calm(conf, suspects, n, nd[n])
  BY Zenon, Known
<1>1. ASSUME NEW l, Break(l) PROVE QuorumInv'
  <2> DEFINE K == {j \in DOMAIN net : j[1] # l}
  <2>1. net' = [k \in K |-> net[k]] /\ UNCHANGED <<conf, nd, disk, suspects>>
    BY Zenon, <1>1 DEF Break, Ghosts
  <2>2. HonestNet(conf, suspects, net')
    BY Zenon, <1>f, <2>1, CutHonest
  <2> QED BY Zenon, <2>1, <2>2, CalmNet
<1>2. ASSUME NEW n \in conf.nodes, NEW m \in conf.nodes, NEW r \in conf.nodes, ReportExpires(n, m, r)
      PROVE  QuorumInv'
  <2> DEFINE y == ReportHeal(nd[n], m, r)
  <2>1. /\ UNCHANGED <<conf, net, disk, suspects>>
        /\ nd' = [nd EXCEPT ![n] = y]
    BY Zenon, <1>2 DEF ReportExpires, ReportHeal, Ghosts
  <2>2. Calm(conf, suspects, n, y)
    <3>1. \A i \in conf.nodes : i \in Int
      BY <1>f, NodesAre
    <3> QED BY Zenon, <1>f, <3>1, HealCalm
  <2> HIDE DEF y
  <2>3. Calm(conf, suspects', n, y) /\ HonestNet(conf, suspects', net')
    BY Zenon, <1>f, <2>1, <2>2
  <2> QED BY Zenon, <2>1, <2>3, SameSuspects, CalmStep
<1>3. CASE UNCHANGED cvars
  BY Zenon, <1>3 DEF cvars, Both, QuorumInv
<1> QED BY Zenon, <1>1, <1>2, <1>3

LEMMA QuorumNext == HolderInv /\ QuorumInv /\ [Next]_cvars => QuorumInv'
<1> SUFFICES ASSUME HolderInv, QuorumInv, [Next]_cvars, MastersOnly(conf') PROVE QuorumInv'
  BY Zenon DEF QuorumInv
<1>0. conf' = conf
  <2>1. \A n, x : Command(n, x) => conf' = conf
    BY Zenon DEF Command
  <2>2. ASSUME NEW n, Commands(n) PROVE conf' = conf
    BY Zenon, <2>1, <2>2 DEF Commands, AddSlots, DelSlots, SetSlot, FlushSlots, BumpEpoch, Takeover,
       SetConfigEpoch, Replicate, Forget, Meet, Reset
  <2>3. ASSUME NEW n, NEW S, NEW late, NEW loud, Cron(n, S, late, loud) PROVE conf' = conf
    <3>1. UNCHANGED <<conf, disk>>
      BY Zenon, <2>3 DEF Cron
    <3> QED BY Zenon, <3>1
  <2>4. \A l, n : Receive(l, n) \/ Break(l) => conf' = conf
    BY Zenon DEF Receive, Break
  <2>5. \A n : NodesSave(n) \/ Restart(n) => conf' = conf
    BY Zenon DEF NodesSave, Restart
  <2>6. \A n, m, r : ReportExpires(n, m, r) => conf' = conf
    BY Zenon DEF ReportExpires
  <2>7. UNCHANGED cvars => conf' = conf
    BY Zenon DEF cvars
  <2> QED BY Zenon, <2>2, <2>3, <2>4, <2>5, <2>6, <2>7 DEF Next
<1>b. Both
  BY Zenon, <1>0 DEF Both
<1>1. ASSUME NEW n \in conf.nodes, NEW S \in Suspicions, NEW late \in BOOLEAN, NEW loud \in BOOLEAN,
             Cron(n, S, late, loud)
      PROVE  QuorumInv'
  BY Zenon, <1>1, <1>b, CronCalm
<1>2. ASSUME NEW k \in DOMAIN net, Receive(k[1], k[2]) \/ Break(k[1]) PROVE QuorumInv'
  BY Zenon, <1>2, <1>b, ReceiveCalm, OtherCalm
<1>3. ASSUME NEW n \in conf.nodes, NodesSave(n) \/ Restart(n) \/ Commands(n) PROVE QuorumInv'
  BY Zenon, <1>3, <1>b, RestartCalm, CommandsCalm
<1>4. ASSUME NEW n \in conf.nodes, NEW m \in conf.nodes, NEW r \in conf.nodes, ReportExpires(n, m, r)
      PROVE  QuorumInv'
  BY Zenon, <1>4, <1>b, OtherCalm
<1>5. CASE UNCHANGED cvars
  BY Zenon, <1>5, <1>b, OtherCalm
<1> QED BY Zenon, <1>1, <1>2, <1>3, <1>4, <1>5 DEF Next

LEMMA QuorumInit == Init => QuorumInv
<1> SUFFICES ASSUME Init, MastersOnly(conf) PROVE QuorumInv
  BY Zenon DEF QuorumInv
<1> DEFINE c == conf
           t == [m \in c.nodes |-> StartEntry(c, m)]
<1>1. /\ c \in Confs /\ nd = [n \in c.nodes |-> StartNode(c)] /\ suspects = [n \in c.nodes |-> {}]
      /\ net = [k \in Channels(c.links) |-> <<>>] /\ disk = [n \in c.nodes |-> nd[n].tab]
  BY Zenon DEF Init
<1>2. suspects \in [c.nodes -> SUBSET c.nodes]
  BY Zenon, <1>1
<1>3. HonestNet(c, suspects, net)
  BY <1>1 DEF HonestNet
<1>4. \A n \in c.nodes : nd[n].tab = t /\ nd[n].due = FALSE /\ disk[n] = t
  BY Zenon, <1>1 DEF StartNode
<1>5. ASSUME NEW n \in c.nodes, NEW m \in c.nodes
      PROVE  HonestEntry(c, suspects, n, m, StartEntry(c, m))
  <2> DEFINE e == StartEntry(c, m)
  <2>1. e.of = c.of[m] /\ e.slots = c.slots[m] /\ e.fail = (m \in c.down) /\ e.pfail = FALSE /\ e.reps = {}
    BY Zenon DEF StartEntry, NewEntry
  <2>2. c.of[m] = None
    BY Zenon DEF MastersOnly
  <2>3. Keeps(c, m, c.slots[m])
    BY <1>1, ConfsAssumption DEF Keeps
  <2> HIDE DEF e
  <2>4. HonestEntry(c, suspects, n, m, e)
    BY Zenon, <2>1, <2>2, <2>3 DEF HonestEntry, Agreed
  <2> QED BY Zenon, <2>4 DEF e
<1>6. \A n \in c.nodes : Honest(c, suspects, n, t)
  BY Zenon, <1>5 DEF Honest
<1> HIDE DEF t
<1> QED BY Zenon, <1>2, <1>3, <1>4, <1>6 DEF QuorumInv

(* In a cluster of masters that keep their slots, a node is FAIL in some   *)
(* table only after a majority of the masters found it silent themselves,  *)
(* for any number of nodes, whatever reports are delayed, lost, repeated,  *)
(* withdrawn or expire, and whoever restarts.                              *)
THEOREM FailIsAgreed == Spec => [](MastersOnly(conf) => FailNeedsQuorum)
<1>1. HolderInv /\ QuorumInv => (MastersOnly(conf) => FailNeedsQuorum)
  <2> SUFFICES ASSUME HolderInv, QuorumInv, MastersOnly(conf), NEW n \in Up, NEW m \in DOMAIN nd[n].tab,
                      nd[n].tab[m].fail, m \notin conf.down
               PROVE  Cardinality({k \in suspects[m] : conf.of[k] = None}) >= Cardinality(conf.masters) \div 2 + 1
    BY Zenon DEF FailNeedsQuorum
  <2>1. Honest(conf, suspects, n, nd[n].tab)
    BY Zenon DEF QuorumInv, Up
  <2> QED BY Zenon, <2>1 DEF Honest, HonestEntry, Agreed
<1>2. Spec => [](HolderInv /\ QuorumInv)
  <2>1. Init => HolderInv /\ QuorumInv
    BY Zenon, HolderInit, QuorumInit
  <2>2. HolderInv /\ QuorumInv /\ [Next]_cvars => HolderInv' /\ QuorumInv'
    BY Zenon, HolderNext, QuorumNext
  <2> QED BY <2>1, <2>2, PTL DEF Spec
<1> QED BY <1>1, <1>2, PTL
=============================================================================
