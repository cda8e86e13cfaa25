---------------------------- MODULE ClusterProofs ----------------------------
(***************************************************************************)
(* Proofs about Cluster, for every set of clusters, slots and operations.  *)
(***************************************************************************)
EXTENDS Cluster, FiniteSetTheorems, WellFoundedInduction, TLAPS

-----------------------------------------------------------------------------
(* Slot claims (ClusterClaims), for tables of any size, slots and epochs.  *)

IsTable(t, K, SlotSet) == K \subseteq Nat /\ t \in [K -> Entries(SlotSet)]

\* the slots of node o after the claims bm of c
After(t, c, bm, o) ==
  IF o = c
  THEN {s \in bm : \A h \in Holders(t, s) \ {c} : Better(t, c, h)}
  ELSE {s \in t[o].slots : s \in bm => ~Better(t, c, o)}

(* Epoch and node id order any two nodes one way, so that two nodes which  *)
(* compare the same claims choose the same owner.                          *)
THEOREM BetterIsTotalOrder ==
  ASSUME NEW SlotSet, NEW K, NEW t, IsTable(t, K, SlotSet),
         NEW a \in K, NEW b \in K, NEW c \in K
  PROVE  /\ ~Better(t, a, a)
         /\ a # b => (Better(t, a, b) <=> ~Better(t, b, a))
         /\ Better(t, a, b) /\ Better(t, b, c) => Better(t, a, c)
<1>1. t[a].epoch \in Nat /\ t[b].epoch \in Nat /\ t[c].epoch \in Nat
  BY Zenon DEF IsTable, Entries
<1>2. a \in Nat /\ b \in Nat /\ c \in Nat
  BY Zenon DEF IsTable
<1> QED BY <1>1, <1>2 DEF Better

LEMMA ContestSlots ==
  ASSUME NEW SlotSet, NEW K, NEW t, IsTable(t, K, SlotSet),
         NEW c \in K, NEW bm \in SUBSET SlotSet
  PROVE  /\ DOMAIN Contest(t, c, bm) = K
         /\ \A o \in K : Contest(t, c, bm)[o].slots = After(t, c, bm, o)
<1>1. DOMAIN t = K /\ \A o \in K : t[o] \in Entries(SlotSet)
  BY Zenon DEF IsTable
<1> QED BY Zenon, <1>1 DEF Contest, Entries, After

(* cluster_merge_claims: after the claims bm of node c have been settled   *)
(* against a table in which no slot has two holders, no slot has two.      *)
THEOREM ContestExclusive ==
  ASSUME NEW SlotSet, NEW K, NEW t, IsTable(t, K, SlotSet),
         NEW c \in K, NEW bm \in SUBSET SlotSet, Exclusive(t)
  PROVE  Exclusive(Contest(t, c, bm))
<1> DEFINE u == Contest(t, c, bm)
<1>u. DOMAIN u = K /\ \A o \in K : u[o].slots = After(t, c, bm, o)
  BY ContestSlots
<1> HIDE DEF u
<1> SUFFICES ASSUME NEW a \in K, NEW b \in K, a # b, NEW s,
                    s \in u[a].slots, s \in u[b].slots
             PROVE  FALSE
  BY Zenon, <1>u DEF Exclusive, u
<1>k. DOMAIN t = K
  BY Zenon DEF IsTable
<1>1. ASSUME NEW o \in K, o # c, s \in u[o].slots, s \in u[c].slots PROVE FALSE
  <2>1. s \in t[o].slots /\ (s \in bm => ~Better(t, c, o))
    BY Zenon, <1>1, <1>u DEF After
  <2>2. s \in bm /\ \A h \in Holders(t, s) \ {c} : Better(t, c, h)
    BY Zenon, <1>1, <1>u DEF After
  <2>3. o \in Holders(t, s) \ {c}
    BY Zenon, <1>1, <1>k, <2>1 DEF Holders
  <2> QED BY Zenon, <2>1, <2>2, <2>3
<1>2. CASE a # c /\ b # c
  <2>1. s \in t[a].slots /\ s \in t[b].slots
    BY Zenon, <1>2, <1>u DEF After
  <2> QED BY Zenon, <2>1, <1>k DEF Exclusive
<1> QED BY Zenon, <1>1, <1>2

(* A claimed slot always ends with an owner: its holder before, or the     *)
(* claimant, and of these two the better one.                              *)
THEOREM ContestSettles ==
  ASSUME NEW SlotSet, NEW K, NEW t, IsTable(t, K, SlotSet),
         NEW c \in K, NEW bm \in SUBSET SlotSet, Exclusive(t), NEW s \in bm
  PROVE  \E w \in K :
           /\ Holders(Contest(t, c, bm), s) = {w}
           /\ w = c \/ s \in t[w].slots
           /\ \A h \in Holders(t, s) \cup {c} : h # w => Better(t, w, h)
<1> DEFINE u == Contest(t, c, bm)
<1>a. DOMAIN t = K
  BY Zenon DEF IsTable
<1>b. DOMAIN u = K /\ \A o \in K : u[o].slots = After(t, c, bm, o)
  BY ContestSlots
<1>d. DOMAIN t = K /\ DOMAIN u = K /\ \A o \in K : u[o].slots = After(t, c, bm, o)
  BY Zenon, <1>a, <1>b
<1>e. Exclusive(u)
  BY Zenon, ContestExclusive
<1> HIDE DEF u
<1>1. CASE \E o \in K \ {c} : s \in t[o].slots /\ ~Better(t, c, o)
  <2> PICK o \in K \ {c} : s \in t[o].slots /\ ~Better(t, c, o)
    BY Zenon, <1>1
  <2>1. s \in u[o].slots
    BY Zenon, <1>d DEF After
  <2>2. \A x \in K : s \in u[x].slots => x = o
    BY Zenon, <2>1, <1>d, <1>e DEF Exclusive
  <2>3. Holders(u, s) = {o}
    BY Zenon, <2>1, <2>2, <1>d DEF Holders
  <2>4. Better(t, o, c)
    BY Zenon, BetterIsTotalOrder
  <2>5. \A h \in Holders(t, s) : h = o
    BY Zenon, <1>d DEF Holders, Exclusive
  <2> QED BY Zenon, <2>3, <2>4, <2>5 DEF u
<1>2. CASE \A o \in K \ {c} : s \in t[o].slots => Better(t, c, o)
  <2>1. s \in u[c].slots
    BY Zenon, <1>2, <1>d DEF Holders, After
  <2>2. \A x \in K : s \in u[x].slots => x = c
    BY Zenon, <2>1, <1>d, <1>e DEF Exclusive
  <2>3. Holders(u, s) = {c}
    BY Zenon, <2>1, <2>2, <1>d DEF Holders
  <2>4. \A h \in Holders(t, s) \cup {c} : h # c => Better(t, c, h)
    BY Zenon, <1>2, <1>d DEF Holders
  <2> QED BY Zenon, <2>3, <2>4 DEF u
<1> QED BY Zenon, <1>1, <1>2

(* CLUSTER SETSLOT NODE leaves one holder of every slot.                   *)
THEOREM AssignExclusive ==
  ASSUME NEW SlotSet, NEW K, NEW t, IsTable(t, K, SlotSet),
         NEW m \in K, NEW s \in SlotSet, Exclusive(t)
  PROVE  Exclusive(Assign(t, s, m)) /\ Holders(Assign(t, s, m), s) = {m}
<1> DEFINE u == Assign(t, s, m)
<1>1. DOMAIN t = K /\ \A o \in K : t[o] \in Entries(SlotSet)
  BY Zenon DEF IsTable
<1>2. DOMAIN u = K /\ \A o \in K : u[o].slots = IF o = m THEN t[o].slots \cup {s}
                                                          ELSE t[o].slots \ {s}
  BY Zenon, <1>1 DEF Assign, Entries
<1> HIDE DEF u
<1>3. Exclusive(u)
  <2> SUFFICES ASSUME NEW a \in K, NEW b \in K, a # b, NEW x,
                      x \in u[a].slots, x \in u[b].slots
               PROVE  FALSE
    BY Zenon, <1>2 DEF Exclusive
  <2>1. x # s
    BY Zenon, <1>2
  <2>2. x \in t[a].slots /\ x \in t[b].slots
    BY Zenon, <1>2, <2>1
  <2> QED BY Zenon, <1>1, <2>2 DEF Exclusive
<1>4. Holders(u, s) = {m}
  BY Zenon, <1>2 DEF Holders
<1> QED BY Zenon, <1>3, <1>4 DEF u

(* A promotion hands the old master's slots over whole: no slot gets a     *)
(* second holder, and none is lost.                                        *)
THEOREM InheritExclusive ==
  ASSUME NEW SlotSet, NEW K, NEW t, IsTable(t, K, SlotSet),
         NEW me \in K, NEW e \in Nat, Exclusive(t)
  PROVE  /\ Exclusive(Inherit(t, me, e))
         /\ \A s \in SlotSet : Holders(t, s) # {} => Holders(Inherit(t, me, e), s) # {}
<1> DEFINE u == Inherit(t, me, e)
           m == t[me].of
<1>1. DOMAIN t = K /\ \A o \in K : t[o] \in Entries(SlotSet)
  BY Zenon DEF IsTable
<1>2. /\ DOMAIN u = K
      /\ \A o \in K : u[o].slots =
           IF o = me THEN (IF m \in K THEN t[me].slots \cup t[m].slots ELSE t[me].slots)
           ELSE IF o = m THEN {} ELSE t[o].slots
  BY Zenon, <1>1 DEF Inherit, Entries
<1> HIDE DEF u, m
<1>3. Exclusive(u)
  BY Zenon, <1>1, <1>2 DEF Exclusive
<1>4. \A s \in SlotSet : Holders(t, s) # {} => Holders(u, s) # {}
  BY Zenon, <1>1, <1>2 DEF Holders
<1> QED BY Zenon, <1>3, <1>4 DEF u

-----------------------------------------------------------------------------
(* Tables, node states and frames.                                         *)

LEMMA NodesAre ==
  ASSUME NEW c \in Confs
  PROVE  IsFiniteSet(c.nodes) /\ c.nodes \subseteq Nat \ {0} /\ Cardinality(c.nodes) \in Nat
<1>1. IsFiniteSet(c.nodes) /\ c.nodes = 1 .. Cardinality(c.nodes)
  BY Zenon, ConfsAssumption
<1>2. Cardinality(c.nodes) \in Nat
  BY Zenon, <1>1, FS_CardinalityType
<1> QED BY <1>1, <1>2

LEMMA TableIs ==
  ASSUME NEW c, NEW t
  PROVE  t \in Tables(c) <=> DOMAIN t \subseteq c.nodes /\ t \in [DOMAIN t -> Entries(Slots(c))]
<1>1. ASSUME t \in Tables(c)
      PROVE  DOMAIN t \subseteq c.nodes /\ t \in [DOMAIN t -> Entries(Slots(c))]
  <2>1. PICK D \in SUBSET c.nodes : t \in [D -> Entries(Slots(c))]
    BY Zenon, <1>1 DEF Tables
  <2> QED BY Zenon, <2>1
<1>2. ASSUME DOMAIN t \subseteq c.nodes, t \in [DOMAIN t -> Entries(Slots(c))]
      PROVE  t \in Tables(c)
  BY Zenon, <1>2 DEF Tables
<1> QED BY Zenon, <1>1, <1>2

LEMMA TableClaims ==
  ASSUME NEW c \in Confs, NEW t \in Tables(c)
  PROVE  IsTable(t, DOMAIN t, Slots(c))
BY Zenon, TableIs, NodesAre DEF IsTable

(* A step of the table that moves no slot and adds only entries without.   *)
LEMMA SameSlots ==
  ASSUME NEW c, NEW n, NEW t, TableGood(c, n, t), NEW u \in Tables(c),
         DOMAIN t \subseteq DOMAIN u,
         \A m \in DOMAIN u : u[m].slots = IF m \in DOMAIN t THEN t[m].slots ELSE {}
  PROVE  TableGood(c, n, u)
<1>1. Exclusive(u)
  BY Zenon DEF Exclusive, TableGood
<1> QED BY Zenon, <1>1 DEF TableGood

(* The entry e takes the place of m's.                                     *)
LEMMA SetEntry ==
  ASSUME NEW c, NEW n, NEW t, TableGood(c, n, t), NEW m \in DOMAIN t,
         NEW e \in Entries(Slots(c)), e.slots = t[m].slots
  PROVE  TableGood(c, n, [t EXCEPT ![m] = e])
<1> DEFINE u == [t EXCEPT ![m] = e]
<1>1. t \in [DOMAIN t -> Entries(Slots(c))] /\ DOMAIN t \subseteq c.nodes
  BY Zenon, TableIs DEF TableGood
<1>2. u \in [DOMAIN t -> Entries(Slots(c))] /\ DOMAIN u = DOMAIN t
  BY Zenon, <1>1
<1>3. u \in Tables(c)
  BY Zenon, <1>1, <1>2, TableIs
<1>4. \A k \in DOMAIN u : u[k].slots = t[k].slots
  BY Zenon, <1>1
<1> HIDE DEF u
<1>5. TableGood(c, n, u)
  BY Zenon, <1>2, <1>3, <1>4, SameSlots
<1> QED BY Zenon, <1>5 DEF u

LEMMA EntryIs ==
  ASSUME NEW c, NEW n, NEW x, Good(c, n, x), NEW m \in DOMAIN x.tab
  PROVE  x.tab[m] \in Entries(Slots(c)) /\ m \in c.nodes
BY Zenon, TableIs DEF Good, TableGood

LEMMA WithTable ==
  ASSUME NEW c, NEW n, NEW x, Good(c, n, x), NEW t, TableGood(c, n, t)
  PROVE  Good(c, n, [x EXCEPT !.tab = t]) /\ [x EXCEPT !.tab = t].tab = t
BY Zenon DEF Good, TableGood, States

(* The record of a node with another current epoch.                        *)
LEMMA WithCur ==
  ASSUME NEW c, NEW n, NEW x, Good(c, n, x), NEW e \in Nat
  PROVE  Good(c, n, [x EXCEPT !.cur = e]) /\ [x EXCEPT !.cur = e].tab = x.tab
BY Zenon DEF Good, States

-----------------------------------------------------------------------------
(* Failure reports.                                                        *)

LEMMA MarkFailGood ==
  ASSUME NEW c, NEW n, NEW x, Good(c, n, x), NEW m \in DOMAIN x.tab
  PROVE  Good(c, n, MarkFail(x, n, m)) /\ DOMAIN MarkFail(x, n, m).tab = DOMAIN x.tab
<1> DEFINE e == [x.tab[m] EXCEPT !.pfail = FALSE, !.fail = TRUE]
           t == [x.tab EXCEPT ![m] = e]
<1>1. x.tab[m] \in Entries(Slots(c)) /\ x \in States(c) /\ TableGood(c, n, x.tab)
  BY Zenon, EntryIs DEF Good
<1>2. e \in Entries(Slots(c)) /\ e.slots = x.tab[m].slots
  BY Zenon, <1>1 DEF Entries
<1>3. [x EXCEPT !.tab[m].pfail = FALSE, !.tab[m].fail = TRUE] = [x EXCEPT !.tab = t]
  BY Zenon, <1>1 DEF States
<1> HIDE DEF e
<1>4. TableGood(c, n, t) /\ DOMAIN t = DOMAIN x.tab
  BY Zenon, <1>1, <1>2, SetEntry
<1> HIDE DEF t
<1>5. Good(c, n, [x EXCEPT !.tab = t]) /\ [x EXCEPT !.tab = t].tab = t
  BY <1>4, WithTable
<1> QED BY Zenon, <1>3, <1>4, <1>5 DEF MarkFail

LEMMA ReportsGood ==
  ASSUME NEW c, NEW n, NEW x, Good(c, n, x), NEW m \in DOMAIN x.tab, NEW r \in Int
  PROVE  /\ Good(c, n, ReportFailure(x, m, r)) /\ DOMAIN ReportFailure(x, m, r).tab = DOMAIN x.tab
         /\ Good(c, n, ReportHeal(x, m, r)) /\ DOMAIN ReportHeal(x, m, r).tab = DOMAIN x.tab
<1>1. x.tab[m] \in Entries(Slots(c)) /\ x \in States(c) /\ TableGood(c, n, x.tab)
  BY Zenon, EntryIs DEF Good
<1>2. ASSUME NEW R \in SUBSET Int
      PROVE  /\ Good(c, n, [x EXCEPT !.tab[m].reps = R])
             /\ DOMAIN [x EXCEPT !.tab[m].reps = R].tab = DOMAIN x.tab
  <2> DEFINE e == [x.tab[m] EXCEPT !.reps = R]
             t == [x.tab EXCEPT ![m] = e]
  <2>2. e \in Entries(Slots(c)) /\ e.slots = x.tab[m].slots
    BY Zenon, <1>1 DEF Entries
  <2>3. [x EXCEPT !.tab[m].reps = R] = [x EXCEPT !.tab = t]
    BY Zenon, <1>1 DEF States
  <2> HIDE DEF e
  <2>4. TableGood(c, n, t) /\ DOMAIN t = DOMAIN x.tab
    BY Zenon, <1>1, <2>2, SetEntry
  <2> HIDE DEF t
  <2>5. Good(c, n, [x EXCEPT !.tab = t]) /\ [x EXCEPT !.tab = t].tab = t
    BY <2>4, WithTable
  <2> QED BY Zenon, <2>3, <2>4, <2>5
<1>3. x.tab[m].reps \cup {r} \in SUBSET Int /\ x.tab[m].reps \ {r} \in SUBSET Int
  BY Zenon, <1>1 DEF Entries
<1>4. /\ ReportFailure(x, m, r) = [x EXCEPT !.tab[m].reps = x.tab[m].reps \cup {r}]
      /\ ReportHeal(x, m, r) = [x EXCEPT !.tab[m].reps = x.tab[m].reps \ {r}]
  BY Zenon DEF ReportFailure, ReportHeal
<1> QED BY Zenon, <1>2, <1>3, <1>4

LEMMA QuorumGood ==
  ASSUME NEW c, NEW n, NEW x, Good(c, n, x), NEW m \in DOMAIN x.tab
  PROVE  Good(c, n, MarkFailIfQuorum(x, n, m)) /\ DOMAIN MarkFailIfQuorum(x, n, m).tab = DOMAIN x.tab
BY MarkFailGood DEF MarkFailIfQuorum

LEMMA ReportGood ==
  ASSUME NEW c, NEW n, NEW x, Good(c, n, x), NEW f, f.from \in Int, NEW m, NEW g
  PROVE  Good(c, n, Report(x, n, f, m, g)) /\ DOMAIN Report(x, n, f, m, g).tab = DOMAIN x.tab
<1>1. CASE m = n \/ m \notin DOMAIN x.tab \/ f.of # None
  BY Zenon, <1>1 DEF Report
<1>2. CASE ~(m = n \/ m \notin DOMAIN x.tab \/ f.of # None)
  <2>1. /\ Good(c, n, ReportFailure(x, m, f.from))
        /\ DOMAIN ReportFailure(x, m, f.from).tab = DOMAIN x.tab
        /\ Good(c, n, ReportHeal(x, m, f.from))
        /\ DOMAIN ReportHeal(x, m, f.from).tab = DOMAIN x.tab
    BY <1>2, ReportsGood
  <2>2. /\ Good(c, n, MarkFailIfQuorum(ReportFailure(x, m, f.from), n, m))
        /\ DOMAIN MarkFailIfQuorum(ReportFailure(x, m, f.from), n, m).tab = DOMAIN x.tab
    BY <1>2, <2>1, QuorumGood
  <2> QED BY Zenon, <1>2, <2>1, <2>2 DEF Report
<1> QED BY Zenon, <1>1, <1>2

-----------------------------------------------------------------------------
(* What a frame does to the table.                                         *)

LEMMA PutEntry ==
  ASSUME NEW c, NEW n, NEW t, TableGood(c, n, t), NEW k \in c.nodes,
         NEW e \in Entries(Slots(c)), e.slots = IF k \in DOMAIN t THEN t[k].slots ELSE {}
  PROVE  /\ TableGood(c, n, [m \in DOMAIN t \cup {k} |-> IF m = k THEN e ELSE t[m]])
         /\ DOMAIN [m \in DOMAIN t \cup {k} |-> IF m = k THEN e ELSE t[m]] = DOMAIN t \cup {k}
<1> DEFINE u == [m \in DOMAIN t \cup {k} |-> IF m = k THEN e ELSE t[m]]
<1>1. t \in [DOMAIN t -> Entries(Slots(c))] /\ DOMAIN t \subseteq c.nodes
  BY Zenon, TableIs DEF TableGood
<1>2. u \in [DOMAIN t \cup {k} -> Entries(Slots(c))] /\ DOMAIN u = DOMAIN t \cup {k}
  BY Zenon, <1>1
<1>3. u \in Tables(c)
  BY Zenon, <1>1, <1>2, TableIs
<1>4. \A m \in DOMAIN u : u[m].slots = IF m \in DOMAIN t THEN t[m].slots ELSE {}
  BY Zenon, <1>1
<1> HIDE DEF u
<1>5. TableGood(c, n, u)
  BY Zenon, <1>2, <1>3, <1>4, SameSlots
<1> QED BY Zenon, <1>2, <1>5 DEF u

LEMMA NewEntryIs == ASSUME NEW c PROVE NewEntry \in Entries(Slots(c)) /\ NewEntry.slots = {}
BY DEF NewEntry, Entries, None

LEMMA HeaderGood ==
  ASSUME NEW c, NEW n, NEW x, Good(c, n, x), NEW f, f.from \in c.nodes, f.of \in Int
  PROVE  Good(c, n, Header(x, f)) /\ DOMAIN Header(x, f).tab = DOMAIN x.tab \cup {f.from}
<1> DEFINE k == f.from
           known == IF k \in DOMAIN x.tab THEN x.tab[k] ELSE NewEntry
           e == [known EXCEPT !.of = f.of, !.pfail = FALSE, !.fail = FALSE, !.disc = FALSE,
                             !.seen = TRUE]
           t == [m \in DOMAIN x.tab \cup {k} |-> IF m = k THEN e ELSE x.tab[m]]
<1>1. /\ known \in Entries(Slots(c)) /\ TableGood(c, n, x.tab)
      /\ known.slots = IF k \in DOMAIN x.tab THEN x.tab[k].slots ELSE {}
  BY Zenon, EntryIs, NewEntryIs DEF Good
<1>2. Header(x, f) = [x EXCEPT !.tab = t]
  BY Zenon DEF Header
<1> HIDE DEF known
<1>3. e \in Entries(Slots(c)) /\ e.slots = known.slots
  BY Zenon, <1>1 DEF Entries
<1> HIDE DEF e
<1>4. TableGood(c, n, t) /\ DOMAIN t = DOMAIN x.tab \cup {k}
  BY <1>1, <1>3, PutEntry
<1> HIDE DEF t
<1>5. Good(c, n, [x EXCEPT !.tab = t]) /\ [x EXCEPT !.tab = t].tab = t
  BY <1>4, WithTable
<1> QED BY Zenon, <1>2, <1>4, <1>5

LEMMA LearnGood ==
  ASSUME NEW c, NEW n, NEW x, Good(c, n, x), NEW m \in c.nodes, NEW g \in GossipEntries(c)
  PROVE  Good(c, n, Learn(x, m, g)) /\ DOMAIN Learn(x, m, g).tab = DOMAIN x.tab \cup {m}
<1>1. CASE m \in DOMAIN x.tab
  BY Zenon, <1>1 DEF Learn
<1>2. CASE m \notin DOMAIN x.tab
  <2> DEFINE of == IF conf.redis /\ g.of # None THEN Unknown ELSE g.of
             disc == ~conf.redis /\ g.disc
             e == [NewEntry EXCEPT !.of = of, !.pfail = g.pfail, !.fail = g.fail, !.disc = disc]
             t == [k \in DOMAIN x.tab \cup {m} |-> IF k = m THEN e ELSE x.tab[k]]
  <2>1. of \in Int /\ g.pfail \in BOOLEAN /\ g.fail \in BOOLEAN
    BY DEF GossipEntries, Unknown
  <2>2. disc \in BOOLEAN
    BY Zenon
  <2>3. Learn(x, m, g) = [x EXCEPT !.tab = t]
    BY Zenon, <1>2 DEF Learn
  <2> HIDE DEF of, disc
  <2>4. e \in Entries(Slots(c)) /\ e.slots = {}
    <3>1. NewEntry \in Entries(Slots(c)) /\ NewEntry.slots = {}
      BY Zenon, NewEntryIs
    <3> QED BY Zenon, <2>1, <2>2, <3>1 DEF Entries
  <2> HIDE DEF e
  <2>5. TableGood(c, n, t) /\ DOMAIN t = DOMAIN x.tab \cup {m}
    <3>1. TableGood(c, n, x.tab)
      BY Zenon DEF Good
    <3> QED BY <1>2, <2>4, <3>1, PutEntry
  <2> HIDE DEF t
  <2>6. Good(c, n, [x EXCEPT !.tab = t]) /\ [x EXCEPT !.tab = t].tab = t
    BY <2>5, WithTable
  <2> QED BY Zenon, <2>3, <2>5, <2>6
<1> QED BY Zenon, <1>1, <1>2

LEMMA ContestTable ==
  ASSUME NEW c \in Confs, NEW n, NEW t, TableGood(c, n, t), NEW k \in DOMAIN t,
         NEW bm \in SUBSET Slots(c)
  PROVE  TableGood(c, n, Contest(t, k, bm)) /\ DOMAIN Contest(t, k, bm) = DOMAIN t
<1> DEFINE u == Contest(t, k, bm)
<1>1. t \in [DOMAIN t -> Entries(Slots(c))] /\ DOMAIN t \subseteq c.nodes /\ t \in Tables(c)
  BY Zenon, TableIs DEF TableGood
<1>2. Exclusive(u)
  BY Zenon, <1>1, TableClaims, ContestExclusive DEF TableGood
<1>3. DOMAIN u = DOMAIN t /\ \A o \in DOMAIN t : u[o] \in Entries(Slots(c))
  <2>1. DOMAIN u = DOMAIN t
    BY Zenon DEF Contest
  <2>2. ASSUME NEW o \in DOMAIN t PROVE u[o] \in Entries(Slots(c))
    <3> DEFINE S == IF o = k THEN {s \in bm : \A h \in Holders(t, s) \ {k} : Better(t, k, h)}
                    ELSE {s \in t[o].slots : s \in bm => ~Better(t, k, o)}
    <3>1. u[o] = [t[o] EXCEPT !.slots = S]
      BY Zenon DEF Contest
    <3>2. t[o] \in Entries(Slots(c))
      BY Zenon, <1>1
    <3>3. S \in SUBSET Slots(c)
      BY Zenon, <3>2 DEF Entries
    <3> HIDE DEF S
    <3> QED BY Zenon, <3>1, <3>2, <3>3 DEF Entries
  <2> QED BY Zenon, <2>1, <2>2
<1>4. u = [o \in DOMAIN u |-> u[o]]
  BY Zenon DEF Contest
<1> HIDE DEF u
<1>5. u \in Tables(c)
  BY Zenon, <1>1, <1>3, <1>4, TableIs
<1>6. TableGood(c, n, u)
  BY Zenon, <1>2, <1>3, <1>5 DEF TableGood
<1> QED BY Zenon, <1>3, <1>6 DEF u

LEMMA EpochGood ==
  ASSUME NEW c, NEW n, NEW t, TableGood(c, n, t), NEW k \in DOMAIN t, NEW e \in Nat
  PROVE  /\ TableGood(c, n, [t EXCEPT ![k].epoch = e])
         /\ DOMAIN [t EXCEPT ![k].epoch = e] = DOMAIN t
<1> DEFINE y == [t[k] EXCEPT !.epoch = e]
<1>1. t[k] \in Entries(Slots(c))
  BY Zenon, TableIs DEF TableGood
<1>2. y \in Entries(Slots(c)) /\ y.slots = t[k].slots
  BY Zenon, <1>1 DEF Entries
<1>3. [t EXCEPT ![k].epoch = e] = [t EXCEPT ![k] = y]
  BY Zenon
<1> HIDE DEF y
<1> QED BY Zenon, <1>2, <1>3, SetEntry

LEMMA MaxNat == ASSUME NEW a \in Nat, NEW b \in Nat PROVE Max2(a, b) \in Nat
BY Zenon DEF Max2

LEMMA MergeGood ==
  ASSUME NEW c \in Confs, NEW n, NEW x, Good(c, n, x), NEW k \in DOMAIN x.tab,
         NEW bm \in SUBSET Slots(c), NEW e \in Nat
  PROVE  /\ Good(c, n, MergeClaims(x, n, k, bm, e))
         /\ DOMAIN MergeClaims(x, n, k, bm, e).tab = DOMAIN x.tab
<1> DEFINE ep == Max2(x.tab[k].epoch, e)
           cu == Max2(x.cur, e)
           t == [x.tab EXCEPT ![k].epoch = ep]
           u == IF k = n THEN t ELSE Contest(t, k, bm)
<1>1. x.tab[k] \in Entries(Slots(c)) /\ x \in States(c) /\ TableGood(c, n, x.tab)
  BY Zenon, EntryIs DEF Good
<1>2. x.tab[k].epoch \in Nat /\ x.cur \in Nat
  BY Zenon, <1>1 DEF Entries, States
<1>3. ep \in Nat /\ cu \in Nat
  BY Zenon, <1>2, MaxNat
<1>4. MergeClaims(x, n, k, bm, e) = [x EXCEPT !.cur = cu, !.tab = u]
  BY Zenon DEF MergeClaims
<1> HIDE DEF ep, cu
<1>5. TableGood(c, n, t) /\ DOMAIN t = DOMAIN x.tab
  BY Zenon, <1>1, <1>3, EpochGood
<1> HIDE DEF t
<1>6. TableGood(c, n, u) /\ DOMAIN u = DOMAIN x.tab
  BY <1>5, ContestTable
<1> HIDE DEF u
<1> DEFINE z == [x EXCEPT !.cur = cu]
<1>7. [x EXCEPT !.cur = cu, !.tab = u] = [z EXCEPT !.tab = u]
  BY Zenon, <1>1 DEF States
<1>8. Good(c, n, z)
  BY Zenon, <1>3, WithCur
<1> HIDE DEF z
<1>9. Good(c, n, [z EXCEPT !.tab = u]) /\ [z EXCEPT !.tab = u].tab = u
  BY <1>6, <1>8, WithTable
<1> QED BY Zenon, <1>4, <1>6, <1>7, <1>9

(* What a PING frame and its entries are made of.                          *)
LEMMA PingIs ==
  ASSUME NEW c, NEW f \in Pings(c)
  PROVE  /\ f.from \in c.nodes /\ f.of \in Int /\ f.cur \in Nat /\ f.epoch \in Nat
         /\ f.slots \in SUBSET Slots(c) /\ f.type \in {"PING", "PONG", "MEET"}
         /\ \A m \in DOMAIN f.gossip : m \in c.nodes /\ f.gossip[m] \in GossipEntries(c)
<1>1. f.gossip \in UNION {[D -> GossipEntries(c)] : D \in SUBSET c.nodes}
  BY Zenon DEF Pings
<1>2. PICK D \in SUBSET c.nodes : f.gossip \in [D -> GossipEntries(c)]
  BY Zenon, <1>1
<1>3. \A m \in DOMAIN f.gossip : m \in c.nodes /\ f.gossip[m] \in GossipEntries(c)
  BY Zenon, <1>2
<1> QED BY Zenon, <1>3 DEF Pings

LEMMA GossipStepGood ==
  ASSUME conf \in Confs, NEW n, NEW x, Good(conf, n, x), NEW f \in Pings(conf),
         NEW m \in DOMAIN f.gossip
  PROVE  Good(conf, n, GossipStep(x, n, f, m))
<1> DEFINE g == f.gossip[m]
           r == Report(x, n, f, m, g)
           y == Learn(r, m, g)
<1>1. m \in conf.nodes /\ g \in GossipEntries(conf) /\ f.from \in Int
  BY PingIs, NodesAre
<1>2. GossipStep(x, n, f, m) = IF ~conf.redis /\ g.epoch >= y.tab[m].epoch
                               THEN MergeClaims(y, n, m, g.slots, g.epoch) ELSE y
  BY Zenon DEF GossipStep
<1> HIDE DEF g
<1>3. Good(conf, n, r)
  BY Zenon, <1>1, ReportGood
<1> HIDE DEF r
<1>4. Good(conf, n, y) /\ m \in DOMAIN y.tab
  BY <1>1, <1>3, LearnGood
<1> HIDE DEF y
<1>5. g.slots \in SUBSET Slots(conf) /\ g.epoch \in Nat
  BY Zenon, <1>1 DEF GossipEntries
<1>6. Good(conf, n, MergeClaims(y, n, m, g.slots, g.epoch))
  BY Zenon, <1>4, <1>5, MergeGood
<1> QED BY Zenon, <1>2, <1>4, <1>6

(* Induction, for a set of numbers.                                        *)
LEMMA Induction ==
  ASSUME NEW S, 0 \in S, \A n \in Nat : n \in S => n + 1 \in S
  PROVE  Nat \subseteq S
<1> SUFFICES ASSUME Nat \ S # {} PROVE FALSE
  BY Zenon
<1> DEFINE R == OpToRel(<, Nat)
<1>1. IsWellFoundedOn(R, Nat)
  BY Zenon, NatLessThanWellFounded
<1>2. \A x, y \in Nat : x < y => <<x, y>> \in R
  BY Zenon DEF OpToRel
<1> HIDE DEF R
<1>3. PICK x \in Nat \ S : \A y \in Nat \ S : ~ (<<y, x>> \in R)
  BY Zenon, <1>1, WFMin
<1>4. x # 0 /\ x - 1 \in Nat /\ x - 1 < x /\ (x - 1) + 1 = x
  BY <1>3
<1>5. x - 1 \in S
  BY Zenon, <1>2, <1>3, <1>4
<1> QED BY Zenon, <1>3, <1>4, <1>5

(* The loop over the gossip entries of a frame.                            *)
LEMMA GossipStepsIs ==
  ASSUME NEW x, NEW n, NEW f, Cardinality(conf.nodes) \in Nat
  PROVE  \E after :
           /\ GossipSteps(x, n, f) = after[Cardinality(conf.nodes)]
           /\ after[0] = x
           /\ \A i \in 1 .. Cardinality(conf.nodes) :
                after[i] = IF i \in DOMAIN f.gossip THEN GossipStep(after[i - 1], n, f, i) ELSE after[i - 1]
<1> DEFINE N == Cardinality(conf.nodes)
           Step(v, i) == CHOOSE z \in {IF i \in DOMAIN f.gossip THEN GossipStep(y, n, f, i) ELSE y :
                                         y \in {v}} : TRUE
           F(h, k) == [i \in 0 .. k |-> IF i = 0 THEN x ELSE Step(h[i - 1], i)]
           Runs == {k \in Nat : \E h : h = F(h, k)}
<1>1. 0 \in Runs
  <2>1. [i \in 0 .. 0 |-> x] = F([i \in 0 .. 0 |-> x], 0)
    OBVIOUS
  <2> QED BY Zenon, <2>1
<1>2. ASSUME NEW k \in Nat, k \in Runs PROVE k + 1 \in Runs
  <2>1. PICK h : h = F(h, k)
    BY Zenon, <1>2
  <2> DEFINE g == [i \in 0 .. (k + 1) |-> IF i = k + 1 THEN Step(h[k], k + 1) ELSE h[i]]
  <2>2. ASSUME NEW i \in 0 .. (k + 1) PROVE g[i] = IF i = 0 THEN x ELSE Step(g[i - 1], i)
    <3>1. CASE i = k + 1
      <4>1. g[i] = Step(h[k], i) /\ i # 0 /\ i - 1 = k
        BY <3>1
      <4>2. g[k] = h[k]
        OBVIOUS
      <4> HIDE DEF g
      <4> QED BY Zenon, <4>1, <4>2
    <3>2. CASE i # k + 1
      <4>1. i \in 0 .. k /\ g[i] = h[i] /\ (i # 0 => i - 1 \in 0 .. (k + 1) /\ i - 1 # k + 1)
        BY <3>2
      <4>2. i # 0 => g[i - 1] = h[i - 1]
        BY Zenon, <4>1
      <4>3. h[i] = IF i = 0 THEN x ELSE Step(h[i - 1], i)
        BY Zenon, <2>1, <4>1
      <4> HIDE DEF g
      <4> QED BY Zenon, <4>1, <4>2, <4>3
    <3> QED BY Zenon, <3>1, <3>2
  <2>3. g = F(g, k + 1)
    <3>1. g = [i \in 0 .. (k + 1) |-> g[i]]
      OBVIOUS
    <3> HIDE DEF g, Step
    <3>2. F(g, k + 1) = [i \in 0 .. (k + 1) |-> g[i]]
      BY Zenon, <2>2
    <3> QED BY Zenon, <3>1, <3>2
  <2> HIDE DEF g, Step
  <2>4. \E p : p = F(p, k + 1)
    BY Zenon, <2>3
  <2> QED BY <2>4
<1> HIDE DEF Runs
<1>3. N \in Runs
  BY Zenon, <1>1, <1>2, Induction
<1>4. \E h : h = F(h, N)
  BY Zenon, <1>3 DEF Runs
<1> DEFINE after == CHOOSE h : h = F(h, N)
<1>5. after = F(after, N)
  BY Zenon, <1>4
<1>6. GossipSteps(x, n, f) = after[N]
  BY Zenon DEF GossipSteps
<1> HIDE DEF after
<1>7. after[0] = x /\ \A i \in 1 .. N : after[i] = Step(after[i - 1], i)
  BY <1>5
<1>8. ASSUME NEW v, NEW i
      PROVE  Step(v, i) = IF i \in DOMAIN f.gossip THEN GossipStep(v, n, f, i) ELSE v
  <2> DEFINE w == IF i \in DOMAIN f.gossip THEN GossipStep(v, n, f, i) ELSE v
             T == {IF i \in DOMAIN f.gossip THEN GossipStep(y, n, f, i) ELSE y : y \in {v}}
  <2>1. T = {w}
    BY Zenon
  <2> HIDE DEF T, w
  <2>2. (CHOOSE z \in T : TRUE) = w
    BY Zenon, <2>1
  <2> QED BY Zenon, <2>2 DEF T, w
<1> HIDE DEF Step
<1> QED BY Zenon, <1>6, <1>7, <1>8

LEMMA GossipStepsGood ==
  ASSUME conf \in Confs, NEW n, NEW x, Good(conf, n, x), NEW f \in Pings(conf)
  PROVE  Good(conf, n, GossipSteps(x, n, f))
<1> DEFINE N == Cardinality(conf.nodes)
<1>n. N \in Nat
  BY Zenon, NodesAre
<1>1. PICK after :
        /\ GossipSteps(x, n, f) = after[N] /\ after[0] = x
        /\ \A i \in 1 .. N :
             after[i] = IF i \in DOMAIN f.gossip THEN GossipStep(after[i - 1], n, f, i) ELSE after[i - 1]
  BY <1>n, GossipStepsIs
<1> HIDE DEF N
<1> DEFINE OK == {i \in Nat : i <= N => Good(conf, n, after[i])}
<1>2. 0 \in OK
  BY Zenon, <1>1
<1>3. ASSUME NEW i \in Nat, i \in OK PROVE i + 1 \in OK
  <2> SUFFICES ASSUME i + 1 <= N PROVE Good(conf, n, after[i + 1])
    OBVIOUS
  <2>1. i + 1 \in 1 .. N /\ (i + 1) - 1 = i /\ Good(conf, n, after[i])
    BY <1>3, <1>n
  <2>2. after[i + 1] = IF i + 1 \in DOMAIN f.gossip THEN GossipStep(after[i], n, f, i + 1) ELSE after[i]
    BY Zenon, <2>1, <1>1
  <2> QED BY Zenon, <2>1, <2>2, GossipStepGood
<1> HIDE DEF OK
<1>4. N \in OK
  BY Zenon, <1>2, <1>3, <1>n, Induction
<1> QED BY <1>1, <1>4, <1>n DEF OK

LEMMA HandlePingGood ==
  ASSUME conf \in Confs, NEW n, NEW x, Good(conf, n, x), NEW f \in Pings(conf)
  PROVE  Good(conf, n, HandlePing(x, n, f))
<1> DEFINE h == Header(x, f)
           y == MergeClaims(h, n, f.from, f.slots, f.epoch)
           cu == Max2(y.cur, f.cur)
           z == IF conf.redis THEN [y EXCEPT !.cur = cu] ELSE y
<1>1. HandlePing(x, n, f) = GossipSteps(z, n, f)
  BY Zenon DEF HandlePing
<1>2. Good(conf, n, h) /\ f.from \in DOMAIN h.tab
  BY PingIs, HeaderGood
<1> HIDE DEF h
<1>3. Good(conf, n, y)
  BY Zenon, <1>2, PingIs, MergeGood
<1> HIDE DEF y
<1>4. cu \in Nat
  BY Zenon, <1>3, PingIs, MaxNat DEF Good, States
<1> HIDE DEF cu
<1>5. Good(conf, n, z)
  BY Zenon, <1>3, <1>4, WithCur
<1> HIDE DEF z
<1> QED BY Zenon, <1>1, <1>5, GossipStepsGood

-----------------------------------------------------------------------------
(* The timers.                                                             *)

LEMMA FailChecksGood ==
  ASSUME NEW c, NEW n, NEW x, Good(c, n, x), NEW S \in SUBSET DOMAIN x.tab
  PROVE  Good(c, n, FailChecks(x, n, S)) /\ DOMAIN FailChecks(x, n, S).tab = DOMAIN x.tab
<1> DEFINE u == [m \in DOMAIN x.tab |-> IF m \in S THEN Silent(x, n, m).tab[m] ELSE x.tab[m]]
<1>1. ASSUME NEW m \in DOMAIN x.tab
      PROVE  /\ Silent(x, n, m).tab[m] \in Entries(Slots(c))
             /\ Silent(x, n, m).tab[m].slots = x.tab[m].slots
  <2> DEFINE e == [x.tab[m] EXCEPT !.disc = TRUE, !.pfail = TRUE]
             t == [x.tab EXCEPT ![m] = e]
             y == [x EXCEPT !.tab = t]
  <2>1. x.tab[m] \in Entries(Slots(c)) /\ x \in States(c) /\ TableGood(c, n, x.tab)
    BY Zenon, EntryIs DEF Good
  <2>2. e \in Entries(Slots(c)) /\ e.slots = x.tab[m].slots
    BY Zenon, <2>1 DEF Entries
  <2>3. Silent(x, n, m) = MarkFailIfQuorum(y, n, m)
    BY Zenon, <2>1 DEF Silent, States
  <2> HIDE DEF e
  <2>4. TableGood(c, n, t) /\ DOMAIN t = DOMAIN x.tab /\ t[m] = e
    BY Zenon, <2>1, <2>2, SetEntry
  <2> HIDE DEF t
  <2>5. Good(c, n, y) /\ y.tab = t
    BY <2>4, WithTable
  <2> HIDE DEF y
  <2>6. Good(c, n, MarkFailIfQuorum(y, n, m)) /\ DOMAIN MarkFailIfQuorum(y, n, m).tab = DOMAIN x.tab
    BY <2>4, <2>5, QuorumGood
  <2>7. MarkFailIfQuorum(y, n, m).tab[m].slots = e.slots
    <3>1. y \in States(c) /\ y.tab[m] \in Entries(Slots(c)) /\ y.tab[m] = e
      BY Zenon, <2>4, <2>5, EntryIs DEF Good
    <3>2. MarkFail(y, n, m).tab[m].slots = e.slots
      BY Zenon, <3>1, <2>4, <2>5 DEF MarkFail, States, Entries
    <3> QED BY Zenon, <3>1, <3>2 DEF MarkFailIfQuorum
  <2> QED BY Zenon, <2>2, <2>3, <2>6, <2>7, EntryIs
<1>2. FailChecks(x, n, S) = [x EXCEPT !.tab = u]
  BY Zenon DEF FailChecks
<1>3. \A m \in DOMAIN x.tab : x.tab[m] \in Entries(Slots(c)) /\ m \in c.nodes
  BY Zenon, EntryIs
<1>4. u \in [DOMAIN x.tab -> Entries(Slots(c))] /\ DOMAIN u = DOMAIN x.tab
  BY Zenon, <1>1, <1>3
<1>5. \A m \in DOMAIN u : u[m].slots = x.tab[m].slots
  BY Zenon, <1>1
<1> HIDE DEF u
<1>6. u \in Tables(c)
  BY Zenon, <1>3, <1>4, TableIs
<1>7. TableGood(c, n, x.tab)
  BY Zenon DEF Good
<1>8. TableGood(c, n, u)
  BY Zenon, <1>4, <1>5, <1>6, <1>7, SameSlots
<1> QED BY <1>2, <1>4, <1>8, WithTable

LEMMA MasterEntry ==
  ASSUME NEW c, NEW y \in Entries(Slots(c)), NEW e \in Nat, NEW S \in SUBSET Slots(c)
  PROVE  [y EXCEPT !.of = None, !.epoch = e, !.slots = S] \in Entries(Slots(c))
<1> DEFINE z == [y EXCEPT !.of = None]
<1>1. z \in Entries(Slots(c))
  BY DEF Entries, None
<1>2. [y EXCEPT !.of = None, !.epoch = e, !.slots = S] = [z EXCEPT !.epoch = e, !.slots = S]
  BY Zenon
<1> HIDE DEF z
<1> QED BY Zenon, <1>1, <1>2 DEF Entries

LEMMA InheritTable ==
  ASSUME NEW c \in Confs, NEW n, NEW t, TableGood(c, n, t), NEW e \in Nat
  PROVE  TableGood(c, n, Inherit(t, n, e))
<1> DEFINE u == Inherit(t, n, e)
           m == t[n].of
<1>1. /\ t \in [DOMAIN t -> Entries(Slots(c))] /\ DOMAIN t \subseteq c.nodes /\ t \in Tables(c)
      /\ n \in DOMAIN t /\ Exclusive(t)
  BY Zenon, TableIs DEF TableGood
<1>2. Exclusive(u)
  BY Zenon, <1>1, TableClaims, InheritExclusive
<1>3. DOMAIN u = DOMAIN t /\ u = [o \in DOMAIN u |-> u[o]]
  BY Zenon DEF Inherit
<1>4. ASSUME NEW o \in DOMAIN t PROVE u[o] \in Entries(Slots(c))
  <2>1. t[o] \in Entries(Slots(c)) /\ (m \in DOMAIN t => t[m] \in Entries(Slots(c)))
    BY Zenon, <1>1
  <2>2. CASE o = n
    <3> DEFINE S == IF m \in DOMAIN t THEN t[o].slots \cup t[m].slots ELSE t[o].slots
    <3>1. u[o] = [t[o] EXCEPT !.of = None, !.epoch = e, !.slots = S]
      BY Zenon, <2>2 DEF Inherit
    <3>2. S \in SUBSET Slots(c)
      BY Zenon, <2>1 DEF Entries
    <3> HIDE DEF S, u, m
    <3>3. [t[o] EXCEPT !.of = None, !.epoch = e, !.slots = S] \in Entries(Slots(c))
      BY Zenon, <2>1, <3>2, MasterEntry
    <3> QED BY Zenon, <3>1, <3>3
  <2>3. CASE o # n /\ o = m
    <3>1. u[o] = [t[o] EXCEPT !.slots = {}]
      BY Zenon, <2>3 DEF Inherit
    <3> QED BY Zenon, <2>1, <3>1 DEF Entries
  <2>4. CASE o # n /\ o # m
    <3>1. u[o] = t[o]
      BY Zenon, <2>4 DEF Inherit
    <3> QED BY Zenon, <2>1, <3>1
  <2> QED BY Zenon, <2>2, <2>3, <2>4
<1> HIDE DEF u
<1>5. u \in Tables(c)
  BY Zenon, <1>1, <1>3, <1>4, TableIs
<1>6. TableGood(c, n, u)
  BY Zenon, <1>1, <1>2, <1>3, <1>5 DEF TableGood
<1> QED BY Zenon, <1>6 DEF u

LEMMA PromoteGood ==
  ASSUME NEW c \in Confs, NEW n, NEW x, Good(c, n, x)
  PROVE  Good(c, n, Promote(x, n))
<1> DEFINE e == x.cur + 1
           u == Inherit(x.tab, n, e)
<1>1. x \in States(c) /\ TableGood(c, n, x.tab) /\ e \in Nat
  BY DEF Good, States
<1>2. Promote(x, n) = [[x EXCEPT !.cur = e] EXCEPT !.tab = u]
  BY Zenon, <1>1 DEF Promote, States
<1> HIDE DEF e
<1>3. TableGood(c, n, u)
  BY Zenon, <1>1, InheritTable
<1> HIDE DEF u
<1> DEFINE z == [x EXCEPT !.cur = e]
<1>4. Good(c, n, z)
  BY Zenon, <1>1, WithCur
<1> HIDE DEF z
<1>5. Good(c, n, [z EXCEPT !.tab = u])
  BY Zenon, <1>3, <1>4, WithTable
<1> QED BY Zenon, <1>2, <1>5 DEF z

LEMMA ScheduleGood ==
  ASSUME NEW c, NEW n, NEW x, Good(c, n, x)
  PROVE  Good(c, n, Schedule(x, n)) /\ Schedule(x, n).tab = x.tab
<1>1. Good(c, n, [x EXCEPT !.due = TRUE]) /\ [x EXCEPT !.due = TRUE].tab = x.tab
  BY Zenon DEF Good, States
<1> QED BY Zenon, <1>1 DEF Schedule

LEMMA FailoverGood ==
  ASSUME conf \in Confs, NEW n, NEW x, Good(conf, n, x)
  PROVE  Good(conf, n, FailoverCheck(x, n)[2])
<1>1. x \in States(conf)
  BY Zenon DEF Good
<1>2. Good(conf, n, [x EXCEPT !.due = FALSE, !.req = 0])
  <2>1. /\ [x EXCEPT !.due = FALSE, !.req = 0] \in States(conf)
        /\ [x EXCEPT !.due = FALSE, !.req = 0].tab = x.tab
    BY Zenon, <1>1 DEF States
  <2> QED BY Zenon, <2>1 DEF Good
<1>r. Good(conf, n, [x EXCEPT !.req = 0])
  <2>1. [x EXCEPT !.req = 0] \in States(conf) /\ [x EXCEPT !.req = 0].tab = x.tab
    BY Zenon, <1>1 DEF States
  <2> QED BY Zenon, <2>1 DEF Good
<1>3. Good(conf, n, Start(x))
  <2> DEFINE e == x.cur + 1
             z == [x EXCEPT !.cur = e, !.req = e]
  <2>0. e \in Nat
    BY <1>1 DEF States
  <2>2. Start(x) = [z EXCEPT !.acks = {}, !.due = TRUE]
    BY Zenon, <1>1 DEF Start, States
  <2> HIDE DEF e
  <2>1. z \in States(conf) /\ z.tab = x.tab
    BY Zenon, <1>1, <2>0 DEF States
  <2> HIDE DEF z
  <2>3. Start(x) \in States(conf) /\ Start(x).tab = z.tab
    BY Zenon, <2>1, <2>2 DEF States
  <2> QED BY Zenon, <2>1, <2>3 DEF Good
<1>4. Good(conf, n, Promote([x EXCEPT !.due = FALSE, !.req = 0], n))
  BY Zenon, <1>2, PromoteGood
<1> QED BY Zenon, <1>2, <1>r, <1>3, <1>4 DEF FailoverCheck

-----------------------------------------------------------------------------
(* Frames.                                                                 *)

LEMMA NetIs ==
  ASSUME NEW c, NEW q
  PROVE  q \in Nets(c) <=> /\ DOMAIN q \subseteq Channels({l \in c.nodes \X c.nodes : l[1] # l[2]})
                           /\ q \in [DOMAIN q -> Seq(Frames(c))]
<1> DEFINE K == Channels({l \in c.nodes \X c.nodes : l[1] # l[2]})
<1>1. q \in Nets(c) <=> \E D \in SUBSET K : q \in [D -> Seq(Frames(c))]
  BY Zenon DEF Nets
<1> HIDE DEF K
<1>2. ASSUME NEW D \in SUBSET K, q \in [D -> Seq(Frames(c))]
      PROVE  DOMAIN q \subseteq K /\ q \in [DOMAIN q -> Seq(Frames(c))]
  BY Zenon, <1>2
<1> QED BY Zenon, <1>1, <1>2 DEF K

LEMMA SendGood ==
  ASSUME NEW c, NEW q \in Nets(c), NEW ks, NEW f \in Frames(c)
  PROVE  Send(q, ks, f) \in Nets(c)
<1> DEFINE p == Send(q, ks, f)
<1>1. q \in [DOMAIN q -> Seq(Frames(c))]
  BY Zenon, NetIs
<1>2. \A k \in DOMAIN q : q[k] \in Seq(Frames(c)) /\ Append(q[k], f) \in Seq(Frames(c))
  BY <1>1
<1>3. p \in [DOMAIN q -> Seq(Frames(c))] /\ DOMAIN p = DOMAIN q
  BY Zenon, <1>2 DEF Send
<1> HIDE DEF p
<1>4. p \in Nets(c)
  BY Zenon, <1>3, NetIs
<1> QED BY Zenon, <1>4 DEF p

LEMMA TailGood ==
  ASSUME NEW c, NEW q \in Nets(c), NEW k \in DOMAIN q, q[k] # <<>>
  PROVE  [q EXCEPT ![k] = Tail(@)] \in Nets(c) /\ Head(q[k]) \in Frames(c)
<1> DEFINE p == [q EXCEPT ![k] = Tail(@)]
<1>1. q \in [DOMAIN q -> Seq(Frames(c))]
  BY Zenon, NetIs
<1>2. q[k] \in Seq(Frames(c)) /\ Tail(q[k]) \in Seq(Frames(c)) /\ Head(q[k]) \in Frames(c)
  BY <1>1
<1>3. p \in [DOMAIN q -> Seq(Frames(c))] /\ DOMAIN p = DOMAIN q
  BY Zenon, <1>1, <1>2
<1> HIDE DEF p
<1>4. p \in Nets(c)
  BY Zenon, <1>3, NetIs
<1> QED BY Zenon, <1>2, <1>4 DEF p

LEMMA CutGood ==
  ASSUME NEW c, NEW q \in Nets(c), NEW K \in SUBSET DOMAIN q
  PROVE  [k \in K |-> q[k]] \in Nets(c)
<1> DEFINE p == [k \in K |-> q[k]]
<1>1. q \in [DOMAIN q -> Seq(Frames(c))]
  BY Zenon, NetIs
<1>2. p \in [K -> Seq(Frames(c))] /\ DOMAIN p = K
  BY Zenon, <1>1
<1> HIDE DEF p
<1>3. p \in Nets(c)
  BY Zenon, <1>2, NetIs
<1> QED BY Zenon, <1>3 DEF p

LEMMA LastOf ==
  ASSUME NEW N \in Nat, NEW S \in SUBSET (1 .. N), S # {}
  PROVE  \E m \in S : \A k \in S : k <= m
<1> DEFINE R == OpToRel(<, Nat)
           T == {N - k : k \in S}
<1>1. IsWellFoundedOn(R, Nat)
  BY Zenon, NatLessThanWellFounded
<1>2. \A x, y \in Nat : x < y => <<x, y>> \in R
  BY Zenon DEF OpToRel
<1> HIDE DEF R
<1>3. T \subseteq Nat /\ T # {}
  <2>1. \A k \in S : N - k \in Nat
    OBVIOUS
  <2> QED BY Zenon, <2>1
<1> HIDE DEF T
<1>4. PICK x \in T : \A y \in T : ~ (<<y, x>> \in R)
  BY Zenon, <1>1, <1>3, WFMin
<1>5. \A y \in T : x <= y
  <2>1. x \in Nat /\ \A y \in T : y \in Nat /\ ~(y < x)
    BY Zenon, <1>2, <1>3, <1>4
  <2> QED BY <2>1
<1>6. PICK m \in S : x = N - m
  BY Zenon, <1>4 DEF T
<1>7. \A k \in S : N - m <= N - k
  BY Zenon, <1>5, <1>6 DEF T
<1> QED BY <1>6, <1>7

LEMMA FrameGood ==
  ASSUME NEW c, NEW n \in c.nodes, NEW x, Good(c, n, x), NEW type \in {"PING", "PONG", "MEET"}
  PROVE  Frame(type, n, x) \in Pings(c) /\ Frame(type, n, x) \in Frames(c)
<1> DEFINE D == DOMAIN x.tab \ {n}
           g == [m \in D |-> GossipEntry(x.tab, m)]
<1>1. \A m \in DOMAIN x.tab : x.tab[m] \in Entries(Slots(c)) /\ m \in c.nodes
  BY Zenon, EntryIs
<1>2. n \in DOMAIN x.tab /\ x \in States(c)
  BY Zenon DEF Good, TableGood
<1>3. \A m \in D : GossipEntry(x.tab, m) \in GossipEntries(c)
  BY Zenon, <1>1 DEF GossipEntry, GossipEntries, Entries
<1>4. D \in SUBSET c.nodes /\ g \in [D -> GossipEntries(c)]
  BY Zenon, <1>1, <1>3
<1>5. g \in UNION {[E -> GossipEntries(c)] : E \in SUBSET c.nodes}
  BY Zenon, <1>4
<1>6. Frame(type, n, x) = [type |-> type, from |-> n, cur |-> x.cur, epoch |-> x.tab[n].epoch,
                           slots |-> x.tab[n].slots, of |-> x.tab[n].of, gossip |-> g]
  BY Zenon DEF Frame
<1> HIDE DEF g
<1>7. Frame(type, n, x) \in Pings(c)
  BY <1>1, <1>2, <1>5, <1>6 DEF Pings, Entries, States
<1> QED BY Zenon, <1>7 DEF Frames

LEMMA RoundGood ==
  ASSUME NEW c, NEW q \in Nets(c), NEW n \in c.nodes, NEW x, Good(c, n, x)
  PROVE  Round(q, n, x) \in Nets(c)
BY Zenon, FrameGood, SendGood DEF Round

LEMMA BroadcastGood ==
  ASSUME NEW c \in Confs, NEW q \in Nets(c), NEW n \in c.nodes, NEW x, Good(c, n, x), NEW y
  PROVE  Broadcast(q, n, x, y) \in Nets(c)
<1> DEFINE S == NewlyFailed(x, y)
           last == CHOOSE m \in S : \A k \in S : k <= m
<1>1. CASE S = {}
  BY Zenon, <1>1 DEF Broadcast
<1>2. CASE S # {}
  <2>1. S \subseteq c.nodes
    BY Zenon, EntryIs DEF NewlyFailed
  <2>2. last \in S
    <3>1. S \subseteq 1 .. Cardinality(c.nodes) /\ Cardinality(c.nodes) \in Nat
      BY <2>1, NodesAre, ConfsAssumption
    <3>2. \E m \in S : \A k \in S : k <= m
      BY Zenon, <1>2, <3>1, LastOf
    <3> QED BY Zenon, <3>2
  <2>3. FailFrame(last) \in Frames(c)
    BY Zenon, <2>1, <2>2 DEF FailFrame, Frames
  <2>4. Send(q, From(q, n), FailFrame(last)) \in Nets(c)
    BY Zenon, <2>3, SendGood
  <2> QED BY Zenon, <1>2, <2>4 DEF Broadcast
<1> QED BY Zenon, <1>1, <1>2

LEMMA RequestGood ==
  ASSUME NEW c, NEW n \in c.nodes, NEW x, Good(c, n, x)
  PROVE  AuthRequest(n, x) \in Frames(c) /\ Ack(n, x) \in Frames(c)
<1> DEFINE m == IF x.tab[n].of \in DOMAIN x.tab THEN x.tab[n].of ELSE n
<1>1. m \in DOMAIN x.tab /\ x \in States(c)
  BY Zenon DEF Good, TableGood
<1>2. AuthRequest(n, x) = [type |-> "REQUEST", from |-> n, cur |-> x.req, epoch |-> x.tab[m].epoch,
                           slots |-> x.tab[m].slots]
  BY Zenon DEF AuthRequest
<1> HIDE DEF m
<1>3. x.tab[m] \in Entries(Slots(c))
  BY Zenon, <1>1, EntryIs
<1>4. AuthRequest(n, x) \in Frames(c)
  BY <1>1, <1>2, <1>3 DEF Frames, States, Entries
<1>5. Ack(n, x) \in Frames(c)
  BY Zenon, <1>1 DEF Frames, States, Ack
<1> QED BY Zenon, <1>4, <1>5

-----------------------------------------------------------------------------
(* The steps of the cluster.                                               *)

LEMMA NodeStep ==
  ASSUME HolderInv, NEW n \in conf.nodes, NEW y, Good(conf, n, y),
         nd' = [nd EXCEPT ![n] = y], net' \in Nets(conf), conf' = conf, disk' = disk
  PROVE  HolderInv'
<1>1. DOMAIN nd = conf.nodes /\ nd = [m \in conf.nodes |-> nd[m]]
  BY Zenon DEF HolderInv
<1>2. DOMAIN nd' = conf.nodes /\ nd' = [m \in conf.nodes |-> nd'[m]]
  BY Zenon, <1>1
<1>3. \A m \in conf.nodes : nd'[m] = IF m = n THEN y ELSE nd[m]
  BY Zenon, <1>1
<1>4. \A m \in conf.nodes : Good(conf, m, nd'[m])
  BY Zenon, <1>3 DEF HolderInv
<1> QED BY Zenon, <1>2, <1>4 DEF HolderInv

LEMMA NetStep ==
  ASSUME HolderInv, net' \in Nets(conf), UNCHANGED <<conf, nd, disk>>
  PROVE  HolderInv'
BY Zenon DEF HolderInv

LEMMA Facts ==
  ASSUME HolderInv
  PROVE  /\ conf \in Confs /\ net \in Nets(conf)
         /\ \A n \in conf.nodes : Good(conf, n, nd[n]) /\ TableGood(conf, n, disk[n])
         /\ nd = [m \in conf.nodes |-> nd[m]] /\ disk = [m \in conf.nodes |-> disk[m]]
BY Zenon DEF HolderInv

LEMMA ReceiveStep ==
  ASSUME HolderInv, NEW k \in DOMAIN net, Receive(k[1], k[2]) PROVE HolderInv'
<1> DEFINE n == k[2]
           f == Head(net[<<k[1], n>>])
           j == <<k[1], n>>
           q == [net EXCEPT ![j] = Tail(@)]
<1>f. /\ conf \in Confs /\ net \in Nets(conf)
      /\ \A m \in conf.nodes : Good(conf, m, nd[m]) /\ TableGood(conf, m, disk[m])
      /\ nd = [m \in conf.nodes |-> nd[m]]
  BY Zenon, Facts
<1>1. j \in DOMAIN net /\ net[j] # <<>> /\ n \in conf.nodes /\ conf' = conf /\ disk' = disk
  BY Zenon DEF Receive, Up
<1>2. ReceivePing(j, n, f) \/ ReceiveFail(j, n, f) \/ ReceiveRequest(j, n, f) \/ ReceiveAck(j, n, f)
  BY Zenon DEF Receive
<1> HIDE DEF n, j
<1>3. q \in Nets(conf) /\ f \in Frames(conf)
  BY Zenon, <1>f, <1>1, TailGood DEF j
<1>g. Good(conf, n, nd[n])
  BY Zenon, <1>f, <1>1
<1> HIDE DEF f
<1>4. CASE ReceivePing(j, n, f)
  <2> DEFINE y == HandlePing(nd[n], n, f)
             r == IF f.type = "PONG" THEN q ELSE Send(q, {<<j[1], f.from>>}, Frame("PONG", n, y))
  <2>1. nd' = [nd EXCEPT ![n] = y] /\ net' = Broadcast(r, n, nd[n], y)
    BY Zenon, <1>4 DEF ReceivePing
  <2>2. f \in Pings(conf)
    BY Zenon, <1>3, <1>4 DEF ReceivePing, Frames
  <2>3. Good(conf, n, y)
    BY Zenon, <1>f, <1>g, <2>2, HandlePingGood
  <2> HIDE DEF y, q
  <2>4. Frame("PONG", n, y) \in Frames(conf)
    BY Zenon, <1>1, <2>3, FrameGood
  <2>5. r \in Nets(conf)
    BY Zenon, <1>3, <2>4, SendGood
  <2> HIDE DEF r
  <2>6. Broadcast(r, n, nd[n], y) \in Nets(conf)
    BY Zenon, <1>f, <1>1, <1>g, <2>5, BroadcastGood
  <2> QED BY Zenon, <1>1, <2>1, <2>3, <2>6, NodeStep
<1>5. CASE ReceiveFail(j, n, f)
  <2>1. net' = q
    BY Zenon, <1>5 DEF ReceiveFail
  <2>2. CASE f.node \in DOMAIN nd[n].tab
    <3>1. nd' = [nd EXCEPT ![n] = MarkFail(nd[n], n, f.node)]
      BY Zenon, <1>5, <2>2 DEF ReceiveFail
    <3>2. Good(conf, n, MarkFail(nd[n], n, f.node))
      BY Zenon, <1>g, <2>2, MarkFailGood
    <3> QED BY Zenon, <1>1, <1>3, <2>1, <3>1, <3>2, NodeStep
  <2>3. CASE f.node \notin DOMAIN nd[n].tab
    <3>1. nd' = nd
      BY Zenon, <1>5, <2>3 DEF ReceiveFail
    <3> QED BY Zenon, <1>1, <1>3, <2>1, <3>1, NetStep
  <2> QED BY Zenon, <2>2, <2>3
<1>6. CASE ReceiveRequest(j, n, f)
  <2> DEFINE x == RaiseEpoch(nd[n], n, f)
             y == IF MayVote(x, n, f, x.cur) THEN [x EXCEPT !.vote = x.cur] ELSE x
  <2>1. /\ nd' = [nd EXCEPT ![n] = y]
        /\ net' = IF MayVote(x, n, f, x.cur) THEN Send(q, {<<j[1], f.from>>}, Ack(n, x)) ELSE q
    BY Zenon, <1>6 DEF ReceiveRequest
  <2>2. Good(conf, n, x)
    <3>1. f.cur \in Nat
      BY Zenon, <1>3, <1>6 DEF ReceiveRequest, Frames, Pings
    <3>2. Max2(nd[n].cur, f.cur) \in Nat
      BY Zenon, <1>g, <3>1, MaxNat DEF Good, States
    <3>3. Good(conf, n, [nd[n] EXCEPT !.cur = Max2(nd[n].cur, f.cur)])
      BY Zenon, <1>g, <3>2, WithCur
    <3> QED BY Zenon, <1>g, <3>3 DEF RaiseEpoch
  <2> HIDE DEF x, q
  <2>3. Good(conf, n, y)
    <3>1. Good(conf, n, [x EXCEPT !.vote = x.cur])
      BY Zenon, <2>2 DEF Good, States
    <3> QED BY Zenon, <2>2, <3>1
  <2>4. net' \in Nets(conf)
    <3>1. Ack(n, x) \in Frames(conf)
      BY Zenon, <1>1, <2>2, RequestGood
    <3>2. Send(q, {<<j[1], f.from>>}, Ack(n, x)) \in Nets(conf)
      BY Zenon, <1>3, <3>1, SendGood
    <3> QED BY Zenon, <1>3, <2>1, <3>2
  <2> HIDE DEF y
  <2> QED BY Zenon, <1>1, <2>1, <2>3, <2>4, NodeStep
<1>7. CASE ReceiveAck(j, n, f)
  <2>1. net' = q /\ nd' = [nd EXCEPT ![n] = HandleAck(nd[n], f)]
    BY Zenon, <1>7 DEF ReceiveAck
  <2>2. f.from \in conf.nodes
    BY Zenon, <1>3, <1>7 DEF ReceiveAck, Frames, Pings
  <2>3. Good(conf, n, [nd[n] EXCEPT !.acks = @ \cup {f.from}])
    BY Zenon, <1>g, <2>2 DEF Good, States
  <2>4. Good(conf, n, HandleAck(nd[n], f))
    BY Zenon, <1>g, <2>3 DEF HandleAck
  <2> QED BY Zenon, <1>1, <1>3, <2>1, <2>4, NodeStep
<1> QED BY Zenon, <1>2, <1>4, <1>5, <1>6, <1>7

LEMMA CronStep ==
  ASSUME HolderInv, NEW n \in conf.nodes, NEW S, NEW late \in BOOLEAN, NEW loud \in BOOLEAN,
         Cron(n, S, late, loud)
  PROVE  HolderInv'
<1> DEFINE x == FailChecks(nd[n], n, S)
           y == Schedule(x, n)
           o == IF late THEN FailoverCheck(y, n) ELSE <<"none", y>>
           p == IF loud THEN Round(net, n, nd[n]) ELSE net
           q == Broadcast(p, n, nd[n], x)
<1>f. conf \in Confs /\ net \in Nets(conf) /\ Good(conf, n, nd[n])
  BY Zenon, Facts
<1>1. /\ nd' = [nd EXCEPT ![n] = o[2]]
      /\ net' = CASE o[1] = "ask"      -> Send(q, From(q, n), AuthRequest(n, o[2]))
                  [] o[1] = "promoted" -> Round(q, n, o[2])
                  [] OTHER             -> q
      /\ conf' = conf /\ disk' = disk /\ S \subseteq DOMAIN nd[n].tab
  BY DEF Cron
<1>2. Good(conf, n, x)
  BY Zenon, <1>f, <1>1, FailChecksGood
<1> HIDE DEF x
<1>3. Good(conf, n, y)
  BY Zenon, <1>2, ScheduleGood
<1> HIDE DEF y
<1>4. Good(conf, n, o[2])
  BY Zenon, <1>f, <1>3, FailoverGood
<1> HIDE DEF o
<1>5. p \in Nets(conf)
  BY Zenon, <1>f, RoundGood
<1> HIDE DEF p
<1>6. q \in Nets(conf)
  BY Zenon, <1>f, <1>5, BroadcastGood
<1> HIDE DEF q
<1>7. AuthRequest(n, o[2]) \in Frames(conf)
  BY Zenon, <1>4, RequestGood
<1>8. /\ Send(q, From(q, n), AuthRequest(n, o[2])) \in Nets(conf)
      /\ Round(q, n, o[2]) \in Nets(conf)
  BY Zenon, <1>4, <1>6, <1>7, SendGood, RoundGood
<1>9. net' \in Nets(conf)
  BY Zenon, <1>1, <1>6, <1>8
<1> QED BY Zenon, <1>1, <1>4, <1>9, NodeStep

-----------------------------------------------------------------------------
(* The commands.                                                           *)

(* A table with fewer entries and fewer slots.                             *)
LEMMA Shrinks ==
  ASSUME NEW c, NEW n, NEW t, TableGood(c, n, t), NEW u,
         n \in DOMAIN u, DOMAIN u \subseteq DOMAIN t, u = [m \in DOMAIN u |-> u[m]],
         \A m \in DOMAIN u : u[m] \in Entries(Slots(c)) /\ u[m].slots \subseteq t[m].slots
  PROVE  TableGood(c, n, u)
<1>1. DOMAIN t \subseteq c.nodes
  BY Zenon, TableIs DEF TableGood
<1>2. u \in Tables(c)
  BY Zenon, <1>1, TableIs
<1>3. Exclusive(u)
  BY Zenon DEF TableGood, Exclusive
<1> QED BY Zenon, <1>2, <1>3 DEF TableGood

LEMMA NextEpochGood ==
  ASSUME NEW c, NEW n, NEW x, Good(c, n, x), NEW m \in DOMAIN x.tab
  PROVE  Good(c, n, NextEpoch(x, m))
<1> DEFINE e == x.cur + 1
           t == [x.tab EXCEPT ![m].epoch = e]
<1>1. x \in States(c) /\ TableGood(c, n, x.tab) /\ e \in Nat
  BY DEF Good, States
<1>2. NextEpoch(x, m) = [[x EXCEPT !.cur = e] EXCEPT !.tab = t]
  BY Zenon, <1>1 DEF NextEpoch, States
<1> HIDE DEF e
<1>3. TableGood(c, n, t)
  BY Zenon, <1>1, EpochGood
<1> HIDE DEF t
<1> DEFINE z == [x EXCEPT !.cur = e]
<1>4. Good(c, n, z)
  BY Zenon, <1>1, WithCur
<1> HIDE DEF z
<1>5. Good(c, n, [z EXCEPT !.tab = t])
  BY Zenon, <1>3, <1>4, WithTable
<1> QED BY Zenon, <1>2, <1>5 DEF z

LEMMA AddSlotsGood ==
  ASSUME NEW c, NEW n, NEW x, Good(c, n, x), NEW s \in Slots(c), Holders(x.tab, s) = {}
  PROVE  /\ Good(c, n, [x EXCEPT !.tab[n].slots = @ \cup {s}])
         /\ n \in DOMAIN [x EXCEPT !.tab[n].slots = @ \cup {s}].tab
<1> DEFINE e == [x.tab[n] EXCEPT !.slots = @ \cup {s}]
           t == [x.tab EXCEPT ![n] = e]
<1>1. /\ x \in States(c) /\ n \in DOMAIN x.tab /\ Exclusive(x.tab)
      /\ DOMAIN x.tab \subseteq c.nodes /\ x.tab \in [DOMAIN x.tab -> Entries(Slots(c))]
  BY Zenon, TableIs DEF Good, TableGood
<1>2. e \in Entries(Slots(c)) /\ e.slots = x.tab[n].slots \cup {s}
  BY Zenon, <1>1 DEF Entries
<1>3. [x EXCEPT !.tab[n].slots = @ \cup {s}] = [x EXCEPT !.tab = t]
  BY Zenon, <1>1 DEF States
<1> HIDE DEF e
<1>4. /\ t \in [DOMAIN x.tab -> Entries(Slots(c))] /\ DOMAIN t = DOMAIN x.tab
      /\ \A m \in DOMAIN x.tab : t[m].slots = IF m = n THEN x.tab[n].slots \cup {s} ELSE x.tab[m].slots
  BY Zenon, <1>1, <1>2
<1> HIDE DEF t
<1>5. t \in Tables(c)
  BY Zenon, <1>1, <1>4, TableIs
<1>6. Exclusive(t)
  <2>1. \A m \in DOMAIN x.tab : s \notin x.tab[m].slots
    BY Zenon DEF Holders
  <2> QED BY <1>1, <1>4, <2>1 DEF Exclusive
<1>7. TableGood(c, n, t)
  BY Zenon, <1>1, <1>4, <1>5, <1>6 DEF TableGood
<1> QED BY <1>1, <1>3, <1>4, <1>7, WithTable

LEMMA FewerSlotsGood ==
  ASSUME NEW c, NEW n, NEW x, Good(c, n, x), NEW S \in SUBSET x.tab[n].slots
  PROVE  Good(c, n, [x EXCEPT !.tab[n].slots = S])
<1> DEFINE e == [x.tab[n] EXCEPT !.slots = S]
           t == [x.tab EXCEPT ![n] = e]
<1>1. /\ x \in States(c) /\ n \in DOMAIN x.tab /\ TableGood(c, n, x.tab)
      /\ x.tab \in [DOMAIN x.tab -> Entries(Slots(c))]
  BY Zenon, TableIs DEF Good, TableGood
<1>2. e \in Entries(Slots(c)) /\ e.slots = S
  BY Zenon, <1>1 DEF Entries
<1>3. [x EXCEPT !.tab[n].slots = S] = [x EXCEPT !.tab = t]
  BY Zenon, <1>1 DEF States
<1> HIDE DEF e
<1>4. /\ DOMAIN t = DOMAIN x.tab /\ t = [m \in DOMAIN t |-> t[m]]
      /\ \A m \in DOMAIN t : t[m] \in Entries(Slots(c)) /\ t[m].slots \subseteq x.tab[m].slots
  BY Zenon, <1>1, <1>2
<1> HIDE DEF t
<1>5. TableGood(c, n, t)
  BY Zenon, <1>1, <1>4, Shrinks
<1> QED BY <1>3, <1>5, WithTable

LEMMA AssignGood ==
  ASSUME NEW c \in Confs, NEW n, NEW x, Good(c, n, x), NEW s \in Slots(c), NEW m \in DOMAIN x.tab
  PROVE  /\ Good(c, n, [x EXCEPT !.tab = Assign(@, s, m)])
         /\ m \in DOMAIN [x EXCEPT !.tab = Assign(@, s, m)].tab
<1> DEFINE t == x.tab
           u == Assign(t, s, m)
<1>1. /\ x \in States(c) /\ n \in DOMAIN t /\ Exclusive(t) /\ t \in Tables(c)
      /\ DOMAIN t \subseteq c.nodes /\ t \in [DOMAIN t -> Entries(Slots(c))]
  BY Zenon, TableIs DEF Good, TableGood
<1>2. Exclusive(u)
  BY Zenon, <1>1, TableClaims, AssignExclusive
<1>3. DOMAIN u = DOMAIN t /\ u = [o \in DOMAIN u |-> u[o]]
  BY Zenon DEF Assign
<1>4. ASSUME NEW o \in DOMAIN t PROVE u[o] \in Entries(Slots(c))
  <2> DEFINE S == IF o = m THEN t[o].slots \cup {s} ELSE t[o].slots \ {s}
  <2>1. u[o] = [t[o] EXCEPT !.slots = S]
    BY Zenon DEF Assign
  <2>2. t[o] \in Entries(Slots(c))
    BY Zenon, <1>1
  <2>3. S \in SUBSET Slots(c)
    BY Zenon, <2>2 DEF Entries
  <2> HIDE DEF S
  <2> QED BY Zenon, <2>1, <2>2, <2>3 DEF Entries
<1> HIDE DEF u
<1>5. u \in Tables(c)
  BY Zenon, <1>1, <1>3, <1>4, TableIs
<1>6. TableGood(c, n, u)
  BY Zenon, <1>1, <1>2, <1>3, <1>5 DEF TableGood
<1>7. Good(c, n, [x EXCEPT !.tab = u]) /\ [x EXCEPT !.tab = u].tab = u
  BY <1>6, WithTable
<1> QED BY Zenon, <1>3, <1>7 DEF u

LEMMA CommandStep ==
  ASSUME HolderInv, NEW n \in conf.nodes, NEW y, Good(conf, n, y), Command(n, y)
  PROVE  HolderInv'
<1>1. nd' = [nd EXCEPT ![n] = y] /\ net' = net /\ conf' = conf /\ disk' = disk
  BY Zenon DEF Command
<1>2. net' \in Nets(conf)
  BY Zenon, <1>1, Facts
<1> QED BY Zenon, <1>1, <1>2, NodeStep

LEMMA CommandsStep ==
  ASSUME HolderInv, NEW n \in conf.nodes, Commands(n) PROVE HolderInv'
<1> DEFINE x == nd[n]
<1>f. /\ conf \in Confs /\ net \in Nets(conf) /\ Good(conf, n, x) /\ x \in States(conf)
      /\ n \in DOMAIN x.tab /\ x.tab[n] \in Entries(Slots(conf)) /\ TableGood(conf, n, x.tab)
  BY Zenon, Facts, EntryIs DEF Good, TableGood
<1>1. ASSUME NEW s \in conf.claims, NEW whole \in BOOLEAN, AddSlots(n, s, whole) PROVE HolderInv'
  <2> DEFINE y == [x EXCEPT !.tab[n].slots = @ \cup {s}]
  <2>1. s \in Slots(conf) /\ Holders(x.tab, s) = {} /\ (Command(n, NextEpoch(y, n)) \/ Command(n, y))
    BY Zenon, <1>1 DEF AddSlots, Slots
  <2>2. Good(conf, n, y) /\ n \in DOMAIN y.tab
    BY Zenon, <1>f, <2>1, AddSlotsGood
  <2> HIDE DEF y
  <2>3. Good(conf, n, NextEpoch(y, n))
    BY Zenon, <2>2, NextEpochGood
  <2> QED BY Zenon, <2>1, <2>2, <2>3, CommandStep
<1>2. ASSUME NEW s \in conf.claims, DelSlots(n, s) PROVE HolderInv'
  <2> DEFINE y == [x EXCEPT !.tab[n].slots = x.tab[n].slots \ {s}]
  <2>1. Command(n, y)
    BY Zenon, <1>2 DEF DelSlots
  <2>2. Good(conf, n, y)
    BY Zenon, <1>f, FewerSlotsGood
  <2> QED BY Zenon, <2>1, <2>2, CommandStep
<1>3. ASSUME FlushSlots(n) PROVE HolderInv'
  <2>1. Command(n, [x EXCEPT !.tab[n].slots = {}])
    BY Zenon, <1>3 DEF FlushSlots
  <2>2. Good(conf, n, [x EXCEPT !.tab[n].slots = {}])
    BY Zenon, <1>f, FewerSlotsGood
  <2> QED BY Zenon, <2>1, <2>2, CommandStep
<1>4. ASSUME NEW s \in conf.claims, NEW m \in conf.nodes, SetSlot(n, s, m) PROVE HolderInv'
  <2> DEFINE y == [x EXCEPT !.tab = Assign(@, s, m)]
  <2>1. s \in Slots(conf) /\ m \in DOMAIN x.tab /\ Command(n, NextEpoch(y, m))
    BY Zenon, <1>4 DEF SetSlot, Slots
  <2>2. Good(conf, n, y) /\ m \in DOMAIN y.tab
    BY Zenon, <1>f, <2>1, AssignGood
  <2> HIDE DEF y
  <2>3. Good(conf, n, NextEpoch(y, m))
    BY Zenon, <2>2, NextEpochGood
  <2> QED BY Zenon, <2>1, <2>3, CommandStep
<1>5. ASSUME BumpEpoch(n) PROVE HolderInv'
  <2>1. Good(conf, n, NextEpoch(x, n)) /\ Command(n, NextEpoch(x, n))
    BY Zenon, <1>5, <1>f, NextEpochGood DEF BumpEpoch
  <2> QED BY Zenon, <2>1, CommandStep
<1>6. ASSUME NEW e \in 1 .. MaxEpoch, SetConfigEpoch(n, e) PROVE HolderInv'
  <2> DEFINE t == [x.tab EXCEPT ![n].epoch = e]
             y == [[x EXCEPT !.cur = e] EXCEPT !.tab = t]
  <2>0. e \in Nat
    BY EpochAssumption
  <2>1. [x EXCEPT !.cur = e, !.tab[n].epoch = e] = y
    BY Zenon, <1>f DEF States
  <2>2. Command(n, y)
    BY Zenon, <1>6, <2>1 DEF SetConfigEpoch
  <2>3. TableGood(conf, n, t)
    BY Zenon, <1>f, <2>0, EpochGood
  <2> HIDE DEF t
  <2>4. Good(conf, n, y)
    BY Zenon, <1>f, <2>0, <2>3, WithCur, WithTable
  <2> QED BY Zenon, <2>2, <2>4, CommandStep
<1>7. ASSUME NEW m \in conf.nodes, Replicate(n, m) PROVE HolderInv'
  <2> DEFINE e == [x.tab[n] EXCEPT !.of = m]
             t == [x.tab EXCEPT ![n] = e]
  <2>1. [x EXCEPT !.tab[n].of = m] = [x EXCEPT !.tab = t]
    BY Zenon, <1>f DEF States
  <2>2. Command(n, [x EXCEPT !.tab = t])
    BY Zenon, <1>7, <2>1 DEF Replicate
  <2>3. e \in Entries(Slots(conf)) /\ e.slots = x.tab[n].slots
    <3>1. m \in Int
      BY <1>f, NodesAre
    <3> QED BY Zenon, <1>f, <3>1 DEF Entries
  <2> HIDE DEF e
  <2>4. TableGood(conf, n, t)
    BY Zenon, <1>f, <2>3, SetEntry
  <2> HIDE DEF t
  <2> QED BY Zenon, <1>f, <2>2, <2>4, WithTable, CommandStep
<1>8. ASSUME Takeover(n) PROVE HolderInv'
  <2>1. Good(conf, n, Promote(x, n)) /\ Command(n, Promote(x, n))
    BY Zenon, <1>8, <1>f, PromoteGood DEF Takeover
  <2> QED BY Zenon, <2>1, CommandStep
<1>9. ASSUME NEW m \in conf.nodes, Forget(n, m) PROVE HolderInv'
  <2> DEFINE t == [k \in DOMAIN x.tab \ {m} |-> x.tab[k]]
  <2>1. Command(n, [x EXCEPT !.tab = t]) /\ m # n
    BY Zenon, <1>9 DEF Forget
  <2>2. \A k \in DOMAIN x.tab : x.tab[k] \in Entries(Slots(conf))
    BY Zenon, <1>f, EntryIs
  <2>3. TableGood(conf, n, t)
    BY Zenon, <1>f, <2>1, <2>2, Shrinks
  <2> HIDE DEF t
  <2> QED BY Zenon, <1>f, <2>1, <2>3, WithTable, CommandStep
<1>10. ASSUME NEW hard \in BOOLEAN, Reset(n, hard) PROVE HolderInv'
  <2> DEFINE S == IF hard THEN {} ELSE x.tab[n].slots
             e == [x.tab[n] EXCEPT !.slots = S]
             t == [k \in {n} |-> e]
  <2>1. Command(n, [x EXCEPT !.tab = t])
    BY Zenon, <1>10 DEF Reset
  <2>2. S \subseteq x.tab[n].slots
    BY Zenon
  <2> HIDE DEF S
  <2>3. e \in Entries(Slots(conf)) /\ e.slots \subseteq x.tab[n].slots
    BY Zenon, <1>f, <2>2 DEF Entries
  <2> HIDE DEF e
  <2>4. TableGood(conf, n, t)
    BY Zenon, <1>f, <2>3, Shrinks
  <2> HIDE DEF t
  <2> QED BY Zenon, <1>f, <2>1, <2>4, WithTable, CommandStep
<1>11. ASSUME NEW m \in conf.nodes, Meet(n, m) PROVE HolderInv'
  <2> DEFINE K == DOMAIN net \cup Channels({<<n, m>>})
             f == Frame("MEET", n, x)
             q == [k \in K |-> IF k = <<<<n, m>>, m>> THEN <<f>>
                                ELSE IF k \in DOMAIN net THEN net[k] ELSE <<>>]
  <2>1. net' = q /\ conf' = conf /\ nd' = nd /\ disk' = disk /\ m # n
    BY Zenon, <1>11 DEF Meet
  <2>2. f \in Frames(conf)
    BY Zenon, <1>f, FrameGood
  <2> HIDE DEF f
  <2>3. /\ net \in [DOMAIN net -> Seq(Frames(conf))]
        /\ DOMAIN net \subseteq Channels({l \in conf.nodes \X conf.nodes : l[1] # l[2]})
    BY Zenon, <1>f, NetIs
  <2>4. Channels({<<n, m>>}) \subseteq Channels({l \in conf.nodes \X conf.nodes : l[1] # l[2]})
    <3>1. <<n, m>> \in {l \in conf.nodes \X conf.nodes : l[1] # l[2]}
      BY Zenon, <2>1
    <3> QED BY Zenon, <3>1 DEF Channels
  <2>5. <<f>> \in Seq(Frames(conf)) /\ <<>> \in Seq(Frames(conf))
    BY <2>2
  <2>6. q \in [K -> Seq(Frames(conf))] /\ DOMAIN q = K
    BY Zenon, <2>3, <2>5
  <2> HIDE DEF q
  <2>7. q \in Nets(conf)
    BY Zenon, <2>3, <2>4, <2>6, NetIs
  <2> QED BY Zenon, <2>1, <2>7, NetStep
<1> QED BY Zenon, <1>1, <1>2, <1>3, <1>4, <1>5, <1>6, <1>7, <1>8, <1>9, <1>10, <1>11 DEF Commands

LEMMA RestartStep ==
  ASSUME HolderInv, NEW n \in conf.nodes, NodesSave(n) \/ Restart(n) PROVE HolderInv'
<1>f. /\ conf \in Confs /\ net \in Nets(conf)
      /\ \A m \in conf.nodes : Good(conf, m, nd[m]) /\ TableGood(conf, m, disk[m])
      /\ nd = [m \in conf.nodes |-> nd[m]] /\ disk = [m \in conf.nodes |-> disk[m]]
  BY Zenon, Facts
<1>1. CASE NodesSave(n)
  <2>1. disk' = [disk EXCEPT ![n] = nd[n].tab] /\ UNCHANGED <<conf, nd, net>>
    BY Zenon, <1>1 DEF NodesSave
  <2>2. disk' = [m \in conf.nodes |-> IF m = n THEN nd[n].tab ELSE disk[m]]
    BY Zenon, <1>f, <2>1
  <2>3. \A m \in conf.nodes : TableGood(conf, m, disk'[m])
    BY Zenon, <1>f, <2>2 DEF Good
  <2>4. disk' = [m \in conf.nodes |-> disk'[m]]
    BY Zenon, <2>2
  <2> QED BY Zenon, <2>1, <2>3, <2>4 DEF HolderInv
<1>2. CASE Restart(n)
  <2> DEFINE t == disk[n]
             e(m) == IF m = n THEN [ParseLine(t[m]) EXCEPT !.of = None] ELSE ParseLine(t[m])
             u == [m \in DOMAIN t |-> e(m)]
             y == [cur |-> 1, vote |-> 0, req |-> 0, acks |-> {}, due |-> FALSE, tab |-> u]
             K == {j \in DOMAIN net : n \notin {j[1][1], j[1][2]}}
  <2>1. nd' = [nd EXCEPT ![n] = y] /\ net' = [k \in K |-> net[k]] /\ conf' = conf /\ disk' = disk
    BY Zenon, <1>2 DEF Restart
  <2>2. TableGood(conf, n, t) /\ n \in DOMAIN t /\ t \in [DOMAIN t -> Entries(Slots(conf))]
    BY Zenon, <1>f, TableIs DEF TableGood
  <2>3. ASSUME NEW m \in DOMAIN t PROVE e(m) \in Entries(Slots(conf)) /\ e(m).slots = t[m].slots
    <3>1. t[m] \in Entries(Slots(conf))
      BY Zenon, <2>2
    <3>2. (t[m].fail /\ ~t[m].pfail) \in BOOLEAN
      BY Zenon
    <3>3. ParseLine(t[m]) \in Entries(Slots(conf)) /\ ParseLine(t[m]).slots = t[m].slots
      BY Zenon, <3>1, <3>2 DEF ParseLine, Entries
    <3> QED BY <3>3 DEF Entries, None
  <2> HIDE DEF e
  <2>4. TableGood(conf, n, u)
    <3>1. DOMAIN u = DOMAIN t /\ u = [m \in DOMAIN u |-> u[m]]
      BY Zenon
    <3>2. \A m \in DOMAIN u : u[m] \in Entries(Slots(conf)) /\ u[m].slots \subseteq t[m].slots
      BY Zenon, <2>3
    <3> HIDE DEF u
    <3> QED BY Zenon, <2>2, <3>1, <3>2, Shrinks
  <2> HIDE DEF u
  <2>5. Good(conf, n, y)
    BY Zenon, <2>4 DEF Good, TableGood, States
  <2> HIDE DEF y
  <2>6. net' \in Nets(conf)
    BY Zenon, <1>f, <2>1, CutGood
  <2> QED BY Zenon, <2>1, <2>5, <2>6, NodeStep
<1> QED BY Zenon, <1>1, <1>2

LEMMA OtherStep ==
  ASSUME HolderInv,
         \/ \E l : Break(l)
         \/ \E n, m, r \in conf.nodes : ReportExpires(n, m, r)
         \/ UNCHANGED cvars
  PROVE  HolderInv'
<1>f. conf \in Confs /\ net \in Nets(conf) /\ \A n \in conf.nodes : Good(conf, n, nd[n])
  BY Zenon, Facts
<1>1. ASSUME NEW l, Break(l) PROVE HolderInv'
  <2> DEFINE K == {j \in DOMAIN net : j[1] # l}
  <2>1. net' = [k \in K |-> net[k]] /\ UNCHANGED <<conf, nd, disk>>
    BY Zenon, <1>1 DEF Break
  <2>2. net' \in Nets(conf)
    BY Zenon, <1>f, <2>1, CutGood
  <2> QED BY Zenon, <2>1, <2>2, NetStep
<1>2. ASSUME NEW n \in conf.nodes, NEW m \in conf.nodes, NEW r \in conf.nodes, ReportExpires(n, m, r)
      PROVE  HolderInv'
  <2>1. /\ m \in DOMAIN nd[n].tab /\ UNCHANGED <<conf, net, disk>>
        /\ nd' = [nd EXCEPT ![n] = ReportHeal(nd[n], m, r)]
    BY Zenon, <1>2 DEF ReportExpires, ReportHeal
  <2>2. r \in Int
    BY <1>f, NodesAre
  <2>3. Good(conf, n, ReportHeal(nd[n], m, r))
    BY Zenon, <1>f, <2>1, <2>2, ReportsGood
  <2> QED BY Zenon, <1>f, <2>1, <2>3, NodeStep
<1>3. CASE UNCHANGED cvars
  BY Zenon, <1>3 DEF cvars, HolderInv
<1> QED BY Zenon, <1>1, <1>2, <1>3

LEMMA HolderNext == HolderInv /\ [Next]_cvars => HolderInv'
<1> SUFFICES ASSUME HolderInv, [Next]_cvars PROVE HolderInv'
  BY Zenon
<1>1. ASSUME NEW n \in conf.nodes, NEW S \in Suspicions, NEW late \in BOOLEAN, NEW loud \in BOOLEAN,
             Cron(n, S, late, loud)
      PROVE  HolderInv'
  BY Zenon, <1>1, CronStep
<1>2. ASSUME NEW k \in DOMAIN net, Receive(k[1], k[2]) \/ Break(k[1]) PROVE HolderInv'
  BY Zenon, <1>2, ReceiveStep, OtherStep
<1>3. ASSUME NEW n \in conf.nodes, NodesSave(n) \/ Restart(n) \/ Commands(n) PROVE HolderInv'
  BY Zenon, <1>3, RestartStep, CommandsStep
<1>4. ASSUME NEW n \in conf.nodes, NEW m \in conf.nodes, NEW r \in conf.nodes, ReportExpires(n, m, r)
      PROVE  HolderInv'
  BY Zenon, <1>4, OtherStep
<1>5. CASE UNCHANGED cvars
  BY Zenon, <1>5, OtherStep
<1> QED BY Zenon, <1>1, <1>2, <1>3, <1>4, <1>5 DEF Next

LEMMA HolderInit == Init => HolderInv
<1> SUFFICES ASSUME Init PROVE HolderInv
  BY Zenon
<1> DEFINE c == conf
           t == [m \in c.nodes |-> StartEntry(c, m)]
<1>1. /\ c \in Confs /\ nd = [n \in c.nodes |-> StartNode(c)]
      /\ net = [k \in Channels(c.links) |-> <<>>] /\ disk = [n \in c.nodes |-> nd[n].tab]
  BY Zenon DEF Init
<1>2. /\ c.cur \in Nat /\ c.epoch \in [c.nodes -> Nat] /\ c.of \in [c.nodes -> c.nodes \cup {None}]
      /\ \A a, b \in c.nodes : a # b => c.slots[a] \cap c.slots[b] = {}
      /\ c.links \subseteq {l \in c.nodes \X c.nodes : l[1] # l[2]}
  BY Zenon, <1>1, ConfsAssumption
<1>3. ASSUME NEW m \in c.nodes
      PROVE  StartEntry(c, m) \in Entries(Slots(c)) /\ StartEntry(c, m).slots = c.slots[m]
  <2>1. c.of[m] \in Int /\ c.epoch[m] \in Nat
    BY <1>1, <1>2, NodesAre DEF None
  <2>2. c.slots[m] \in SUBSET Slots(c)
    BY Zenon DEF Slots
  <2>3. (m \in c.down) \in BOOLEAN
    OBVIOUS
  <2>4. NewEntry \in Entries(Slots(c))
    BY Zenon, NewEntryIs
  <2> HIDE DEF c
  <2> QED BY Zenon, <2>1, <2>2, <2>3, <2>4 DEF StartEntry, Entries
<1>4. t \in [c.nodes -> Entries(Slots(c))] /\ DOMAIN t = c.nodes
      /\ \A m \in c.nodes : t[m].slots = c.slots[m]
  BY Zenon, <1>3
<1>5. StartNode(c) = [cur |-> c.cur, vote |-> 0, req |-> 0, acks |-> {}, due |-> FALSE, tab |-> t]
  BY Zenon DEF StartNode
<1> HIDE DEF t, c
<1>6. t \in Tables(c)
  BY Zenon, <1>4, TableIs
<1>7. Exclusive(t)
  BY <1>2, <1>4 DEF Exclusive
<1>8. \A n \in c.nodes : Good(c, n, StartNode(c)) /\ StartNode(c).tab = t /\ TableGood(c, n, t)
  <2>1. c.cur \in Nat
    BY Zenon, <1>2
  <2>2. StartNode(c) \in States(c) /\ StartNode(c).tab = t
    BY <2>1, <1>5, <1>6 DEF States
  <2>3. \A n \in c.nodes : TableGood(c, n, t)
    BY Zenon, <1>4, <1>6, <1>7 DEF TableGood
  <2> QED BY Zenon, <2>2, <2>3 DEF Good
<1>9. net \in Nets(c)
  <2>1. <<>> \in Seq(Frames(c))
    OBVIOUS
  <2>2. net \in [Channels(c.links) -> Seq(Frames(c))] /\ DOMAIN net = Channels(c.links)
    BY Zenon, <1>1, <2>1
  <2>3. Channels(c.links) \subseteq Channels({l \in c.nodes \X c.nodes : l[1] # l[2]})
    BY <1>2 DEF Channels
  <2> QED BY Zenon, <2>2, <2>3, NetIs
<1> QED BY Zenon, <1>1, <1>8, <1>9 DEF HolderInv, c

(* In no node's table do two nodes ever hold one slot, for any clusters    *)
(* that start so, whatever frames are delayed or lost, whoever restarts,   *)
(* is promoted or takes over, and whatever CLUSTER commands are given.     *)
THEOREM SlotsHaveOneHolder == Spec => []OneHolder
<1>1. HolderInv => OneHolder
  <2> SUFFICES ASSUME HolderInv, NEW n \in Up, NEW s
               PROVE  Cardinality(Holders(nd[n].tab, s)) <= 1
    BY Zenon DEF OneHolder
  <2> DEFINE H == Holders(nd[n].tab, s)
  <2>1. Exclusive(nd[n].tab)
    BY Zenon, Facts DEF Up, Good, TableGood
  <2>2. \A a, b \in H : a = b
    BY Zenon, <2>1 DEF Holders, Exclusive
  <2>3. CASE H = {}
    BY <2>3, FS_EmptySet
  <2>4. CASE H # {}
    <3>1. PICK a : H = {a}
      BY Zenon, <2>2, <2>4
    <3> HIDE DEF H
    <3>2. Cardinality(H) = 1
      BY Zenon, <3>1, FS_Singleton
    <3> QED BY <3>2 DEF H
  <2> QED BY Zenon, <2>3, <2>4
<1> QED BY <1>1, HolderInit, HolderNext, PTL DEF Spec
=============================================================================
