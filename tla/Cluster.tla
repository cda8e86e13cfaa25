-------------------------------- MODULE Cluster --------------------------------
(***************************************************************************)
(* The cluster of several nodes: what each node holds of the others (its   *)
(* node table: role, slot claims, config epoch, failure flags), the frames *)
(* of the cluster bus that carry these tables, failure detection by a      *)
(* quorum of masters, elections by vote (the Redis bus protocol) and       *)
(* promotions without one (ddup's own protocol), and the CLUSTER commands  *)
(* that change the table.                                                  *)
(*                                                                         *)
(* Node ids are numbers, ordered as memcmp orders the ids.  A node that is *)
(* down neither sends nor receives.  A bus connection <<a, b>> was opened  *)
(* by a's CLUSTER MEET (nothing else opens one, and a broken one is not    *)
(* opened again); it carries frames in order in both directions.  The      *)
(* bound on frames is one PING/PONG exchange per connection at a time.     *)
(***************************************************************************)
EXTENDS ClusterClaims, FiniteSets, Sequences

CONSTANTS Confs,     \* the clusters of which one is chosen at start
          MaxEpoch   \* bound of the epochs

\* At the start the nodes agree on who has which slot, and no slot has two owners.
ASSUME EpochAssumption == MaxEpoch \in Nat
ASSUME ConfsAssumption ==
  \A c \in Confs :
    /\ IsFiniteSet(c.nodes) /\ c.nodes = 1 .. Cardinality(c.nodes)
    /\ c.links \subseteq {l \in c.nodes \X c.nodes : l[1] # l[2]}
    /\ c.cur \in Nat /\ c.epoch \in [c.nodes -> Nat] /\ c.of \in [c.nodes -> c.nodes \cup {None}]
    /\ \A a, b \in c.nodes : a # b => c.slots[a] \cap c.slots[b] = {}

VARIABLES conf,      \* the chosen one: nodes, roles, slots, operations
          nd,        \* db of each node: epochs, votes and the node table
          net,       \* frames on the way: per connection and receiver, a queue
          disk,      \* the table last written to nodes.conf
          ops,       \* operations still to come
          wins,      \* ghost: pairs of election epoch and elected node
          suspects   \* ghost: who ever found a node silent

cvars == <<conf, nd, net, disk, ops, wins, suspects>>

Max2(a, b) == IF a > b THEN a ELSE b
Unknown == -1  \* a replica whose master the gossip did not name

NewEntry == [epoch |-> 0, slots |-> {}, of |-> None, pfail |-> FALSE, fail |-> FALSE,
             disc |-> FALSE, seen |-> FALSE, reps |-> {}]

\* seen: the node itself has been heard (last_seen_ms > 0).
StartEntry(c, m) == [NewEntry EXCEPT !.epoch = c.epoch[m], !.slots = c.slots[m], !.of = c.of[m],
                                     !.fail = m \in c.down, !.seen = TRUE]

StartNode(c) == [cur |-> c.cur, vote |-> 0, req |-> 0, acks |-> {}, due |-> FALSE,
                 tab |-> [m \in c.nodes |-> StartEntry(c, m)]]

\* The two directions of each connection.
Channels(links) == UNION {{<<l, l[1]>>, <<l, l[2]>>} : l \in links}
Sender(k) == IF k[1][1] = k[2] THEN k[1][2] ELSE k[1][1]
From(q, n) == {k \in DOMAIN q : Sender(k) = n}

Init == /\ conf \in Confs
        /\ nd = [n \in conf.nodes |-> StartNode(conf)]
        /\ net = [k \in Channels(conf.links) |-> <<>>]
        /\ disk = [n \in conf.nodes |-> nd[n].tab]
        /\ ops = conf.ops
        /\ wins = {}
        /\ suspects = [n \in conf.nodes |-> {}]

Up == conf.nodes \ conf.down

--------------------------------------------------------------------------------
\* Slot claims (ClusterClaims) in the table of one node.
MergeClaims(x, me, c, bm, e) ==
  LET t == [x.tab EXCEPT ![c].epoch = Max2(@, e)]
  IN [x EXCEPT !.cur = Max2(@, e), !.tab = IF c = me THEN t ELSE Contest(t, c, bm)]

IsMaster(t, n) == t[n].of = None
Serving(t) == {m \in DOMAIN t : IsMaster(t, m) /\ t[m].slots # {}}

\* cluster_failover_promote: the next epoch, and the slots of the old master.
Promote(x, me) == [x EXCEPT !.cur = @ + 1, !.tab = Inherit(@, me, x.cur + 1)]

--------------------------------------------------------------------------------
\* Failure reports and the quorum.
ReportFailure(x, m, r) == [x EXCEPT !.tab[m].reps = @ \cup {r}]
ReportHeal(x, m, r)    == [x EXCEPT !.tab[m].reps = @ \ {r}]

MarkFail(x, me, m) ==
  IF m = me \/ x.tab[m].fail THEN x
  ELSE [x EXCEPT !.tab[m].pfail = FALSE, !.tab[m].fail = TRUE]

Failures(x, me, m) == Cardinality(x.tab[m].reps) + (IF IsMaster(x.tab, me) THEN 1 ELSE 0)

\* Bug: half of the masters suffice.
QuorumHalf(x, me, m) ==
  /\ x.tab[m].pfail /\ ~x.tab[m].fail
  /\ Failures(x, me, m) >= Cardinality(Serving(x.tab)) \div 2

Quorum(x, me, m) ==
  /\ x.tab[m].pfail /\ ~x.tab[m].fail
  /\ Failures(x, me, m) >= Cardinality(Serving(x.tab)) \div 2 + 1

MarkFailIfQuorum(x, me, m) == IF Quorum(x, me, m) THEN MarkFail(x, me, m) ELSE x

--------------------------------------------------------------------------------
\* Frames.
GossipEntry(t, m) == [epoch |-> t[m].epoch, slots |-> t[m].slots, of |-> t[m].of,
                      pfail |-> t[m].pfail, fail |-> t[m].fail, disc |-> t[m].disc]

\* PING, PONG and MEET: the sender's own entry and what it knows of the others.
Frame(type, n, x) ==
  [type |-> type, from |-> n, cur |-> x.cur, epoch |-> x.tab[n].epoch,
   slots |-> x.tab[n].slots, of |-> x.tab[n].of,
   gossip |-> [m \in DOMAIN x.tab \ {n} |-> GossipEntry(x.tab, m)]]

FailFrame(m) == [type |-> "FAIL", node |-> m]

\* A replica asks for votes in the name of its dead master's claim.
AuthRequest(n, x) ==
  LET m == IF x.tab[n].of \in DOMAIN x.tab THEN x.tab[n].of ELSE n
  IN [type |-> "REQUEST", from |-> n, cur |-> x.req, epoch |-> x.tab[m].epoch, slots |-> x.tab[m].slots]

Ack(n, x) == [type |-> "ACK", from |-> n, cur |-> x.cur]

Send(q, ks, f) == [k \in DOMAIN q |-> IF k \in ks THEN Append(q[k], f) ELSE q[k]]

\* cluster_gossip_round: a PING on every connection the node has opened.
Exchanging(q, l) == \E k \in DOMAIN q : k[1] = l /\ q[k] # <<>>
Round(q, n, x) == Send(q, {k \in From(q, n) : k[1][1] = n /\ ~Exchanging(q, k[1])}, Frame("PING", n, x))

\* The header of a frame: the sender's own view of itself replaces ours, which
\* clears every failure flag.
Header(x, f) ==
  LET known == IF f.from \in DOMAIN x.tab THEN x.tab[f.from] ELSE NewEntry
      e == [known EXCEPT !.of = f.of, !.pfail = FALSE, !.fail = FALSE, !.disc = FALSE, !.seen = TRUE]
  IN [x EXCEPT !.tab = [m \in DOMAIN @ \cup {f.from} |-> IF m = f.from THEN e ELSE @[m]]]

\* One gossip entry g about m: a report when the sender is a master, and in
\* ddup's protocol the claims of m when they are not older than ours.
Report(x, me, f, m, g) ==
  IF m = me \/ m \notin DOMAIN x.tab \/ f.of # None THEN x
  ELSE IF g.pfail \/ g.fail THEN MarkFailIfQuorum(ReportFailure(x, m, f.from), me, m)
  ELSE ReportHeal(x, m, f.from)

Learn(x, m, g) ==
  IF m \in DOMAIN x.tab THEN x
  ELSE LET e == [NewEntry EXCEPT !.of = IF conf.redis /\ g.of # None THEN Unknown ELSE g.of,
                                 !.pfail = g.pfail, !.fail = g.fail,
                                 !.disc = ~conf.redis /\ g.disc]
       IN [x EXCEPT !.tab = [k \in DOMAIN @ \cup {m} |-> IF k = m THEN e ELSE @[k]]]

GossipStep(x, me, f, m) ==
  LET g == f.gossip[m]
      y == Learn(Report(x, me, f, m, g), m, g)
  IN IF ~conf.redis /\ g.epoch >= y.tab[m].epoch
     THEN MergeClaims(y, me, m, g.slots, g.epoch) ELSE y

\* The entries of a frame one after the other (y: evaluated once).
GossipSteps(x, me, f) ==
  LET after[i \in 0 .. Cardinality(conf.nodes)] ==
        IF i = 0 THEN x
        ELSE CHOOSE z \in {IF i \in DOMAIN f.gossip THEN GossipStep(y, me, f, i) ELSE y :
                              y \in {after[i - 1]}} : TRUE
  IN after[Cardinality(conf.nodes)]

\* cluster_bus_handle_frame and redbus_handle_frame for PING, PONG and MEET.
HandlePing(x, me, f) ==
  LET y == MergeClaims(Header(x, f), me, f.from, f.slots, f.epoch)
      z == IF conf.redis THEN [y EXCEPT !.cur = Max2(@, f.cur)] ELSE y
  IN GossipSteps(z, me, f)

--------------------------------------------------------------------------------
\* Votes.
\* Bug: the voter does not remember the epoch it voted in.
MayVoteAgain(x, me, f, cur) ==
  /\ me \in Serving(x.tab)
  /\ f.cur >= cur
  /\ f.from \in DOMAIN x.tab /\ x.tab[f.from].of \in DOMAIN x.tab
  /\ x.tab[x.tab[f.from].of].fail
  /\ \A s \in f.slots : \A o \in Holders(x.tab, s) \ {f.from} : x.tab[o].epoch <= f.epoch

\* handle_auth_request: a master with slots, once per epoch, for a replica of a
\* failed master, when no holder of the claimed slots has a newer claim.
MayVote(x, me, f, cur) ==
  /\ me \in Serving(x.tab)
  /\ f.cur >= cur
  /\ x.vote # cur
  /\ f.from \in DOMAIN x.tab /\ x.tab[f.from].of \in DOMAIN x.tab
  /\ x.tab[x.tab[f.from].of].fail
  /\ \A s \in f.slots : \A o \in Holders(x.tab, s) \ {f.from} : x.tab[o].epoch <= f.epoch

RaiseEpoch(x, me, f) == IF me \in Serving(x.tab) THEN [x EXCEPT !.cur = Max2(@, f.cur)] ELSE x

HandleAck(x, f) ==
  IF x.req # 0 /\ f.cur >= x.req /\ f.from \in Serving(x.tab)
  THEN [x EXCEPT !.acks = @ \cup {f.from}] ELSE x

Elected(x, me) == Cardinality(x.acks) > Cardinality(Serving(x.tab) \ {me}) \div 2

--------------------------------------------------------------------------------
\* An operation of the configuration, of which ops may still happen.
Does(a) == a \in conf.acts /\ ops > 0 /\ ops' = ops - 1
Ghosts  == UNCHANGED <<wins, suspects>>

NewlyFailed(x, y) == {m \in DOMAIN x.tab : y.tab[m].fail /\ ~x.tab[m].fail}

\* cluster_broadcast_fail: the node whose quorum was completed last.
Broadcast(q, n, x, y) ==
  LET S == NewlyFailed(x, y)
      last == CHOOSE m \in S : \A k \in S : k <= m
  IN IF S = {} THEN q ELSE Send(q, From(q, n), FailFrame(last))

\* bus_service: the next frame of a connection, handled by n.
ReceivePing(k, n, f) ==
  /\ f.type \in {"PING", "PONG", "MEET"}
  /\ \E y \in {HandlePing(nd[n], n, f)}, q \in {[net EXCEPT ![k] = Tail(@)]} :
     \E r \in {IF f.type = "PONG" THEN q ELSE Send(q, {<<k[1], f.from>>}, Frame("PONG", n, y))} :
        /\ nd' = [nd EXCEPT ![n] = y]
        /\ net' = Broadcast(r, n, nd[n], y)

ReceiveFail(k, n, f) ==
  /\ f.type = "FAIL"
  /\ nd' = IF f.node \in DOMAIN nd[n].tab THEN [nd EXCEPT ![n] = MarkFail(@, n, f.node)] ELSE nd
  /\ net' = [net EXCEPT ![k] = Tail(@)]

ReceiveRequest(k, n, f) ==
  /\ f.type = "REQUEST"
  /\ LET x == RaiseEpoch(nd[n], n, f)
         grant == MayVote(x, n, f, x.cur)
         q == [net EXCEPT ![k] = Tail(@)]
     IN /\ nd' = [nd EXCEPT ![n] = IF grant THEN [x EXCEPT !.vote = x.cur] ELSE x]
        /\ net' = IF grant THEN Send(q, {<<k[1], f.from>>}, Ack(n, x)) ELSE q

ReceiveAck(k, n, f) ==
  /\ f.type = "ACK"
  /\ nd' = [nd EXCEPT ![n] = HandleAck(@, f)]
  /\ net' = [net EXCEPT ![k] = Tail(@)]

Receive(l, n) ==
  /\ <<l, n>> \in DOMAIN net /\ net[<<l, n>>] # <<>> /\ n \in Up
  /\ LET k == <<l, n>> f == Head(net[k])
     IN ReceivePing(k, n, f) \/ ReceiveFail(k, n, f) \/ ReceiveRequest(k, n, f) \/ ReceiveAck(k, n, f)
  /\ UNCHANGED <<conf, disk, ops>> /\ Ghosts

\* A bus connection breaks and takes its frames with it.
Break(l) ==
  /\ Does("Break")
  /\ net' = [k \in {j \in DOMAIN net : j[1] # l} |-> net[k]]
  /\ UNCHANGED <<conf, nd, disk>> /\ Ghosts

--------------------------------------------------------------------------------
\* cluster_fail_check: the nodes of S, heard before, have been silent for the
\* node timeout.  A node known from gossip only is not suspected.
Silent(x, n, m) ==
  MarkFailIfQuorum([x EXCEPT !.tab[m].disc = TRUE, !.tab[m].pfail = TRUE], n, m)

FailChecks(x, n, S) ==
  [x EXCEPT !.tab = [m \in DOMAIN @ |-> IF m \in S THEN Silent(x, n, m).tab[m] ELSE @[m]]]

\* A replica of a failed master that held slots schedules its promotion.
Schedule(x, n) ==
  LET m == x.tab[n].of
  IN IF m \in DOMAIN x.tab /\ m \in Serving(x.tab) /\ x.tab[m].fail
     THEN [x EXCEPT !.due = TRUE] ELSE x

StillFailed(x, n) == x.tab[n].of \in DOMAIN x.tab /\ x.tab[x.tab[n].of].fail

\* cluster_failover_check, at the failover deadline: what becomes of the node.
Start(x) == [x EXCEPT !.cur = @ + 1, !.req = x.cur + 1, !.acks = {}, !.due = TRUE]

FailoverCheck(x, n) ==
  IF ~x.due THEN <<"none", x>>
  ELSE IF ~StillFailed(x, n) THEN <<"none", [x EXCEPT !.due = FALSE, !.req = 0]>>
  ELSE IF conf.redis /\ x.req = 0 THEN <<"ask", Start(x)>>
  ELSE IF conf.redis /\ ~Elected(x, n) THEN <<"none", [x EXCEPT !.req = 0]>>
  ELSE <<"promoted", Promote([x EXCEPT !.due = FALSE, !.req = 0], n)>>

\* The timers of server_run_once: a gossip round, the failure check and, when
\* its deadline has passed, the failover check.  A cluster that is not free has
\* a bounded number of rounds: those that follow are not shown.
Cron(n, S, late, loud) ==
  /\ n \in Up
  /\ S \subseteq {m \in DOMAIN nd[n].tab \ {n} : nd[n].tab[m].seen /\ ~nd[n].tab[m].disc}
  /\ conf.free => loud
  /\ IF S # {} THEN Does("Suspect") ELSE IF conf.free \/ ~loud THEN UNCHANGED ops ELSE Does("Gossip")
  /\ late => nd[n].due /\ nd[n].cur < MaxEpoch
  /\ \E x \in {FailChecks(nd[n], n, S)} :
     \E o \in {IF late THEN FailoverCheck(Schedule(x, n), n) ELSE <<"none", Schedule(x, n)>>} :
     \E q \in {Broadcast(IF loud THEN Round(net, n, nd[n]) ELSE net, n, nd[n], x)} :
        /\ nd' = [nd EXCEPT ![n] = o[2]]
        /\ net' = CASE o[1] = "ask"      -> Send(q, From(q, n), AuthRequest(n, o[2]))
                    [] o[1] = "promoted" -> Round(q, n, o[2])
                    [] OTHER             -> q
        /\ wins' = IF o[1] = "promoted" /\ conf.redis THEN wins \cup {<<x.req, n>>} ELSE wins
  /\ suspects' = [m \in conf.nodes |-> suspects[m] \cup (IF m \in S THEN {n} ELSE {})]
  /\ UNCHANGED <<conf, disk>>

\* cluster_report_count: a report older than twice the node timeout is dropped.
ReportExpires(n, m, r) ==
  /\ Does("Expire")
  /\ n \in Up /\ m \in DOMAIN nd[n].tab /\ r \in nd[n].tab[m].reps
  /\ nd' = [nd EXCEPT ![n].tab[m].reps = @ \ {r}]
  /\ UNCHANGED <<conf, net, disk>> /\ Ghosts

--------------------------------------------------------------------------------
\* nodes.conf holds the table; the current epoch and the last vote are not in it,
\* and a node that starts takes itself for a master.
NodesSave(n) ==
  /\ "Restart" \in conf.acts /\ n \in Up
  /\ disk' = [disk EXCEPT ![n] = nd[n].tab]
  /\ UNCHANGED <<conf, nd, net, ops>> /\ Ghosts

ParseLine(e) == [e EXCEPT !.reps = {}, !.fail = @ /\ ~e.pfail]

Restart(n) ==
  /\ Does("Restart") /\ n \in Up
  /\ nd' = [nd EXCEPT ![n] = [cur |-> 1, vote |-> 0, req |-> 0, acks |-> {}, due |-> FALSE,
              tab |-> [m \in DOMAIN disk[n] |->
                         IF m = n THEN [ParseLine(disk[n][m]) EXCEPT !.of = None] ELSE ParseLine(disk[n][m])]]]
  /\ net' = [k \in {j \in DOMAIN net : n \notin {j[1][1], j[1][2]}} |-> net[k]]
  /\ UNCHANGED <<conf, disk>> /\ Ghosts

\* CLUSTER commands at node n.
Command(n, x) == /\ n \in Up /\ x.cur <= MaxEpoch
                 /\ nd' = [nd EXCEPT ![n] = x]
                 /\ UNCHANGED <<conf, net, disk>> /\ Ghosts

NextEpoch(x, m) == [x EXCEPT !.cur = @ + 1, !.tab[m].epoch = x.cur + 1]

\* Of several slots those before the first invalid or busy one are taken all
\* the same, without a new epoch: then the command is not carried out whole.
AddSlots(n, s, whole) ==
  /\ Does("AddSlots") /\ Holders(nd[n].tab, s) = {}
  /\ LET x == [nd[n] EXCEPT !.tab[n].slots = @ \cup {s}]
     IN Command(n, IF whole THEN NextEpoch(x, n) ELSE x)

DelSlots(n, s) ==
  /\ Does("DelSlots") /\ s \in nd[n].tab[n].slots
  /\ Command(n, [nd[n] EXCEPT !.tab[n].slots = @ \ {s}])

FlushSlots(n) ==
  /\ Does("FlushSlots")
  /\ Command(n, [nd[n] EXCEPT !.tab[n].slots = {}])

SetSlot(n, s, m) ==
  /\ Does("SetSlot") /\ <<n, m>> \in conf.setslot /\ m \in DOMAIN nd[n].tab
  /\ Command(n, NextEpoch([nd[n] EXCEPT !.tab = Assign(@, s, m)], m))

BumpEpoch(n) == Does("BumpEpoch") /\ Command(n, NextEpoch(nd[n], n))

SetConfigEpoch(n, e) ==
  /\ Does("SetConfigEpoch") /\ e > nd[n].cur
  /\ Command(n, [nd[n] EXCEPT !.cur = e, !.tab[n].epoch = e])

Replicate(n, m) ==
  /\ Does("Replicate")
  /\ m \in DOMAIN nd[n].tab \ {n} /\ IsMaster(nd[n].tab, m)
  /\ Command(n, [nd[n] EXCEPT !.tab[n].of = m])

Takeover(n) ==
  /\ Does("Takeover") /\ nd[n].tab[n].of # None
  /\ Command(n, Promote(nd[n], n))

Forget(n, m) ==
  /\ Does("Forget")
  /\ m \in DOMAIN nd[n].tab \ {n} /\ nd[n].tab[m].slots = {}
  /\ Command(n, [nd[n] EXCEPT !.tab = [k \in DOMAIN @ \ {m} |-> @[k]]])

Reset(n, hard) ==
  /\ Does("Reset")
  /\ Command(n, [nd[n] EXCEPT !.tab =
       [k \in {n} |-> [nd[n].tab[n] EXCEPT !.slots = IF hard THEN {} ELSE @]]])

\* srv_cluster_meet opens a connection of its own.
Meet(n, m) ==
  /\ Does("Meet") /\ n \in Up /\ m \in Up \ {n} /\ <<n, m>> \notin {k[1] : k \in DOMAIN net}
  /\ net' = [k \in DOMAIN net \cup Channels({<<n, m>>}) |->
               IF k = <<<<n, m>>, m>> THEN <<Frame("MEET", n, nd[n])>>
               ELSE IF k \in DOMAIN net THEN net[k] ELSE <<>>]
  /\ UNCHANGED <<conf, nd, disk>> /\ Ghosts

Commands(n) ==
  \/ \E s \in conf.claims, whole \in BOOLEAN : AddSlots(n, s, whole)
  \/ \E s \in conf.claims : DelSlots(n, s)
  \/ \E s \in conf.claims, m \in conf.nodes : SetSlot(n, s, m)
  \/ FlushSlots(n) \/ BumpEpoch(n) \/ Takeover(n)
  \/ \E e \in 1 .. MaxEpoch : SetConfigEpoch(n, e)
  \/ \E m \in conf.nodes : Replicate(n, m) \/ Forget(n, m) \/ Meet(n, m)
  \/ \E hard \in BOOLEAN : Reset(n, hard)

Suspicions == {{}} \cup {{m} : m \in conf.nodes}

Next == \/ \E n \in conf.nodes, S \in Suspicions, late, loud \in BOOLEAN : Cron(n, S, late, loud)
        \/ \E k \in DOMAIN net : Receive(k[1], k[2]) \/ Break(k[1])
        \/ \E n \in conf.nodes : NodesSave(n) \/ Restart(n) \/ Commands(n)
        \/ \E n, m, r \in conf.nodes : ReportExpires(n, m, r)

\* The timers of server_run_once fire for ever, and a connection that holds a
\* frame is served.
Links == UNION {c.links : c \in {d \in Confs : d.free}}
Fairness == /\ \A n \in UNION {c.nodes : c \in Confs} :
                 WF_cvars(conf.free /\ n \in conf.nodes /\ Cron(n, {}, FALSE, TRUE))
            /\ \A k \in Channels(Links) : WF_cvars(conf.free /\ Receive(k[1], k[2]))

Spec == Init /\ [][Next]_cvars /\ Fairness

--------------------------------------------------------------------------------
\* In one election epoch at most one replica gathers a majority: a voter gives
\* one vote per epoch, whatever is repeated or delayed.  (Among voters that stay
\* up: last_vote_epoch is in no file.)
OneWinnerPerEpoch == \A w, v \in wins : w[1] = v[1] => w[2] = v[2]

\* A node is FAIL in some table only after a majority of the masters that serve
\* slots found it silent themselves (at whatever time): one partitioned node,
\* or reports that echo each other, cannot fail a master.
FailNeedsQuorum ==
  \A n \in Up : \A m \in DOMAIN nd[n].tab :
     nd[n].tab[m].fail /\ m \notin conf.down =>
       Cardinality({k \in suspects[m] : conf.of[k] = None}) >= Cardinality(conf.masters) \div 2 + 1

\* In no table do two nodes hold one slot: every merge, promotion and command
\* leaves at most one holder, which is the one clients are redirected to.
OneHolder == \A n \in Up : \A s \in UNION {conf.slots[m] : m \in conf.nodes} :
               Cardinality(Holders(nd[n].tab, s)) <= 1

\* Two nodes may both believe that they own a slot, and then both serve it; once
\* the operators stop, the claims they exchange leave one of them.
OneServer == \A s \in conf.claims : Cardinality({n \in Up : s \in nd[n].tab[n].slots}) <= 1
ClaimsSettle == <>[]OneServer

\* What does not follow: that all tables name the same owner in the end.
ViewsAgree ==
  <>[](\A s \in conf.claims : \A n, m \in Up : Holders(nd[n].tab, s) = Holders(nd[m].tab, s))

--------------------------------------------------------------------------------
\* The inductive invariant behind OneHolder, for the cluster c.
Slots(c)  == c.claims \cup UNION {c.slots[m] : m \in c.nodes}
Tables(c) == UNION {[D -> Entries(Slots(c))] : D \in SUBSET c.nodes}
States(c) == [cur : Nat, vote : Nat, req : Nat, acks : SUBSET c.nodes, due : BOOLEAN, tab : Tables(c)]

GossipEntries(c) == [epoch : Nat, slots : SUBSET Slots(c), of : Int,
                     pfail : BOOLEAN, fail : BOOLEAN, disc : BOOLEAN]
Pings(c) == [type : {"PING", "PONG", "MEET"}, from : c.nodes, cur : Nat, epoch : Nat,
             slots : SUBSET Slots(c), of : Int,
             gossip : UNION {[D -> GossipEntries(c)] : D \in SUBSET c.nodes}]
Frames(c) == Pings(c) \cup [type : {"FAIL"}, node : c.nodes]
             \cup [type : {"REQUEST"}, from : c.nodes, cur : Nat, epoch : Nat, slots : SUBSET Slots(c)]
             \cup [type : {"ACK"}, from : c.nodes, cur : Nat]
Nets(c) == UNION {[D -> Seq(Frames(c))] : D \in SUBSET Channels({l \in c.nodes \X c.nodes : l[1] # l[2]})}

TableGood(c, n, t) == t \in Tables(c) /\ n \in DOMAIN t /\ Exclusive(t)
Good(c, n, x)      == x \in States(c) /\ TableGood(c, n, x.tab)

HolderInv ==
  /\ conf \in Confs
  /\ DOMAIN nd = conf.nodes /\ nd = [n \in conf.nodes |-> nd[n]]
  /\ \A n \in conf.nodes : Good(conf, n, nd[n])
  /\ disk = [n \in conf.nodes |-> disk[n]]
  /\ \A n \in conf.nodes : TableGood(conf, n, disk[n])
  /\ net \in Nets(conf)
================================================================================
