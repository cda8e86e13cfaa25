------------------------------- MODULE MCCluster -------------------------------
(***************************************************************************)
(* Small clusters for model checking Cluster, and the migration of a slot  *)
(* between two of its masters (Migrate).  The bus decides who owns a slot, *)
(* Migrate what happens to its keys; a behaviour works on one of them.     *)
(***************************************************************************)
EXTENDS Cluster, Migrate

\* n masters, master m with slot m; what a cluster has else is in the EXCEPTs.
Plain(n) ==
  [redis |-> FALSE, nodes |-> 1 .. n, down |-> {}, masters |-> 1 .. n, links |-> {}, cur |-> 1,
   epoch |-> [m \in 1 .. n |-> 1], slots |-> [m \in 1 .. n |-> {m}], of |-> [m \in 1 .. n |-> None],
   claims |-> {}, setslot |-> {}, acts |-> {}, ops |-> 0, free |-> TRUE]

Star == {<<1, 2>>, <<1, 3>>}

\* Three masters of which the first owns slot 1, and operators who move it.
Claims ==
  [Plain(3) EXCEPT !.links = Star, !.slots = <<{1}, {}, {}>>, !.claims = {1},
     !.setslot = {<<m, m>> : m \in 1 .. 3}, !.ops = 2,
     !.acts = {"SetSlot", "AddSlots", "BumpEpoch", "DelSlots", "FlushSlots", "SetConfigEpoch"}]

\* Master 1 is down; its replicas 3 and 4 promote themselves without a vote.
Failover ==
  [Plain(4) EXCEPT !.links = {<<2, 3>>, <<2, 4>>}, !.down = {1}, !.masters = {1, 2},
     !.slots = <<{1}, {2}, {}, {}>>, !.of = <<None, None, 1, 1>>, !.claims = {1}]

\* Three masters that lose sight of each other.
Silence ==
  [Plain(3) EXCEPT !.redis = TRUE, !.links = Star, !.free = FALSE,
     !.acts = {"Suspect", "Expire", "Gossip"}, !.ops = 5]

\* Master 3 is down; its replicas 4 and 5 ask masters 1 and 2 for votes.
Election ==
  [Plain(5) EXCEPT !.redis = TRUE, !.free = FALSE, !.down = {3}, !.masters = 1 .. 3,
     !.links = {<<4, 1>>, <<4, 2>>, <<5, 1>>, <<5, 2>>}, !.slots = <<{1}, {2}, {3}, {}, {}>>,
     !.of = <<None, None, None, 3, 3>>]

\* The commands that change who is in the cluster, restarts and broken connections.
Admin ==
  [Plain(3) EXCEPT !.links = {<<1, 2>>, <<3, 1>>}, !.masters = {1}, !.cur = 2, !.epoch = <<2, 1, 1>>,
     !.slots = <<{1}, {}, {}>>, !.of = <<None, None, 1>>, !.free = FALSE, !.ops = 3,
     !.setslot = {<<1, 2>>, <<2, 2>>, <<3, 3>>},
     !.acts = {"Restart", "Replicate", "Takeover", "Forget", "Reset", "Meet", "Break", "SetSlot", "Gossip"}]

MCConfs == {Claims, Failover, Silence, Election, Admin}

VARIABLE part    \* what this behaviour is about
MCInit ==
  /\ part \in {"bus", "migration"}
  /\ Init /\ (part = "migration" => conf = Admin)
  /\ MigrateInit
MCNext ==
  /\ \/ part = "bus" /\ Next /\ UNCHANGED migrateVars
     \/ part = "migration" /\ MigrateNext /\ UNCHANGED cvars
  /\ UNCHANGED part
MCSpec == MCInit /\ [][MCNext]_<<cvars, migrateVars, part>> /\ Fairness
================================================================================
