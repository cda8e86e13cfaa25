--------------------------- MODULE MCPersistence ----------------------------
(***************************************************************************)
(* The two logs a server keeps on disk: the append-only file of its        *)
(* commands (Aof) and the log of offloaded values (Tier).  They share no   *)
(* state; a behaviour works on one of them.                                *)
(***************************************************************************)
EXTENDS Aof, Tier

Set1 == [c |-> "set", v |-> 1]
Set2 == [c |-> "set", v |-> 2]
Del == [c |-> "del"]
Push == [c |-> "push"]
Sel(n) == [c |-> "select", d |-> n]
Copy(n) == [c |-> "copy", d |-> n]
Move(n) == [c |-> "move", d |-> n]
Swap == [c |-> "swapdb"]
Eval(b) == [c |-> "eval", body |-> b]

Load(clients, cmds, txns, crashes, torn, fails, backups) ==
  [clients |-> clients, cmds |-> cmds, txns |-> txns,
   max |-> [crash |-> crashes, torn |-> torn, fail |-> fails, backup |-> backups]]

MCClients == {"c1", "c2"}

\* one database with every kind of command, scripts, transactions, crashes, torn
\* and failing writes and a backup; two clients in two databases and a crash; and
\* the commands and transactions after which the log may go astray
MCLoads ==
  <<Load({"c1"}, {Set1, Del, Push, Eval(<<Set2, Push>>)},
         {<<Del, Set1>>, <<Del, Push>>, <<Eval(<<Del, Set2>>)>>}, 2, 1, 1, 1),
    Load(MCClients, {Set1, Set2, Del, Sel(0), Sel(1), Copy(1), Move(0), Eval(<<Set2, Sel(1), Set1>>)},
         {<<Set1, Set2>>, <<Del, Set2>>}, 1, 0, 0, 0),
    Load({"c1"}, {Set1, Set2, Del, Sel(0), Sel(1), Swap},
         {<<Del, Set2>>, <<Set1, Push>>, <<Set1, Eval(<<Set2>>)>>, <<Set1, Sel(1)>>}, 1, 0, 0, 0)>>

\* loads under which a documented promise fails
Sets == {Set1, Set2}
SelectLoad == <<Load({"c1"}, Sets \union {Sel(0), Sel(1)}, {}, 1, 0, 0, 1)>>
SwapLoad == <<Load({"c1"}, {Set1, Swap}, {}, 0, 0, 0, 0)>>
TornLoad == <<Load({"c1"}, Sets, {}, 1, 1, 0, 0)>>
FailLoad == <<Load({"c1"}, Sets, {}, 0, 0, 1, 0)>>
ErrorLoad == <<Load({"c1"}, Sets, {<<Set1, Push>>}, 0, 0, 0, 0)>>
ScriptLoad == <<Load({"c1"}, Sets, {<<Set1, Eval(<<Set2>>)>>}, 0, 0, 0, 0)>>
SelectTxnLoad == <<Load({"c1"}, Sets, {<<Set1, Sel(1)>>}, 0, 0, 0, 0)>>

\* the keys are 0 and 1, each with a value of its own
MCColdVals == [k \in ColdKeys |-> {k}]
\* the keys in two databases, or in one, where RENAME can replace
MCLayouts == {[k \in ColdKeys |-> k], [k \in ColdKeys |-> 0]}

VARIABLE part    \* the log this behaviour is about
MCInit ==
  /\ part \in {"aof", "tier"}
  /\ Init /\ (part = "tier" => load = 1)
  /\ TierInit
MCNext ==
  /\ \/ part = "aof" /\ Next /\ UNCHANGED tierVars
     \/ part = "tier" /\ TierNext /\ UNCHANGED vars
  /\ UNCHANGED part
MCSpec == MCInit /\ [][MCNext]_<<vars, tierVars, part>>

\* acked is a record of what was answered: no action depends on it, and none
\* of the properties checked.
Unanswered ==
  <<load, kv, dirty, cur, file, synced, pending, aofdb, failed, up, backup, count, astray,
    tierVars, part>>
=============================================================================
