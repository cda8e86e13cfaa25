------------------------------- MODULE Migrate -------------------------------
(***************************************************************************)
(* One hash slot moves from node A to node B while clients use it: the     *)
(* migrating and importing states, the redirections MOVED and ASK, ASKING, *)
(* MIGRATE with its pipelined RESTOREs, and the tool that drives them.     *)
(*                                                                         *)
(* Each node is one thread.  A executes nothing else while it is inside    *)
(* MIGRATE (migrate_run waits for the answers); B executes the RESTOREs of *)
(* a connection in order, also those of a connection that A has given up.  *)
(* A value is the number of the write that made it.                        *)
(***************************************************************************)
EXTENDS Integers, FiniteSets, Sequences

CONSTANTS
  Clients,
  SlotKeys,     \* the keys of the slot, numbers
  Count,        \* keys per GETKEYSINSLOT
  MaxWrites,    \* bound of the SETs executed; the keys start with write 1
  MaxFaults,    \* bound of timeouts, refused RESTOREs and restarts
  MaxLoad       \* bound of requests in flight and faults together

ASSUME KeysAssumption == IsFiniteSet(SlotKeys) /\ Count \in Nat \ {0}

VARIABLES
  host,         \* per node: the slot's owner in its table, its half of the
                \* migration state, its keys
  run,          \* the MIGRATE that A is executing
  late,         \* RESTOREs on connections that A has closed
  tool,         \* where the resharding tool is, and the keys it was given
  reqs,         \* the request of each client and the node it is sent to
  latest,       \* ghost: what the last write served left of each key
  writes,
  faults

migrateVars == <<host, run, late, tool, reqs, latest, writes, faults>>

Absent  == 0
NoOwner == "none"
NoReq   == [op |-> "none"]
Idle    == [keys |-> <<>>, out |-> <<>>, acks |-> <<>>, confirmed |-> 0, open |-> FALSE]
Other(n) == IF n = "A" THEN "B" ELSE "A"

MigrateInit ==
  /\ host = [n \in {"A", "B"} |-> [own |-> "A", moving |-> FALSE,
               data |-> [k \in SlotKeys |-> IF n = "A" THEN 1 ELSE Absent]]]
  /\ run = Idle /\ late = {}
  /\ tool = [at |-> "migrating", batch |-> {}]
  /\ reqs = [c \in Clients |-> NoReq]
  /\ latest = [k \in SlotKeys |-> 1]
  /\ writes = 1 /\ faults = 0

Busy(n) == n = "A" /\ run # Idle
Fault   == faults < MaxFaults /\ faults' = faults + 1
Kept(data, ks) == [k \in SlotKeys |-> IF k \in ks THEN Absent ELSE data[k]]

-----------------------------------------------------------------------------
\* db_key_served: what node n does with a command on k.
Migrating(n) == n = "A" /\ host[n].moving
Importing(n) == n = "B" /\ host[n].moving

Served(n, k, asking) ==
  IF asking /\ Importing(n) /\ host[n].own # n THEN "served"
  ELSE IF host[n].own = NoOwner THEN "CLUSTERDOWN"
  ELSE IF host[n].own # n THEN "MOVED"
  ELSE IF Migrating(n) /\ host[n].data[k] = Absent THEN "ASK" ELSE "served"

\* A client sends a command to the node it believes in.
Request(c, op, k, n) ==
  /\ reqs[c] = NoReq /\ Cardinality({d \in Clients : reqs[d] # NoReq}) + faults < MaxLoad
  /\ op = "set" => writes <= MaxWrites
  /\ reqs' = [reqs EXCEPT ![c] = [op |-> op, k |-> k, at |-> n, asking |-> FALSE]]
  /\ UNCHANGED <<host, run, late, tool, latest, writes, faults>>

\* command_dispatch: the ownership check, which consumes ASKING, then the
\* command, SET or DEL.  A read meets what a write meets, so it is left out.
Execute(n, op, k) ==
  LET v == IF op = "set" THEN writes + 1 ELSE Absent
  IN /\ host' = [host EXCEPT ![n].data[k] = v]
     /\ writes' = IF op = "set" THEN v ELSE writes
     /\ latest' = IF v = host[n].data[k] THEN latest ELSE [latest EXCEPT ![k] = v]

Serve(c) ==
  /\ reqs[c] # NoReq
  /\ LET r == reqs[c] IN
     /\ ~Busy(r.at)
     /\ Served(r.at, r.k, r.asking) = "served"
     /\ r.op = "set" => writes <= MaxWrites
     /\ Execute(r.at, r.op, r.k)
  /\ reqs' = [reqs EXCEPT ![c] = NoReq]
  /\ UNCHANGED <<run, late, tool, faults>>

\* The client follows MOVED, or ASK with an ASKING; an error ends the request.
Redirect(c) ==
  /\ reqs[c] # NoReq
  /\ LET r == reqs[c]
         s == Served(r.at, r.k, r.asking)
     IN /\ ~Busy(r.at) /\ s # "served"
        /\ reqs' = [reqs EXCEPT ![c] =
             CASE s = "ASK"   -> [r EXCEPT !.at = Other(r.at), !.asking = TRUE]
               [] s = "MOVED" -> [r EXCEPT !.at = host[r.at].own, !.asking = FALSE]
               [] OTHER       -> NoReq]
  /\ UNCHANGED <<host, run, late, tool, latest, writes, faults>>

-----------------------------------------------------------------------------
\* reshard_slot of the tool: CLUSTER SETSLOT at A and B, GETKEYSINSLOT and
\* MIGRATE until a batch is empty, SETSLOT NODE; an error ends it.
Tool(at, next) ==
  /\ tool.at = at /\ tool' = [tool EXCEPT !.at = next]
  /\ UNCHANGED <<run, late, reqs, latest, writes, faults>>

SetMigrating ==
  /\ ~Busy("A") /\ Tool("migrating", IF host["A"].own = "A" THEN "importing" ELSE "failed")
  /\ host' = IF host["A"].own = "A" THEN [host EXCEPT !["A"].moving = TRUE] ELSE host

SetImporting ==
  /\ Tool("importing", IF host["B"].own # "B" THEN "keys" ELSE "failed")
  /\ host' = IF host["B"].own # "B" THEN [host EXCEPT !["B"].moving = TRUE] ELSE host

Present(n) == {k \in SlotKeys : host[n].data[k] # Absent}

\* as many keys as were asked for, in the order of the hash table
GetKeysInSlot ==
  /\ ~Busy("A") /\ tool.at = "keys"
  /\ \E got \in SUBSET Present("A") :
       /\ Cardinality(got) <= Count /\ (Cardinality(got) = Count \/ got = Present("A"))
       /\ tool' = [at |-> IF got = {} THEN "nodeA" ELSE "migrate", batch |-> got]
  /\ UNCHANGED <<host, run, late, reqs, latest, writes, faults>>

SetNode(n, at, next) ==
  /\ ~Busy(n) /\ Tool(at, next)
  /\ host' = [host EXCEPT ![n].own = "B", ![n].moving = FALSE]

\* The tool is interrupted, or loses a connection; it may be run again.
ToolDies  == tool.at \notin {"done", "failed"} /\ Tool(tool.at, "failed") /\ UNCHANGED host
ToolAgain == Tool("failed", "migrating") /\ UNCHANGED host

\* The table of n takes the claims that the other node's frames carry.
Hear(n) ==
  LET m == Other(n)
      claims == host[m].own = m
  IN /\ IF claims THEN host[n].own = NoOwner ELSE host[n].own = m
     /\ host' = [host EXCEPT ![n].own = IF claims THEN m ELSE NoOwner]
     /\ UNCHANGED <<run, late, tool, reqs, latest, writes, faults>>

-----------------------------------------------------------------------------
\* migrate_run: the keys that exist, in the order of the batch, are dumped
\* into RESTOREs.
Orders(S) == {s \in [1..Cardinality(S) -> S] : \A i, j \in DOMAIN s : s[i] = s[j] => i = j}

MigrateStart ==
  /\ ~Busy("A") /\ tool.at = "migrate"
  /\ \E live \in Orders(tool.batch \cap Present("A")) :
       IF live = <<>>
       THEN tool' = [tool EXCEPT !.at = "keys"] /\ UNCHANGED run
       ELSE /\ tool' = [tool EXCEPT !.at = "wait"]
            /\ run' = [Idle EXCEPT !.keys = live, !.open = TRUE,
                         !.out = [i \in DOMAIN live |-> [k |-> live[i], v |-> host["A"].data[live[i]]]]]
  /\ UNCHANGED <<host, late, reqs, latest, writes, faults>>

\* RESTORE ... REPLACE at B behind an ASKING: refused when B neither imports
\* the slot nor has it, or is out of memory.
Accepted(k) == Served("B", k, TRUE) = "served"
Restored(r, ok) == IF ok THEN [host EXCEPT !["B"].data[r.k] = r.v] ELSE host

Restore(ok) ==
  /\ run.out # <<>>
  /\ IF ok \/ ~Accepted(Head(run.out).k) THEN UNCHANGED faults ELSE Fault
  /\ LET done == ok /\ Accepted(Head(run.out).k)
     IN /\ host' = Restored(Head(run.out), done)
        /\ run' = [run EXCEPT !.out = Tail(@), !.acks = Append(@, done)]
  /\ UNCHANGED <<late, tool, reqs, latest, writes>>

RestoreLate(q) ==
  /\ q # <<>>
  /\ host' = Restored(Head(q), Accepted(Head(q).k))
  /\ late' = (late \ {q}) \cup ({Tail(q)} \ {<<>>})
  /\ UNCHANGED <<run, tool, reqs, latest, writes, faults>>

Confirm ==
  /\ run.acks # <<>> /\ Head(run.acks)
  /\ run.confirmed + 1 < Len(run.keys)
  /\ run' = [run EXCEPT !.acks = Tail(@), !.confirmed = @ + 1]
  /\ UNCHANGED <<host, late, tool, reqs, latest, writes, faults>>

\* Bug: what was sent is deleted, confirmed or not.
MigrateEndsAll(n, ok) ==
  /\ host' = [host EXCEPT !["A"].data = Kept(@, {run.keys[i] : i \in DOMAIN run.keys})]
  /\ late' = late \cup ({run.out} \ {<<>>})
  /\ run' = Idle
  /\ tool' = IF tool.at = "wait" THEN [tool EXCEPT !.at = IF ok THEN "keys" ELSE "failed"] ELSE tool
  /\ UNCHANGED <<reqs, latest, writes>>

\* The first n keys were confirmed: they go, and the connection is closed.
MigrateEnds(n, ok) ==
  /\ host' = [host EXCEPT !["A"].data = Kept(@, {run.keys[i] : i \in 1..n})]
  /\ late' = late \cup ({run.out} \ {<<>>})
  /\ run' = Idle
  /\ tool' = IF tool.at = "wait" THEN [tool EXCEPT !.at = IF ok THEN "keys" ELSE "failed"] ELSE tool
  /\ UNCHANGED <<reqs, latest, writes>>

MigrateDone ==
  /\ run.acks # <<>> /\ Head(run.acks) /\ run.confirmed + 1 = Len(run.keys)
  /\ MigrateEnds(Len(run.keys), TRUE) /\ UNCHANGED faults

MigrateRefused ==
  /\ run.acks # <<>> /\ ~Head(run.acks)
  /\ MigrateEnds(run.confirmed, FALSE) /\ UNCHANGED faults

\* The deadline passes, or B has closed the connection.
MigrateTimeout ==
  /\ run # Idle
  /\ IF run.open THEN Fault ELSE UNCHANGED faults
  /\ MigrateEnds(run.confirmed, FALSE)

\* Migration states are in no file; a node that restarts comes back with its
\* keys and claims (what an unsaved nodes.conf loses is in Cluster), and its
\* connections are gone.
NodeRestarts(n) ==
  /\ Fault
  /\ host' = [host EXCEPT ![n].moving = FALSE]
  /\ run' = IF n = "A" THEN Idle ELSE [run EXCEPT !.out = <<>>, !.acks = <<>>, !.open = FALSE]
  /\ late' = IF n = "A" THEN late \cup ({run.out} \ {<<>>}) ELSE {}
  /\ tool' = IF tool.at = "done" THEN tool ELSE [tool EXCEPT !.at = "failed"]
  /\ reqs' = [c \in Clients |-> IF reqs[c] # NoReq /\ reqs[c].at = n THEN NoReq ELSE reqs[c]]
  /\ UNCHANGED <<latest, writes>>

MigrateNext ==
  \/ \E c \in Clients : \E op \in {"set", "del"}, k \in SlotKeys, n \in {"A", "B"} : Request(c, op, k, n)
  \/ \E c \in Clients : Serve(c) \/ Redirect(c)
  \/ SetMigrating \/ SetImporting \/ GetKeysInSlot
  \/ SetNode("A", "nodeA", "nodeB") \/ SetNode("B", "nodeB", "done")
  \/ ToolDies \/ ToolAgain
  \/ \E n \in {"A", "B"} : Hear(n) \/ NodeRestarts(n)
  \/ MigrateStart \/ Confirm \/ MigrateDone \/ MigrateRefused \/ MigrateTimeout
  \/ \E ok \in BOOLEAN : Restore(ok)
  \/ \E q \in late : RestoreLate(q)

MigrateSpec == MigrateInit /\ [][MigrateNext]_migrateVars

-----------------------------------------------------------------------------
\* As long as no MIGRATE has failed and no node restarted, a request that a node
\* is about to serve, by whichever redirections and in whatever phase of the
\* move, meets the key as the last write left it.
MoveIsInvisible ==
  faults = 0 =>
    \A c \in Clients :
      LET r == reqs[c]
      IN r # NoReq /\ ~Busy(r.at) /\ Served(r.at, r.k, r.asking) = "served"
         => host[r.at].data[r.k] = latest[r.k]

\* A key that was written and not deleted is on one of the two nodes.
NoKeyLost == \A k \in SlotKeys : latest[k] # Absent => \E n \in {"A", "B"} : host[n].data[k] # Absent

\* Moving a slot keeps its keys.  While everything answers in time, clients see
\* every key as if the slot did not move: db_key_served sends them to the node
\* that has it.  And whatever times out, is refused, restarts or is run again, no
\* key is lost: migrate_run deletes only what the target has confirmed.
MoveKeepsKeys == MoveIsInvisible /\ NoKeyLost

-----------------------------------------------------------------------------
(* The inductive invariant behind MoveKeepsKeys.                           *)

Places   == {"migrating", "importing", "keys", "migrate", "wait", "nodeA", "nodeB", "done", "failed"}
Hosts    == [own : {"A", "B", NoOwner}, moving : BOOLEAN, data : [SlotKeys -> Nat]]
Restores == [k : SlotKeys, v : Nat \ {Absent}]
SlotCommands == [op : {"set", "del"}, k : SlotKeys, at : {"A", "B"}, asking : BOOLEAN]

TypesOK ==
  /\ host \in [{"A", "B"} -> Hosts]
  /\ run \in [keys : Seq(SlotKeys), out : Seq(Restores), acks : Seq(BOOLEAN),
               confirmed : Nat, open : BOOLEAN]
  /\ late \subseteq Seq(Restores)
  /\ tool \in [at : Places, batch : SUBSET SlotKeys]
  /\ reqs \in [Clients -> SlotCommands \cup {NoReq}]
  /\ latest \in [SlotKeys -> Nat] /\ writes \in Nat /\ faults \in Nat

\* a key that A may delete: B has it, unless it was deleted since
Settled(k) == latest[k] # Absent => host["B"].data[k] # Absent

\* the RESTOREs under way, those executed and those confirmed are the keys
\* of the MIGRATE, in order
RunOK ==
  LET sent == run.confirmed + Len(run.acks)
  IN /\ IF run.open THEN sent + Len(run.out) = Len(run.keys)
                    ELSE run.out = <<>> /\ run.acks = <<>> /\ run.confirmed <= Len(run.keys)
     /\ \A i \in 1..Len(run.out) : run.out[i].k = run.keys[sent + i]
     /\ \A i \in 1..run.confirmed : Settled(run.keys[i])
     /\ \A i \in 1..Len(run.acks) : run.acks[i] => Settled(run.keys[run.confirmed + i])

\* A owns the slot and migrates it, B imports it
Moving == host["A"].own = "A" /\ host["A"].moving /\ host["B"].moving

\* who has the last written value of a key
Authority(k) == IF host["A"].data[k] # Absent THEN host["A"].data[k] ELSE host["B"].data[k]

\* what the MIGRATE under way has done so far, when nothing failed
RunExact ==
  /\ run # Idle => Moving /\ run.open
  /\ \A i \in 1..Len(run.acks) : run.acks[i]
  /\ \A i \in 1..Len(run.keys) : host["A"].data[run.keys[i]] # Absent
  /\ \A i \in 1..Len(run.out) : run.out[i].v = host["A"].data[run.out[i].k]
  /\ \A i \in 1..(run.confirmed + Len(run.acks)) :
       host["B"].data[run.keys[i]] = host["A"].data[run.keys[i]]
  /\ \A k \in Present("A") \cap Present("B") :
       \E i \in 1..(run.confirmed + Len(run.acks)) : run.keys[i] = k

\* where the slot is, by the steps of the tool
SlotExact ==
  /\ host["A"].moving => host["A"].own = "A"
  /\ host["A"].own = "A" /\ ~host["A"].moving => Present("B") = {}
  /\ host["A"].own # "A" => Present("A") = {}
  /\ host["B"].own = "B" => host["A"].own # "A"
  /\ tool.at = "importing" => host["A"].moving
  /\ tool.at \in {"keys", "migrate", "wait", "nodeA"} => Moving
  /\ tool.at = "nodeA" => Present("A") = {}
  /\ tool.at = "nodeB" => host["A"].own # "A"

Undisturbed ==
  /\ late = {} /\ RunExact /\ SlotExact
  /\ \A k \in SlotKeys : latest[k] = Authority(k)
  /\ \A c \in Clients :
       reqs[c] # NoReq /\ reqs[c].asking =>
         /\ reqs[c].at = "B" /\ host["A"].data[reqs[c].k] = Absent
         /\ host["A"].own = "A" => host["A"].moving

MigrateInv == TypesOK /\ RunOK /\ NoKeyLost /\ (faults = 0 => Undisturbed)
=============================================================================
