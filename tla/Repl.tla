-------------------------------- MODULE Repl --------------------------------
(***************************************************************************)
(* Master/replica replication of the single-threaded server                *)
(* (src/server/server.c): srv_propagate, SYNC/PSYNC with full and partial  *)
(* resync, the replica's master link, REPLICAOF, the reconnect timer.      *)
(* Every node runs the same code, so chains and role swaps are instances.  *)
(* The stream is counted in commands, one command per offset unit, and the *)
(* backlog is the last blen commands of the stream (ReplBacklog is the     *)
(* byte ring).  A database is the sequence of commands applied to it.      *)
(***************************************************************************)
EXTENDS Integers, Sequences

CONSTANTS
  Nodes,
  NoOne,
  Conf,        \* Conf[n]: the replicaof line of n's configuration, or NoOne
  Targets,     \* Targets[n]: what REPLICAOF at n may name
  DBs,         \* logical databases the clients write to
  Cap,         \* backlog capacity
  MaxWrites, MaxBreaks, MaxFails, MaxAdmin, MaxRestarts   \* bounds

ASSUME CapAssumption == Cap \in Nat \ {0}
ASSUME NodesAssumption == NoOne \notin Nodes /\ Conf \in [Nodes -> Nodes \cup {NoOne}]
ASSUME BoundAssumption == /\ MaxWrites \in Nat /\ MaxBreaks \in Nat /\ MaxFails \in Nat
                          /\ MaxAdmin \in Nat /\ MaxRestarts \in Nat

VARIABLES
  role, master,   \* repl.role, repl.master_host
  data,           \* data[n]: commands applied to the keyspace of n
  inc,            \* incarnation of n: its repl.replid is <<n, inc[n]>>
  stream,         \* stream[n]: commands ever appended to n's backlog
  blen,           \* backlog.len
  used,           \* backlog_used
  cache,          \* cache[n]: master_replid and master_offset
  link,           \* state of n's master_link
  pipe,           \* pipe[n]: sent by n's master and not yet fed at n
  count           \* counters behind the bounds

vars == <<role, master, data, inc, stream, blen, used, cache, link, pipe, count>>
server == <<role, master, inc>>

NoCache == [id |-> <<NoOne, 0>>, off |-> 0]
Replid(n) == <<n, inc[n]>>

\* "dangling": the connection is gone and master_link still points to it.
\* "served" is "sent" after the master has handled the PSYNC.
LinkStates == {"none", "connecting", "dangling", "sent", "served", "snap", "streaming"}

\* is_replica connections of m
Attached(m) == {n \in Nodes : master[n] = m /\ link[n] \in {"served", "snap", "streaming"}}

Least(a, b) == IF a < b THEN a ELSE b
Most(a, b) == IF a < b THEN b ELSE a
Spend(c) == count' = [count EXCEPT ![c] = @ - 1]

Init ==
  /\ role = [n \in Nodes |-> IF Conf[n] = NoOne THEN "master" ELSE "replica"]
  /\ master = Conf
  /\ data = [n \in Nodes |-> <<>>]
  /\ inc = [n \in Nodes |-> 0]
  /\ stream = [n \in Nodes |-> <<>>]
  /\ blen = [n \in Nodes |-> 0]
  /\ used = [n \in Nodes |-> FALSE]
  /\ cache = [n \in Nodes |-> NoCache]
  /\ link = [n \in Nodes |-> "none"]
  /\ pipe = [n \in Nodes |-> <<>>]
  /\ count = [write |-> MaxWrites, break |-> MaxBreaks, fail |-> MaxFails,
              admin |-> MaxAdmin, restart |-> MaxRestarts]

-----------------------------------------------------------------------------
(* Commands and the stream.                                                *)

\* srv_propagate at m of one command; pipes are the link contents before it.
\* The stream carries no database number.
Propagate(m, op, pipes) ==
  IF ~used[m]
  THEN pipe' = pipes /\ UNCHANGED <<stream, blen>>
  ELSE /\ stream' = [stream EXCEPT ![m] = Append(@, op)]
       /\ blen' = [blen EXCEPT ![m] = Least(@ + 1, Cap)]
       /\ pipe' = [n \in Nodes |-> IF n \in Attached(m)
                                   THEN Append(pipes[n], [k |-> "op", op |-> op])
                                   ELSE pipes[n]]

\* a client's write, in the database its session has selected
ClientWrite(m, d) ==
  LET op == [id |-> count.write, org |-> m, db |-> d]
  IN /\ role[m] = "master"
     /\ count.write > 0
     /\ data' = [data EXCEPT ![m] = Append(@, op)]
     /\ Propagate(m, op, pipe)
     /\ Spend("write")
     /\ UNCHANGED <<server, used, cache, link>>

-----------------------------------------------------------------------------
(* The replica's link: connecting and closing.                             *)

\* link and pipe after n's link is closed
Closed(n, state) ==
  /\ link' = [link EXCEPT ![n] = state]
  /\ pipe' = [pipe EXCEPT ![n] = <<>>]

\* repl_link_connect: refused at once (cr < 0), in progress, or connected
\* with the PSYNC queued
ConnectOutcome == {"none", "connecting", "sent"}

\* the 500 ms retry of server_run_once
ReconnectTimer(n) ==
  /\ role[n] = "replica"
  /\ link[n] = "none"
  /\ \E s \in ConnectOutcome : Closed(n, s)
  /\ UNCHANGED <<server, data, stream, blen, used, cache, count>>

\* writability of a connecting link: pal_connect_finish succeeds
ConnectDone(n) ==
  /\ link[n] = "connecting"
  /\ Closed(n, "sent")
  /\ UNCHANGED <<server, data, stream, blen, used, cache, count>>

\* pal_connect_finish fails, or the PSYNC cannot be flushed: conn_close
\* without repl_link_close, so master_link keeps its value
ConnectFail(n) ==
  /\ link[n] \in {"connecting", "sent"}
  /\ count.fail > 0
  /\ Closed(n, "dangling")
  /\ Spend("fail")
  /\ UNCHANGED <<server, data, stream, blen, used, cache>>

LinkLostDangling(n) ==
  /\ link[n] \in {"sent", "served", "snap", "streaming"}
  /\ count.break > 0
  /\ Closed(n, "dangling")
  /\ cache' = [cache EXCEPT ![n] = IF link[n] = "snap" THEN NoCache ELSE @]
  /\ Spend("break")
  /\ UNCHANGED <<server, data, stream, blen, used>>

\* End of file or an error on the link (the master may have dropped a slow
\* replica): repl_link_close_transport forgets the master's history only
\* while a snapshot is on its way.
LinkLost(n) ==
  /\ link[n] \in {"sent", "served", "snap", "streaming"}
  /\ count.break > 0
  /\ Closed(n, "none")
  /\ cache' = [cache EXCEPT ![n] = IF link[n] = "snap" THEN NoCache ELSE @]
  /\ Spend("break")
  /\ UNCHANGED <<server, data, stream, blen, used>>

\* srv_replicaof: the resume cache survives NO ONE and the same master
Replicaof(n, m) ==
  /\ count.admin > 0
  /\ m \in Targets[n]
  /\ role' = [role EXCEPT ![n] = IF m = NoOne THEN "master" ELSE "replica"]
  /\ master' = [master EXCEPT ![n] = IF m = NoOne THEN @ ELSE m]
  /\ cache' = [cache EXCEPT ![n] = IF m \in {NoOne, master[n]} THEN @ ELSE NoCache]
  /\ \E s \in ConnectOutcome : Closed(n, IF m = NoOne THEN "none" ELSE s)
  /\ Spend("admin")
  /\ UNCHANGED <<inc, data, stream, blen, used>>

\* The process is restarted: a new replication id and an empty backlog, the
\* configured role, and the part of the keyspace that was persisted.  The
\* connections of its replicas end.
Restart(n) ==
  /\ count.restart > 0
  /\ inc' = [inc EXCEPT ![n] = @ + 1]
  /\ role' = [role EXCEPT ![n] = IF Conf[n] = NoOne THEN "master" ELSE "replica"]
  /\ master' = [master EXCEPT ![n] = Conf[n]]
  /\ \E k \in 0..Len(data[n]) : data' = [data EXCEPT ![n] = SubSeq(@, 1, k)]
  /\ stream' = [stream EXCEPT ![n] = <<>>]
  /\ blen' = [blen EXCEPT ![n] = 0]
  /\ used' = [used EXCEPT ![n] = FALSE]
  /\ LET ended == {x \in Nodes : master[x] = n
                                 /\ link[x] \in {"sent", "served", "snap", "streaming"}}
     IN /\ link' = [x \in Nodes |-> IF x \in ended \cup {n} THEN "none" ELSE link[x]]
        /\ pipe' = [x \in Nodes |-> IF x \in ended \cup {n} THEN <<>> ELSE pipe[x]]
        /\ cache' = [x \in Nodes |-> IF x = n \/ (x \in ended /\ link[x] = "snap")
                                     THEN NoCache ELSE cache[x]]
  /\ Spend("restart")

-----------------------------------------------------------------------------
(* The PSYNC exchange.                                                     *)

ContinuableNoLowerBound(m, c) ==
  /\ c.id = Replid(m)
  /\ c.off <= Len(stream[m])

\* srv_psync's test for a partial resync
Continuable(m, c) ==
  /\ c.id = Replid(m)
  /\ Len(stream[m]) - blen[m] <= c.off
  /\ c.off <= Len(stream[m])

\* srv_psync_continue and srv_write_continue: the backlog has nothing older
\* than its blen commands
ContinueReply(m, c) ==
  LET from == Most(c.off, Len(stream[m]) - blen[m])
  IN <<[k |-> "continue", id |-> Replid(m)]>>
       \o [i \in 1..(Len(stream[m]) - from) |->
             [k |-> "op", op |-> stream[m][from + i]]]

\* the FULLRESYNC line and srv_write_snapshot
FullReply(m) ==
  <<[k |-> "fullresync", id |-> Replid(m), off |-> Len(stream[m])],
    [k |-> "snapshot", data |-> data[m]]>>

\* srv_psync at n's master: the connection becomes a replica's
ServePsync(n) ==
  LET m == master[n]
  IN /\ link[n] = "sent"
     /\ link' = [link EXCEPT ![n] = "served"]
     /\ pipe' = [pipe EXCEPT ![n] =
                   IF Continuable(m, cache[n]) THEN ContinueReply(m, cache[n])
                                               ELSE FullReply(m)]
     /\ used' = [used EXCEPT ![m] = TRUE]
     /\ UNCHANGED <<server, data, stream, blen, cache, count>>

Feed(n, kind) == pipe[n] # <<>> /\ Head(pipe[n]).k = kind
Fed(n) == [pipe EXCEPT ![n] = Tail(@)]

\* repl_link_feed, one operator per kind of input.  The id and offset of a
\* FULLRESYNC line are pending until the snapshot is loaded: here they travel
\* with the snapshot.
FeedContinue(n) ==
  /\ Feed(n, "continue")
  /\ cache' = [cache EXCEPT ![n].id = Head(pipe[n]).id]
  /\ link' = [link EXCEPT ![n] = "streaming"]
  /\ pipe' = Fed(n)
  /\ UNCHANGED <<server, data, stream, blen, used, count>>

FeedFullresync(n) ==
  /\ Feed(n, "fullresync")
  /\ link[n] = "served"
  /\ link' = [link EXCEPT ![n] = "snap"]
  /\ UNCHANGED <<server, data, stream, blen, used, cache, count, pipe>>

FeedSnapshotKeepsOffset(n) ==
  /\ link[n] = "snap"
  /\ data' = [data EXCEPT ![n] = pipe[n][2].data]
  /\ cache' = [cache EXCEPT ![n].id = Head(pipe[n]).id]
  /\ link' = [link EXCEPT ![n] = "streaming"]
  /\ pipe' = [pipe EXCEPT ![n] = Tail(Tail(@))]
  /\ UNCHANGED <<server, stream, blen, used, count>>

\* The snapshot has arrived and is loaded: the keyspace is replaced as a
\* whole, and nothing of it goes to n's own stream.
FeedSnapshot(n) ==
  /\ link[n] = "snap"
  /\ data' = [data EXCEPT ![n] = pipe[n][2].data]
  /\ cache' = [cache EXCEPT ![n] = [id |-> Head(pipe[n]).id, off |-> Head(pipe[n]).off]]
  /\ link' = [link EXCEPT ![n] = "streaming"]
  /\ pipe' = [pipe EXCEPT ![n] = Tail(Tail(@))]
  /\ UNCHANGED <<server, stream, blen, used, count>>

\* a snapshot that cannot be loaded: repl_link_close_fatal, keyspace intact
LoadFail(n) ==
  /\ link[n] = "snap"
  /\ count.break > 0
  /\ cache' = [cache EXCEPT ![n] = NoCache]
  /\ Closed(n, "none")
  /\ Spend("break")
  /\ UNCHANGED <<server, data, stream, blen, used>>

\* One command of the stream.  The link's session is in database 0 and the
\* command goes through srv_propagate like any other.
FeedCommand(n) ==
  LET op == [Head(pipe[n]).op EXCEPT !.db = 0]
  IN /\ Feed(n, "op")
     /\ link[n] = "streaming"
     /\ data' = [data EXCEPT ![n] = Append(@, op)]
     /\ cache' = [cache EXCEPT ![n].off = @ + 1]
     /\ Propagate(n, op, Fed(n))
     /\ UNCHANGED <<server, used, link, count>>

Next ==
  \E n \in Nodes :
    \/ \E d \in DBs : ClientWrite(n, d)
    \/ ReconnectTimer(n) \/ ConnectDone(n) \/ ConnectFail(n) \/ LinkLost(n)
    \/ \E m \in Nodes \cup {NoOne} : Replicaof(n, m)
    \/ Restart(n)
    \/ ServePsync(n)
    \/ FeedContinue(n) \/ FeedFullresync(n) \/ FeedSnapshot(n) \/ LoadFail(n)
    \/ FeedCommand(n)

Spec == Init /\ [][Next]_vars

\* Event loops run, an attempt to connect is repeated until it gets through,
\* and what is sent arrives unless the link breaks.
FairSpec ==
  /\ Spec
  /\ \A n \in Nodes :
       /\ WF_vars(ReconnectTimer(n) /\ link'[n] # "none")
       /\ WF_vars(ConnectDone(n))
       /\ WF_vars(ServePsync(n))
       /\ WF_vars(FeedContinue(n) \/ FeedFullresync(n) \/ FeedSnapshot(n) \/ FeedCommand(n))

-----------------------------------------------------------------------------
(* Properties.                                                             *)

Ops == [id : Nat, org : Nodes, db : DBs \cup {0}]
Ids == (Nodes \cup {NoOne}) \X Nat
FullLines == [k : {"fullresync"}, id : Ids, off : Nat]
Snapshots == [k : {"snapshot"}, data : Seq(Ops)]
Messages == [k : {"op"}, op : Ops] \cup [k : {"continue"}, id : Ids]
              \cup FullLines \cup Snapshots

TypeOK ==
  /\ role \in [Nodes -> {"master", "replica"}]
  /\ master \in [Nodes -> Nodes \cup {NoOne}]
  /\ data \in [Nodes -> Seq(Ops)]
  /\ inc \in [Nodes -> Nat]
  /\ stream \in [Nodes -> Seq(Ops)]
  /\ blen \in [Nodes -> Nat]
  /\ used \in [Nodes -> BOOLEAN]
  /\ cache \in [Nodes -> [id : Ids, off : Nat]]
  /\ link \in [Nodes -> LinkStates]
  /\ pipe \in [Nodes -> Seq(Messages)]
  /\ count \in [write : Nat, break : Nat, fail : Nat, admin : Nat, restart : Nat]

\* after its first skip messages, q is the stream s from offset off on
OpsFrom(s, off, q, skip) ==
  /\ off <= Len(s)
  /\ Len(q) = skip + (Len(s) - off)
  /\ \A i \in 1..(Len(s) - off) :
       q[skip + i] = [k |-> "op", op |-> s[off + i]]

Streaming(n) ==
  /\ cache[n].id = Replid(master[n])
  /\ OpsFrom(stream[master[n]], cache[n].off, pipe[n], 0)

\* A streaming replica is exactly where it says it is: it holds the id of its
\* master's present incarnation, and what is under way to it is that
\* master's stream from the replica's own offset on.  The next +CONTINUE can
\* thus neither skip nor repeat a command.
StreamFollows ==
  \A n \in Nodes : link[n] = "streaming" => Streaming(n)

PipeOps(n) ==
  LET sent == SelectSeq(pipe[n], LAMBDA x : x.k = "op")
  IN [i \in DOMAIN sent |-> sent[i].op]

\* n's keyspace once all that is under way to it has been applied
CaughtUp(n) ==
  LET start == IF \E i \in DOMAIN pipe[n] : pipe[n][i].k = "snapshot"
               THEN pipe[n][2].data ELSE data[n]
  IN start \o PipeOps(n)

\* without the commands of n's own clients, from a time when it was a master
Foreign(n, s) == SelectSeq(s, LAMBDA op : op.org # n)

\* Once the master has answered the PSYNC, the replica's keyspace and what
\* is under way to it make up the master's keyspace: no command is lost,
\* applied twice or reordered by any sequence of breaks, partial and full
\* resyncs, restarts and REPLICAOF commands.
MirrorsMaster ==
  \A n \in Nodes : n \in Attached(master[n]) =>
    Foreign(n, CaughtUp(n)) = Foreign(n, data[master[n]])

\* A master that grants +CONTINUE shares its history with the replica ("same
\* history" in srv_psync): resuming gives the replica the master's keyspace.
ContinueSameHistory ==
  \A n \in Nodes : Feed(n, "continue") /\ role[master[n]] = "master" =>
    Foreign(n, CaughtUp(n)) = Foreign(n, data[master[n]])

\* Every replica is eventually streaming and up to date, whatever breaks,
\* restarts and REPLICAOF commands came before, as long as no attempt to
\* connect failed late: the conn_close of ConnectFail leaves master_link set,
\* which ends the retries.
ReplicasCatchUp ==
  <>[](count.fail = MaxFails =>
         \A n \in Nodes : role[n] = "replica" =>
           link[n] = "streaming" /\ pipe[n] = <<>>)

-----------------------------------------------------------------------------
(* The inductive invariant behind StreamFollows: what each link state says *)
(* about the messages under way.                                           *)

Continuing(n) ==
  /\ pipe[n][1].k = "continue"
  /\ pipe[n][1].id = Replid(master[n])
  /\ cache[n].id = Replid(master[n])
  /\ OpsFrom(stream[master[n]], cache[n].off, pipe[n], 1)

Resyncing(n) ==
  /\ pipe[n][1] \in FullLines
  /\ pipe[n][1].id = Replid(master[n])
  /\ pipe[n][2] \in Snapshots
  /\ OpsFrom(stream[master[n]], pipe[n][1].off, pipe[n], 2)

LinkOK(n) ==
  /\ role[n] = "replica" => master[n] \in Nodes
  /\ link[n] # "none" => role[n] = "replica"
  /\ link[n] \in {"served", "snap", "streaming"} => used[master[n]]
  /\ link[n] \in {"none", "connecting", "dangling", "sent"} => pipe[n] = <<>>
  /\ link[n] = "served" => Continuing(n) \/ Resyncing(n)
  /\ link[n] = "snap" => Resyncing(n)
  /\ link[n] = "streaming" => Streaming(n)

BacklogOK == \A n \in Nodes : blen[n] <= Len(stream[n])

IInv == TypeOK /\ BacklogOK /\ \A n \in Nodes : LinkOK(n)
=============================================================================
