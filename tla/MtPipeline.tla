----------------------------- MODULE MtPipeline -----------------------------
(***************************************************************************)
(* One client connection of the thread-per-core server: its home worker    *)
(* parses pipelined requests, routes each to the worker that owns its key, *)
(* and puts the replies back into request order; its subscriptions, and    *)
(* the messages that reach them.                                           *)
(*                                                                         *)
(* Sources: mt_route and what it calls, mt_exec_task and                   *)
(* mt_drain_completions of src/server/mt_server.c; conn_process_input of   *)
(* src/server/server.c; db_touch_key of src/core/command.c.                *)
(*                                                                         *)
(* The connection has made its one migration (st->migrated is set), or its *)
(* backend does not migrate.  Rings are the FIFO queues that MtRing shows  *)
(* them to be, and do not fill up; memory is not exhausted.                *)
(* Request number id is answered by the reply number id.                   *)
(***************************************************************************)
EXTENDS Integers, Sequences, FiniteSets, SequencesExt, FiniteSetsExt

CONSTANTS
  NW,         \* number of workers; the connection lives on worker Home
  Keys,       \* keys the requests are about
  Names,      \* names of channels and of patterns
  Owner,      \* Owner[k]: hash_slot(k) % nworkers
  Glob,       \* Glob[p]: the channels ddup_glob_match says pattern p matches
  Mixes,      \* sequence of [cmds, max, writes, publishes]: the requests a
              \* client may send, the bound on how many it sends, the keys and
              \* channels other clients write and publish to
  MaxWrites   \* bound: writes and messages by other clients

Workers == 0..NW-1
Home == 0
Remote == Workers \ {Home}

ASSUME OwnerAssumption == Owner \in [Keys \cup Names -> Workers]
ASSUME GlobAssumption == Glob \in [Names -> SUBSET Names]

VARIABLES
  st,       \* mt_conn_state
  out,      \* conn->out: the requests answered, in the order of the replies
  inbox,    \* inbox[w]: tasks the home worker pushed to worker w
  comps,    \* comps[w]: completions worker w pushed to the home worker
  aggs,     \* aggs[id]: parts of broadcast id still to be merged
  db,       \* the workers' databases, as far as WATCH looks at them
  mix,      \* which of Mixes this client sends
  nreq,     \* requests parsed so far
  nwrites,  \* writes and messages by other clients so far
  reg,      \* reg[w]: this connection's entries of worker w's channel registry
  got,      \* the messages put into conn->out: [sub, n]
  inpass,   \* the home worker is inside conn_process_input
  gh,       \* what the client expects of WATCH (a history variable)
  lastid    \* lastid[k]: request that last wrote key k

vars == <<st, out, inbox, comps, aggs, db, mix, nreq, nwrites, reg, got, inpass, gh, lastid>>

\* A subscription: the pubsub_pattern field of its entries, and a name.
Channel == 0
Pattern == 1
Shard == 2
Kinds == {Channel, Pattern, Shard}
Subs == [kind : Kinds, k : Names]

\* A request: what mt_route tells apart.  "set" is any command with keys of
\* one owner, "local" a keyless one, "solo" a SCAN (a task of its own), "agg"
\* a broadcast (FLUSHDB), "pass" a command mt_classify does not know
\* (MT_PASS), "deny" a command the user's ACL forbids; "quit" is
\* a local command that also sets session.quit; "unsuball" is one of the
\* unsubscribing commands without names.
CmdSet == [op : {"set", "watch"}, k : Keys] \cup [op : {"solo"}, w : Workers]
          \cup [op : {"sub", "unsub"}, sub : Subs] \cup [op : {"unsuball"}, kind : Kinds]
          \cup [op : {"publish"}, k : Names, kind : {Channel, Shard}]
          \cup [op : {"local", "agg", "pass", "deny", "quit", "multi", "exec", "discard",
                      "unwatch", "reset"}]

ASSUME CmdAssumption == \A i \in DOMAIN Mixes : Mixes[i].cmds \subseteq CmdSet

Requests == 1..Max({Mixes[i].max : i \in DOMAIN Mixes})

Init ==
  /\ st = [seq_next |-> 0, seq_write |-> 0, reorder |-> <<>>,
           batch_target |-> -1, batch_seq |-> 0, batch |-> <<>>,
           in_multi |-> FALSE, mq |-> <<>>, watches |-> <<>>,
           watch_pending |-> 0, deferred |-> <<>>, replaying |-> FALSE,
           pending |-> 0, closing |-> FALSE, freed |-> FALSE,
           quit |-> FALSE, subs |-> {}]
  /\ out = <<>>
  /\ inbox = [w \in Workers |-> <<>>]
  /\ comps = [w \in Workers |-> <<>>]
  /\ aggs = [i \in Requests |-> 0]
  /\ db = [refs |-> [w \in Workers |-> 0], epoch |-> [w \in Workers |-> 0],
           ver |-> [k \in Keys |-> 0], writes |-> [k \in Keys |-> 0]]
  /\ mix \in DOMAIN Mixes
  /\ nreq = 0
  /\ nwrites = 0
  /\ reg = [w \in Workers |-> <<>>]
  /\ got = <<>>
  /\ inpass = FALSE
  /\ gh = [multi |-> FALSE, on |-> {}, need |-> [i \in Requests |-> {}],
           seen |-> {}, stale |-> FALSE, cut |-> FALSE]
  /\ lastid = [k \in Keys |-> 0]

\* What one call on the home worker changes, as one record.
Now == [st |-> st, out |-> out, inbox |-> inbox, comps |-> comps, aggs |-> aggs,
        db |-> db, reg |-> reg, got |-> got, gh |-> gh, lastid |-> lastid]
Becomes(h) ==
  /\ st' = h.st /\ out' = h.out /\ inbox' = h.inbox /\ comps' = h.comps
  /\ aggs' = h.aggs /\ db' = h.db /\ reg' = h.reg /\ got' = h.got
  /\ gh' = h.gh /\ lastid' = h.lastid

-----------------------------------------------------------------------------
(* Databases.                                                              *)

\* db_touch_key: the version moves only while the database is watched
Touch(d, k) ==
  [d EXCEPT !.writes[k] = @ + 1,
            !.ver[k] = IF d.refs[Owner[k]] = 0 THEN @ ELSE @ + 1]

\* flush_db_contents on worker w
Flush(d, w) ==
  [d EXCEPT !.epoch[w] = @ + 1,
            !.ver = [k \in Keys |-> IF Owner[k] = w THEN 0 ELSE @[k]],
            !.writes = [k \in Keys |-> IF Owner[k] = w THEN @[k] + 1
                                                       ELSE @[k]]]

Release(d, w) == [d EXCEPT !.refs[w] = IF @ > 0 THEN @ - 1 ELSE @]

WatchEntry(d, k) ==
  [k |-> k, ver |-> d.ver[k], epoch |-> d.epoch[Owner[k]]]

Changed(d, e) ==
  \/ d.ver[e.k] # e.ver
  \/ d.epoch[Owner[e.k]] # e.epoch

\* a write of request id by this connection
Write(h, k, id) ==
  [h EXCEPT !.db = Touch(@, k), !.lastid[k] = id]

\* History: the requests the client sends switch its watches on and off;
\* need[id] is what EXEC number id relies on, seen what each WATCH saw.
ClientView(g, c, id) ==
  CASE c.op = "watch" /\ ~g.multi -> [g EXCEPT !.on = @ \cup {id}]
    [] c.op = "multi" -> [g EXCEPT !.multi = TRUE]
    [] c.op = "exec" /\ g.multi ->
         [g EXCEPT !.multi = FALSE, !.on = {}, !.need[id] = g.on]
    [] \/ c.op = "reset"
       \/ c.op = "discard" /\ g.multi ->
         [g EXCEPT !.multi = FALSE, !.on = {}]
    [] c.op = "unwatch" -> [g EXCEPT !.on = {}]
    [] OTHER -> g

Watched(h, k, id) ==
  [h EXCEPT !.gh.seen = @ \cup {[id |-> id, k |-> k, writes |-> h.db.writes[k]]}]

\* EXEC number id takes effect although a key it relies on was written
CommitView(h, id) ==
  [h EXCEPT !.gh.stale = @ \/ \E i \in h.gh.need[id] :
     ~ \E e \in h.gh.seen : e.id = i /\ e.writes = h.db.writes[e.k]]

Commit(h, t) ==
  FoldLeft(LAMBDA g, k : Write(g, k, t.ids[1]), CommitView(h, t.ids[1]), t.keys)

ExecOnDbKeepsRefs(h, w, t) ==
  IF \E i \in DOMAIN t.watches : Changed(h.db, t.watches[i])
    THEN h
    ELSE Commit(h, t)

\* mt_exec_on_db: check and release the watches, then replay the queue
ExecOnDb(h, w, t) ==
  LET released == [h EXCEPT !.db = FoldLeft(LAMBDA d, e : Release(d, w),
                                            @, t.watches)]
  IN IF \E i \in DOMAIN t.watches : Changed(h.db, t.watches[i])
       THEN released
       ELSE Commit(released, t)

-----------------------------------------------------------------------------
(* Tasks and the reorder buffer.                                           *)

\* span: the numbers a task takes up; ids: the requests its reply answers
Task(kind, seq, ids) == [kind |-> kind, seq |-> seq, span |-> 1, ids |-> ids]

\* mt_pending_inc + mt_push_task
PushOwned(h, w, t) ==
  [h EXCEPT !.inbox[w] = Append(@, t), !.st.pending = @ + 1]

\* mt_watch_release_one: at once on the home worker, else a task
ReleaseOne(h, k) ==
  IF Owner[k] = Home
    THEN [h EXCEPT !.db = Release(@, Home)]
    ELSE [h EXCEPT !.inbox[Owner[k]] = Append(@, [kind |-> "unwatch", k |-> k])]

WatchesClearForgets(h) == [h EXCEPT !.st.watches = <<>>]

\* mt_watches_clear
WatchesClear(h) ==
  [FoldLeft(LAMBDA g, e : ReleaseOne(g, e.k), h, h.st.watches)
     EXCEPT !.st.watches = <<>>]

\* mt_reorder_insert: before the first entry with a seq not below t's
ReorderInsert(h, t) ==
  LET r == h.st.reorder
      below == Cardinality({i \in DOMAIN r : r[i].seq < t.seq})
  IN [h EXCEPT !.st.reorder = SubSeq(r, 1, below) \o <<t>>
                              \o SubSeq(r, below + 1, Len(r))]

\* one reply leaves the reorder buffer; a WATCH hands over its version, or
\* gives its reference back when the connection is closing
\* (mt_watch_apply, mt_watch_release_task_refs)
Deliver(h, t, append) ==
  LET w == [h EXCEPT !.st.seq_write = @ + t.span,
                     !.st.reorder = Tail(@),
                     !.out = IF append THEN @ \o t.ids ELSE @]
  IN IF t.kind # "watch" THEN w
     ELSE LET u == [w EXCEPT !.st.watch_pending = IF @ > 0 THEN @ - 1 ELSE @]
          IN IF append /\ ~h.st.closing
               THEN [u EXCEPT !.st.watches = Append(@, t.entry)]
               ELSE ReleaseOne(u, t.entry.k)

RECURSIVE DrainReady(_, _)

DrainReadyAny(h, append) ==
  IF h.st.reorder # <<>>
    THEN DrainReady(Deliver(h, Head(h.st.reorder), append), append)
    ELSE h

\* mt_drain_ready: every consecutive ready reply
DrainReady(h, append) ==
  IF h.st.reorder # <<>> /\ Head(h.st.reorder).seq = h.st.seq_write
    THEN DrainReady(Deliver(h, Head(h.st.reorder), append), append)
    ELSE h

Hold(h, t) == DrainReady(ReorderInsert(h, t), TRUE)

\* mt_reply_local
ReplyLocal(h, seq, ids) ==
  IF seq = h.st.seq_write
    THEN [h EXCEPT !.out = @ \o ids, !.st.seq_write = @ + 1]
    ELSE Hold(h, Task("local", seq, ids))

\* mt_batch_flush: the open batch leaves as one task
BatchFlush(h) ==
  IF h.st.batch = <<>> THEN h
  ELSE LET b == h.st.batch
           t == [kind |-> "cmd", seq |-> h.st.batch_seq, span |-> Len(b),
                 ids |-> [i \in DOMAIN b |-> b[i].id],
                 keys |-> [i \in DOMAIN b |-> b[i].k]]
       IN [PushOwned(h, h.st.batch_target, t)
             EXCEPT !.st.batch = <<>>, !.st.batch_target = -1]

-----------------------------------------------------------------------------
(* Transactions: mt_route_txn.  All requests here already own number seq.  *)

\* mt_txn_watch
TxnWatch(h, k, id, seq) ==
  IF h.st.in_multi THEN ReplyLocal(h, seq, <<id>>)
  ELSE IF Owner[k] = Home
    THEN ReplyLocal([Watched(h, k, id) EXCEPT
                       !.st.watches = Append(@, WatchEntry(h.db, k)),
                       !.db.refs[Home] = @ + 1], seq, <<id>>)
    ELSE PushOwned([h EXCEPT !.st.watch_pending = @ + 1], Owner[k],
                   Task("watch", seq, <<id>>) @@ [k |-> k])

\* the workers an EXEC would touch: its keys' owners and its watches' owners
ExecTargets(h) ==
  {Owner[h.st.mq[i].k] : i \in {j \in DOMAIN h.st.mq : h.st.mq[j].op = "set"}}
  \cup {Owner[h.st.watches[i].k] : i \in DOMAIN h.st.watches}

\* mt_txn_exec
TxnExec(h, id, seq) ==
  LET q == h.st.mq
      ended == [h EXCEPT !.st.in_multi = FALSE, !.st.mq = <<>>]
      bad == \/ \E i \in DOMAIN q : q[i].op \notin {"set", "local"}
             \/ Cardinality(ExecTargets(h)) > 1
      sets == SelectSeq(q, LAMBDA c : c.op = "set")
      t == Task("exec", seq, <<id>>)
             @@ [keys |-> [i \in DOMAIN sets |-> sets[i].k],
                 watches |-> h.st.watches]
      sent == [ended EXCEPT !.st.watches = <<>>]
  IN IF q = <<>> \/ bad THEN ReplyLocal(WatchesClear(ended), seq, <<id>>)
     ELSE IF ExecTargets(h) \subseteq {Home}
       THEN Hold(ExecOnDb(sent, Home, t), t)
       ELSE PushOwned(sent, CHOOSE w \in ExecTargets(h) : TRUE, t)

\* the switch of mt_route_txn; what is no transaction command is queued
RouteTxnNoDefer(h, c, id, seq) ==
  LET Reply(g) == ReplyLocal(g, seq, <<id>>)
      ended == [h EXCEPT !.st.in_multi = FALSE, !.st.mq = <<>>]
  IN CASE c.op = "watch" -> TxnWatch(h, c.k, id, seq)
       [] c.op = "multi" -> Reply([h EXCEPT !.st.in_multi = TRUE])
       [] c.op = "unwatch" -> Reply(WatchesClear(h))
       [] c.op \in {"exec", "discard"} /\ ~h.st.in_multi -> Reply(h)
       [] c.op = "discard" /\ h.st.in_multi -> Reply(WatchesClear(ended))
       [] c.op = "exec" /\ h.st.in_multi -> TxnExec(h, id, seq)
       [] OTHER -> Reply([h EXCEPT !.st.mq = Append(@, c)])

\* mt_route_txn: while a routed WATCH is out, everything is put off
RouteTxn(h, c, id, seq) ==
  IF h.st.watch_pending # 0
    THEN [h EXCEPT !.st.deferred = Append(@, [c |-> c, id |-> id, seq |-> seq])]
    ELSE RouteTxnNoDefer(h, c, id, seq)

-----------------------------------------------------------------------------
(* Publish/subscribe.  The home worker keeps the subscriptions of the      *)
(* connection and confirms them at once; the worker that owns the name     *)
(* keeps the registry PUBLISH looks at.                                    *)

\* mt_pubsub_register: a round trip that keeps the connection alive
Register(h, s) == PushOwned(h, Owner[s.k], [kind |-> "register", sub |-> s])

\* mt_pubsub_unregister: nobody waits for it
Unregister(h, s) ==
  [h EXCEPT !.inbox[Owner[s.k]] = Append(@, [kind |-> "unregister", sub |-> s])]
UnregisterAll(h, S) == FoldSet(LAMBDA s, g : Unregister(g, s), h, S)

\* mt_route_subscribe_kind
RouteSubscribe(h, s, id, seq) ==
  ReplyLocal(IF s \in h.st.subs THEN h
             ELSE Register([h EXCEPT !.st.subs = @ \cup {s}], s), seq, <<id>>)

RouteUnsubscribeKeepsEntry(h, S, id, seq) ==
  ReplyLocal([h EXCEPT !.st.subs = @ \ S], seq, <<id>>)

\* mt_route_unsubscribe_kind, of the subscriptions in S
RouteUnsubscribe(h, S, id, seq) ==
  ReplyLocal(UnregisterAll([h EXCEPT !.st.subs = @ \ S], S \cap h.st.subs), seq, <<id>>)

\* the entries a message on channel k reaches
Receives(s, k, kind) ==
  CASE s.kind = Pattern -> kind = Channel /\ k \in Glob[s.k]
    [] OTHER            -> s.kind = kind /\ s.k = k

\* mt_publish_execute on worker w: one delivery for every entry, unless the
\* connection is closing
PublishExecute(h, w, k, kind, n) ==
  LET for == SelectSeq(h.reg[w], LAMBDA s : Receives(s, k, kind))
      pushes == [i \in DOMAIN for |-> [kind |-> "push", sub |-> for[i], n |-> n]]
  IN IF h.st.closing THEN h
     ELSE [h EXCEPT !.comps[w] = @ \o pushes, !.st.pending = @ + Len(pushes)]

\* mt_route_publish; the messages of the connection are numbered by request
RoutePublish(h, c, id, seq) ==
  IF Owner[c.k] = Home
    THEN Hold(PublishExecute(h, Home, c.k, c.kind, id), Task("local", seq, <<id>>))
    ELSE PushOwned(h, Owner[c.k],
                   Task("publish", seq, <<id>>) @@ [k |-> c.k, of |-> c.kind])

IsPubSub(c) == c.op \in {"sub", "unsub", "unsuball", "publish"}

RoutePubSub(h, c, id, seq) ==
  CASE c.op = "sub"      -> RouteSubscribe(h, c.sub, id, seq)
    [] c.op = "unsub"    -> RouteUnsubscribe(h, {c.sub}, id, seq)
    [] c.op = "unsuball" -> RouteUnsubscribe(h, {s \in h.st.subs : s.kind = c.kind}, id, seq)
    [] c.op = "publish"  -> RoutePublish(h, c, id, seq)

-----------------------------------------------------------------------------
(* Routing.                                                                *)

\* mt_agg_finish: the merged reply enters the reorder buffer
AggFinish(h, id, seq) ==
  DrainReady(ReorderInsert(h, Task("local", seq, <<id>>)), ~h.st.closing)

\* mt_route_aggregate: the home part at once, a task for every other worker
RouteAggregate(h, id, seq) ==
  LET part == Task("part", seq, <<id>>)
      fanout == FoldSet(LAMBDA w, g : PushOwned(g, w, part),
                        [h EXCEPT !.db = Flush(@, Home),
                                  !.aggs[id] = NW - 1], Remote)
  IN IF NW = 1 THEN AggFinish(fanout, id, seq) ELSE fanout

\* the RESET prologue of mt_route
ResetState(h0) ==
  LET h == UnregisterAll([h0 EXCEPT !.st.subs = {}], h0.st.subs) IN
  WatchesClear([h EXCEPT !.st.in_multi = FALSE, !.st.mq = <<>>,
                         !.st.deferred = <<>>, !.st.watch_pending = 0,
                         !.st.replaying = FALSE])

InTxn(h, c) ==
  \/ c.op \in {"multi", "exec", "discard", "watch", "unwatch"}
  \/ h.st.in_multi
  \/ h.st.watch_pending # 0
  \/ h.st.deferred # <<>> /\ ~h.st.replaying

\* a command of another worker joins the open batch for that worker
RouteRemote(h, c, id, seq) ==
  LET t == Owner[c.k]
      g == IF h.st.batch_target \notin {-1, t} THEN BatchFlush(h) ELSE h
      opened == IF g.st.batch_target = -1
                  THEN [g EXCEPT !.st.batch_target = t, !.st.batch_seq = seq]
                  ELSE g
  IN [opened EXCEPT !.st.batch = Append(@, [id |-> id, k |-> c.k])]

\* session_execute on the home worker.  The session mt_replay_deferred
\* makes up has no database, and session_execute_at then does nothing.
ExecuteLocal(h, c, id, seq) ==
  IF h.st.replaying THEN ReplyLocal(h, seq, <<>>)
  ELSE ReplyLocal(CASE c.op = "set" -> Write(h, c.k, id)
                    [] c.op = "quit" -> [h EXCEPT !.st.quit = TRUE]
                    [] OTHER -> h, seq, <<id>>)

RouteLocalNoFlush(h, c, id, seq) == ExecuteLocal(h, c, id, seq)

\* the open batch leaves first: its numbers precede this command's
RouteLocal(h, c, id, seq) == ExecuteLocal(BatchFlush(h), c, id, seq)

EnterTxnNoFlush(h, c, id, seq) == RouteTxn(h, c, id, seq)
EnterTxn(h, c, id, seq) == RouteTxn(BatchFlush(h), c, id, seq)

\* mt_route.  A "pass" request that is not part of a transaction is left to
\* the caller (result 0): no number, no flush.
Route(h0, c, id) ==
  LET h == IF c.op = "reset" THEN ResetState(BatchFlush(h0)) ELSE h0
      seq == h.st.seq_next
      numbered == [h EXCEPT !.st.seq_next = @ + 1]
  IN CASE c.op = "deny" -> ReplyLocal(BatchFlush(numbered), seq, <<id>>)
       [] c.op # "deny" /\ InTxn(h, c) -> EnterTxn(numbered, c, id, seq)
       [] c.op = "pass" /\ ~InTxn(h, c) -> h
       [] c.op = "solo" /\ ~InTxn(h, c) ->
            PushOwned(BatchFlush(numbered), c.w,
                      Task("cmd", seq, <<id>>) @@ [keys |-> <<>>])
       [] IsPubSub(c) /\ ~InTxn(h, c) ->
            RoutePubSub(BatchFlush(numbered), c, id, seq)
       [] c.op = "agg" /\ ~InTxn(h, c) ->
            RouteAggregate(BatchFlush(numbered), id, seq)
       [] c.op = "set" /\ ~InTxn(h, c) /\ Owner[c.k] # Home ->
            RouteRemote(numbered, c, id, seq)
       [] OTHER -> RouteLocal(numbered, c, id, seq)

\* conn_process_input executes what the router passes on, straight into out
RouteOrExecute(h, c, id) ==
  IF c.op = "pass" /\ ~InTxn(h, c)
    THEN [h EXCEPT !.out = Append(@, id)]
    ELSE Route(h, c, id)

RECURSIVE ReplayDeferred(_)

\* mt_replay_deferred: each command is routed again under its old number
ReplayDeferred(h) ==
  IF h.st.watch_pending # 0 \/ h.st.deferred = <<>> \/ h.st.closing THEN h
  ELSE LET d == Head(h.st.deferred)
           g == [h EXCEPT !.st.deferred = Tail(@), !.st.replaying = TRUE,
                          !.st.seq_next = d.seq]
           r == BatchFlush(Route(g, d.c, d.id))
       IN ReplayDeferred([r EXCEPT !.st.replaying = FALSE,
                                   !.st.seq_next = h.st.seq_next])

-----------------------------------------------------------------------------
(* Lifetime.                                                               *)

\* mt_state_free_cb
FreeState(h) ==
  LET watching == SelectSeq(h.st.reorder, LAMBDA t : t.kind = "watch")
      g == FoldLeft(LAMBDA x, t : ReleaseOne(x, t.entry.k), h, watching)
  IN [WatchesClear(g) EXCEPT !.st.reorder = <<>>, !.st.batch = <<>>,
                             !.st.mq = <<>>, !.st.deferred = <<>>,
                             !.st.subs = {}, !.st.freed = TRUE]

PendingDecNoZombie(h) ==
  LET g == [h EXCEPT !.st.pending = @ - 1]
  IN IF g.st.closing THEN FreeState(g) ELSE g

\* mt_pending_dec: a closing connection goes with its last task
PendingDec(h) ==
  LET g == [h EXCEPT !.st.pending = IF @ > 0 THEN @ - 1 ELSE @]
  IN IF g.st.closing /\ g.st.pending = 0 THEN FreeState(g) ELSE g
-----------------------------------------------------------------------------
(* Steps.  The home worker parses a run of requests, flushes, and drains   *)
(* its queues only between two such passes.                                *)

Parse(c) ==
  /\ ~st.closing /\ ~st.quit
  /\ nreq < Mixes[mix].max
  /\ nreq' = nreq + 1
  /\ inpass' = TRUE
  /\ Becomes(RouteOrExecute([Now EXCEPT !.gh = ClientView(@, c, nreq + 1)],
                            c, nreq + 1))
  /\ UNCHANGED nwrites

EndPassKeepsBatch ==
  /\ inpass
  /\ inpass' = FALSE
  /\ UNCHANGED <<st, out, inbox, aggs, db, gh, lastid, comps, nreq, nwrites, reg, got>>

\* the end of conn_process_input: mt_route_flush_cb
EndPass ==
  /\ inpass
  /\ inpass' = FALSE
  /\ Becomes(BatchFlush(Now))
  /\ UNCHANGED <<nreq, nwrites>>

\* mt_conn_close: at once, or as a zombie while tasks are in flight.  The tasks
\* that unregister its subscriptions do not say which kind they are.
CloseConn(h0) ==
  LET h == UnregisterAll([h0 EXCEPT !.st.closing = TRUE],
                         {[s EXCEPT !.kind = Channel] : s \in h0.st.subs})
  IN IF h.st.pending > 0 THEN h ELSE FreeState(h)

\* the client goes away, or sends what does not parse
Close ==
  /\ ~st.closing
  /\ inpass' = FALSE
  /\ Becomes(CloseConn(Now))
  /\ UNCHANGED <<nreq, nwrites>>

\* server_run_once closes a connection that has quit once out is sent
CloseAfterSend ==
  /\ st.quit /\ ~st.closing /\ ~inpass
  /\ Becomes(CloseConn([Now EXCEPT !.gh.cut = Len(out) < nreq]))
  /\ UNCHANGED <<nreq, nwrites, inpass>>

\* mt_exec_task: a closing connection is not registered any more, and the task
\* ends here
ExecRegister(h, w, s) ==
  IF h.st.closing THEN PendingDec(h) ELSE [h EXCEPT !.reg[w] = <<s>> \o @]

ExecUnregisterNoKind(h, w, s) ==
  [h EXCEPT !.reg[w] = LET i == SelectInSeq(@, LAMBDA e : e.k = s.k)
                       IN IF i = 0 THEN @ ELSE RemoveAt(@, i)]

ExecUnregister(h, w, s) ==
  [h EXCEPT !.reg[w] = LET i == SelectInSeq(@, LAMBDA e : e = s)
                       IN IF i = 0 THEN @ ELSE RemoveAt(@, i)]

\* mt_exec_task: what executing t does on worker w
Execute(h, w, t) ==
  CASE t.kind = "cmd" ->
         FoldLeft(LAMBDA g, i : Write(g, t.keys[i], t.ids[i]), h,
                  [i \in DOMAIN t.keys |-> i])
    [] t.kind = "watch" -> [Watched(h, t.k, t.ids[1]) EXCEPT !.db.refs[w] = @ + 1]
    [] t.kind = "exec" -> ExecOnDb(h, w, t)
    [] t.kind = "unwatch" -> [h EXCEPT !.db = Release(@, w)]
    [] t.kind = "part" -> [h EXCEPT !.db = Flush(@, w)]
    [] t.kind = "publish" -> PublishExecute(h, w, t.k, t.of, t.ids[1])
    [] t.kind = "register" -> ExecRegister(h, w, t.sub)
    [] t.kind = "unregister" -> ExecUnregister(h, w, t.sub)

\* the versions a WATCH reads ride back with its completion
Answer(t) ==
  IF t.kind = "watch"
    THEN Task("watch", t.seq, t.ids) @@ [entry |-> WatchEntry(db, t.k)]
    ELSE t

\* tasks that have no completion
Unanswered(t) ==
  \/ t.kind \in {"unwatch", "unregister"}
  \/ t.kind = "register" /\ st.closing

ExecTask(w) ==
  /\ inbox[w] # <<>>
  /\ w = Home => ~inpass
  /\ LET t == Head(inbox[w])
         h == Execute([Now EXCEPT !.inbox[w] = Tail(@)], w, t)
     IN Becomes(IF Unanswered(t) THEN h
                ELSE [h EXCEPT !.comps[w] = Append(@, Answer(t))])
  /\ UNCHANGED <<nreq, nwrites, inpass>>

\* a broadcast part is merged; the last one finishes the broadcast
MergePart(h, t) ==
  LET g == [h EXCEPT !.aggs[t.ids[1]] = @ - 1]
  IN IF g.aggs[t.ids[1]] = 0 THEN AggFinish(g, t.ids[1], t.seq) ELSE g

\* any other completion
Complete(h, t) ==
  LET g == DrainReady(ReorderInsert(h, t), ~h.st.closing)
  IN IF h.st.closing THEN g ELSE ReplayDeferred(g)

\* a message is dropped when its subscription has ended meanwhile
DeliverPush(h, t) ==
  IF h.st.closing \/ t.sub \notin h.st.subs THEN h
  ELSE [h EXCEPT !.got = Append(@, [sub |-> t.sub, n |-> t.n])]

\* mt_drain_completions, one completion
DrainCompletion(w) ==
  /\ ~inpass
  /\ comps[w] # <<>>
  /\ LET t == Head(comps[w])
         h == [Now EXCEPT !.comps[w] = Tail(@)]
     IN Becomes(PendingDec(CASE t.kind = "part"     -> MergePart(h, t)
                             [] t.kind = "push"     -> DeliverPush(h, t)
                             [] t.kind = "register" -> h
                             [] OTHER               -> Complete(h, t)))
  /\ UNCHANGED <<nreq, nwrites, inpass>>

\* another client's write, executed by the owner of k
OtherWrite(k) ==
  /\ nwrites < MaxWrites
  /\ Owner[k] = Home => ~inpass
  /\ nwrites' = nwrites + 1
  /\ db' = Touch(db, k)
  /\ UNCHANGED <<st, out, inbox, comps, aggs, nreq, inpass, gh, lastid, reg, got>>

\* another client's message, executed by the owner of channel k; the messages
\* of other clients are numbered 0, -1, -2 ...
OtherPublish(k) ==
  /\ nwrites < MaxWrites
  /\ Owner[k] = Home => ~inpass
  /\ nwrites' = nwrites + 1
  /\ Becomes(PublishExecute(Now, Owner[k], k, Channel, -nwrites))
  /\ UNCHANGED <<nreq, inpass>>

Next ==
  /\ \/ \E c \in Mixes[mix].cmds : Parse(c)
     \/ EndPass
     \/ Close
     \/ CloseAfterSend
     \/ \E w \in Workers : ExecTask(w) \/ DrainCompletion(w)
     \/ \E k \in Mixes[mix].writes : OtherWrite(k)
     \/ \E k \in Mixes[mix].publishes : OtherPublish(k)
  /\ UNCHANGED mix

\* Every worker keeps running its event loop: a pass over the input ends, and
\* a queue that never empties is served again and again (only ExecTask and
\* DrainCompletion shorten one).  The client owes nothing.
InboxServed(w) ==
  []<>(inbox[w] = <<>>)
    \/ []<><<inbox[w] # <<>> /\ inbox'[w] = Tail(inbox[w])>>_vars
CompsServed(w) ==
  []<>(comps[w] = <<>>)
    \/ []<><<comps[w] # <<>> /\ comps'[w] = Tail(comps[w])>>_vars
Fairness ==
  /\ []<>~inpass
  /\ \A w \in Workers : InboxServed(w) /\ CompsServed(w)

Spec == Init /\ [][Next]_vars
FairSpec == Spec /\ Fairness

-----------------------------------------------------------------------------
(* Properties.                                                             *)

\* The replies leave in the order of the requests, each request answered at
\* most once, however the workers interleave.
RepliesInOrder == \A i \in DOMAIN out : out[i] = i

\* The tasks of this connection that some ring still holds.
Owned(q) == Cardinality({i \in DOMAIN q : q[i].kind \notin {"unwatch", "unregister"}})
OwnedTasks ==
  MapThenSumSet(LAMBDA w : Owned(inbox[w]) + Len(comps[w]), Workers)

\* st->pending counts exactly the tasks in flight that point at the
\* connection, so mt_pending_dec frees it with the last one: never earlier
\* (a completion would meet freed memory), never not at all.
PendingExact ==
  /\ st.pending = OwnedTasks
  /\ st.freed <=> (st.closing /\ OwnedTasks = 0)

\* references the connection still holds on worker w's watch_refs
RefsHeld(w) ==
  LET own(q) == Cardinality({i \in DOMAIN q : Owner[q[i].k] = w})
      tasks(q, kind) == Cardinality({i \in DOMAIN q : q[i].kind = kind})
  IN own(st.watches)
     + tasks(comps[w], "watch")
     + Cardinality({i \in DOMAIN st.reorder :
                      st.reorder[i].kind = "watch"
                        /\ Owner[st.reorder[i].entry.k] = w})
     + tasks(inbox[w], "unwatch")
     + FoldLeft(LAMBDA n, t : IF t.kind = "exec" THEN n + Len(t.watches) ELSE n,
                0, inbox[w])

\* Every reference a WATCH takes on its owner's watch_refs is given back
\* exactly once, by EXEC, UNWATCH, DISCARD, RESET or the end of the
\* connection.  One too few stops version bumps under other watchers; one
\* too many never lets them stop.
WatchRefsExact == \A w \in Workers : db.refs[w] = RefsHeld(w)

\* An EXEC never takes effect when a key of a WATCH the client sent before
\* it, and did not take back, was written or flushed after that WATCH was
\* executed, or when such a WATCH was not executed yet.
NoStaleCommit == ~gh.stale

\* Requests of one connection that write the same key take effect in the
\* order in which they were sent.
ProgramOrderPerKey == [][\A k \in Keys : lastid'[k] >= lastid[k]]_vars

\* What the registry of worker w will hold of this connection once the tasks in
\* its ring are executed.
RegistryAfter(w) ==
  FoldLeft(LAMBDA r, t : CASE t.kind = "register"   -> <<t.sub>> \o r
                           [] t.kind = "unregister" -> SelectSeq(r, LAMBDA s : s # t.sub)
                           [] OTHER                 -> r,
           reg[w], inbox[w])

\* The registries follow the subscriptions of an open connection: with the tasks
\* under way every subscription has one entry, at the owner of its name, and
\* there is no other.  Once the rings are empty a PUBLISH at the owner finds
\* exactly the subscriptions that were confirmed to the client.
RegistryFollows ==
  ~st.closing =>
    \A w \in Workers :
      LET r == RegistryAfter(w) IN
      /\ IsInjective(r)
      /\ Range(r) = {s \in st.subs : Owner[s.k] = w}

\* A subscription gets every message at most once, and those of one client in
\* the order in which it sent them.
MessagesInOrder ==
  \A i, j \in DOMAIN got :
    i < j /\ got[i].sub = got[j].sub =>
      /\ got[i].n # got[j].n
      /\ got[i].n > 0 /\ got[j].n > 0 => got[i].n < got[j].n
      /\ got[i].n <= 0 /\ got[j].n <= 0 => got[i].n > got[j].n

\* A connection that is gone has no entry left in any registry.
CloseUnregisters ==
  st.freed /\ (\A w \in Workers : inbox[w] = <<>>) => \A w \in Workers : reg[w] = <<>>

\* A connection that ends with QUIT is closed only when all its requests,
\* the QUIT included, have been answered.
QuitAnswersFirst == ~gh.cut

\* Every request of a connection that stays open is answered: a client sends
\* only so many, and the answers catch up with them.
EveryRequestAnswered == []<>(Len(out) >= nreq \/ st.closing)
=============================================================================
