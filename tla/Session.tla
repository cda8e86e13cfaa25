------------------------------ MODULE Session -------------------------------
(***************************************************************************)
(* Sessions of the single-threaded server: MULTI, the queue, EXEC, and     *)
(* optimistic locking with WATCH (src/core/session.c, session_execute_at   *)
(* and exec_transaction of src/core/command.c).  Every database has one    *)
(* key.  Versions are kept only while some session watches (watch_refs);   *)
(* SWAPDB exchanges whole db structures.                                   *)
(***************************************************************************)
EXTENDS Integers, Sequences, FiniteSets

CONSTANTS
  Sessions,
  NDB,
  Cmds,          \* commands sent: "set", "flushdb", "swapdb", ...
  MaxWatch,      \* bound: watch entries of a session
  MaxQueue,      \* bound: queued commands
  MaxChanges     \* bound: changes of the keyspace

Commands == {"set", "flushdb", "flushall", "swapdb", "select", "unwatch"}

ASSUME SessionAssumption == NDB \in Nat \ {0} /\ Cmds \subseteq Commands

DB == 0..NDB-1

VARIABLES
  db,            \* the db structures, by index
  ses,           \* the sessions
  changes        \* counts changes of the keyspace: bound and ghost clock

vars == <<db, ses, changes>>

\* changed (ghost): when the key of this index last changed
NewDb == [refs |-> 0, ver |-> 0, epoch |-> 0, changed |-> 0]
NewSession == [cur |-> 0, multi |-> FALSE, error |-> FALSE, queue |-> <<>>, watches |-> <<>>]

Init ==
  /\ db = [d \in DB |-> NewDb]
  /\ ses = [s \in Sessions |-> NewSession]
  /\ changes = 0

-----------------------------------------------------------------------------
(* A state e = [db, me, t] of the databases and the executing session.     *)

\* db_touch_key
Touch(x, t) ==
  [x EXCEPT !.ver = IF x.refs = 0 THEN @ ELSE @ + 1, !.changed = t + 1]

\* flush_db_contents: versions start again, the epoch moves on
Flushed(x, t) == [x EXCEPT !.ver = 0, !.epoch = @ + 1, !.changed = t + 1]

\* swap_db_data: a loaded snapshot replaces the contents
Loaded(x, t) == [x EXCEPT !.epoch = @ + 1, !.changed = t + 1]

Swapped(x, t) == [x EXCEPT !.epoch = @ + 1, !.changed = t + 1]

Unreferenced(x, n) == [x EXCEPT !.refs = IF @ > n THEN @ - n ELSE 0]

\* Bug: all entries are released in the selected database.
WatchClearSelected(e) ==
  [e EXCEPT !.db[e.me.cur] = Unreferenced(@, Len(e.me.watches)), !.me.watches = <<>>]

\* session_watch_clear: each entry's database, by index, loses a reference
Entries(ws, d) == {i \in DOMAIN ws : ws[i].db = d}

WatchClear(e) ==
  [e EXCEPT !.db = [d \in DB |-> Unreferenced(e.db[d], Cardinality(Entries(e.me.watches, d)))],
            !.me.watches = <<>>]

\* session_watch_add
WatchAdd(e) ==
  LET d == e.me.cur
      w == [db |-> d, ver |-> e.db[d].ver, epoch |-> e.db[d].epoch, at |-> e.t]
  IN [e EXCEPT !.me.watches = Append(@, w), !.db[d].refs = @ + 1]

\* command_dispatch
Dispatch(e, cmd) ==
  LET d == e.me.cur
  IN CASE cmd = "set" -> [e EXCEPT !.db[d] = Touch(@, e.t), !.t = @ + 1]
       [] cmd = "flushdb" -> [e EXCEPT !.db[d] = Flushed(@, e.t), !.t = @ + 1]
       [] cmd = "flushall" ->
            [e EXCEPT !.db = [i \in DB |-> Flushed(e.db[i], e.t)], !.t = @ + 1]
       [] cmd = "swapdb" ->
            [e EXCEPT !.db = [@ EXCEPT ![0] = Swapped(e.db[1], e.t),
                                       ![1] = Swapped(e.db[0], e.t)],
                      !.t = @ + 1]
       [] cmd = "select" -> [e EXCEPT !.me.cur = (d + 1) % NDB]
       [] cmd = "unwatch" -> WatchClear(e)

\* session_queue_clear, session_watch_clear and the flags, as EXEC, DISCARD
\* and RESET end a transaction
Ended(e) ==
  LET c == WatchClear(e)
  IN [c EXCEPT !.me.queue = <<>>, !.me.multi = FALSE, !.me.error = FALSE]

-----------------------------------------------------------------------------
(* session_execute_at_raw.                                                 *)

State(s) == [db |-> db, me |-> ses[s], t |-> changes]

Becomes(s, e) ==
  /\ e.t <= MaxChanges
  /\ db' = e.db
  /\ ses' = [ses EXCEPT ![s] = e.me]
  /\ changes' = e.t

Multi(s) ==
  /\ ~ses[s].multi
  /\ Becomes(s, [State(s) EXCEPT !.me.multi = TRUE, !.me.error = FALSE])

Watch(s) ==
  /\ ~ses[s].multi
  /\ Len(ses[s].watches) < MaxWatch
  /\ Becomes(s, WatchAdd(State(s)))

Run(s) ==
  /\ ~ses[s].multi
  /\ \E cmd \in Cmds : Becomes(s, Dispatch(State(s), cmd))

\* queue_validate accepts and session_queue_push copies the command
Queue(s) ==
  /\ ses[s].multi
  /\ Len(ses[s].queue) < MaxQueue
  /\ \E cmd \in Cmds : Becomes(s, [State(s) EXCEPT !.me.queue = Append(@, cmd)])

\* queue_validate rejects: unknown command or wrong arity
QueueRejects(s) ==
  /\ ses[s].multi
  /\ Becomes(s, [State(s) EXCEPT !.me.error = TRUE])

\* the entry is as WATCH saw it: what EXEC tests
Clean(w) == w.epoch = db[w.db].epoch /\ w.ver = db[w.db].ver
WatchesClean(s) == \A i \in 1..Len(ses[s].watches) : Clean(ses[s].watches[i])

\* exec_transaction: the queue is executed if the watches allow it
Executed(e, queue) ==
  LET after[i \in 0..Len(queue)] == IF i = 0 THEN e ELSE Dispatch(after[i - 1], queue[i])
  IN after[Len(queue)]

Commits(s) == ~ses[s].error /\ WatchesClean(s)

Exec(s) ==
  /\ ses[s].multi
  /\ LET e == State(s)
     IN Becomes(s, Ended(IF Commits(s) THEN Executed(e, e.me.queue) ELSE e))

Discard(s) == ses[s].multi /\ Becomes(s, Ended(State(s)))

Reset(s) == Becomes(s, [Ended(State(s)) EXCEPT !.me.cur = 0])

\* session_release; the slot is a new session afterwards
Disconnect(s) == Becomes(s, [WatchClear(State(s)) EXCEPT !.me = NewSession])

\* a replica loads its master's snapshot
LoadSnapshot ==
  /\ changes < MaxChanges
  /\ db' = [d \in DB |-> Loaded(db[d], changes)]
  /\ changes' = changes + 1
  /\ UNCHANGED ses

Next ==
  \/ \E s \in Sessions :
       \/ Multi(s) \/ Watch(s) \/ Run(s) \/ Queue(s) \/ QueueRejects(s)
       \/ Exec(s) \/ Discard(s) \/ Reset(s) \/ Disconnect(s)
  \/ LoadSnapshot

Spec == Init /\ [][Next]_vars

-----------------------------------------------------------------------------
(* Properties.                                                             *)

TypeOK ==
  /\ db \in [DB -> [refs : Nat, ver : Nat, epoch : Nat, changed : 0..MaxChanges]]
  /\ \A s \in Sessions :
       /\ ses[s].cur \in DB
       /\ Len(ses[s].watches) <= MaxWatch
       /\ ses[s].queue # <<>> => ses[s].multi
  /\ changes <= MaxChanges

\* EXEC changes the keyspace only if no queued command was rejected and no
\* key watched by the session has changed since it was watched, in whatever way
\* and by whichever session: the versions it compares are kept (db_touch_key)
\* for as long as a watch on the database needs them.  (Among sessions that run
\* no SWAPDB, which moves the counters between the indices.)
ExecIsOptimistic ==
  [][\A s \in Sessions :
       /\ ses[s].multi /\ ~ses'[s].multi
       /\ changes' # changes
       => /\ ~ses[s].error
          /\ \A i \in 1..Len(ses[s].watches) :
               db[ses[s].watches[i].db].changed <= ses[s].watches[i].at]_vars

-----------------------------------------------------------------------------
(* The inductive invariant behind ExecIsOptimistic, of databases dbs,      *)
(* sessions f and the clock t: EXEC has such states between its commands.  *)

Databases == [refs : Nat, ver : Nat, epoch : Nat, changed : Nat]
Watches   == [db : DB, ver : Nat, epoch : Nat, at : Nat]
SessionStates == [cur : DB, multi : BOOLEAN, error : BOOLEAN, queue : Seq(Cmds), watches : Seq(Watches)]

\* the watch entries on database d, of all sessions
Held(f, d) == UNION {{s} \X Entries(f[s].watches, d) : s \in Sessions}

\* An entry w on database x is behind or even with its counters, and even
\* only if nothing has changed since.
Kept(w, x) ==
  /\ w.epoch <= x.epoch
  /\ w.epoch = x.epoch => w.ver <= x.ver
  /\ w.epoch = x.epoch /\ w.ver = x.ver => x.changed <= w.at

WatchesKept(dbs, f, t) ==
  /\ dbs \in [DB -> Databases] /\ f \in [Sessions -> SessionStates] /\ t \in Nat
  /\ \A d \in DB : /\ IsFiniteSet(Held(f, d)) /\ dbs[d].refs = Cardinality(Held(f, d))
                   /\ dbs[d].changed <= t
  /\ \A s \in Sessions : \A i \in DOMAIN f[s].watches :
       Kept(f[s].watches[i], dbs[f[s].watches[i].db])

SessionInv == WatchesKept(db, ses, changes)
=============================================================================
