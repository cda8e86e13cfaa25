-------------------------------- MODULE Aof ---------------------------------
(***************************************************************************)
(* The append-only file of the single-threaded server: which commands are  *)
(* logged (src/core/command.c, src/core/script.c: the dirty counters),     *)
(* how they are buffered, written, synced and replayed (src/server/aof.c,  *)
(* src/server/server.c), and BACKUP on top of it.  The keyspace has one    *)
(* key per logical database: a string 1 or 2, a list, or nothing.  Random  *)
(* commands, expiry and eviction are left out.                             *)
(***************************************************************************)
EXTENDS Integers, Sequences, FiniteSets, SequencesExt

CONSTANTS
  Clients,
  NDB,           \* number of logical databases
  Fsync,         \* appendfsync: "always", "everysec" or "no"
  MaxLog,        \* bound: records in file and buffer
  Loads          \* what is done to the server: a sequence of records with the
                 \* clients, their commands (cmds) and MULTI ... EXEC queues
                 \* (txns), and the bounds on crashes, torn records, failing
                 \* flushes and backups (max)

ASSUME FsyncAssumption == Fsync \in {"always", "everysec", "no"}

VARIABLES
  load,          \* the member of Loads, chosen once
  kv, dirty,     \* contents and dirty counter of each database
  cur,           \* cur[c]: database selected by client c
  file,          \* records in the file; a torn record is cut short
  synced,        \* length of the durable part of the file
  pending, aofdb,   \* aof.pending, aof_db_index
  failed,        \* aof_failed
  up,            \* FALSE: the server has refused to start
  acked,         \* log length when replies were last sent
  backup,
  count,         \* counters behind the bounds
  astray         \* ghost: the log has left the keyspace in one of the known
                 \* ways, named with the properties

vars == <<load, kv, dirty, cur, file, synced, pending, aofdb, failed, up, acked, backup, count, astray>>

DB == 0..NDB-1
Nothing == 0
List == 3
Log == file \o pending

NoBackup == [st |-> "idle", off |-> 0, snap |-> <<>>, delta |-> <<>>, at |-> <<>>]

Init ==
  /\ load \in 1..Len(Loads)
  /\ kv = [d \in DB |-> Nothing]
  /\ dirty = [d \in DB |-> 0]
  /\ cur = [c \in Clients |-> 0]
  /\ file = <<>> /\ synced = 0
  /\ pending = <<>> /\ aofdb = 0
  /\ failed = FALSE /\ up = TRUE
  /\ acked = 0
  /\ backup = NoBackup
  /\ count = Loads[load].max
  /\ astray = FALSE

-----------------------------------------------------------------------------
(* Commands.  An execution e carries the keyspace, the session's database  *)
(* and the log buffer.                                                     *)

Put(e, d, v) == [e EXCEPT !.kv[d] = v, !.dirty[d] = @ + 1]
Failed(e) == [e EXCEPT !.err = TRUE]

Select(e, d) == [e EXCEPT !.cur = d]

\* the whole db structures are exchanged, dirty counters included; then the
\* session's database counts a change
SwapDb(e) ==
  [e EXCEPT !.kv = [@ EXCEPT ![0] = e.kv[1], ![1] = e.kv[0]],
            !.dirty = [[@ EXCEPT ![0] = e.dirty[1], ![1] = e.dirty[0]]
                         EXCEPT ![e.cur] = @ + 1]]

MoveKey(e, to) ==
  LET d == e.cur
  IN IF to = d THEN Failed(e)
     ELSE IF e.kv[d] = Nothing \/ e.kv[to] # Nothing THEN e
     ELSE Put(Put(e, to, e.kv[d]), d, Nothing)

\* COPY key key DB to, without REPLACE
CopyKey(e, to) ==
  IF e.kv[e.cur] = Nothing \/ e.kv[to] # Nothing THEN Failed(e)
  ELSE [Put(e, to, e.kv[e.cur]) EXCEPT !.dirty[e.cur] = @ + 1]

\* command_dispatch
Effect(e, cmd) ==
  LET d == e.cur
  IN CASE cmd.c = "set" -> IF e.kv[d] = List THEN Failed(e) ELSE Put(e, d, cmd.v)
       [] cmd.c = "del" -> IF e.kv[d] = Nothing THEN e ELSE Put(e, d, Nothing)
       [] cmd.c = "push" -> IF e.kv[d] \in {Nothing, List} THEN Put(e, d, List) ELSE Failed(e)
       [] cmd.c = "select" -> Select(e, cmd.d)
       [] cmd.c = "copy" -> CopyKey(e, cmd.d)
       [] cmd.c = "move" -> MoveKey(e, cmd.d)
       [] cmd.c = "swapdb" -> SwapDb(e)

LogCmdNoSelect(e, cmd) == [e EXCEPT !.pending = Append(@, cmd)]

\* srv_aof_log and aof_log_cmd
LogCmd(e, cmd) ==
  IF e.cur = e.aofdb THEN [e EXCEPT !.pending = Append(@, cmd)]
  ELSE [e EXCEPT !.pending = @ \o <<[c |-> "select", d |-> e.cur], cmd>>,
                 !.aofdb = e.cur]

\* the test before every call of aof_log: is the dirty counter of the
\* session's database, the new one after a SELECT, different from before?
Mutated(before, after) == after.dirty[after.cur] # before.dirty[before.cur]

\* redis.call and redis.pcall of a script log their own effect; the script
\* goes on after a failed pcall
ScriptStep(e, cmd) ==
  LET r == Effect(e, cmd) IN IF Mutated(e, r) THEN LogCmd(r, cmd) ELSE r

Dispatch(e, cmd) ==
  IF cmd.c = "eval" THEN FoldLeft(ScriptStep, e, cmd.body) ELSE Effect(e, cmd)

\* session_execute_at_raw for one command
Command(e, cmd) ==
  LET r == Dispatch(e, cmd)
  IN IF cmd.c # "eval" /\ Mutated(e, r) THEN LogCmd(r, cmd) ELSE r

TransactionNoLog(e, queue) == FoldLeft(Dispatch, e, queue)

\* exec_transaction: the whole queue is logged after it has run
Transaction(e, queue) ==
  LET r == FoldLeft(Dispatch, e, queue)
      logged == SelectSeq(queue, LAMBDA cmd : cmd.c # "eval")
  IN IF Mutated(e, r) THEN FoldLeft(LogCmd, r, logged) ELSE r

Execution(c) == [kv |-> kv, dirty |-> dirty, cur |-> cur[c], err |-> FALSE,
                 pending |-> pending, aofdb |-> aofdb]

\* the server after client c's execution e
Becomes(c, e) ==
  /\ Len(file) + Len(e.pending) <= MaxLog
  /\ kv' = e.kv /\ dirty' = e.dirty
  /\ cur' = [cur EXCEPT ![c] = e.cur]
  /\ pending' = e.pending /\ aofdb' = e.aofdb
  /\ UNCHANGED <<file, synced, failed, up, acked, backup, count>>

\* Known: SWAPDB is not logged when the counters that are compared agree.
UnloggedSwap(e, cmd) == cmd.c = "swapdb" /\ ~Mutated(e, Dispatch(e, cmd))

\* Known: EXEC logs its queue under the last database and after the effects
\* of its scripts, commands that failed included.
MisloggedExec(e, queue) ==
  LET kinds == {queue[i].c : i \in DOMAIN queue}
  IN \/ "select" \in kinds
     \/ "eval" \in kinds /\ kinds # {"eval"}
     \/ "eval" \notin kinds /\ FoldLeft(Dispatch, e, queue).err

\* conn_process_input; after a failure srv_aof_reject refuses writes
ClientCommand(c) ==
  /\ up /\ ~failed
  /\ c \in Loads[load].clients
  /\ \E cmd \in Loads[load].cmds :
       /\ Becomes(c, Command(Execution(c), cmd))
       /\ astray' = (astray \/ UnloggedSwap(Execution(c), cmd))

ClientExec(c) ==
  /\ up /\ ~failed
  /\ c \in Loads[load].clients
  /\ \E q \in Loads[load].txns :
       /\ Becomes(c, Transaction(Execution(c), q))
       /\ astray' = (astray \/ MisloggedExec(Execution(c), q))

-----------------------------------------------------------------------------
(* Writing and syncing.                                                    *)

\* conn_flush: the replies leave, in the same loop iteration but before the
\* log is written
SendReplies ==
  /\ up /\ ~failed
  /\ acked' = Len(Log)
  /\ UNCHANGED <<kv, dirty, cur, file, synced, pending, aofdb, failed, up, backup, count, astray>>

\* lengths of the durable part after the policy's sync of n records
SyncedAfter(n) ==
  CASE Fsync = "always" -> {n}
    [] Fsync = "everysec" -> {synced, n}
    [] Fsync = "no" -> {synced}

\* srv_aof_flush
Flush ==
  /\ up /\ ~failed
  /\ pending # <<>>
  /\ file' = Log
  /\ synced' \in SyncedAfter(Len(Log))
  /\ pending' = <<>>
  /\ UNCHANGED <<kv, dirty, cur, aofdb, failed, up, acked, backup, count, astray>>

Torn == [c |-> "torn"]

\* the first n records of the log, and part of the next one when cut
Kept(n, cut) == SubSeq(Log, 1, n) \o (IF cut THEN <<Torn>> ELSE <<>>)

\* aof_flush fails, in the loop or in BACKUP START or SEAL: part of the
\* buffer has been written, or only the sync has failed; the latch stops the
\* server
FlushFails ==
  /\ up /\ ~failed
  /\ pending # <<>>
  /\ count.fail > 0
  /\ \E n \in Len(file)..Len(Log), cut \in BOOLEAN :
       /\ cut => n < Len(Log) /\ count.torn > 0
       /\ file' = Kept(n, cut)
       /\ pending' = SubSeq(Log, n + 1, Len(Log))
       /\ count' = [count EXCEPT !.fail = @ - 1, !.torn = IF cut THEN @ - 1 ELSE @]
  /\ failed' = TRUE
  /\ \/ backup' = backup
     \/ backup.st # "sealed" /\ backup' = [NoBackup EXCEPT !.st = "failed"]
  /\ UNCHANGED <<kv, dirty, cur, synced, aofdb, up, acked, astray>>

-----------------------------------------------------------------------------
(* Restart.                                                                *)

\* aof_replay_impl.  A torn record at the end is tolerated; anywhere else
\* the parser fails, or takes the bytes that follow for part of it and finds
\* an incomplete command.
ReplayStep(e, rec) ==
  IF e.err \/ e.cut THEN e
  ELSE IF rec = Torn THEN [e EXCEPT !.cut = TRUE]
  ELSE Effect(e, rec)

Replay(kv0, records) ==
  FoldLeft(ReplayStep,
           [kv |-> kv0, dirty |-> [d \in DB |-> 0], cur |-> 0, err |-> FALSE, cut |-> FALSE],
           records)

EndsIn(records) == Replay([d \in DB |-> Nothing], records).cur
TornInside(records) == \E i \in 1..Len(records)-1 : records[i] = Torn

\* server_enable_aof: replay, then append to the same file; aof_db_index
\* is 0 whatever database the file ends in
Start(records) ==
  LET r == Replay([d \in DB |-> Nothing], records)
  IN /\ \/ up' = ~r.err
        \/ TornInside(records) /\ up' = FALSE
     /\ kv' = r.kv /\ dirty' = r.dirty
     /\ aofdb' = 0

\* The process or the machine stops and the server is started again: all
\* that was synced is there, and some of what was written after it.
\* An orderly stop (aof_close) is the case that keeps everything.
Restart ==
  /\ up
  /\ count.crash > 0
  /\ \E n \in synced..Len(Log), cut \in BOOLEAN :
       /\ cut => n < Len(Log) /\ count.torn > 0
       /\ failed => n <= Len(file) /\ ~cut
       /\ file' = Kept(n, cut)
       /\ count' = [count EXCEPT !.crash = @ - 1, !.torn = IF cut THEN @ - 1 ELSE @]
  /\ Start(file')
  /\ synced' = Len(file')
  /\ acked' = Len(file')
  /\ astray' = (astray \/ EndsIn(file') # aofdb')
  /\ pending' = <<>> /\ failed' = FALSE
  /\ cur' = [c \in Clients |-> 0]
  /\ backup' = NoBackup

-----------------------------------------------------------------------------
(* srv_backup_command.  START and SEAL flush the log first.                *)

BackupStart ==
  /\ up /\ ~failed
  /\ count.backup > 0
  /\ backup.st \notin {"incrementing", "sealed"}
  /\ file' = Log /\ pending' = <<>>
  /\ synced' \in SyncedAfter(Len(Log))
  /\ backup' = [NoBackup EXCEPT !.st = "incrementing", !.off = Len(Log), !.snap = kv]
  /\ count' = [count EXCEPT !.backup = @ - 1]
  /\ UNCHANGED <<kv, dirty, cur, aofdb, failed, up, acked, astray>>

BackupSealNoFlush ==
  /\ up /\ ~failed
  /\ backup.st = "incrementing"
  /\ backup' = [backup EXCEPT !.st = "sealed", !.at = kv,
                              !.delta = SubSeq(file, backup.off + 1, Len(file))]
  /\ UNCHANGED <<kv, dirty, cur, file, synced, pending, aofdb, failed, up, acked, count, astray>>

BackupSeal ==
  /\ up /\ ~failed
  /\ backup.st = "incrementing"
  /\ file' = Log /\ pending' = <<>>
  /\ synced' \in SyncedAfter(Len(Log))
  /\ backup' = [backup EXCEPT !.st = "sealed", !.at = kv,
                              !.delta = SubSeq(Log, backup.off + 1, Len(Log))]
  /\ UNCHANGED <<kv, dirty, cur, aofdb, failed, up, acked, count, astray>>

\* ABORT before the seal, CLEANUP after it
BackupEnd ==
  /\ up
  /\ backup.st # "idle"
  /\ backup' = NoBackup
  /\ UNCHANGED <<kv, dirty, cur, file, synced, pending, aofdb, failed, up, acked, count, astray>>

Step ==
  \/ \E c \in Clients : ClientCommand(c) \/ ClientExec(c)
  \/ SendReplies \/ Flush \/ FlushFails \/ Restart
  \/ BackupStart \/ BackupSeal \/ BackupEnd

Next == Step /\ UNCHANGED load

Spec == Init /\ [][Next]_vars

-----------------------------------------------------------------------------
(* Properties.                                                             *)

\* The append-only file alone restores the keyspace: the server starts from
\* a file it has written itself, and replaying what is in the file and in the
\* buffer succeeds and gives every database its current contents.
AlwaysRestores ==
  /\ up
  /\ ~failed => LET r == Replay([d \in DB |-> Nothing], Log)
                IN ~r.err /\ ~TornInside(Log) /\ r.kv = kv

\* The file restores the keyspace, whatever part of the log a crash leaves and
\* whatever commands, transactions, scripts, failed writes, crashes and restarts
\* came before, unless the log has gone astray: something was appended behind a
\* torn record; a process started on a file that ends in another database than
\* 0, which aof_db_index then takes it for; a SWAPDB was not logged; or an EXEC
\* was that held a SELECT, a failing command, or a script beside commands.
\* Nothing else breaks it.
RestartRestores == astray \/ TornInside(Log) \/ AlwaysRestores

\* A sealed backup, snapshot and delta together, restores the keyspace of
\* the moment of the seal.
BackupRestores ==
  backup.st = "sealed" =>
    LET r == Replay(backup.snap, backup.delta)
    IN ~r.err /\ r.kv = backup.at

\* No write is acknowledged and then missing from the file: when the log
\* fails, everything that was answered has been written.
AckedIsWritten == failed => acked <= Len(SelectSeq(file, LAMBDA rec : rec # Torn))
=============================================================================
