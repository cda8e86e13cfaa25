# ddup: a TLA+ verification development

ddup is a Redis-compatible server in C. This directory holds TLA+ models of its parts, the TLC
configurations that check them, and TLAPS proofs. `PROJECT.json` lists every component, run, mutant,
finding, hazard and theorem, and maps each definition to the lines it models. Paths below are
relative to `src/src/`, those of documents to `src/`.

## 1. The system and its parts

| Part | Source | State | What is hard about it | Modules |
|---|---|---|---|---|
| SPSC rings, wakeup | `server/mt_spsc.h`, `server/mt_server.c`, `pal/pal_wakeup.c` | ring indices and slots, kick latch, self pipe, `running` | lock-free interleavings, lost wakeups, joins against full rings | `MtRing`, `MtQueue` |
| Worker pipeline, pub/sub across workers | `server/mt_server.c`, `server/server.c` | sequence numbers, reorder buffer, batch, deferred queue, watches, registries | completions in any order, asynchronous WATCH, connections that end with tasks in flight | `MtPipeline` |
| Replication backlog | `server/repl.c` | byte ring, offset | wrap-around, chunks larger than the ring | `ReplBacklog` |
| Replication | `server/server.c` | role, link, resume cache, stream | breaks, restarts, role changes, resuming the wrong history | `Repl` |
| Append-only file, BACKUP | `server/aof.c`, `server/server.c`, `core/command.c`, `core/script.c` | log buffer, file, cached database index, backup state | crashes, torn tails, failing writes, several databases | `Aof` |
| Cold tier | `core/tier.c`, `core/command.c` | value log, index, references | a value in two places, full log, failing reads, replay | `Tier` |
| Sessions | `core/session.c`, `core/command.c` | queue, watches, versions, epochs | optimistic locking against counters that restart or move | `Session` |
| Hash table | `core/rhtable.c` | two slot arrays, sweep position | operations between two batches of a rehash | `RhTable`, `RhMap` |
| Keyspace: expiry, memory, eviction | `core/command.c` | table, deadlines, memory count, versions | lazy expiry inside every command, memory counted piecewise | `Db`, `Generic`, `Keyspace` |
| Data commands | `core/command.c`, `ds/obj.c` | values | many commands with error paths after the first change | `Strings`, `Lists`, `Sets`, `Zsets`, `Hashes`, `Arrays` |
| Streams | `ds/stream.c`, `core/command.c` | entries, groups, consumers, pending lists | records handed between consumers while lists are walked | `Stream` |
| Blocked clients | `server/server.c`, `core/command.c` | stored requests, deadlines, buffered input | a deadline against a late push, keys that change type, closing | `Blocked` |
| Cluster, elections | `core/cluster.c`, `core/redbus.c`, `server/server.c` | node tables, claims, epochs, votes, frames | delayed and repeated frames, restarts, competing claims | `Cluster`, `ClusterClaims` |
| Slot migration | `core/migrate.c`, `core/command.c`, `core/snapshot.c` | migrating and importing states, keys in transit | partial failure, a late RESTORE, redirected clients | `Migrate` |

How they interact: a connection lives on a home worker; `mt_route` sends each command over a ring
(`MtRing`) to the worker that owns its key, and `MtPipeline` restores the order of the replies. The
single-threaded server executes a command through a session (`Session`), stores it if it must wait
(`Blocked`), runs it on the keyspace (`Keyspace`), logs it (`Aof`) and appends it to the stream of the
replicas (`Repl`, over `ReplBacklog`). Every keyspace is a `RhTable`, and eviction may move a value to
the cold tier (`Tier`). In cluster mode a node first asks its table whether it serves the key (`Cluster`
says who owns a slot, `Migrate` what happens to the keys when it moves).

## 2. Modules: state, actions, and the code

**MtRing** — One worker, the rings that feed it, the latch and the pipe that wake it, the worker loop
and `mt_server_stop`. A step is one access to shared memory, so every interleaving of the atomics is
explored; the stale copies of `head` and `tail` are variables. `MtQueue` is the promise of a ring, a
FIFO; `ImplementsFifo` maps the ring to it.

**MtPipeline** — One connection with `mt_conn_state` as the record `st`; actions are the parse pass of
the home worker (`mt_route` and its cases), `mt_exec_task` of the owners, `mt_drain_completions`, the
writes and messages of other clients and disconnection. Subscriptions are kept by the connection and,
through register tasks, by the worker that owns the name. Rings are queues, as `MtRing` justifies, and
do not fill up; the connection has made its one migration. History variables say what a client expects
of WATCH, of program order and of messages.

**ReplBacklog** — `repl_backlog_append` and `repl_backlog_read_from`, byte for byte; a byte is
identified with its stream position.

**Repl** — Any number of nodes that all run the code of `server.c`: `srv_propagate`, SYNC/PSYNC, the
states of the master link, REPLICAOF, the reconnect timer, restarts. The stream counts commands.

**Aof** — What `exec` paths log and with which SELECT prefix, `aof_append`, the flush with its failing
and torn writes, replay at start, and the steps of BACKUP. One key per database; records are commands.
The history variable `astray` is set by the steps after which the log says something else than what was
done (section 4); `RestartRestores` shows that nothing else breaks the log, `AlwaysRestores` is the same
without exceptions.

**Tier** — The value log of `core/tier.c` (put, get, delete, flush, compact, open) and the keyspace's use
of it: eviction offloads a value and leaves a reference, lookups bring it back, every path that removes
or replaces a key releases its record. `MCPersistence` puts `Aof` and `Tier`, the two logs on disk, in one
run; a behaviour works on one of them.

**Session** — `session_execute_at_raw` and `exec_transaction` on the version and epoch bookkeeping. One
key per database.

**RhTable** — `rh_get`, `rh_set`, `rh_del` with insertion, backward-shift deletion, growth and batched
migration, for every hash function of a set. `RhMap` is the promise, a map.

**Db, Strings, Lists, Sets, Zsets, Hashes, Arrays, Generic, Keyspace** — `Db` is one logical database as
a record (values, deadlines, memory count, what was touched) with the helpers every command goes
through: `db_get` with lazy expiry, the set and delete paths, `mem_sync`, `db_touch_key`, the noeviction
check, eviction. The family modules have one operator per command, from a database to the database it
leaves and the replies it writes, with every error path; `Generic` has those for any type, the active
expiry cycle included. `Keyspace` is the state machine: commands of one family, chosen at the start,
on two keys in any order, with the clock running. A string is a short sequence of characters, integers
have a shrunk range with its overflow checks, members are numbers, one element is one unit of memory.

**Stream** — One stream key with `ds/stream.c` as operators on the record `stream`, and one action per X*
command that changes it, plus the deletion of the key. An id is a number; a delivery is "now" or
"earlier", and `Tick` ages it. Array replies keep the length announced and the number written.

**Blocked** — Connections of the single-threaded server that send requests, some of which wait: the
stored command, `server_process_blocked` that tries each again in the order of the connection table,
deadlines, the input buffered meanwhile, closing, and a node that becomes a replica. Elements are
numbered, so that losing one and giving one twice are visible.

**Cluster** — The nodes' tables, the connections and frames of the bus (ddup's own protocol and Redis's,
per configuration), `cluster_merge_claims`, PFAIL, reports and FAIL, elections and votes, promotion
without a vote, the CLUSTER commands that change a table (an ADDSLOTS that fails midway keeps the slots
it has taken), `nodes.conf` and restarts. `ClusterClaims`
has the operations that move slots between the entries of one table.

**Migrate** — One slot and its keys moved from A to B by the steps of the resharding tool
(`src/tools/reshard_client.c`), while clients write and follow MOVED and ASK: `db_key_served`,
SETSLOT, GETKEYSINSLOT, `migrate_run` with its pipeline of ASKING and RESTORE, what a closed connection
still carries, the retraction of a claim by gossip, timeouts, refusals, restarts, a tool that dies and is
run again. `MCCluster` puts it in the run of `Cluster`; a behaviour works on one of them.

`MC*` modules give constants their values; two of them put two modules side by side.

## 3. Runs

| Run | Shows |
|---|---|
| `ring` | two rings into one worker: each behaves as a FIFO, so delivery is exactly-once and in order; no wakeup is lost although `was_empty` may be stale; every push is popped although drains are bounded; stop terminates although rings are full |
| `pipeline` | four mixes of pipelined requests over three workers: replies in request order, connections freed exactly with their last task, WATCH references exact, no commit over a changed key, registries that follow the subscriptions, messages in order, program order per key, every request answered |
| `backlog` | for every ring size and chunking, a covered offset reads back exactly |
| `repl` | a replica moved between two masters, with breaks, failed connects and restarts: it mirrors its master, what a link carries continues at its own offset, and it ends up to date |
| `persistence` | the log replays to the keyspace after crashes, torn and failed writes, unless it has gone astray in one of the ways the property names; a sealed backup restores; offloading a value is invisible and replaying the value log rebuilds its index |
| `session` | EXEC commits exactly if no watched key changed, across two databases |
| `rhtable` | a migration of many batches passes no entry; a table that moves in one batch implements `RhMap` |
| `keyspace` | all data commands with expiry and eviction: memory count exact, one reply per command, every change touches its key, an error changes nothing, a deadline belongs to a key and a re-created key has none in the past, the commands that make the noeviction check store nothing over the limit |
| `stream` | every stream command by two consumers of a group: memory counters exact, an entry pending with one consumer only, `>` delivers each entry once to the group, XCLAIM and XAUTOCLAIM write as many elements as announced |
| `blocked` | no element is lost or given twice; nobody waits for ever for something that is there, or past a deadline |
| `cluster` | one winner per election epoch, FAIL only with a quorum, one holder of a slot in a table, competing claims settle; a slot that moves keeps its keys and its clients see no difference |
| `blocked_order` | expects a violation: a request that arrives while its connection is blocked is answered before the blocked one, against the comment the finding in `PROJECT.json` quotes |

Where section 4 lists a disagreement, the passing run leaves that operation or that combination out, by its
configuration or by a condition in the property that says so, and checks what holds of the rest.

## 4. Disagreements met while modelling

Each row of the first table is reproduced by the models: change the configuration of the module's run
as said (a set of commands or loads named there is defined in its `MC` module) and check the property.

| Where | What the code does | What the repository says | To see it |
|---|---|---|---|
| `mt_server.c:4545` | an unclassified command gets no number; its reply overtakes routed ones | docs/architecture.md:149-151, replies in request order | `PassMix`, `RepliesInOrder` |
| `mt_server.c:3921` | a local command deferred behind a routed WATCH is neither executed nor answered (the replay session has no database) | docs/architecture.md:1583-1585, deferred commands are replayed | `LocalMix`, `RepliesInOrder` |
| `mt_server.c:1873` | a broadcast that finishes after a routed WATCH does not replay the deferred queue | same | `AggMix`, `EveryRequestAnswered` |
| `mt_server.c:4386` | RESET frees deferred commands that own numbers; no later reply can leave | docs/architecture.md:149-151 | `ResetMix`, `EveryRequestAnswered` |
| `mt_server.c:4389` | RESET forgets a WATCH in flight, whose answer then stands for the next WATCH: EXEC is checked without the second version | docs/architecture.md:177-179, the owner re-checks the watched versions | `RewatchMix`, `NoStaleCommit` |
| `mt_server.c:3438` | a NOPERM reply held behind a deferred command is not drained | same | `DenyMix`, `EveryRequestAnswered` |
| `server.c:6018` | QUIT behind a routed command closes before either is answered | server.c:5143-5145 | `QuitMix`, `QuitAnswersFirst` |
| `mt_server.c`, `mt_conn_close` | closing unregisters channels only: pattern and shard registrations stay at their owner | docs/architecture.md:210, mt_server.c:1281 | `CloseUnregisters` |
| `server.c:5842` | a connect that fails late leaves `master_link` set; the retry timer never runs again | the comment on that line | `ReplicasCatchUp` without its first condition |
| `server.c:1568` | the replica stream carries no database number | docs/architecture.md:1377-1378 | `DBs <- DB01`, `MirrorsMaster` |
| `server.c:2716` | a full resync of the middle of a chain does not reach its replicas | docs/architecture.md:824-826 | `ChainConf` with `PairTargets`, `MirrorsMaster` |
| `server.c:1968` | a former master resynced from its replica still grants a resume of its old history | the comment there, "same history" | `PairConf` with `SwapTargets`, nodes A and B, `MaxAdmin = 4`, `ContinueSameHistory` |
| `server.c:3415` | records are appended behind a torn tail | aof.h:10 | `TornLoad`, `AlwaysRestores` |
| `server.c:3266` | after a restart a write to database 0 gets no SELECT prefix | docs/architecture.md:237-238 | `SelectLoad`, `AlwaysRestores` |
| `command.c:13887` | SWAPDB is not logged when the dirty counters match | the comment there | `SwapLoad`, `AlwaysRestores` |
| `command.c:24480` | EXEC logs failed commands; replay refuses the file | aof.h:3-4 | `ErrorLoad`, `AlwaysRestores` |
| `command.c:24476` | a script's effects are logged ahead of commands queued before it | the comment there | `ScriptLoad`, `AlwaysRestores` |
| `command.c:24478` | a transaction with SELECT is logged under its last database | docs/architecture.md:237-238 | `SelectTxnLoad`, `AlwaysRestores` |
| `server.c:1442` | a backup's delta does not record the database it starts in | docs/architecture.md:1437-1440 | `SelectLoad`, `BackupRestores` |
| `server.c:6025` | replies leave before the log is written | docs/architecture.md:787-788 | `FailLoad` without the view, `AckedIsWritten` |
| `tier.c:279` | `tier_compact` writes records in table order, and `tier_open` refuses a log whose ids decrease (only tests call `tier_compact`) | tier.h:6 | `AlwaysOpens` |
| `command.c:16673` | PERSIST of an offloaded key is undone when the key is next read | tier.h, the reference stands for the value | `PersistCold = TRUE`, `ColdReadsBack` |
| `tier.c` | FLUSHDB and a full log leave live records that no key names | — | `NoOrphans` |
| `command.c:13885` | SWAPDB can give the watched index the recorded epoch | the comment at 13884 | `FlushSwapCmds`, `MaxChanges = 3`, `ExecIsOptimistic` |
| `session.c:107` | SWAPDB moves `watch_refs` away from the index the entries name | docs/architecture.md:235-236 | `SwapCmds`, `MaxChanges = 3`, `ExecIsOptimistic` |
| `command.c:9666` | XCLAIM with a repeated id and a minimum idle time announces more elements than it writes | the array header it has written itself | `RepeatedLists`, `ReplyFramed` |
| `rhtable.c:214` | an entry displaced behind a swept bucket is not found between two batches | rhtable.h | `Batches = {2}`, `EveryEntryFound` |
| `rhtable.c:421` | setting a key whose old entry is hidden inserts it twice | rhtable.h:57-58 | `Batches = {1}`, `OneEntryPerKey` |
| `command.c:6424-6535` | GEOADD changes a sorted set without `mem_sync`: not counted, not touched | docs/architecture.md:739-741, 774-776 | `ChangesAreTouched`, `Accounted` |
| `command.c:527-545` | RENAME and MOVE count the moved object twice | the comment at 521-526 | `Accounted` |
| `command.c:16164` | MSETEX with EXAT or PXAT in the past, which `parse_absolute_expiry` accepts, stores a key that is dead already | — | `RebornKeysAreFresh` without its condition |
| `command.c:821` | ZADD, the STORE commands, HSETEX, PFADD, PFMERGE, BITFIELD and the array commands do not look at maxmemory | docs/architecture.md:594-595 names five commands that are refused over the limit | `CapHolds` |
| `command.c`, blocked pops | a pop served after it had to wait is not logged | command.h:40 | `LogIsComplete` of `Blocked` |
| `cluster.c:499` | after claims have settled, tables of different nodes may still name different owners (a retraction is applied without comparing epochs) | — | `ViewsAgree` |
| `cluster.c:1158` | a node learned by gossip takes over the sender's PFAIL flag; after CLUSTER FORGET, the next report of that sender completes a quorum of two with a suspicion this node never had | cluster.c:266, "local suspicion is required" | `Forget` in the `acts` of three masters and a fourth node without slots, `FailNeedsQuorum` |
| `command.c:133`, `migrate.c:226` | the migrating state is in no file: after a restart of the source, moved keys read as missing; a RESTORE executed after its MIGRATE timed out replaces newer data | — | `MoveIsInvisible` without its first condition |

Noted while reading; the models follow the code, or leave the detail out, as said:

- Blocking: XREAD BLOCK with `$` never wakes, since `$` is evaluated again at every try
  (docs/architecture.md:380-382); BLPOP inside MULTI blocks inside EXEC; waiting clients are served in
  the order of the connection table; a client that waits when its node becomes a replica still pops.
- Cluster: the winner of an election takes current epoch + 1, not the epoch of its election; the
  current epoch and the last vote are not in `nodes.conf` (docs/architecture.md:1109-1110), and a
  replica comes back as a master; FORGET moves table entries while slot indices keep pointing at the
  old places; the slot list of a node is cut at 256 bytes; DELSLOTS and FLUSHSLOTS move no epoch, and
  neither does an ADDSLOTS that fails after its first slots, which it keeps.
  After SETSLOT NODE on the source only, gossip leaves the slot without an owner on both sides, and the
  tool cannot be run again. PERSIST skips the ownership check.
- Pub/sub: a pattern is registered at the worker its text hashes to, so a PUBLISH on another worker
  does not see it (docs/architecture.md:208-210); `mt_publish_execute` follows a connection pointer on
  the owner's thread, against mt_server.c:164-165; a subscription is confirmed before it is registered
  (documented); the roll-back of a failed SUBSCRIBE reads a neighbouring element; NUMPAT counts shard entries.
- Cold tier: SAVE, DUMP and COPY of an offloaded key write a tag the loader refuses (snapshot.c:354,
  820); deletions count against the disk limit and are logged twice; reading a cold key touches it;
  evicting a reference deletes the value; offloading drops the deadlines of hash fields.
- Keyspace: EXPIRE and PERSIST touch nothing (command.h:40); evictions are not logged; ZADD creates its
  key before it parses the scores; INCR and APPEND keep the
  deadline (docs/architecture.md:575-576 says they clear it) while SETRANGE, SETBIT and BITFIELD clear
  it; a purge of hash fields changes memory without `mem_sync` and can leave an empty hash;
  SET ... GET over maxmemory replies twice, INCREX past a deadline and HIMPORT SET not at all, SORT GET
  and ARMGET fail after their header; BITOP drops bytes in its word loop (2640-2645); PFMERGE ignores
  its destination; ZINTERCARD without LIMIT replies 0; `obj_array_set` reads an uninitialised `old`
  (obj.c:200-209).
- Snapshots: deadlines of hash fields and the length of arrays are not saved (snapshot.c:178, 592);
  loading the multi-shard format copies object pointers that the source then frees (1215-1222); RESTORE
  ABSTTL in the past creates a dead key; the autosave timer compares the dirty counter of database 0
  only (server.c:5744).
- Streams: XGROUP CREATE, SETID and DESTROY do not move the dirty counter (`command.c:9195`, `9233`),
  so they are neither logged nor propagated (aof.h:3-4); XCLAIM RETRYCOUNT is always a syntax error
  (`command.c:9624`, docs/redis-8-compat-audit.md:526); XGROUP SETID does not change an existing group.

## 5. Bounds, fairness, deadlock

**Bounds.** Every bound is a constant, or a field of a configuration, with a comment in its module. They
are chosen so that the case at stake happens.
- `MtRing`: three slots that take three pointers wrap and fill; a second ring is a second source of
  kicks; a drain limit of one leaves items behind; the pipe holds one byte.
- `MtPipeline`: three workers give two routes that race; mixes of up to five requests reach every case of
  the router, a deferred queue and its replay, and an unsubscription behind a message.
- `Repl`, `ReplBacklog`: a backlog shorter than the stream forces full resyncs; every ring size up to
  the stream's length and every chunking.
- `Aof`, `Tier`: one failed write, one torn write and two crashes combine with a backup; one crash with two
  databases; two keys, two live records and a full log.
- `Session`: two sessions over two databases. `RhTable`: four keys in four slots force growth, with
  homes that collide and wrap around; the batch is a parameter, one entry or the whole old table.
- `Keyspace`: two keys (source and destination), objects of two elements, a clock of two ticks and a
  small memory cap; values are the ones at the edges of each command's checks. The family "edge" has the
  commands that disagree with one of the properties, also at the cap; the properties that do not hold
  there say so.
- `Stream`: two entries, two consumers, two pending records. `Blocked`: three connections, four requests,
  two elements and two deadlines; a menu of requests per kind of wait.
- `Cluster`: five small clusters, each with the nodes and operations its question needs; epochs up to 3.
- `Migrate`: two keys in one batch, so that the second may fail; two clients; one SET that is executed
  and one fault. `MaxLoad` bounds requests in flight and faults together; two and three writes have been checked as
  well, and the theorem of `MigrateProofs` has no bound.

A configuration that never changes (`mix`, `load`, `batch`, `family`, `menu`, `conf`, `part`) is chosen in
`Init`, so that one run covers several. Symmetry is used in `Session`, `RhTable` and `Stream`, for
interchangeable sessions, keys and consumers and for safety only (`IsMap` is a refinement without
fairness). The view of `Keyspace` drops what the last command touched and replied, which no later command
reads; the action properties see it in the step that writes it. That of `MCPersistence` drops `acked`, a
history variable of `AckedIsWritten` alone, which the run does not check.

**Fairness.** `MtRing`: weak fairness of each thread's next step; the operating system schedules every
thread. `MtPipeline`: a worker whose queue is not empty pops it eventually, which `ring` shows. `Repl`: the
reconnect timer and the link handlers run in every loop iteration; breaks and writes are bounded, not
fair. `Blocked`: `server_process_blocked` runs in every iteration and time passes. `Cluster`: in the
configurations about settling, the timer of every node and the delivery of every frame; operators and
restarts are bounded. `Session`, `Aof`, `Tier`, `RhTable`, `Keyspace`, `Stream` and `Migrate` are safety
only.

**Deadlock.** Turned off only where the system may really stop: all bounded inputs used up, or the
process stopped.

## 6. Proofs

Proved for every value of the constants, from the named ASSUMEs on them, which TLC evaluates in the runs.

`MtRingProofs` (any number of rings, any ring size of at least two, any drain limit and pipe capacity):
`TypeCorrect`, `NoOverwrite`, `ExactlyOnce`, `WakeupNeverLost`, and `RingIsQueue`, that the rings implement
`MtQueue`. The safety properties are not inductive: the producer works with an old `head`. The inductive
invariant `IInv` adds that the stale head is never ahead of the real one and that the slots between
`head` and `tail` hold consecutive numbers ending in the last published; for the wakeup, that a latch
that is set means a byte in the pipe, one about to be written, or a worker about to clear the latch, and
that work the worker will not look at before it sleeps is covered by the latch or by a coming exchange.
For the refinement, the contents of a ring are the numbers after the last pop up to the last push: the
store of `tail` appends one, the store of `head` takes the first, every other step is a stutter.

`ReplBacklogProofs` (any capacity and stream): `BacklogHoldsTail`, that slot `start + i` modulo the
capacity holds stream byte `offset - len + i`, and from it `PartialResyncExact`: what an accepted PSYNC
offset reads is the stream from there to its end. The lemmas on `Advance` and on the two-part copy carry
the arithmetic.

`ReplProofs` (any set of nodes and topology, cycles included, any backlog, any number of writes, breaks,
restarts and REPLICAOFs): `ReplicaFollows`, that the commands on a streaming link are the master's stream
from the replica's own offset on. `IInv` adds to the types that every backlog is the tail of its node's
stream (`BacklogOK`), and for each link what may be on the wire in each of its states (`LinkOK`): behind
+CONTINUE the stream from the offset asked for, behind +FULLRESYNC and the snapshot the stream from the
snapshot's offset. One lemma per action shows that it keeps `LinkOK`; `OpsFrom...` say what appending to
the stream and feeding a message do to "the stream from an offset".

`ClusterProofs` (any number of nodes, connections, slots and operations, either protocol, any frames lost or
delayed). First the slot claims of one table: epoch and id order any two nodes (`BetterIsTotalOrder`); merging
any claims keeps a slot with at most one holder (`ContestExclusive`) and leaves a claimed slot with exactly
one, the better of the two (`ContestSettles`); SETSLOT and promotion keep the same (`AssignExclusive`,
`InheritExclusive`). From them `SlotsHaveOneHolder`, the invariant `OneHolder`. `HolderInv` adds to it the types of tables and
frames, that a node is in its own table, and that the table in `nodes.conf` has no slot with two holders
either: a restart takes that one. The frames need no more than a type, since whatever a frame claims, merging
it leaves one holder (`ContestExclusive`). `HandlePingGood` is by induction over the entries of a frame, one
lemma per action does the rest. Assumptions: nodes are 1 to some number, connections join two different
nodes, and at the start no slot has two owners.

`QuorumProofs` (any number of masters, with or without slots, either protocol, any frames lost or delayed):
`FailIsAgreed`, the invariant `FailNeedsQuorum`, in clusters in which no node is a replica, no operator
removes a node from a table or takes a slot from its first owner (`MastersOnly`, which the run's `Silence`
satisfies; slots without a first owner are given and taken freely). `QuorumInv` says that whatever a table, a
frame on the way or `nodes.conf` says against a node is backed by suspicions: PFAIL by the node's own, a
report by the reporter's, FAIL by a majority's, or else a majority has suspected the node already, which
stays so (`AgreedGrows`). It also says that every table gives the first owners their slots, so that the
masters a node counts are at least the masters there are (`QuorumAgrees`). Outside these clusters the
invariant fails: a node that was forgotten and comes back by gossip brings a PFAIL nobody here has found
(section 4); a soft RESET shrinks the set of masters a node counts.

`MigrateProofs` (any clients, keys and batch size, any number of writes, faults and runs of the tool):
`SlotMoveKeepsKeys`, the invariant `MoveKeepsKeys`. It is not inductive: it says nothing of the moments
between the RESTORE on one side and the deletion on the other. `MigrateInv` adds the types; that what a
running MIGRATE has under way, executed and confirmed are its keys in their order, and that a key it has
confirmed, or has a positive answer for, is on the target unless it was deleted since (`RunOK`, `Settled`);
and, as long as nothing failed (`Undisturbed`), that the source's copy of a key, or else the target's, is
the last value written (`Authority`), that the two agree on the keys already restored and on no others
(`RunExact`), and which node owns, migrates or imports the slot at each step of the tool (`SlotExact`). One
lemma per action; `Confirm` and `MigrateEnds` are the hard ones, since they relate a prefix of the pipeline
to the answers read so far. Assumptions: the keys are finitely many and `Count` is positive.

`SessionProofs` (any number of sessions, databases and watches, any queue): `TransactionsAreOptimistic`, the
action property `ExecIsOptimistic`, if no session runs SWAPDB (with SWAPDB it is false, section 4).
`SessionInv` says that `watch_refs` of each database is the number of watch entries that name it, over all
sessions, whichever database these have selected since; that an entry is never ahead of its database's
epoch and version; and that an entry whose epoch and version are still the current ones has seen the last
change. The first part makes the others inductive: versions advance only while a reference is held.
`GoodExecuted` is by induction over the queue of EXEC.

`TierProofs` (any keys, databases and values, any size of the log, any sequence of commands, flushes,
compactions and reopenings, a read or write failing anywhere): `ReplayIsExact`, the invariant `ReplayExact`,
and `ColdTierInvisible`, the invariant `ColdReadsBack`, the second if PERSIST leaves offloaded keys alone
(section 4). `TierInv` says of the store that an id of the index leads to the record that has put it, and
that a replay which gets to the end of the log finds the same ids and gives out no id that is in use
(`StoreOk`); of the references that each leads to a record of its own, of its own database, which a replay
would find as well, even after a failed write (`RefsOk`: a failed deletion may leave the log one record
ahead of the index, never behind a reference); and of the keys that value and deadline, in the table or in
the record, are those the commands gave it, or the key is gone and its deadline has passed (`Match`).
`ReplayAppend` and `PutsReplay` say what a replay makes of one more record and of a compacted log, by
induction over the log; one lemma per operation of the store, one per helper of the keyspace, one per action.

The inductive invariants were checked with TLC on small instances before they were proved.

Inductions over a sequence or a recursive function (`Executed`, the number of entries of a sequence) are
made from the well-foundedness of the naturals: a set of numbers without a least element is empty
(`LeastNat`, `Induct` in `SessionProofs`; `GossipStepsIs` in `ClusterProofs`; `Induction` in `TierProofs`).

Only model-checked: liveness (out of the prover's reach); `IsMap` and the other properties of `RhTable`,
whose loops are RECURSIVE operators, which the prover's SMT backend does not accept; `MtPipeline`, `Aof`,
`Keyspace`, `Stream`, `Blocked`, and of `Cluster` the votes (`OneWinnerPerEpoch`) and the quorum in clusters
with replicas, whose inductive invariants have not been worked out; `MirrorsMaster` of `Repl`, which speaks
of the contents of the keyspace and not of the stream only.

## 7. Not modelled

- The single-threaded pub/sub registries: one thread changes and reads them within a command.
- The mt full sync and the re-entrant drain of a full ring: both need several connections or full rings
  at once, beyond what the pipeline's state space allows beside its routing.
- The file format of snapshots and SAVE, which runs in one step of the event loop; the autosave timer.
- The insides of the encodings (listpack, quicklist, skiplist), the RESP parser, glob, hash slots and
  checksums: sequential functions on bytes, without a state that outlives the call except the parser's.
- ACL rules, the Lua interpreter, configuration, reporting commands, system calls and TLS.
- Allocation failure, except where the router handles it.
- In modelled parts: field data, delivery counts and XINFO metadata of streams; hash-table cursors
  (documented as weak) and the LRU word; wording of replies; time to live in `Migrate`.
