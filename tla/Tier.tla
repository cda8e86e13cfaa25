-------------------------------- MODULE Tier --------------------------------
(***************************************************************************)
(* The cold tier: under memory pressure a value moves from the keyspace to *)
(* an append-only log and leaves a reference behind; the next lookup of    *)
(* the key brings it back.  The store (core/tier.c) indexes the live       *)
(* records of the log, compacts it, and rebuilds the index by replaying    *)
(* the log when it is opened again, as tests/test_tier_db.c does under a   *)
(* keyspace that holds references.                                         *)
(*                                                                         *)
(* Sources: core/tier.c; db_tier_offload, db_tier_materialize and the      *)
(* helpers of core/command.c that release the record of a reference.       *)
(*                                                                         *)
(* Every write and read of the log may fail.  Values are opaque: what      *)
(* snapshot_dump_key and snapshot_restore_key make of them is in Generic.  *)
(***************************************************************************)
EXTENDS Integers, Sequences, FiniteSets, Functions

CONSTANTS
  ColdKeys,    \* the keys
  Layouts,     \* which database each key is in
  ColdVals,    \* ColdVals[k]: the values written to k
  MaxDisk,     \* max_disk_bytes, in records
  PersistCold, \* TRUE: PERSIST of an offloaded key is explored too
  MaxId,       \* bound: record ids given out
  MaxFaults    \* bound: failing reads and writes

ASSUME LayoutsAssumption == \A f \in Layouts : DOMAIN f = ColdKeys
ASSUME ColdValsAssumption == DOMAIN ColdVals = ColdKeys
ASSUME MaxDiskAssumption == MaxDisk \in Nat \ {0}

VARIABLES
  dbOf,        \* dbOf[k]: the database of k (tier_db_index); never changes
  tab,         \* tab[k]: the entry of k in db.table
  dead,        \* dead[k]: its deadline in db.expires (0: none)
  store,       \* the tier_store
  clock,       \* 0, then 1: the one deadline that is set
  faults,      \* failures so far
  want         \* what k would be if nothing were ever offloaded (history)

tierVars == <<dbOf, tab, dead, store, clock, faults, want>>

Gone == [is |-> "gone"]
Hot(v) == [is |-> "hot", v |-> v]
Cold(rid) == [is |-> "cold", rid |-> rid]

-----------------------------------------------------------------------------
(* The store.  index maps a live record id to its place in the log; torn   *)
(* says that the log ends with half a record.  rc is the result of the     *)
(* last call, io how many more reads and writes of the current command     *)
(* succeed, and left what the write that fails leaves in the log.          *)

Plenty == 9
EmptyStore == [log |-> <<>>, index |-> [r \in {} |-> 0], next |-> 1,
               failed |-> FALSE, torn |-> FALSE, rc |-> TRUE, io |-> Plenty,
               left |-> "none"]

Without(f, S) == Restrict(f, DOMAIN f \ S)
With(f, r, x) == [i \in DOMAIN f \cup {r} |-> IF i = r THEN x ELSE f[i]]

\* append_record: past the limit nothing is written; a write that fails is the
\* store's last
AppendRecord(s, r) ==
  IF s.failed \/ Len(s.log) >= MaxDisk THEN [s EXCEPT !.rc = FALSE]
  ELSE IF s.io = 0 THEN [s EXCEPT !.rc = FALSE, !.failed = TRUE, !.torn = s.left = "half",
                                  !.log = IF s.left = "whole" THEN Append(@, r) ELSE @]
  ELSE [s EXCEPT !.rc = TRUE, !.io = @ - 1, !.log = Append(@, r)]

TierPut(s, k, v, x) ==
  LET a == AppendRecord(s, [op |-> "put", rid |-> s.next, db |-> dbOf[k], v |-> v, x |-> x])
  IN IF ~a.rc THEN a
     ELSE [a EXCEPT !.index = With(@, s.next, Len(a.log)), !.next = @ + 1]

TierDelUnlogged(s, rid) == [s EXCEPT !.rc = TRUE, !.index = Without(@, {rid})]

TierDel(s, rid) ==
  LET a == AppendRecord(s, [op |-> "del", rid |-> rid, db |-> 0])
  IN IF a.rc THEN [a EXCEPT !.index = Without(@, {rid})] ELSE a

\* tier_get, apart from the value: a failed read is the store's last
TierGet(s, rid) ==
  IF s.failed \/ rid \notin DOMAIN s.index THEN [s EXCEPT !.rc = FALSE]
  ELSE IF s.io = 0 THEN [s EXCEPT !.rc = FALSE, !.failed = TRUE]
  ELSE [s EXCEPT !.rc = TRUE, !.io = @ - 1]
RecordOf(s, rid) == s.log[s.index[rid]]

InDb(log, index, d) == {rid \in DOMAIN index : log[index[rid]].db = d}

TierFlushDb(s, d) ==
  LET a == AppendRecord(s, [op |-> "flush", rid |-> 0, db |-> d])
  IN IF a.rc THEN [a EXCEPT !.index = Without(@, InDb(a.log, @, d))] ELSE a

\* tier_compact: the live records, in the order of the hash table, replace the
\* log, or a failure leaves it as it is
TierCompact(s, order) ==
  IF s.failed THEN [s EXCEPT !.rc = FALSE]
  ELSE IF s.io = 0 THEN [s EXCEPT !.rc = FALSE, !.failed = TRUE]
  ELSE [s EXCEPT !.rc = TRUE,
                 !.log = [i \in DOMAIN order |-> RecordOf(s, order[i])],
                 !.index = [rid \in Range(order) |-> CHOOSE i \in DOMAIN order : order[i] = rid]]

\* tier_open: the records of an existing log, one after another
ReplayRecord(a, r) ==
  LET n == [a EXCEPT !.n = @ + 1, !.next = IF r.rid >= @ THEN r.rid + 1 ELSE @]
  IN IF ~a.ok \/ (r.op = "put" /\ r.rid < a.next) THEN [a EXCEPT !.ok = FALSE]
     ELSE CASE r.op = "put"   -> [n EXCEPT !.index = With(@, r.rid, n.n), !.dbs = With(@, r.rid, r.db)]
            [] r.op = "del"   -> [n EXCEPT !.index = Without(@, {r.rid})]
            [] r.op = "flush" -> [n EXCEPT !.index = Without(@, {i \in DOMAIN @ : n.dbs[i] = r.db})]
Blank == [ok |-> TRUE, index |-> [r \in {} |-> 0], dbs |-> [r \in {} |-> 0], next |-> 1, n |-> 0]
\* (y: evaluated once)
ReplayLog(log) ==
  LET after[i \in 0 .. Len(log)] ==
        IF i = 0 THEN Blank
        ELSE CHOOSE z \in {ReplayRecord(y, log[i]) : y \in {after[i - 1]}} : TRUE
  IN after[Len(log)]
Opens(s) == ~s.torn /\ ReplayLog(s.log).ok
TierOpen(s) ==
  [EmptyStore EXCEPT !.log = s.log, !.index = ReplayLog(s.log).index,
                      !.next = ReplayLog(s.log).next]

-----------------------------------------------------------------------------
(* The keyspace.  A command works on h: the tables, the store, and         *)
(* tier_io_error.                                                          *)

IsCold(h, k) == h.tab[k].is = "cold"
Expired(h, k) == h.dead[k] # 0 /\ h.dead[k] <= clock

\* the tier part of db_expire_if_needed, db_set_kv and db_del_kv: the record of
\* an entry that goes away is deleted
Forget(h, k) ==
  IF ~IsCold(h, k) THEN h
  ELSE LET s == TierDel(h.s, h.tab[k].rid) IN [h EXCEPT !.s = s, !.err = @ \/ ~s.rc]

Drop(h, k) == [Forget(h, k) EXCEPT !.tab[k] = Gone, !.dead[k] = 0]
ExpireIfNeeded(h, k) == IF Expired(h, k) THEN Drop(h, k) ELSE h
SetKv(h, k, e) == [Forget(h, k) EXCEPT !.tab[k] = e, !.dead[k] = 0]

\* db_tier_materialize: the value and the deadline of the record are restored;
\* its deletion is logged twice, by db_set_kv and here
Materialize(h, k) ==
  LET rid == h.tab[k].rid
      g == TierGet(h.s, rid)
      rec == RecordOf(g, rid)
      i == SetKv([h EXCEPT !.s = g], k, Hot(rec.v))
      s == TierDel(i.s, rid)
  IN IF ~g.rc THEN [h EXCEPT !.s = g, !.err = TRUE]
     ELSE [i EXCEPT !.dead[k] = rec.x, !.s = s, !.err = @ \/ ~s.rc]

DbGet(h0, k) ==
  LET h == ExpireIfNeeded(h0, k) IN IF IsCold(h, k) THEN Materialize(h, k) ELSE h
Finds(h, k) == h.tab[k].is = "hot"

OffloadForgetsDeadline(h, k) ==
  LET s == TierPut(h.s, k, h.tab[k].v, 0)
  IN IF s.rc THEN [h EXCEPT !.s = s, !.tab[k] = Cold(s.next - 1)]
     ELSE [h EXCEPT !.s = s, !.err = TRUE]

\* db_tier_offload of a hot value
Offload(h, k) ==
  LET s == TierPut(h.s, k, h.tab[k].v, h.dead[k])
  IN IF s.rc THEN [h EXCEPT !.s = s, !.tab[k] = Cold(s.next - 1)]
     ELSE [h EXCEPT !.s = s, !.err = TRUE]

-----------------------------------------------------------------------------
(* Commands.                                                               *)

TierInit ==
  /\ dbOf \in Layouts
  /\ tab = [k \in ColdKeys |-> Gone]
  /\ dead = [k \in ColdKeys |-> 0]
  /\ store = EmptyStore
  /\ clock = 0
  /\ faults = 0
  /\ want = [k \in ColdKeys |-> Gone]

\* A command runs with a disk that does as it is told, or fails at some point.
Disk == {[io |-> Plenty, left |-> "none"]}
        \cup IF faults < MaxFaults THEN [io : 0..1, left : {"none", "half", "whole"}] ELSE {}
Before(disk) ==
  [tab |-> tab, dead |-> dead, err |-> FALSE,
   s |-> [store EXCEPT !.io = disk.io, !.left = disk.left]]
\* a failure that did not happen is not counted
After(h, disk) ==
  /\ tab' = h.tab /\ dead' = h.dead
  /\ h.s.next <= MaxId + 1
  /\ store' = [h.s EXCEPT !.io = Plenty, !.left = "none", !.rc = TRUE]
  /\ disk.io # Plenty => h.s.failed /\ ~store.failed
  /\ faults' = faults + IF disk.io = Plenty THEN 0 ELSE 1
  /\ UNCHANGED <<dbOf, clock>>

Wanted(k) == IF want[k] # Gone /\ want[k].x # 0 /\ want[k].x <= clock THEN Gone ELSE want[k]
Want(k, e) == want' = [want EXCEPT ![k] = e]

\* GET and every other read through db_get
ColdGet(k, disk) ==
  /\ After(DbGet(Before(disk), k), disk)
  /\ UNCHANGED want

\* SET looks the key up first, and does not write when the tier fails; SETEX,
\* MSET and others just write
ColdSet(k, v, looks, disk) ==
  LET h == DbGet(Before(disk), k) IN
  IF looks /\ h.err THEN After(h, disk) /\ UNCHANGED want
  ELSE /\ After(SetKv(IF looks THEN h ELSE Before(disk), k, Hot(v)), disk)
       /\ Want(k, [v |-> v, x |-> 0])

ColdDel(k, disk) ==
  /\ After(Drop(ExpireIfNeeded(Before(disk), k), k), disk)
  /\ Want(k, Gone)

\* EXPIRE: the deadline is 1
ColdExpire(k, disk) ==
  LET h == DbGet(Before(disk), k) IN
  /\ clock = 0
  /\ IF Finds(h, k) THEN /\ After([h EXCEPT !.dead[k] = 1], disk)
                         /\ Want(k, [want[k] EXCEPT !.x = 1])
     ELSE After(h, disk) /\ UNCHANGED want

\* PERSIST does not look at the value
ColdPersist(k, disk) ==
  LET h == ExpireIfNeeded(Before(disk), k) IN
  /\ PersistCold \/ ~IsCold(h, k)
  /\ After([h EXCEPT !.dead[k] = 0], disk)
  /\ IF Wanted(k) # Gone THEN Want(k, [want[k] EXCEPT !.x = 0]) ELSE UNCHANGED want

\* RENAME moves the entry, reference or not, and the deadline (command_dispatch;
\* db_del_kv_keep_obj leaves the record alone)
ColdRename(src, dst, disk) ==
  LET h == ExpireIfNeeded(ExpireIfNeeded(Before(disk), src), dst)
      m == SetKv(h, dst, h.tab[src])
  IN IF h.tab[src] = Gone THEN After(h, disk) /\ UNCHANGED want
     ELSE /\ dbOf[src] = dbOf[dst]
          /\ After([m EXCEPT !.dead[dst] = h.dead[src], !.tab[src] = Gone, !.dead[src] = 0], disk)
          /\ want' = [want EXCEPT ![dst] = Wanted(src), ![src] = Gone]

\* FLUSHDB forgets the references of a database, not their records
ColdFlush(d) ==
  LET Of(k) == dbOf[k] = d IN
  /\ tab' = [k \in ColdKeys |-> IF Of(k) THEN Gone ELSE tab[k]]
  /\ dead' = [k \in ColdKeys |-> IF Of(k) THEN 0 ELSE dead[k]]
  /\ want' = [k \in ColdKeys |-> IF Of(k) THEN Gone ELSE want[k]]
  /\ UNCHANGED <<dbOf, store, clock, faults>>

\* db_flush, before a full synchronisation: the records too
DbFlush(d, disk) ==
  LET Of(k) == dbOf[k] = d
      b == Before(disk)
  IN /\ After([b EXCEPT !.tab = [k \in ColdKeys |-> IF Of(k) THEN Gone ELSE @[k]],
                        !.dead = [k \in ColdKeys |-> IF Of(k) THEN 0 ELSE @[k]],
                        !.s = TierFlushDb(@, d)], disk)
     /\ want' = [k \in ColdKeys |-> IF Of(k) THEN Gone ELSE want[k]]

\* db_evict_one with victim k: a hot value is offloaded, or stays when the tier
\* fails; a reference goes for good, and so does any value while tiering is off.
\* CONFIG SET tiered-storage may turn db.tier_enabled on and off before any
\* command, so it is an input here, the one place that reads it.
Evict(k, enabled, disk) ==
  LET b == Before(disk) IN
  /\ tab[k] # Gone
  /\ IF enabled /\ ~IsCold(b, k) THEN After(Offload(b, k), disk) /\ UNCHANGED want
     ELSE After(Drop(b, k), disk) /\ Want(k, Gone)

Compact(order, disk) ==
  LET b == Before(disk) IN
  /\ ~store.failed
  /\ After([b EXCEPT !.s = TierCompact(@, order)], disk)
  /\ UNCHANGED want

\* the store is closed and opened again; a log that does not replay stays shut
Reopen ==
  /\ Opens(store)
  /\ store' = TierOpen(store)
  /\ UNCHANGED <<dbOf, tab, dead, clock, faults, want>>

TierTick ==
  /\ clock = 0
  /\ clock' = 1
  /\ UNCHANGED <<dbOf, tab, dead, store, faults, want>>

Orders(S) == {f \in [1..Cardinality(S) -> S] : Range(f) = S}

TierNext ==
  \/ \E k \in ColdKeys, disk \in Disk :
       \/ ColdGet(k, disk) \/ ColdDel(k, disk) \/ ColdExpire(k, disk) \/ ColdPersist(k, disk)
       \/ (\E enabled \in BOOLEAN : Evict(k, enabled, disk)) \/ DbFlush(dbOf[k], disk)
       \/ \E v \in ColdVals[k], looks \in BOOLEAN : ColdSet(k, v, looks, disk)
       \/ \E dst \in ColdKeys \ {k} : ColdRename(k, dst, disk)
  \/ \E k \in ColdKeys : ColdFlush(dbOf[k])
  \/ \E disk \in Disk, order \in Orders(DOMAIN store.index) : Compact(order, disk)
  \/ Reopen \/ TierTick

TierSpec == TierInit /\ [][TierNext]_tierVars

-----------------------------------------------------------------------------
(* Properties.                                                             *)

\* What a lookup of k would find, whether it has to materialise it or not.
Seen(k) ==
  IF tab[k] = Gone \/ (dead[k] # 0 /\ dead[k] <= clock) THEN Gone
  ELSE IF tab[k].is = "hot" THEN [v |-> tab[k].v, x |-> dead[k]]
  ELSE IF tab[k].rid \notin DOMAIN store.index THEN [lost |-> tab[k].rid]
  ELSE LET rec == RecordOf(store, tab[k].rid) IN [v |-> rec.v, x |-> rec.x]

\* Offloading is invisible: whatever was written, moved to the log, brought
\* back, renamed, compacted or replayed, a key has the value and the deadline it
\* would have without the tier ("the hot hash table stores a 17-byte tier-ref",
\* tier.h), also when reads and writes of the log fail.
ColdReadsBack == \A k \in ColdKeys : Seen(k) = Wanted(k)

\* The index that puts, deletions, flushes and compactions maintain is the one
\* that replaying the log gives, and no id that is given out next is in use: a
\* restart sees neither more nor fewer records.
ReplayExact ==
  ~store.failed /\ Opens(store) =>
    LET r == ReplayLog(store.log) IN
    /\ r.index = store.index
    /\ \A rid \in DOMAIN store.index : rid < r.next /\ r.next <= store.next

\* A log that no write has failed on can be opened again.
AlwaysOpens == ~store.failed => Opens(store)

\* Every live record belongs to a key.
NoOrphans == DOMAIN store.index \subseteq {tab[k].rid : k \in {j \in ColdKeys : tab[j].is = "cold"}}
=============================================================================
