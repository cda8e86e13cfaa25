------------------------------ MODULE RhTable ------------------------------
(***************************************************************************)
(* core/rhtable.c: the Robin Hood open-addressing table that holds every   *)
(* keyspace, hash and set, with its incremental rehash.  A growth step     *)
(* keeps the full table aside as `old` and every later operation first     *)
(* moves up to batch occupied buckets of it into the doubled table, so an  *)
(* operation may find the two tables in any intermediate state.            *)
(*                                                                         *)
(* A slot is [key, val, psl] with psl = -1 when it is empty, as in the     *)
(* code; the stored 64-bit hash is `hash[key]`, chosen once, any function  *)
(* from HashFns.  Key and value bytes, the LRU meta word and the ownership *)
(* of the kv block are left out.                                           *)
(***************************************************************************)
EXTENDS Integers, FiniteSets

CONSTANTS Keys, Vals, Absent,
          HashFns,     \* the hash functions to consider
          InitCap,     \* RH_INIT_CAP
          Batches,     \* values of RH_MIGRATE_BATCH to consider
          MaxSize      \* bound: rh_set inserts only below this size

VARIABLES hash,        \* rh_hash
          batch,       \* RH_MIGRATE_BATCH, a member of Batches
          t,           \* the rh_table
          reply        \* what the last operation returned

vars == <<hash, batch, t, reply>>

Empty == [key |-> Absent, val |-> Absent, psl |-> -1]

\* An empty slot array (every psl = -1), and the absent old table.
AllocSlots(cap) == [i \in 0 .. cap - 1 |-> Empty]
NoTable == <<>>

Cap(slots) == Cardinality(DOMAIN slots)
Occupied(slots) == {i \in DOMAIN slots : slots[i].psl >= 0}
Home(slots, k) == hash[k] % Cap(slots)

\* rh_growth_limit: 85% of the capacity, rounded down.
GrowthLimit(cap) == (cap * 85) \div 100

Least(S) == CHOOSE x \in S : \A y \in S : x <= y
-----------------------------------------------------------------------------
(***************************************************************************)
(* The algorithms on one slot array.                                       *)
(***************************************************************************)

\* One probe of rh_insert_entry at slot i: c.e is the entry in hand, its psl
\* the distance probed so far.  It takes an empty slot, displaces an entry that
\* is closer to its home and goes on with that one, or passes.
Probe(c, i) ==
    LET here == c.slots[i] IN
    IF c.e = Empty THEN c
    ELSE IF here.psl < 0 THEN [slots |-> [c.slots EXCEPT ![i] = c.e], e |-> Empty]
    ELSE IF here.psl < c.e.psl
         THEN [slots |-> [c.slots EXCEPT ![i] = c.e], e |-> [here EXCEPT !.psl = @ + 1]]
    ELSE [c EXCEPT !.e.psl = @ + 1]

InsertEntry(slots, k, v) ==
    LET cap == Cap(slots)
        h == Home(slots, k)
        after[n \in 0 .. cap] ==
            IF n = 0 THEN [slots |-> slots, e |-> [key |-> k, val |-> v, psl |-> 0]]
            ELSE Probe(after[n - 1], (h + n - 1) % cap)
    IN  after[cap].slots

\* The index of k's entry, or -1: the walk from the home slot ends at the key, at
\* an empty slot, or at an entry closer to its home than the walk is.
FindIn(slots, k) ==
    LET cap == Cap(slots)
        h == Home(slots, k)
        d == Least({n \in 0 .. cap - 1 : LET e == slots[(h + n) % cap]
                                         IN  e.psl < n \/ e.key = k})
        i == (h + d) % cap
    IN  IF slots[i].psl >= d THEN i ELSE -1

DeletePastHome(slots, i) ==
    LET cap == Cap(slots)
        run == Least({d \in 0 .. cap - 1 : slots[(i + d + 1) % cap].psl < 0})
        off(j) == (j - i) % cap
    IN  [j \in DOMAIN slots |->
            IF off(j) < run THEN [slots[(j + 1) % cap] EXCEPT !.psl = @ - 1]
            ELSE IF off(j) = run THEN Empty
            ELSE slots[j]]

\* Backward-shift deletion: the entries after i move down one slot, up to the
\* next empty slot or entry at its home.
DeleteAt(slots, i) ==
    LET cap == Cap(slots)
        run == Least({d \in 0 .. cap - 1 : slots[(i + d + 1) % cap].psl <= 0})
        off(j) == (j - i) % cap
    IN  [j \in DOMAIN slots |->
            IF off(j) < run THEN [slots[(j + 1) % cap] EXCEPT !.psl = @ - 1]
            ELSE IF off(j) = run THEN Empty
            ELSE slots[j]]
-----------------------------------------------------------------------------
(***************************************************************************)
(* The two tables together.                                                *)
(***************************************************************************)

\* One bucket of the sweep of rh_migrate_some_slow: an occupied one is inserted
\* into the new table and left empty in the old.
MoveBucket(m, i) ==
    IF m.moved = batch \/ m.t.oldLive = 0 THEN m
    ELSE IF m.t.old[i].psl < 0 THEN [m EXCEPT !.t.pos = i + 1]
    ELSE [t |-> [m.t EXCEPT
                    !.slots = InsertEntry(@, m.t.old[i].key, m.t.old[i].val),
                    !.old[i] = Empty,
                    !.oldLive = @ - 1,
                    !.pos = i + 1],
          moved |-> m.moved + 1]

Drained(tb) == IF tb.oldLive = 0 THEN [tb EXCEPT !.old = NoTable, !.pos = 0] ELSE tb

MigrateSome(tb) ==
    IF tb.old = NoTable THEN tb
    ELSE LET after[i \in tb.pos .. Cap(tb.old)] ==
                 IF i = tb.pos THEN [t |-> tb, moved |-> 0]
                 ELSE MoveBucket(after[i - 1], i - 1)
         IN  Drained(after[Cap(tb.old)].t)

\* Not while a migration is in flight; otherwise when one more entry would pass
\* the limit, the table is set aside and replaced by one of twice the size.
MaybeGrow(tb) ==
    IF tb.old # NoTable \/ tb.size + 1 <= GrowthLimit(Cap(tb.slots)) THEN tb
    ELSE [tb EXCEPT !.slots = AllocSlots(2 * Cap(tb.slots)),
                    !.old = tb.slots, !.oldLive = tb.size, !.pos = 0]

\* Where an operation finds a key: in the new table first, then in the old one.
InNew(tb, k) == FindIn(tb.slots, k) >= 0
InOld(tb, k) == ~InNew(tb, k) /\ tb.old # NoTable /\ FindIn(tb.old, k) >= 0

Value(tb, k) == IF InNew(tb, k) THEN tb.slots[FindIn(tb.slots, k)].val
                ELSE IF InOld(tb, k) THEN tb.old[FindIn(tb.old, k)].val
                ELSE Absent

InsertUncounted(tb, k, v) ==
    LET g == MaybeGrow(tb) IN
    [g EXCEPT !.slots = InsertEntry(@, k, v)]

InsertNew(tb, k, v) ==
    LET g == MaybeGrow(tb) IN
    [g EXCEPT !.slots = InsertEntry(@, k, v), !.size = @ + 1]
-----------------------------------------------------------------------------
Init == /\ hash \in HashFns
        /\ batch \in Batches
        /\ t = [slots |-> AllocSlots(InitCap), old |-> NoTable,
                size |-> 0, oldLive |-> 0, pos |-> 0]
        /\ reply = Absent

\* rh_get and rh_get_touch: even a read moves a batch.
Get(k) ==
    /\ t' = MigrateSome(t)
    /\ reply' = Value(t', k)
    /\ UNCHANGED <<hash, batch>>

\* rh_set and rh_set_ex2: overwrite the entry found, in either table, or insert.
Set(k, v) ==
    LET m == MigrateSome(t) IN
    /\ InNew(m, k) \/ InOld(m, k) \/ m.size < MaxSize
    /\ t' = IF InNew(m, k) THEN [m EXCEPT !.slots[FindIn(m.slots, k)].val = v]
            ELSE IF InOld(m, k) THEN [m EXCEPT !.old[FindIn(m.old, k)].val = v]
            ELSE InsertNew(m, k, v)
    /\ reply' = IF InNew(m, k) \/ InOld(m, k) THEN 1 ELSE 0
    /\ UNCHANGED <<hash, batch>>

DelKeepsOldLive(k) ==
    LET m == MigrateSome(t) IN
    /\ t' = IF InNew(m, k)
            THEN [m EXCEPT !.slots = DeleteAt(@, FindIn(m.slots, k)), !.size = @ - 1]
            ELSE IF InOld(m, k)
            THEN [m EXCEPT !.old = DeleteAt(@, FindIn(m.old, k)), !.size = @ - 1]
            ELSE m
    /\ reply' = IF InNew(m, k) \/ InOld(m, k) THEN 1 ELSE 0
    /\ UNCHANGED <<hash, batch>>

\* rh_del; the last entry of the old table may go this way, the array is then
\* freed by the next operation.
Del(k) ==
    LET m == MigrateSome(t) IN
    /\ t' = IF InNew(m, k)
            THEN [m EXCEPT !.slots = DeleteAt(@, FindIn(m.slots, k)), !.size = @ - 1]
            ELSE IF InOld(m, k)
            THEN [m EXCEPT !.old = DeleteAt(@, FindIn(m.old, k)),
                           !.oldLive = @ - 1, !.size = @ - 1]
            ELSE m
    /\ reply' = IF InNew(m, k) \/ InOld(m, k) THEN 1 ELSE 0
    /\ UNCHANGED <<hash, batch>>

Next == \E k \in Keys : Get(k) \/ Del(k) \/ (\E v \in Vals : Set(k, v))

Spec == Init /\ [][Next]_vars
-----------------------------------------------------------------------------
(***************************************************************************)
(* Properties.                                                             *)
(***************************************************************************)

\* "old_live should hit 0 first" (rh_migrate_some_slow): the sweep of the old
\* table can never pass an entry.  Every entry the old table still holds lies at or
\* after migrate_pos, old_live counts exactly those (a backward shift by rh_del in
\* the middle of a migration included), and size counts the entries of both.
SweepMissesNothing ==
    LET left == IF t.old = NoTable THEN {} ELSE Occupied(t.old) IN
    /\ \A i \in left : i >= t.pos
    /\ t.oldLive = Cardinality(left)
    /\ t.size = Cardinality(Occupied(t.slots)) + t.oldLive

\* What rh_find_in's early exit needs of the new table in every state, with
\* insertions, backward shifts and migrated buckets mixed in any order: each
\* entry's psl is its distance from its home, and no slot between its home and it
\* holds an entry (or a hole) closer to home than the walk.
NewTableIsRobinHood ==
    LET cap == Cap(t.slots) IN
    \A i \in Occupied(t.slots) :
        LET e == t.slots[i] IN
        /\ e.psl = (i - Home(t.slots, e.key)) % cap
        /\ \A d \in 0 .. e.psl - 1 :
              t.slots[(Home(t.slots, e.key) + d) % cap].psl >= d

\* Half of what every operation may meet: the old table goes in one batch (as
\* the first growth of every table does: RH_INIT_CAP = 16 holds at most 13
\* entries, RH_MIGRATE_BATCH = 16).
OneBatch == batch >= InitCap

\* No key has two entries, in one table or across the two (when a batch moves
\* the whole old table): rh_set is an "insert or overwrite".  A second entry would
\* outlive an rh_del of the key and bring its old value back.
OneEntryPerKey ==
    LET left == IF t.old = NoTable THEN {} ELSE Occupied(t.old)
        n(k) == Cardinality({i \in Occupied(t.slots) : t.slots[i].key = k})
                + Cardinality({i \in left : t.old[i].key = k})
    IN  \A k \in Keys : n(k) <= 1

\* "all lookups must succeed at every point (mid-migration included)"
\* (tests/test_rhtable.c): rh_get's two lookups find every key that has an entry in
\* the new or in the old table.
EveryEntryFound ==
    LET left == IF t.old = NoTable THEN {} ELSE Occupied(t.old) IN
    /\ \A i \in Occupied(t.slots) : Value(t, t.slots[i].key) # Absent
    /\ \A i \in left : Value(t, t.old[i].key) # Absent

Map == INSTANCE RhMap WITH map <- [k \in Keys |-> Value(t, k)], reply <- reply

\* A table whose old half goes in one batch implements the map of RhMap, read
\* through the two lookups of rh_get: each operation answers as the map does and
\* changes only what the map changes; the moves of a migration, which every
\* operation carries, are invisible.
IsMap == Map!Init /\ [][OneBatch => Map!Next]_vars
=============================================================================
