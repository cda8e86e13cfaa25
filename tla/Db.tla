---------------------------------- MODULE Db ----------------------------------
(***************************************************************************)
(* One logical database of core/command.c and the helpers every data       *)
(* command goes through: expire-aware lookup, the two set paths, the two    *)
(* delete paths, the memory accounting of objects changed in place, the     *)
(* noeviction check and the allkeys-lru eviction.                           *)
(*                                                                         *)
(* A database is a record, a command an operator from a database to the     *)
(* database it leaves behind.  Beside the tables the record carries what    *)
(* the rest of the server reads off a command: the keys it passed to        *)
(* db_touch_key (which moves db.dirty, the trigger of the AOF and of        *)
(* replication, and the WATCH version of the key) and the replies it wrote. *)
(*                                                                         *)
(* A value is [t |-> tag, v |-> payload]: a string is a sequence of         *)
(* characters, a hash a function from fields to [v |-> value, x |->         *)
(* deadline], a list a sequence, a set a set, a sorted set a function from  *)
(* members to scores, an array a record.                                    *)
(***************************************************************************)
EXTENDS Integers, FiniteSets, Sequences, FiniteSetsExt, Functions

CONSTANT
  Keys    \* the keys clients name

----------------------------------------------------------------------------
(* Values.                                                                  *)

None == [t |-> "none", v |-> <<>>]

Str(s)   == [t |-> "string", v |-> s]
Hash(h)  == [t |-> "hash",   v |-> h]
List(l)  == [t |-> "list",   v |-> l]
SetOf(m) == [t |-> "set",    v |-> m]
Zset(z)  == [t |-> "zset",   v |-> z]
Array(a) == [t |-> "array",  v |-> a]

\* Number of elements an object holds (a string: its length).
Size(x) ==
  CASE x.t \in {"string", "list"} -> Len(x.v)
    [] x.t \in {"hash", "zset"}   -> Cardinality(DOMAIN x.v)
    [] x.t = "set"                -> Cardinality(x.v)
    [] x.t = "array"              -> Cardinality(DOMAIN x.v.el)
    [] OTHER                      -> 0

\* entry_bytes and obj_extra_mem in abstract units: the table entry costs
\* one, every character or element one more, an entry of expires (of the
\* database or of a hash's fields) one.  An array keeps its own count.
EntryBytes == 1
ExpiryBytes == 1
ObjMem(x) ==
  CASE x.t = "hash"  -> Size(x) + Cardinality({f \in DOMAIN x.v : x.v[f].x # 0})
    [] x.t = "array" -> x.v.mem
    [] OTHER         -> Size(x)
MemOf(x) == IF x.t = "none" THEN 0 ELSE EntryBytes + ObjMem(x)

----------------------------------------------------------------------------
(* The database.  val and exp are db.table and db.expires (0: no entry);    *)
(* max is maxmemory (0: unlimited) and policy maxmemory_policy; touched and *)
(* out are the keys touched and the replies written by the last command.    *)

EmptyDb(max, policy) ==
  [val |-> [k \in Keys |-> None], exp |-> [k \in Keys |-> 0], mem |-> 0,
   now |-> 0, max |-> max, policy |-> policy, touched |-> {}, out |-> <<>>]

Begin(d) == [d EXCEPT !.touched = {}, !.out = <<>>]

\* A reply, and the error replies of the early returns.
Ok(d)  == [d EXCEPT !.out = Append(@, "ok")]
Err(d) == [d EXCEPT !.out = Append(@, "err")]

Exists(d, k) == d.val[k].t # "none"
Is(d, k, t)  == d.val[k].t = t
Wrong(d, k, t) == d.val[k].t \notin {"none", t}
Expired(d, k) == d.exp[k] # 0 /\ d.exp[k] <= d.now

\* db_touch_key: db.dirty++ and, under WATCH, a new version of the key.
Touch(d, k) == [d EXCEPT !.touched = @ \cup {k}]

\* Drop the entry of expires, if there is one.
ClearExpiry(d, k) ==
  IF d.exp[k] = 0 THEN d
  ELSE [d EXCEPT !.exp[k] = 0, !.mem = @ - ExpiryBytes]

\* db_set_expiry: no touch.
SetExpiry(d, k, when) ==
  [d EXCEPT !.exp[k] = when,
            !.mem = @ + (IF d.exp[k] = 0 THEN ExpiryBytes ELSE 0)]

\* db_expire_if_needed.
ExpireIfNeeded(d, k) ==
  IF ~Expired(d, k) THEN d
  ELSE LET e == ClearExpiry(d, k) IN
       Touch([e EXCEPT !.val[k] = None, !.mem = @ - MemOf(d.val[k])], k)

\* db_get: the lookup every command starts with.
DbGet(d, k) == ExpireIfNeeded(d, k)

\* A mutant: the replaced value stays on the books.
OverwriteLeaks(d, k, x) ==
  Touch([d EXCEPT !.val[k] = x, !.mem = @ + MemOf(x)], k)

\* The overwrite db_set_kv and db_set_kv_string share.
Overwrite(d, k, x) ==
  Touch([d EXCEPT !.val[k] = x, !.mem = @ - MemOf(d.val[k]) + MemOf(x)], k)

\* db_set_kv and db_set_string clear the expiry, db_set_string_keep_ttl
\* retains it.
SetKv(d, k, x) == Overwrite(ClearExpiry(d, k), k, x)
SetString(d, k, s) == SetKv(d, k, Str(s))
SetStringKeepTtl(d, k, s) == Overwrite(d, k, Str(s))

\* db_del_kv.
DelKv(d, k) ==
  LET e == ClearExpiry(d, k) IN
  IF ~Exists(d, k) THEN e
  ELSE Touch([e EXCEPT !.val[k] = None, !.mem = @ - MemOf(d.val[k])], k)

\* db_del_kv_keep_obj: the object has moved to another key.  Only the entry's
\* own bytes go, which hold a string but not an object.
DelKvKeepObj(d, k) ==
  LET e == ClearExpiry(d, k)
      bytes == EntryBytes + (IF Is(d, k, "string") THEN ObjMem(d.val[k]) ELSE 0)
  IN IF ~Exists(d, k) THEN e
     ELSE Touch([e EXCEPT !.val[k] = None, !.mem = @ - bytes], k)

\* A mutant: the memory is adjusted, the key is not touched.
MemSyncUntouched(d, k, before) == [d EXCEPT !.mem = @ + ObjMem(d.val[k]) - before]

\* An object changed in place, and mem_sync: the difference of the object's
\* size since before is folded into used_memory, and the key is touched.
Mutate(d, k, payload) == [d EXCEPT !.val[k].v = payload]
MemSync(d, k, before) ==
  Touch([d EXCEPT !.mem = @ + ObjMem(d.val[k]) - before], k)

\* The usual tail of a write to an object: change, mem_sync, delete the key
\* when the object became empty.
Update(d, k, payload) ==
  MemSync(Mutate(d, k, payload), k, ObjMem(d.val[k]))
DropIfEmpty(d, k) == IF Size(d.val[k]) = 0 THEN DelKv(d, k) ELSE d
Shrink(d, k, payload) == DropIfEmpty(Update(d, k, payload), k)

\* get_hash, get_list, ... with create: a missing key gets an empty object.
GetOrCreate(d, k, empty) ==
  IF Exists(d, k) THEN d ELSE SetKv(d, k, empty)

\* A read of an object: look up, WRONGTYPE, reply.
Read(d0, k, t) ==
  LET d == DbGet(d0, k) IN IF Wrong(d, k, t) THEN Err(d) ELSE Ok(d)

\* A mutant: one entry too late.
OomBlockedLate(d) ==
  d.max # 0 /\ d.policy = "noeviction" /\ d.mem > d.max + EntryBytes

\* oom_blocked.
OomBlocked(d) ==
  d.max # 0 /\ d.policy = "noeviction" /\ d.mem > d.max

----------------------------------------------------------------------------
(* db_evict_if_needed: while over the cap some key goes, the oldest of a    *)
(* random sample.  The clock and the sample are abstracted: any key may be  *)
(* the victim.  The set of outcomes: the victims are deleted one by one, so *)
(* memory was over the cap until the last of them went.                     *)

DelAll(d, S) == FoldSet(LAMBDA k, e : DelKv(e, k), d, S)
Present(d) == {k \in Keys : Exists(d, k)}

EvictIfNeeded(d) ==
  IF d.max = 0 \/ d.policy # "allkeys-lru" \/ d.mem <= d.max THEN {d}
  ELSE LET Enough(S) == DelAll(d, S).mem <= d.max \/ S = Present(d)
           Victims == {S \in SUBSET Present(d) :
                         /\ Enough(S)
                         /\ S # {} => \E k \in S : ~Enough(S \ {k})}
       IN {DelAll(d, S) : S \in Victims}
=============================================================================
