-------------------------------- MODULE Hashes --------------------------------
(***************************************************************************)
(* The hash commands of core/command.c, with the per-field deadlines of     *)
(* ds/obj.c.  A hash is a function from fields to [v |-> value, x |->       *)
(* deadline] (0: none).  An expired field stays until a lookup of that      *)
(* field or a purge of the hash removes it.                                 *)
(***************************************************************************)
EXTENDS Db

CONSTANTS MinCount, MaxCount   \* LLONG_MIN and LLONG_MAX of HINCRBY

Text0 == MaxCount + 1           \* a value that is no number
NoFields == [f \in {} |-> [v |-> 0, x |-> 0]]
Fields(d, k) == IF Is(d, k, "hash") THEN d.val[k].v ELSE NoFields
DropFields(h, F) == [f \in DOMAIN h \ F |-> h[f]]
PutField(h, f, v, x) ==
  [g \in DOMAIN h \cup {f} |-> IF g = f THEN [v |-> v, x |-> x] ELSE h[g]]

Dead(h, now) == {f \in DOMAIN h : h[f].x # 0 /\ h[f].x <= now}

\* obj_hash_get_at: a dead field is deleted by the lookup.
GetAt(h, now, f) == DropFields(h, {f} \cap Dead(h, now))
\* obj_hash_set_at: the field's deadline goes, or is retained if still ahead.
SetAt(h, now, f, v, keep) ==
  PutField(h, f, v, IF keep /\ f \in DOMAIN h \ Dead(h, now) THEN h[f].x ELSE 0)
\* obj_hash_purge_expired scans the deadlines while it deletes from them, so
\* one pass may skip some: any non-empty part of the dead fields goes.
Purged(h, now) ==
  IF Dead(h, now) = {} THEN {h}
  ELSE {DropFields(h, F) : F \in (SUBSET Dead(h, now)) \ {{}}}

\* The outcomes of a purge of k, and of the purge and the deletion of an
\* emptied key that end the commands with deadlines.  The purge follows
\* mem_sync.
Purge(d, k) == {Mutate(d, k, h) : h \in Purged(Fields(d, k), d.now)}
PurgeAndDrop(d, k) ==
  UNION {{DropIfEmpty(f, k) : f \in Purge(e, k)} : e \in Purge(d, k)}
ReplyAll(S) == {Ok(d) : d \in S}

----------------------------------------------------------------------------
(* Writes.                                                                  *)

\* HSET and HMSET; P maps the fields to their values.
SetFields(d, k, P, keep) ==
  FoldSet(LAMBDA f, h : SetAt(h, d.now, f, P[f], keep), Fields(d, k), DOMAIN P)
HSet(d0, k, P) ==
  LET d == DbGet(d0, k)
      c == GetOrCreate(d, k, Hash(NoFields))
  IN IF OomBlocked(d0) THEN Err(d0)
     ELSE IF Wrong(d, k, "hash") THEN Err(d)
     ELSE Ok(Update(c, k, SetFields(c, k, P, FALSE)))

\* HDEL touches the key even when no field was there to delete.
HDel(d0, k, F) ==
  LET d == DbGet(d0, k) IN
  IF Wrong(d, k, "hash") THEN Err(d)
  ELSE IF ~Exists(d, k) THEN Ok(d)
  ELSE Ok(Shrink(d, k, DropFields(Fields(d, k), F)))

\* HINCRBY and HINCRBYFLOAT: the key is created before the field is read.
HIncrBy(d0, k, f, by) ==
  LET d == DbGet(d0, k)
      c == GetOrCreate(d, k, Hash(NoFields))
      g == Mutate(c, k, GetAt(Fields(c, k), d.now, f))
      h == Fields(g, k)
      cur == IF f \in DOMAIN h THEN h[f].v ELSE 0
  IN IF OomBlocked(d0) THEN Err(d0)
     ELSE IF Wrong(d, k, "hash") THEN Err(d)
     ELSE IF cur = Text0 \/ cur + by \notin MinCount..MaxCount THEN Err(g)
     ELSE Ok(Update(g, k, SetAt(h, d.now, f, cur + by, FALSE)))

\* HSETNX.
HSetNx(d0, k, f, v) ==
  LET d == DbGet(d0, k)
      c == GetOrCreate(d, k, Hash(NoFields))
      g == Mutate(c, k, GetAt(Fields(c, k), d.now, f))
  IN IF OomBlocked(d0) THEN Err(d0)
     ELSE IF Wrong(d, k, "hash") THEN Err(d)
     ELSE IF f \in DOMAIN Fields(g, k) THEN Ok(g)
     ELSE Ok(Update(g, k, SetAt(Fields(g, k), d.now, f, v, FALSE)))

----------------------------------------------------------------------------
(* Commands with field deadlines: the outcomes, one for every purge.        *)

\* HSETEX k [FNX|FXX] [KEEPTTL|deadline] field value; opt is "none", "keep"
\* or "at".
HSetEx(d0, k, f, v, cond, opt, when) ==
  LET d == DbGet(d0, k)
      c == GetOrCreate(d, k, Hash(NoFields))
      g == IF cond = "none" THEN c
           ELSE Mutate(c, k, GetAt(Fields(c, k), d.now, f))
      has == f \in DOMAIN Fields(g, k)
      h == SetAt(Fields(g, k), d.now, f, v, opt # "none")
      w == Update(g, k, IF opt = "at" THEN PutField(GetAt(h, d.now, f), f, v, when)
                        ELSE h)
  IN IF Wrong(d, k, "hash") THEN {Err(d)}
     ELSE IF cond = "FXX" /\ ~Exists(d, k) THEN {Ok(d)}
     ELSE IF (cond = "FXX" /\ ~has) \/ (cond = "FNX" /\ has) THEN {Ok(g)}
     ELSE ReplyAll(PurgeAndDrop(w, k))

\* The tail of HGETEX, HEXPIRE, HTTL and HPERSIST: the field is looked up,
\* Change(h) applied when it is there, then mem_sync, purge and drop.
OnField(d0, k, f, Change(_)) ==
  LET d == DbGet(d0, k)
      g == GetAt(Fields(d, k), d.now, f)
      h == IF f \in DOMAIN g THEN Change(g) ELSE g
  IN IF Wrong(d, k, "hash") THEN {Err(d)}
     ELSE IF ~Exists(d, k) THEN {Ok(d)}
     ELSE ReplyAll(PurgeAndDrop(Update(d, k, h), k))

\* HGETEX [PERSIST|deadline].
HGetEx(d, k, f, opt, when) ==
  OnField(d, k, f, LAMBDA h : CASE opt = "none"    -> h
                                [] opt = "persist" -> [h EXCEPT ![f].x = 0]
                                [] opt = "at"      -> [h EXCEPT ![f].x = when])
\* HEXPIRE and its relatives [NX|XX|GT|LT]: a deadline in the past deletes.
ExpireAllowed(cond, cur, when) ==
  CASE cond = "none" -> TRUE
    [] cond = "NX"   -> cur = 0
    [] cond = "XX"   -> cur # 0
    [] cond = "GT"   -> cur # 0 /\ when > cur
    [] cond = "LT"   -> cur # 0 /\ when < cur
HExpire(d, k, f, cond, when) ==
  OnField(d, k, f, LAMBDA h : IF ~ExpireAllowed(cond, h[f].x, when) THEN h
                              ELSE IF when <= d.now THEN DropFields(h, {f})
                              ELSE [h EXCEPT ![f].x = when])
\* HTTL and its relatives change nothing of the field, HPERSIST its deadline.
HTtl(d, k, f) == OnField(d, k, f, LAMBDA h : h)
HPersist(d, k, f) == OnField(d, k, f, LAMBDA h : [h EXCEPT ![f].x = 0])
\* HGETDEL purges once, when it asks for the length.
HGetDel(d0, k, f) ==
  LET d == DbGet(d0, k)
      w == Update(d, k, DropFields(Fields(d, k), {f}))
  IN IF Wrong(d, k, "hash") THEN {Err(d)}
     ELSE IF ~Exists(d, k) THEN {Ok(d)}
     ELSE ReplyAll({DropIfEmpty(e, k) : e \in Purge(w, k)})

----------------------------------------------------------------------------
(* Reads.  A lookup of a dead field and the purge of HLEN and HGETALL change *)
(* the hash in place: no mem_sync follows, and an emptied key stays.         *)

\* HGET, HEXISTS and HMGET of one field.
HGet(d0, k, f) ==
  LET d == DbGet(d0, k) IN
  IF Wrong(d, k, "hash") THEN Err(d)
  ELSE IF ~Exists(d, k) THEN Ok(d)
  ELSE Ok(Mutate(d, k, GetAt(Fields(d, k), d.now, f)))
HExists(d, k, f) == HGet(d, k, f)
HMGet(d, k, f)   == HGet(d, k, f)
\* HLEN, HGETALL, HKEYS, HVALS.
HLen(d0, k) ==
  LET d == DbGet(d0, k) IN
  IF Wrong(d, k, "hash") THEN {Err(d)}
  ELSE IF ~Exists(d, k) THEN {Ok(d)}
  ELSE ReplyAll(Purge(d, k))
HGetAll(d, k) == HLen(d, k)
\* HSTRLEN, HRANDFIELD and HSCAN do not look at deadlines.
HStrLen(d, k)    == Read(d, k, "hash")
HRandField(d, k) == Read(d, k, "hash")
HScan(d, k)      == Read(d, k, "hash")

----------------------------------------------------------------------------
(* HIMPORT: a session keeps named lists of fields; HIMPORT SET stores values *)
(* under the fields of one.                                                 *)

\* The field sets of a session are a function from names to field sequences;
\* himport_fieldset_store refuses a repeated field.
HImportPrepare(sets, name, fields) ==
  IF Cardinality(Range(fields)) # Len(fields) THEN sets
  ELSE [n \in DOMAIN sets \cup {name} |-> IF n = name THEN fields ELSE sets[n]]
HImportDiscard(sets, name) == [n \in DOMAIN sets \ {name} |-> sets[n]]
HImportSet(d, sets, k, name, vals) ==
  IF name \notin DOMAIN sets THEN Err(d)
  ELSE IF Len(vals) # Len(sets[name]) THEN Err(d)
  ELSE HSet(d, k, [f \in Range(sets[name]) |->
                     vals[CHOOSE i \in DOMAIN vals : sets[name][i] = f]])
=============================================================================
