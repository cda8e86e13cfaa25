-------------------------------- MODULE Generic --------------------------------
(***************************************************************************)
(* The commands of core/command.c that work on a key whatever it holds:     *)
(* deletion, expiry, renaming, copying, the listings, SORT, FLUSHDB, and    *)
(* the background expiry cycle.                                             *)
(***************************************************************************)
EXTENDS Strings, Lists, Sets, Zsets, Arrays

\* The keys a listing or a multi-key command visits, each expired lazily.
Visit(d, ks) == FoldLeft(LAMBDA e, k : ExpireIfNeeded(e, k), d, ks)

\* DEL and UNLINK.
Del(d, ks) == Ok(FoldLeft(LAMBDA e, k : DelKv(ExpireIfNeeded(e, k), k), d, ks))

\* EXISTS, TOUCH, TYPE, TTL, EXPIRETIME, OBJECT, and DUMP of a missing or live
\* key look the key up; KEYS, SCAN and RANDOMKEY expire what they meet; DBSIZE
\* reads the table.
ExistsCmd(d, ks) == Ok(Visit(d, ks))
TouchCmd(d, ks)  == Ok(Visit(d, ks))
Type(d, k)       == Ok(ExpireIfNeeded(d, k))
Ttl(d, k)        == Ok(ExpireIfNeeded(d, k))
ExpireTime(d, k) == Ok(ExpireIfNeeded(d, k))
Object(d, k)     == Ok(ExpireIfNeeded(d, k))
Dump(d, k)       == Ok(ExpireIfNeeded(d, k))
KeysCmd(d)       == Ok(Visit(d, SetToSeq(Keys)))
Scan(d, S)       == Ok(Visit(d, SetToSeq(S)))
RandomKey(d, S)  == Ok(Visit(d, SetToSeq(S)))
DbSize(d)        == Ok(d)

\* EXPIRE, PEXPIRE, EXPIREAT, PEXPIREAT [NX|XX] [GT|LT]: a key without a
\* deadline passes GT and fails LT.  A new deadline does not touch the key.
ExpireAdmits(cur, cond, cmp, when) ==
  /\ cond = "NX" => cur = 0
  /\ cond = "XX" => cur # 0
  /\ cmp = "GT" => cur = 0 \/ when > cur
  /\ cmp = "LT" => cur # 0 /\ when < cur
Expire(d0, k, cond, cmp, when) ==
  LET d == DbGet(d0, k) IN
  IF ~Exists(d, k) \/ ~ExpireAdmits(d.exp[k], cond, cmp, when) THEN Ok(d)
  ELSE IF when <= d.now THEN Ok(DelKv(d, k))
  ELSE Ok(SetExpiry(d, k, when))

\* PERSIST: no touch either.
Persist(d, k) == Ok(ClearExpiry(ExpireIfNeeded(d, k), k))

\* RENAME and RENAMENX: the blob moves to dst with src's deadline.
Rename(d0, src, dst, nx) ==
  LET d == ExpireIfNeeded(ExpireIfNeeded(d0, src), dst)
      w == SetKv(d, dst, d.val[src])
      x == IF d.exp[src] # 0 THEN SetExpiry(w, dst, d.exp[src]) ELSE w
  IN IF ~Exists(d, src) \/ src = dst THEN Err(d)
     ELSE IF nx /\ Exists(d, dst) THEN Ok(d)
     ELSE IF OomBlocked(d) THEN Err(d)
     ELSE Ok(DelKvKeepObj(x, src))

\* What a dump keeps of a value: not the deadlines of hash fields, and of an
\* array's length what its occupied slots imply.
Restored(x) ==
  CASE x.t = "hash" -> {Hash([f \in DOMAIN x.v |-> [x.v[f] EXCEPT !.x = 0]])}
    [] x.t = "array" ->
         LET used == DOMAIN x.v.el IN
         {Array([x.v EXCEPT !.len = IF used = {} THEN 0 ELSE Max(used) + 1,
                            !.mem = Len(x.v.hist) + n]) : n \in 0..Cardinality(used)}
    [] OTHER -> {x}

\* snapshot_restore_key, and RESTORE and COPY on top of it.
RestoreKey(d0, k, x, when, replace) ==
  LET d == ExpireIfNeeded(d0, k)
      w == SetKv(d, k, x)
  IN IF ~replace /\ Exists(d, k) THEN Err(d)
     ELSE Ok(IF when = 0 THEN w ELSE SetExpiry(w, k, when))
\* x = None is a payload that does not parse.
Restore(d, k, x, when, replace) ==
  IF OomBlocked(d) THEN Err(d)
  ELSE IF x = None THEN Err(ExpireIfNeeded(d, k))
  ELSE RestoreKey(d, k, x, when, replace)
Copy(d0, src, dst, replace) ==
  LET d == ExpireIfNeeded(d0, src) IN
  IF ~Exists(d, src) \/ OomBlocked(d) THEN {Err(d)}
  ELSE {RestoreKey(d, dst, x, d.exp[src], replace) : x \in Restored(d.val[src])}

\* FLUSHDB empties the tables; every watched key counts as changed.
FlushDb(d) ==
  Ok([EmptyDb(d.max, d.policy) EXCEPT !.now = d.now, !.touched = Keys])

\* db_active_expire: the expired keys among those sampled.
ActiveExpire(d, S) == Visit(d, SetToSeq(S))

----------------------------------------------------------------------------
(* SORT.  A BY or GET pattern turns an element into a key: here the key of   *)
(* the same name, if there is one.                                          *)

Sortable(d, k) ==
  CASE Is(d, k, "list") -> Elems(d, k)
    [] Is(d, k, "set")  -> SetToSortSeq(Members(d, k), <)
    [] Is(d, k, "zset") -> LET z == Scores(d, k) IN
                           SetToSortSeq(DOMAIN z, LAMBDA a, b : Before(z, a, b))
    [] OTHER            -> <<>>

\* sort_pattern_lookup of every element, in order, until one finds a key that
\* holds no string.
Lookups(d, es) ==
  FoldLeft(LAMBDA a, e : IF a.stop \/ e \notin Keys THEN a
                         ELSE LET f == DbGet(a.d, e) IN
                              [d |-> f, stop |-> Wrong(f, e, "string")],
           [d |-> d, stop |-> FALSE], es)
\* The weight BY gives an element: the number its key holds, 0 if it is missing.
Weight(d, e) == IF e \in Keys THEN Number(d, e) ELSE 0
Unweighable(d, e) == e \in Keys /\ NotANumber(d, e)
\* What GET yields: a one-character string as a list element, Nul if missing.
Fetched(d, e) == IF e \in Keys /\ Exists(d, e) THEN Head(Text(d, e)) ELSE Nul

\* SORT src [BY *] [GET *] [DESC] [LIMIT from n] [STORE dst]; dst = 0: no STORE.
\* Without STORE the array header precedes the GET lookups.
SortCmd(d0, src, by, get, desc, from, n, dst) ==
  LET d == DbGet(d0, src)
      all == Sortable(d, src)
      p == IF by THEN Lookups(d, all) ELSE [d |-> d, stop |-> FALSE]
      W(e) == IF by THEN Weight(p.d, e) ELSE e
      Less(a, b) == LET lt == W(a) < W(b) \/ (W(a) = W(b) /\ a < b)
                    IN IF desc THEN a # b /\ ~lt ELSE lt
      es == SubSeq(SortSeq(all, Less), from + 1, Min({from + n, Len(all)}))
      q == IF get THEN Lookups(p.d, es) ELSE [d |-> p.d, stop |-> FALSE]
      res == IF get THEN [i \in DOMAIN es |-> Fetched(q.d, es[i])] ELSE es
  IN IF d.val[src].t \notin {"none", "list", "set", "zset"} THEN Err(d)
     ELSE IF p.stop THEN Err(p.d)
     ELSE IF by /\ \E i \in DOMAIN all : Unweighable(p.d, all[i]) THEN Err(p.d)
     ELSE IF dst = 0 THEN (IF q.stop THEN Err(Ok(q.d)) ELSE Ok(q.d))
     ELSE IF es = <<>> THEN Ok(DelKv(p.d, dst))
     ELSE IF q.stop THEN Err(q.d)
     ELSE Ok(SetKv(q.d, dst, List(res)))
=============================================================================
