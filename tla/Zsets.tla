-------------------------------- MODULE Zsets ---------------------------------
(***************************************************************************)
(* The sorted-set and GEO commands of core/command.c.  A sorted set is a    *)
(* function from members to scores; members are numbers, so that a range    *)
(* is decided by score and then by member.  Positions of GEO members are    *)
(* scores.                                                                  *)
(***************************************************************************)
EXTENDS Db, SequencesExt

NoScores == [m \in {} |-> 0]
Scores(d, k) == IF Is(d, k, "zset") THEN d.val[k].v ELSE NoScores
Put(z, m, s) == [x \in DOMAIN z \cup {m} |-> IF x = m THEN s ELSE z[x]]
Drop(z, M)   == [x \in DOMAIN z \ M |-> z[x]]

\* The order of the skiplist, and the 0-based rank in it.
Before(z, a, b) == z[a] < z[b] \/ (z[a] = z[b] /\ a < b)
Rank(z, m) == Cardinality({x \in DOMAIN z : Before(z, x, m)})

\* The n members at the low or the high end.
Ends(z, n, low) ==
  {m \in DOMAIN z : IF low THEN Rank(z, m) < n
                    ELSE Rank(z, m) >= Cardinality(DOMAIN z) - n}

----------------------------------------------------------------------------
NotAScore == 1000    \* a score argument that parse_double refuses

\* Whether ZADD's options let a member through.
Admits(z, m, s, cond, cmp) ==
  LET has == m \in DOMAIN z IN
  /\ cond = "NX" => ~has
  /\ cond = "XX" => has
  /\ (cmp = "GT" /\ has) => s > z[m]
  /\ (cmp = "LT" /\ has) => s < z[m]

\* ZADD k [NX|XX] [GT|LT] pairs: the key is created (unless XX) before the
\* first score is parsed.  A score that is none ends the command where it
\* stands: what was added stays, without mem_sync.
ZAdd(d0, k, cond, cmp, pairs) ==
  LET d == DbGet(d0, k)
      c == GetOrCreate(d, k, Zset(NoScores))
      Step(a, p) ==
        IF a.bad THEN a
        ELSE IF p[2] = NotAScore THEN [a EXCEPT !.bad = TRUE]
        ELSE IF Admits(a.z, p[1], p[2], cond, cmp)
          THEN [a EXCEPT !.z = Put(@, p[1], p[2])]
        ELSE a
      r == FoldLeft(Step, [z |-> Scores(c, k), bad |-> FALSE], pairs)
  IN IF Wrong(d, k, "zset") THEN Err(d)
     ELSE IF cond = "XX" /\ ~Exists(d, k) THEN Ok(d)
     ELSE IF r.bad THEN Err(Mutate(c, k, r.z))
     ELSE Ok(Update(c, k, r.z))

\* ZADD ... INCR: one pair, parsed before the key is created.
ZAddIncr(d0, k, cond, cmp, m, by) ==
  LET d == DbGet(d0, k)
      c == GetOrCreate(d, k, Zset(NoScores))
      z == Scores(c, k)
      s == (IF m \in DOMAIN z THEN z[m] ELSE 0) + by
  IN IF by = NotAScore THEN Err(d0)
     ELSE IF Wrong(d, k, "zset") THEN Err(d)
     ELSE IF cond = "XX" /\ ~Exists(d, k) THEN Ok(d)
     ELSE IF ~Admits(z, m, s, cond, cmp) THEN Ok(c)
     ELSE Ok(Update(c, k, Put(z, m, s)))

\* ZINCRBY.
ZIncrBy(d0, k, m, by) ==
  LET d == DbGet(d0, k)
      c == GetOrCreate(d, k, Zset(NoScores))
      z == Scores(c, k)
  IN IF OomBlocked(d0) THEN Err(d0)
     ELSE IF Wrong(d, k, "zset") THEN Err(d)
     ELSE Ok(Update(c, k, Put(z, m, (IF m \in DOMAIN z THEN z[m] ELSE 0) + by)))

\* The tail the removing commands share: members M go.
RemoveMembers(d0, k, M(_)) ==
  LET d == DbGet(d0, k) z == Scores(d, k) IN
  IF Wrong(d, k, "zset") THEN Err(d)
  ELSE IF ~Exists(d, k) THEN Ok(d)
  ELSE Ok(Shrink(d, k, Drop(z, M(z))))

\* ZREM, ZREMRANGEBYSCORE, ZREMRANGEBYLEX, ZREMRANGEBYRANK (whose indexes are
\* clamped), ZPOPMIN and ZPOPMAX.
ZRem(d, k, M) == RemoveMembers(d, k, LAMBDA z : M)
ZRemRangeByScore(d, k, lo, hi) ==
  RemoveMembers(d, k, LAMBDA z : {m \in DOMAIN z : z[m] \in lo..hi})
ZRemRangeByLex(d, k, lo, hi) ==
  RemoveMembers(d, k, LAMBDA z : {m \in DOMAIN z : m \in lo..hi})
Clamped(n, i) == IF i < 0 THEN i + n ELSE i
ZRemRangeByRank(d, k, from, to) ==
  RemoveMembers(d, k, LAMBDA z : LET n == Cardinality(DOMAIN z) IN
                          {m \in DOMAIN z : /\ Rank(z, m) >= Clamped(n, from)
                                            /\ Rank(z, m) <= Clamped(n, to)})
ZPop(d, k, low, count) == RemoveMembers(d, k, LAMBDA z : Ends(z, count, low))

\* ZMPOP: the first of the keys that holds a non-empty sorted set.
ZMPop(d0, order, low, count) ==
  LET Look(a, k) ==
        IF a.hit # 0 THEN a
        ELSE LET f == DbGet(a.d, k) IN
             [d |-> f, hit |-> IF Size(f.val[k]) > 0 \/ Wrong(f, k, "zset")
                               THEN k ELSE 0]
      p == FoldLeft(Look, [d |-> d0, hit |-> 0], order)
  IN IF p.hit = 0 THEN Ok(p.d) ELSE ZPop(p.d, p.hit, low, count)

\* The readers.
ZScore(d, k)        == Read(d, k, "zset")
ZCard(d, k)         == Read(d, k, "zset")
ZRange(d, k)        == Read(d, k, "zset")
ZRank(d, k)         == Read(d, k, "zset")
ZCount(d, k)        == Read(d, k, "zset")
ZRangeByScore(d, k) == Read(d, k, "zset")
ZMScore(d, k)       == Read(d, k, "zset")
ZRandMember(d, k)   == Read(d, k, "zset")
ZRangeByLex(d, k)   == Read(d, k, "zset")
ZLexCount(d, k)     == Read(d, k, "zset")
ZRevRangeByScore(d, k) == Read(d, k, "zset")

----------------------------------------------------------------------------
(* The sorted-set operations: zset_resolve_operands, the three builders and *)
(* zset_store_result (an empty result deletes the destination; there is no  *)
(* noeviction check).                                                       *)

ZResolve(d, order) ==
  FoldLeft(LAMBDA a, k : IF a.stop THEN a
                         ELSE LET f == DbGet(a.d, k) IN
                              [d |-> f, stop |-> Wrong(f, k, "zset")],
           [d |-> d, stop |-> FALSE], order)

Aggregate(agg, a, b) ==
  CASE agg = "sum" -> a + b
    [] agg = "min" -> IF a < b THEN a ELSE b
    [] agg = "max" -> IF a > b THEN a ELSE b

\* The score of m over the operands that have it, each times its weight.
Aggregated(zs, w, agg, m) ==
  LET has == SelectSeq([i \in DOMAIN zs |-> i],
                       LAMBDA i : m \in DOMAIN zs[i])
      Of(i) == zs[i][m] * w[i]
  IN FoldLeft(LAMBDA a, i : Aggregate(agg, a, Of(i)), Of(Head(has)), Tail(has))
ZUnionBuild(zs, w, agg) ==
  [m \in UNION {DOMAIN zs[i] : i \in DOMAIN zs} |-> Aggregated(zs, w, agg, m)]
ZInterBuild(zs, w, agg) ==
  [m \in {m \in DOMAIN zs[1] : \A i \in DOMAIN zs : m \in DOMAIN zs[i]}
     |-> Aggregated(zs, w, agg, m)]
ZDiffBuild(zs) == Drop(zs[1], UNION {DOMAIN zs[i] : i \in 2..Len(zs)})

StoreResult(d, dst, z) ==
  IF DOMAIN z = {} THEN Ok(DelKv(d, dst)) ELSE Ok(SetKv(d, dst, Zset(z)))

\* ZUNIONSTORE, ZINTERSTORE, ZDIFFSTORE; ZUNION, ZINTER, ZDIFF, ZINTERCARD.
ZStore(d0, dst, op, order, w, agg) ==
  LET p == ZResolve(d0, order)
      zs == [i \in DOMAIN order |-> Scores(p.d, order[i])]
      z == CASE op = "union" -> ZUnionBuild(zs, w, agg)
             [] op = "inter" -> ZInterBuild(zs, w, agg)
             [] op = "diff"  -> ZDiffBuild(zs)
  IN IF p.stop THEN Err(p.d) ELSE StoreResult(p.d, dst, z)
ZSetRead(d0, order) ==
  LET p == ZResolve(d0, order) IN IF p.stop THEN Err(p.d) ELSE Ok(p.d)
ZInterCard(d, order) == ZSetRead(d, order)

\* ZRANGESTORE of the members the range picks (by score here).
ZRangeStore(d0, dst, src, lo, hi) ==
  LET d == DbGet(d0, src)
      z == Scores(d, src)
  IN IF Wrong(d, src, "zset") THEN Err(d)
     ELSE StoreResult(d, dst, Restrict(z, {m \in DOMAIN z : z[m] \in lo..hi}))

----------------------------------------------------------------------------
(* GEO.                                                                     *)

\* GEOADD [NX|XX]: the coordinates are checked before the key is created, the
\* sorted set is changed in place and nothing follows: no mem_sync.
GeoAdd(d0, k, cond, m, s) ==
  LET d == DbGet(d0, k)
      c == GetOrCreate(d, k, Zset(NoScores))
      z == Scores(c, k)
  IN IF Wrong(d, k, "zset") THEN Err(d)
     ELSE Ok(Mutate(c, k, IF Admits(z, m, s, cond, "none")
                          THEN Put(z, m, s) ELSE z))

\* geo_store_results: the destination is deleted and created again; the
\* members added to it are not accounted for.
GeoStoreResults(d, dst, z) ==
  LET e == DelKv(d, dst)
      c == GetOrCreate(e, dst, Zset(NoScores))
  IN IF DOMAIN z = {} THEN Ok(e) ELSE Ok(Mutate(c, dst, z))

\* GEORADIUS(BYMEMBER) ... STORE and GEOSEARCHSTORE: the members within the
\* radius of the centre; a centre member that is missing is an error.
GeoStore(d0, dst, src, centre, r) ==
  LET d == DbGet(d0, src)
      z == Scores(d, src)
      near == {m \in DOMAIN z : z[m] \in (z[centre] - r)..(z[centre] + r)}
  IN IF Wrong(d, src, "zset") THEN Err(d)
     ELSE IF ~Exists(d, src) THEN GeoStoreResults(d, dst, NoScores)
     ELSE IF centre \notin DOMAIN z THEN Err(d)
     ELSE GeoStoreResults(d, dst, Restrict(z, near))
GeoPos(d, k)    == Read(d, k, "zset")
GeoHash(d, k)   == Read(d, k, "zset")
GeoDist(d, k)   == Read(d, k, "zset")
GeoRadius(d, k) == Read(d, k, "zset")
GeoSearch(d, k) == Read(d, k, "zset")
=============================================================================
