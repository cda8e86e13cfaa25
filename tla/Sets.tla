--------------------------------- MODULE Sets ---------------------------------
(***************************************************************************)
(* The set commands of core/command.c.  A key never keeps an empty set.     *)
(***************************************************************************)
EXTENDS Db, SequencesExt

\* The members of a key that holds a set; a missing operand is empty.
Members(d, k) == IF Is(d, k, "set") THEN d.val[k].v ELSE {}

\* SADD: M is the set of members named.
SAdd(d0, k, M) ==
  LET d == DbGet(d0, k)
      c == GetOrCreate(d, k, SetOf({}))
  IN IF OomBlocked(d0) THEN Err(d0)
     ELSE IF Wrong(d, k, "set") THEN Err(d)
     ELSE Ok(Update(c, k, Members(c, k) \cup M))

\* SREM touches the key even when no member was there to remove.
SRem(d0, k, M) ==
  LET d == DbGet(d0, k) IN
  IF Wrong(d, k, "set") THEN Err(d)
  ELSE IF ~Exists(d, k) THEN Ok(d)
  ELSE Ok(Shrink(d, k, Members(d, k) \ M))

\* The readers.
SIsMember(d, k)   == Read(d, k, "set")
SMIsMember(d, k)  == Read(d, k, "set")
SCard(d, k)       == Read(d, k, "set")
SMembers(d, k)    == Read(d, k, "set")

\* SPOP k count: the outcomes, one for every choice of members.  A negative
\* count is read as SRANDMEMBER reads it, so nothing is removed; whether the
\* key is touched then depends on the set's encoding.
SPop(d0, k, count) ==
  LET d == DbGet(d0, k)
      n == Min({count, Cardinality(Members(d, k))})
  IN IF OomBlocked(d0) THEN {Err(d0)}
     ELSE IF Wrong(d, k, "set") THEN {Err(d)}
     ELSE IF ~Exists(d, k) \/ count = 0 THEN {Ok(d)}
     ELSE IF count < 0 THEN {Ok(d), Ok(Touch(d, k))}
     ELSE {Ok(Shrink(d, k, Members(d, k) \ M)) : M \in kSubset(n, Members(d, k))}
SRandMember(d, k) == Read(d, k, "set")

\* SMOVE: the destination is looked up and checked before the source changes.
SMove(d0, src, dst, m) ==
  LET d == DbGet(d0, src)
      e == DbGet(d, dst)
      c == GetOrCreate(e, dst, SetOf({}))
      w == Update(c, dst, Members(c, dst) \cup {m})
  IN IF Wrong(d, src, "set") THEN Err(d)
     ELSE IF m \notin Members(d, src) THEN Ok(d)
     ELSE IF src = dst THEN Ok(d)
     ELSE IF Wrong(e, dst, "set") THEN Err(e)
     ELSE IF OomBlocked(e) THEN Err(e)
     ELSE Ok(Shrink(w, src, Members(w, src) \ {m}))

----------------------------------------------------------------------------
(* The set operations.  setop_eval resolves every operand, in order, before *)
(* it computes.                                                             *)

Resolve(d, order, t) ==
  FoldLeft(LAMBDA a, k : IF a.stop THEN a
                         ELSE LET f == DbGet(a.d, k) IN
                              [d |-> f, stop |-> Wrong(f, k, t)],
           [d |-> d, stop |-> FALSE], order)

SetopEval(d, op, order) ==
  LET S(i) == Members(d, order[i])
      rest == UNION {S(i) : i \in 2..Len(order)}
  IN CASE op = "inter" -> {m \in S(1) : \A i \in DOMAIN order : m \in S(i)}
       [] op = "union" -> S(1) \cup rest
       [] op = "diff"  -> S(1) \ rest

\* SINTER, SUNION, SDIFF and the cardinality commands: reads.
SetRead(d0, order) ==
  LET p == Resolve(d0, order, "set") IN IF p.stop THEN Err(p.d) ELSE Ok(p.d)
SetCard(d, order)    == SetRead(d, order)
SInterCard(d, order) == SetRead(d, order)

\* SINTERSTORE, SUNIONSTORE, SDIFFSTORE: the destination's old type and TTL
\* go with it; an empty result deletes it.  There is no noeviction check.
SetStore(d0, dst, op, order) ==
  LET p == Resolve(d0, order, "set")
      M == SetopEval(p.d, op, order)
  IN IF p.stop THEN Err(p.d)
     ELSE IF M = {} THEN Ok(DelKv(p.d, dst))
     ELSE Ok(SetKv(p.d, dst, SetOf(M)))
=============================================================================
