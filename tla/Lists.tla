-------------------------------- MODULE Lists --------------------------------
(***************************************************************************)
(* The list commands of core/command.c.  A list is a sequence, its head     *)
(* ("left") first; a key never keeps an empty list.                         *)
(***************************************************************************)
EXTENDS Db, SequencesExt

\* The elements of a key that holds a list.
Elems(d, k) == IF Is(d, k, "list") THEN d.val[k].v ELSE <<>>

\* obj_list_push and obj_list_pop at one end.
Push(l, left, e) == IF left THEN <<e>> \o l ELSE Append(l, e)
PushAll(l, left, es) == FoldLeft(LAMBDA a, e : Push(a, left, e), l, es)
PopN(l, left, n) ==
  IF left THEN SubSeq(l, n + 1, Len(l)) ELSE SubSeq(l, 1, Len(l) - n)
\* The n elements PopN removes, in the order they come off.
Popped(l, left, n) ==
  [i \in 1..n |-> IF left THEN l[i] ELSE l[Len(l) + 1 - i]]

\* The 0-based index of an element, counted from the end when negative.
Index(l, i) == IF i < 0 THEN i + Len(l) ELSE i

----------------------------------------------------------------------------
\* LPUSH, RPUSH and, with x, LPUSHX and RPUSHX.
PushCmd(d0, k, left, es, x) ==
  LET d == DbGet(d0, k)
      c == GetOrCreate(d, k, List(<<>>))
  IN IF OomBlocked(d0) THEN Err(d0)
     ELSE IF Wrong(d, k, "list") THEN Err(d)
     ELSE IF x /\ ~Exists(d, k) THEN Ok(d)
     ELSE Ok(Update(c, k, PushAll(Elems(c, k), left, es)))

\* LPOP and RPOP with a count (1 when absent; the code refuses less).
PopCmd(d0, k, left, count) ==
  LET d == DbGet(d0, k) l == Elems(d, k) IN
  IF Wrong(d, k, "list") THEN Err(d)
  ELSE IF ~Exists(d, k) THEN Ok(d)
  ELSE Ok(Shrink(d, k, PopN(l, left, Min({count, Len(l)}))))

\* The readers.
LLen(d, k)   == Read(d, k, "list")
LRange(d, k) == Read(d, k, "list")
LIndex(d, k) == Read(d, k, "list")
LPos(d, k)   == Read(d, k, "list")

\* LSET.
LSet(d0, k, i, e) ==
  LET d == DbGet(d0, k) l == Elems(d, k) j == Index(l, i) IN
  IF OomBlocked(d0) THEN Err(d0)
  ELSE IF Wrong(d, k, "list") \/ ~Exists(d, k) THEN Err(d)
  ELSE IF j \notin 0..(Len(l) - 1) THEN Err(d)
  ELSE Ok(Update(d, k, [l EXCEPT ![j + 1] = e]))

\* LREM: the first n occurrences of e from the head, the last -n from the
\* tail when n is negative, all when n is 0.
Removed(l, n, e) ==
  LET hits == {i \in DOMAIN l : l[i] = e} IN
  {i \in hits : \/ n = 0
                \/ n > 0 /\ Cardinality({j \in hits : j <= i}) <= n
                \/ n < 0 /\ Cardinality({j \in hits : j >= i}) <= -n}
Without(l, gone) ==
  FoldLeft(LAMBDA a, i : IF i \in gone THEN a ELSE Append(a, l[i]),
           <<>>, [i \in 1..Len(l) |-> i])
LRem(d0, k, n, e) ==
  LET d == DbGet(d0, k)
      l == Elems(d, k)
      gone == Removed(l, n, e)
  IN IF Wrong(d, k, "list") THEN Err(d)
     ELSE IF gone = {} THEN Ok(d)
     ELSE Ok(Shrink(d, k, Without(l, gone)))

\* LTRIM to the clamped range.
LTrim(d0, k, from, to) ==
  LET d == DbGet(d0, k)
      l == Elems(d, k)
      lo == Max({0, Index(l, from)})
      hi == Min({Len(l) - 1, Index(l, to)})
  IN IF Wrong(d, k, "list") THEN Err(d)
     ELSE IF ~Exists(d, k) THEN Ok(d)
     ELSE IF lo > hi THEN Ok(DelKv(d, k))
     ELSE IF hi - lo + 1 = Len(l) THEN Ok(d)
     ELSE Ok(Update(d, k, SubSeq(l, lo + 1, hi + 1)))

\* LINSERT before or after the first pivot.
LInsert(d0, k, after, pivot, e) ==
  LET d == DbGet(d0, k)
      l == Elems(d, k)
      at == {i \in DOMAIN l : l[i] = pivot}
  IN IF Wrong(d, k, "list") THEN Err(d)
     ELSE IF at = {} THEN Ok(d)
     ELSE IF OomBlocked(d) THEN Err(d)
     ELSE Ok(Update(d, k, InsertAt(l, Min(at) + (IF after THEN 1 ELSE 0), e)))

----------------------------------------------------------------------------
(* Moves.  The destination is looked up, and its type checked, before the   *)
(* source changes; the noeviction check is only for a new destination.      *)

\* The n elements that leave src arrive at dst, in the order they came off or
\* reversed; a source left empty goes, unless it is the destination too.
MoveElems(d, src, dst, fromLeft, toLeft, n, reversed) ==
  LET off == Popped(Elems(d, src), fromLeft, n)
      es  == IF reversed THEN Reverse(off) ELSE off
      Join(l) == IF toLeft THEN es \o l ELSE l \o es
      c   == GetOrCreate(d, dst, List(<<>>))
      rest == PopN(Elems(d, src), fromLeft, n)
  IN IF src = dst THEN Update(d, src, Join(rest))
     ELSE Shrink(Update(c, dst, Join(Elems(c, dst))), src, rest)

\* lmovem_execute: up to count elements, or exactly count.  In bulk they keep
\* the order of the source, one by one they arrive as single moves would
\* leave them.
LMoveM(d0, src, dst, fromLeft, toLeft, count, exactly, bulk) ==
  LET d == DbGet(d0, src)
      e == DbGet(d, dst)
      n == Min({count, Len(Elems(d, src))})
      reversed == IF bulk THEN ~fromLeft ELSE toLeft
  IN IF Wrong(d, src, "list") THEN Err(d)
     ELSE IF n = 0 \/ (exactly /\ n < count) THEN Ok(d)
     ELSE IF src # dst /\ Wrong(e, dst, "list") THEN Err(e)
     ELSE IF ~Exists(e, dst) /\ OomBlocked(e) THEN Err(e)
     ELSE Ok(MoveElems(e, src, dst, fromLeft, toLeft, n, reversed))

\* A mutant: the element is taken before the destination's type is known.
LMoveChecksLate(d0, src, dst, fromLeft, toLeft) ==
  LET d == DbGet(d0, src)
      e == DbGet(d, dst)
  IN IF Wrong(d, src, "list") THEN Err(d)
     ELSE IF ~Exists(d, src) THEN Ok(d)
     ELSE IF src # dst /\ Wrong(e, dst, "list")
       THEN Err(Shrink(e, src, PopN(Elems(e, src), fromLeft, 1)))
     ELSE Ok(MoveElems(e, src, dst, fromLeft, toLeft, 1, FALSE))

\* LMOVE, RPOPLPUSH (from the tail to the head) and the attempt a blocked
\* BLMOVE or BRPOPLPUSH makes move one element in the same way.
LMove(d0, src, dst, fromLeft, toLeft) ==
  LET d == DbGet(d0, src)
      e == DbGet(d, dst)
  IN IF Wrong(d, src, "list") THEN Err(d)
     ELSE IF ~Exists(d, src) THEN Ok(d)
     ELSE IF src # dst /\ Wrong(e, dst, "list") THEN Err(e)
     ELSE IF ~Exists(e, dst) /\ OomBlocked(e) THEN Err(e)
     ELSE Ok(MoveElems(e, src, dst, fromLeft, toLeft, 1, FALSE))
RPopLPush(d, src, dst) == LMove(d, src, dst, FALSE, TRUE)

\* LMPOP: the first of the keys that holds a list.
LMPop(d0, order, left, count) ==
  LET Look(a, k) ==
        IF a.hit # 0 THEN a
        ELSE LET f == DbGet(a.d, k) IN
             [d |-> f, hit |-> IF Exists(f, k) THEN k ELSE 0]
      p == FoldLeft(Look, [d |-> d0, hit |-> 0], order)
      l == Elems(p.d, p.hit)
  IN IF p.hit = 0 THEN Ok(p.d)
     ELSE IF Wrong(p.d, p.hit, "list") THEN Err(p.d)
     ELSE Ok(Shrink(p.d, p.hit, PopN(l, left, Min({count, Len(l)}))))
=============================================================================
