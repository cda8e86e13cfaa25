-------------------------------- MODULE Arrays --------------------------------
(***************************************************************************)
(* The array commands (ARSET, ...) of core/command.c over the sparse array  *)
(* of ds/obj.c: el the occupied slots, len the length, next the cursor,     *)
(* hist the slots the cursor filled, mem the array's own memory count.      *)
(* None of these commands looks at maxmemory.                               *)
(***************************************************************************)
EXTENDS Db, SequencesExt

CONSTANT MaxIndex    \* UINT64_MAX

NewArray == [el |-> [i \in {} |-> 0], len |-> 0, next |-> 0, hist |-> <<>>, mem |-> 0]
ArrayOf(d, k) == d.val[k].v

\* obj_array_set of one value, and of consecutive ones.  On an empty slot
\* rh_get leaves the local old unset, and what is subtracted from mem then is
\* whatever the stack holds: the new entry is counted or it is cancelled.
Fits(i, n) == i + n <= MaxIndex
Filled(a, i, v) ==
  LET b == [a EXCEPT !.el = [j \in DOMAIN @ \cup {i} |-> IF j = i THEN v ELSE @[j]],
                     !.len = IF i + 1 > @ THEN i + 1 ELSE @]
  IN IF i \in DOMAIN a.el THEN {b} ELSE {b, [b EXCEPT !.mem = @ + 1]}
FillFrom(a, i, vs) ==
  FoldLeft(LAMBDA S, n : UNION {Filled(b, i + n - 1, vs[n]) : b \in S},
           {a}, [n \in DOMAIN vs |-> n])

\* obj_array_insert and obj_array_ring of one value: the cursor's slot, or the
\* cursor modulo the ring's size, remembered in the history.
InsertNext(a, v) ==
  {[b EXCEPT !.next = a.next + 1, !.hist = Append(@, a.next), !.mem = @ + 1] :
     b \in Filled(a, a.next, v)}
RingNext(a, size, v) ==
  LET i == a.next % size IN
  {[b EXCEPT !.next = i + 1, !.hist = Append(@, i), !.mem = @ + 1] :
     b \in Filled(a, i, v)}

\* obj_array_del leaves the length alone; obj_array_del_range cuts it back to
\* the last occupied slot.
DropSlots(a, I) ==
  LET gone == I \cap DOMAIN a.el IN
  [a EXCEPT !.el = [j \in DOMAIN @ \ gone |-> @[j]], !.mem = @ - Cardinality(gone)]
DelRange(a, lo, hi) ==
  LET b == DropSlots(a, lo..hi) IN
  IF lo > hi \/ lo >= a.len THEN a
  ELSE [b EXCEPT !.len = IF DOMAIN b.el = {} THEN 0 ELSE Max(DOMAIN b.el) + 1]

----------------------------------------------------------------------------
(* Writes.  The array is changed to one of After(a); when Possible(a) is     *)
(* false the command fails, after the key was created.                      *)

WriteArray(d0, k, Possible(_), After(_)) ==
  LET d == DbGet(d0, k)
      c == GetOrCreate(d, k, Array(NewArray))
  IN IF Wrong(d, k, "array") THEN {Err(d)}
     ELSE IF ~Possible(ArrayOf(c, k)) THEN {Err(c)}
     ELSE {Ok(Update(c, k, b)) : b \in After(ArrayOf(c, k))}

ArSet(d, k, i, vs) ==
  WriteArray(d, k, LAMBDA a : Fits(i, Len(vs)), LAMBDA a : FillFrom(a, i, vs))
\* ARMSET with distinct slots: the first slot that does not fit ends it, with
\* the earlier ones written and not accounted for.
ArMSet(d0, k, is, v) ==
  LET d == DbGet(d0, k)
      c == GetOrCreate(d, k, Array(NewArray))
      ok == {n \in DOMAIN is : \A m \in 1..n : Fits(is[m], 1)}
      after == FoldLeft(LAMBDA S, i : UNION {Filled(b, i, v) : b \in S},
                        {ArrayOf(c, k)}, SubSeq(is, 1, Cardinality(ok)))
  IN IF Wrong(d, k, "array") THEN {Err(d)}
     ELSE IF ok # DOMAIN is THEN {Err(Mutate(c, k, b)) : b \in after}
     ELSE {Ok(Update(c, k, b)) : b \in after}
ArInsert(d, k, v) ==
  WriteArray(d, k, LAMBDA a : Fits(a.next, 1), LAMBDA a : InsertNext(a, v))
ArRing(d, k, size, v) ==
  WriteArray(d, k, LAMBDA a : Fits(a.next % size, 1), LAMBDA a : RingNext(a, size, v))

\* ARSEEK moves the cursor; the key is not touched.
ArSeek(d0, k, i) ==
  LET d == DbGet(d0, k) IN
  IF Wrong(d, k, "array") THEN Err(d)
  ELSE IF ~Exists(d, k) THEN Ok(d)
  ELSE Ok(Mutate(d, k, [ArrayOf(d, k) EXCEPT !.next = i]))

\* ARDEL of the slots is (a bad one, -1, ends it with the earlier deletions
\* made and not accounted for), and ARDELRANGE.
ArDel(d0, k, is) ==
  LET d == DbGet(d0, k)
      bad == {n \in DOMAIN is : is[n] < 0}
      last == IF bad = {} THEN Len(is) ELSE Min(bad) - 1
      a == DropSlots(ArrayOf(d, k), {is[n] : n \in 1..last})
  IN IF Wrong(d, k, "array") THEN Err(d)
     ELSE IF ~Exists(d, k) THEN Ok(d)
     ELSE IF bad # {} THEN Err(Mutate(d, k, a))
     ELSE Ok(Shrink(d, k, a))
ArDelRange(d0, k, lo, hi) ==
  LET d == DbGet(d0, k) IN
  IF Wrong(d, k, "array") THEN Err(d)
  ELSE IF ~Exists(d, k) THEN Ok(d)
  ELSE Ok(Shrink(d, k, DelRange(ArrayOf(d, k), lo, hi)))

----------------------------------------------------------------------------
(* Reads.  ARMGET writes its array header before it parses the slots.        *)

ArLen(d, k)       == Read(d, k, "array")
ArCount(d, k)     == Read(d, k, "array")
ArNext(d, k)      == Read(d, k, "array")
ArGet(d, k)       == Read(d, k, "array")
ArGetRange(d, k)  == Read(d, k, "array")
ArScan(d, k)      == Read(d, k, "array")
ArInfo(d, k)      == Read(d, k, "array")
ArLastItems(d, k) == Read(d, k, "array")
ArOp(d, k)        == Read(d, k, "array")
ArGrep(d, k)      == Read(d, k, "array")
ArMGet(d0, k, is) ==
  LET d == DbGet(d0, k) IN
  IF Wrong(d, k, "array") THEN Err(d)
  ELSE IF \E n \in DOMAIN is : is[n] < 0 THEN Err(Ok(d))
  ELSE Ok(d)
=============================================================================
