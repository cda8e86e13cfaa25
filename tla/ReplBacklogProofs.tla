-------------------------- MODULE ReplBacklogProofs --------------------------
(***************************************************************************)
(* Proofs about the replication backlog for every stream length, ring size *)
(* and chunking.                                                           *)
(***************************************************************************)
EXTENDS ReplBacklog, TLAPS

(* ring_advance stays inside the ring, and two advances add up.            *)
LEMMA AdvanceIn ==
  ASSUME NEW c \in Nat \ {0}, NEW pos \in 0..c-1, NEW n \in 0..c
  PROVE  Advance(pos, n, c) \in 0..c-1
BY DEF Advance

LEMMA AdvanceAdds ==
  ASSUME NEW c \in Nat \ {0}, NEW pos \in 0..c-1, NEW n \in 0..c,
         NEW k \in 0..c, n + k <= c
  PROVE  Advance(Advance(pos, n, c), k, c) = Advance(pos, n + k, c)
BY DEF Advance

(* The common tail of repl_backlog_append: the l0 newest bytes are in the  *)
(* ring from s0 on, and the next m bytes of the stream are stored.         *)
LEMMA StoreKeepsTail ==
  ASSUME cap \in Nat \ {0}, buf \in [0..cap-1 -> Int], cap' = cap,
         NEW s0 \in 0..cap-1, NEW l0 \in 0..cap, NEW m \in 1..cap,
         NEW b \in Nat, l0 <= b, b + m = offset',
         \A i \in 0..l0-1 : buf[Advance(s0, i, cap)] = b - l0 + i,
         Store(s0, l0, m, b)
  PROVE  /\ buf' \in [0..cap-1 -> Int]
         /\ start' \in 0..cap-1
         /\ len' \in 0..cap
         /\ len' <= offset'
         /\ RingHoldsTail'
<1> DEFINE drop == Dropped(l0, m)
           s == Advance(s0, drop, cap)
           l == l0 - drop
           pos == Advance(s, l, cap)
           tail == Least(cap - pos, m)
<1>1. drop \in 0..l0 /\ l \in 0..cap /\ l + m <= cap
  BY DEF Dropped
<1> HIDE DEF drop
<1>2. s \in 0..cap-1
  <2>1. drop \in 0..cap
    BY <1>1
  <2> QED BY Zenon, <2>1, AdvanceIn
<1>3. pos \in 0..cap-1
  BY Zenon, <1>1, <1>2, AdvanceIn
<1>4. tail \in 1..m /\ tail <= cap - pos /\ (tail < m => tail = cap - pos)
  BY <1>3 DEF Least
<1>5. start' = s /\ len' = l + m /\ buf' = Copied(pos, m, b)
  BY Zenon DEF Store, drop
<1>6. buf' = [i \in 0..cap-1 |->
                IF pos <= i /\ i < pos + tail THEN b + (i - pos)
                ELSE IF i < m - tail THEN b + tail + i
                ELSE buf[i]]
  BY Zenon, <1>5 DEF Copied
<1> HIDE DEF drop, tail, pos, s
<1>7. buf' \in [0..cap-1 -> Int]
  BY <1>3, <1>4, <1>6
<1>8. ASSUME NEW i \in 0..l+m-1
      PROVE  buf'[Advance(s, i, cap)] = b - l + i
  <2> DEFINE j == Advance(s, i, cap)
  <2>1. j \in 0..cap-1
    <3>1. i \in 0..cap
      BY <1>1, <1>8
    <3> QED BY Zenon, <3>1, <1>2, AdvanceIn
  <2>2. CASE i < l
    <3>1. drop + i \in 0..l0-1
      BY <2>2, <1>1, <1>8
    <3>2. j = Advance(s0, drop + i, cap)
      <4>1. drop \in 0..cap /\ i \in 0..cap /\ drop + i <= cap
        BY <3>1, <1>1, <1>8
      <4> QED BY <4>1, AdvanceAdds DEF s
    <3>3. buf[j] = b - l0 + (drop + i)
      BY Zenon, <3>1, <3>2
    <3>4. ~(pos <= j /\ j < pos + tail) /\ ~(j < m - tail)
      BY <2>2, <1>1, <1>2, <1>3, <1>4, <1>8 DEF pos, Advance
    <3>5. buf'[j] = buf[j]
      BY Zenon, <3>4, <2>1, <1>6
    <3> QED BY <3>3, <3>5, <1>1, <1>8
  <2>3. CASE i >= l
    <3>1. \/ pos <= j /\ j < pos + tail /\ j - pos = i - l
          \/ ~(pos <= j /\ j < pos + tail) /\ j < m - tail /\ tail + j = i - l
      BY <2>3, <1>1, <1>2, <1>3, <1>4, <1>8 DEF pos, Advance
    <3>2. CASE pos <= j /\ j < pos + tail /\ j - pos = i - l
      <4>1. buf'[j] = b + (j - pos)
        BY Zenon, <3>2, <2>1, <1>6
      <4> QED BY <4>1, <3>2, <2>1, <1>1, <1>3, <1>8
    <3>3. CASE ~(pos <= j /\ j < pos + tail) /\ j < m - tail /\ tail + j = i - l
      <4>1. buf'[j] = b + tail + j
        BY Zenon, <3>3, <2>1, <1>6
      <4> HIDE DEF j, l
      <4>2. b + tail + j = b - l + i
        BY <3>3, <2>1, <1>1, <1>4, <1>8
      <4> QED BY Zenon, <4>1, <4>2 DEF j
    <3> QED BY Zenon, <3>1, <3>2, <3>3
  <2> QED BY <2>2, <2>3, <1>1, <1>8
<1>9. RingHoldsTail'
  <2>1. offset' - len' = b - l
    BY <1>1, <1>5
  <2> QED BY <2>1, <1>1, <1>5, <1>8 DEF RingHoldsTail
<1> QED BY <1>1, <1>2, <1>5, <1>7, <1>9

LEMMA InitIInv == Init => IInv
BY BoundAssumption DEF Init, IInv, TypeOK, RingHoldsTail, Empty

LEMMA StepIInv == IInv /\ [Next]_vars => IInv'
<1> SUFFICES ASSUME IInv, [Next]_vars PROVE IInv'
  BY Zenon
<1> USE BoundAssumption
<1>1. ASSUME NEW n \in 1..MaxBytes, Append(n) PROVE IInv'
  <2>1. /\ cap \in Nat \ {0} /\ buf \in [0..cap-1 -> Int]
        /\ start \in 0..cap-1 /\ len \in 0..cap /\ offset \in Nat
        /\ len <= offset /\ cap \in 1..MaxBytes
        /\ \A i \in 0..len-1 : buf[Advance(start, i, cap)] = offset - len + i
    BY DEF IInv, TypeOK, RingHoldsTail
  <2>2. cap' = cap /\ offset' = offset + n
    BY Zenon, <1>1 DEF Append
  <2>3. CASE n >= cap
    <3>1. Store(0, 0, cap, offset + (n - cap))
      BY Zenon, <1>1, <2>3 DEF Append
    <3>2. /\ buf' \in [0..cap-1 -> Int]
          /\ start' \in 0..cap-1 /\ len' \in 0..cap /\ len' <= offset'
          /\ RingHoldsTail'
      <4> DEFINE b == offset + (n - cap)
      <4>1. b \in Nat /\ 0 <= b /\ b + cap = offset' /\ 0 \in 0..cap-1
            /\ 0 \in 0..cap /\ cap \in 1..cap
        BY <2>1, <2>2, <2>3, <1>1
      <4>2. \A i \in 0..0-1 : buf[Advance(0, i, cap)] = b - 0 + i
        OBVIOUS
      <4>3. Store(0, 0, cap, b)
        BY Zenon, <3>1
      <4> HIDE DEF b
      <4> QED BY Zenon, <4>1, <4>2, <4>3, <2>1, <2>2, StoreKeepsTail
    <3> QED BY <3>2, <2>1, <2>2, <1>1 DEF IInv, TypeOK
  <2>4. CASE n < cap
    <3>1. Store(start, len, n, offset)
      BY <1>1, <2>4, <2>1 DEF Append
    <3>2. n \in 1..cap
      BY <2>4, <2>1, <1>1
    <3>3. /\ buf' \in [0..cap-1 -> Int]
          /\ start' \in 0..cap-1 /\ len' \in 0..cap /\ len' <= offset'
          /\ RingHoldsTail'
      BY Zenon, <3>1, <3>2, <2>1, <2>2, StoreKeepsTail
    <3> QED BY <3>3, <2>1, <2>2, <1>1 DEF IInv, TypeOK
  <2> QED BY <2>1, <2>3, <2>4, <1>1
<1>2. ASSUME NEW c \in 1..MaxBytes, Resize(c) PROVE IInv'
  BY <1>2 DEF IInv, TypeOK, RingHoldsTail, Resize, Empty
<1>3. CASE UNCHANGED vars
  BY Zenon, <1>3 DEF IInv, TypeOK, RingHoldsTail, vars
<1> QED BY Zenon, <1>1, <1>2, <1>3 DEF Next

(* The ring of repl.c keeps exactly the newest bytes of the stream.        *)
THEOREM BacklogHoldsTail == Spec => []RingHoldsTail
<1>1. IInv => RingHoldsTail
  BY Zenon DEF IInv
<1> QED BY InitIInv, StepIInv, <1>1, PTL DEF Spec

LEMMA InvResume == IInv => ResumeExact
<1> SUFFICES ASSUME IInv, NEW from \in 0..MaxBytes, Covered(from)
             PROVE  /\ ReadCount(from, offset - from) = offset - from
                    /\ \A i \in 0..(offset-from)-1 :
                          ReadByte(from, offset - from, i) = from + i
  BY Zenon DEF ResumeExact
<1> DEFINE missing == offset - from
           skip == ReadSkip(from)
           pos == Advance(start, skip, cap)
           tail == Least(cap - pos, missing)
<1>1. /\ cap \in Nat \ {0} /\ start \in 0..cap-1 /\ len \in 0..cap
      /\ offset \in Nat /\ len <= offset /\ from \in Int
      /\ offset - len <= from /\ from <= offset
  BY BoundAssumption DEF IInv, TypeOK, Covered
<1>2. skip = from - (offset - len) /\ skip \in 0..len /\ missing = len - skip
  BY <1>1 DEF ReadSkip
<1>3. ReadCount(from, missing) = missing
  BY <1>1, <1>2 DEF ReadCount, Least
<1>4. ASSUME NEW i \in 0..missing-1
      PROVE  ReadByte(from, missing, i) = from + i
  <2>1. pos \in 0..cap-1
    BY <1>1, <1>2, AdvanceIn
  <2>2. ReadByte(from, missing, i)
          = IF i < tail THEN buf[pos + i] ELSE buf[i - tail]
    BY Zenon, <1>3 DEF ReadByte
  <2> HIDE DEF skip, pos
  <2>3. i < tail => pos + i = Advance(pos, i, cap)
    BY <2>1, <1>1, <1>2, <1>4 DEF Advance, Least
  <2>4. ~(i < tail) => i - tail = Advance(pos, i, cap)
    BY <2>1, <1>1, <1>2, <1>4 DEF Advance, Least
  <2>5. skip + i \in 0..len-1
    BY <1>1, <1>2, <1>4
  <2>6. Advance(pos, i, cap) = Advance(start, skip + i, cap)
    <3>1. skip \in 0..cap /\ i \in 0..cap /\ skip + i <= cap
      BY <2>5, <1>1, <1>2, <1>4
    <3> QED BY <3>1, <1>1, AdvanceAdds DEF pos
  <2>7. buf[Advance(start, skip + i, cap)] = offset - len + (skip + i)
    BY Zenon, <2>5 DEF IInv, RingHoldsTail
  <2>8. offset - len + (skip + i) = from + i
    BY <1>1, <1>2, <1>4
  <2> QED BY Zenon, <2>2, <2>3, <2>4, <2>6, <2>7, <2>8
<1> QED BY Zenon, <1>3, <1>4

(* A partial resync granted by srv_psync resumes at exactly the requested  *)
(* byte, whatever chunks were appended and however the ring has wrapped.   *)
THEOREM PartialResyncExact == Spec => []ResumeExact
BY InitIInv, StepIInv, InvResume, PTL DEF Spec
=============================================================================
