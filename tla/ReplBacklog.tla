----------------------------- MODULE ReplBacklog -----------------------------
(***************************************************************************)
(* The replication backlog of src/server/repl.c: a byte ring that keeps    *)
(* the newest bytes of the command stream.  A byte is identified with its  *)
(* position in the stream, so what matters about the contents (which byte  *)
(* of the stream a slot holds) is exactly what the ring stores.  The       *)
(* 64-bit offset does not saturate.                                        *)
(***************************************************************************)
EXTENDS Integers

CONSTANTS
  MaxBytes    \* bound: length of the stream

ASSUME BoundAssumption == MaxBytes \in Nat

VARIABLES
  buf,      \* buf[i] is a stream position, or -1 before slot i is written
  cap, start, len,
  offset    \* bytes ever appended

vars == <<buf, cap, start, len, offset>>

\* ring_advance
Advance(pos, n, c) == IF n >= c - pos THEN n - (c - pos) ELSE pos + n

Least(a, b) == IF a < b THEN a ELSE b

\* repl_backlog_init
Empty(c) == [i \in 0..c-1 |-> -1]

Init ==
  /\ cap \in 1..MaxBytes
  /\ buf = Empty(cap)
  /\ start = 0 /\ len = 0 /\ offset = 0

\* The copy of m bytes, the first of them stream byte b, to slot pos on: up
\* to the end of the buffer, and the rest to its beginning.
Copied(pos, m, b) ==
  LET tail == Least(cap - pos, m)
  IN [i \in 0..cap-1 |->
        IF pos <= i /\ i < pos + tail THEN b + (i - pos)
        ELSE IF i < m - tail THEN b + tail + i
        ELSE buf[i]]

\* the bytes that give way to m new ones
Dropped(l, m) == IF m > cap - l THEN m - (cap - l) ELSE 0

\* what is left after the drop receives m bytes from stream byte b on
Store(s0, l0, m, b) ==
  LET drop == Dropped(l0, m)
      s == Advance(s0, drop, cap)
  IN /\ buf' = Copied(Advance(s, l0 - drop, cap), m, b)
     /\ start' = s
     /\ len' = l0 - drop + m

\* repl_backlog_append of n bytes; of a chunk that does not fit only the
\* newest cap bytes are kept
Append(n) ==
  /\ offset + n <= MaxBytes
  /\ offset' = offset + n
  /\ IF n >= cap THEN Store(0, 0, cap, offset + (n - cap))
                 ELSE Store(start, len, n, offset)
  /\ UNCHANGED cap

\* server_set_backlog_size: an empty ring that keeps the offset
Resize(c) ==
  /\ cap' = c
  /\ buf' = Empty(c)
  /\ start' = 0
  /\ len' = 0
  /\ UNCHANGED offset

Next ==
  \/ \E n \in 1..MaxBytes : Append(n)
  \/ \E c \in 1..MaxBytes : Resize(c)

Spec == Init /\ [][Next]_vars

-----------------------------------------------------------------------------
(* Reading.                                                                *)

\* repl_backlog_read_from: how many bytes are copied out, and byte i of them
ReadSkip(from) == IF from <= offset - len THEN 0 ELSE from - (offset - len)

ReadCount(from, max) ==
  IF len = 0 \/ max = 0 \/ from >= offset THEN 0
  ELSE Least(len - ReadSkip(from), max)

ReadByte(from, max, i) ==
  LET pos == Advance(start, ReadSkip(from), cap)
      tail == Least(cap - pos, ReadCount(from, max))
  IN IF i < tail THEN buf[pos + i] ELSE buf[i - tail]

CoveredOneMore(from) == offset - len <= from + 1 /\ from <= offset

\* srv_psync grants a partial resync from this offset
Covered(from) == offset - len <= from /\ from <= offset

-----------------------------------------------------------------------------
(* Properties.                                                             *)

TypeOK ==
  /\ cap \in 1..MaxBytes
  /\ buf \in [0..cap-1 -> Int]
  /\ start \in 0..cap-1
  /\ len \in 0..cap
  /\ offset \in Nat
  /\ len <= offset

\* The ring holds the newest len bytes of the stream, oldest first from
\* start on, wherever they wrap and however large the appended chunks are.
RingHoldsTail ==
  \A i \in 0..len-1 : buf[Advance(start, i, cap)] = offset - len + i

\* The inductive invariant of the proofs.
IInv == TypeOK /\ RingHoldsTail

\* A partial resync from a covered offset sends the stream from that very
\* byte on, without a gap: the loop of srv_write_continue gets all bytes up
\* to the current offset from one repl_backlog_read_from.
ResumeExact ==
  \A from \in 0..MaxBytes : Covered(from) =>
    LET missing == offset - from
    IN /\ ReadCount(from, missing) = missing
       /\ \A i \in 0..missing-1 : ReadByte(from, missing, i) = from + i
=============================================================================
