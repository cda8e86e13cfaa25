------------------------------- MODULE Strings -------------------------------
(***************************************************************************)
(* The string commands of core/command.c: SET and its relatives, the        *)
(* counters, the range and bit commands and the HyperLogLog commands, whose *)
(* values are strings too.                                                  *)
(*                                                                         *)
(* A string is a sequence of characters.  A character of MinInt..MaxInt     *)
(* stands for the decimal spelling of that number (the 64-bit range of the  *)
(* code, shrunk), Junk for text that is no number, Nul for the zero byte    *)
(* that pads a string, Hyll for the payload of a HyperLogLog.  Deadlines    *)
(* given relative to the clock are passed as the number of ticks, so the    *)
(* code's checks that a relative time is positive are constraints on the    *)
(* arguments; an absolute deadline may lie in the past.                     *)
(***************************************************************************)
EXTENDS Db, SequencesExt

CONSTANTS
  MinInt, MaxInt     \* LLONG_MIN and LLONG_MAX

Junk == MaxInt + 1
Nul  == MaxInt + 2
Hyll == MaxInt + 3

\* parse_i64 of a whole payload, and the number a counter starts from.
IsInt(s) == Len(s) = 1 /\ s[1] \in MinInt..MaxInt
Text(d, k) == IF Is(d, k, "string") THEN d.val[k].v ELSE <<>>
Number(d, k) == IF Exists(d, k) THEN Text(d, k)[1] ELSE 0
NotANumber(d, k) == Exists(d, k) /\ ~IsInt(Text(d, k))

\* The padding of SETRANGE, SETBIT and BITFIELD.
PadTo(s, n) == s \o [i \in 1..(IF n > Len(s) THEN n - Len(s) ELSE 0) |-> Nul]

KeepTtl == -1     \* the KEEPTTL option where a deadline is expected

----------------------------------------------------------------------------
(* SET and the commands that store a whole string.                          *)

\* GET.
Get(d0, k) == Read(d0, k, "string")

\* SET key s [NX|XX] [GET] [EX ttl|KEEPTTL]; ttl = 0 is no option.  The old
\* value is replied before the noeviction check.
Set(d0, k, s, cond, get, ttl) ==
  LET d == DbGet(d0, k)
      r == IF get THEN Ok(d) ELSE d
      w == SetString(r, k, s)
      x == IF ttl = KeepTtl /\ d.exp[k] # 0 THEN SetExpiry(w, k, d.exp[k])
         ELSE IF ttl > 0 THEN SetExpiry(w, k, d.now + ttl)
         ELSE w
  IN IF Wrong(d, k, "string") THEN Err(d)
     ELSE IF (cond = "NX" /\ Exists(d, k)) \/ (cond = "XX" /\ ~Exists(d, k))
          THEN Ok(d)
     ELSE IF OomBlocked(r) THEN Err(r)
     ELSE IF get THEN x ELSE Ok(x)

\* SETEX and PSETEX.
SetEx(d0, k, s, ttl) ==
  LET d == DbGet(d0, k) IN
  IF Wrong(d, k, "string") \/ OomBlocked(d) THEN Err(d)
  ELSE Ok(SetExpiry(SetString(d, k, s), k, d.now + ttl))

\* SETNX.
SetNx(d0, k, s) ==
  LET d == DbGet(d0, k) IN
  IF Exists(d, k) THEN Ok(d)
  ELSE IF OomBlocked(d) THEN Err(d)
  ELSE Ok(SetString(d, k, s))

\* GETSET clears the TTL, as SET does.
GetSet(d0, k, s) ==
  IF OomBlocked(d0) THEN Err(d0)
  ELSE LET d == DbGet(d0, k) IN
       IF Wrong(d, k, "string") THEN Err(d) ELSE SetString(Ok(d), k, s)

\* GETDEL.
GetDel(d0, k) ==
  LET d == DbGet(d0, k) IN
  IF ~Exists(d, k) THEN Ok(d)
  ELSE IF Wrong(d, k, "string") THEN Err(d)
  ELSE DelKv(Ok(d), k)

\* GETEX key [PERSIST | deadline]: opt is "none", "persist" or "at".
GetEx(d0, k, opt, when) ==
  LET d == DbGet(d0, k) r == Ok(d) IN
  IF ~Exists(d, k) THEN r
  ELSE IF Wrong(d, k, "string") THEN Err(d)
  ELSE IF opt = "none" THEN r
  ELSE IF opt = "persist" THEN
         IF d.exp[k] = 0 THEN r ELSE Touch(ClearExpiry(r, k), k)
  ELSE IF when <= d.now THEN DelKv(r, k)
  ELSE Touch(SetExpiry(r, k, when), k)

\* MSET: S maps the keys to their strings.  No lookup, no WRONGTYPE.
SetEach(d, S) ==
  FoldSet(LAMBDA k, e : SetString(e, k, S[k]), d, DOMAIN S)
MSet(d, S) == IF OomBlocked(d) THEN Err(d) ELSE Ok(SetEach(d, S))

\* Look every key of a set up, in any order.
GetEach(d, K) == FoldSet(LAMBDA k, e : DbGet(e, k), d, K)

\* MSETNX probes the keys in the order given and stops at the first that
\* exists: order is the sequence of the keys of S.
ProbeUntil(d, order, Stop(_, _)) ==
  FoldLeft(LAMBDA e, k : IF e.stop THEN e
                       ELSE LET f == DbGet(e.d, k) IN
                              [d |-> f, stop |-> Stop(f, k)],
           [d |-> d, stop |-> FALSE], order)
MSetNx(d0, order, S) ==
  LET p == ProbeUntil(d0, order, Exists) IN
  IF p.stop THEN Ok(p.d)
  ELSE IF OomBlocked(p.d) THEN Err(p.d)
  ELSE Ok(SetEach(p.d, S))

\* MSETEX numkeys key s ... [NX|XX] [KEEPTTL | deadline]; when = 0 is none.
Missing(d, k) == ~Exists(d, k)
MSetEx(d0, order, S, cond, when) ==
  LET p == IF cond = "NX" THEN ProbeUntil(d0, order, Exists)
           ELSE IF cond = "XX" THEN ProbeUntil(d0, order, Missing)
           ELSE [d |-> d0, stop |-> FALSE]
      Store(e0, k) ==
        LET e == ExpireIfNeeded(e0, k)
            w == SetString(e, k, S[k])
        IN IF when = KeepTtl /\ e.exp[k] # 0 THEN SetExpiry(w, k, e.exp[k])
           ELSE IF when > 0 THEN SetExpiry(w, k, when)
           ELSE w
  IN IF p.stop THEN Ok(p.d)
     ELSE IF OomBlocked(p.d) THEN Err(p.d)
     ELSE Ok(FoldLeft(Store, p.d, order))

\* A mutant: the types are only met while the array is written.
MGetInLine(d0, order) ==
  LET p == ProbeUntil(d0, order, LAMBDA d, k : Wrong(d, k, "string")) IN
  IF p.stop THEN Err(Ok(p.d)) ELSE Ok(p.d)

\* MGET: every key is looked up and type-checked before the first reply.
MGet(d0, order) ==
  LET p == ProbeUntil(d0, order, LAMBDA d, k : Wrong(d, k, "string")) IN
  IF p.stop THEN Err(p.d) ELSE Ok(p.d)

\* DELEX key [IFEQ|IFNE s] (the digest conditions compare the same strings
\* through their digest).  On a wrong type the reply buffer is emptied first.
DelEx(d0, k, cond, s) ==
  LET d == DbGet(d0, k) IN
  IF cond = "none" THEN Ok(DelKv(d, k))
  ELSE IF ~Exists(d, k) THEN Ok(d)
  ELSE IF Wrong(d, k, "string") THEN Err([d EXCEPT !.out = <<>>])
  ELSE IF (cond = "IFEQ") = (Text(d, k) = s) THEN Ok(DelKv(d, k))
  ELSE Ok(d)

----------------------------------------------------------------------------
(* Counters.                                                                *)

Overflows(cur, by) ==
  (by > 0 /\ cur > MaxInt - by) \/ (by < 0 /\ cur < MinInt - by)

\* A mutant: the counter is read without the lookup that expires it.
IncrUnexpired(d, k, by) ==
  IF \/ Wrong(d, k, "string") \/ NotANumber(d, k)
     \/ Overflows(Number(d, k), by) \/ OomBlocked(d)
  THEN Err(d)
  ELSE Ok(SetStringKeepTtl(d, k, <<Number(d, k) + by>>))

\* INCR, DECR, INCRBY, DECRBY (whose argument may not be LLONG_MIN).
Incr(d0, k, by) ==
  LET d == DbGet(d0, k) IN
  IF \/ Wrong(d, k, "string") \/ NotANumber(d, k)
     \/ Overflows(Number(d, k), by) \/ OomBlocked(d)
  THEN Err(d)
  ELSE Ok(SetStringKeepTtl(d, k, <<Number(d, k) + by>>))

\* INCRBYFLOAT: the same path, with its own overflow (NaN or infinity).
IncrByFloat(d0, k, by) ==
  LET d == DbGet(d0, k) IN
  IF \/ Wrong(d, k, "string") \/ NotANumber(d, k)
     \/ Number(d, k) + by \notin MinInt..MaxInt \/ OomBlocked(d)
  THEN Err(d)
  ELSE Ok(SetStringKeepTtl(d, k, <<Number(d, k) + by>>))

\* INCREX, the value: the sum, or the bound when saturating.
IncrExValue(cur, by, lo, hi) ==
  IF Overflows(cur, by) THEN IF by >= 0 THEN hi ELSE lo
  ELSE IF cur + by > hi THEN hi ELSE IF cur + by < lo THEN lo ELSE cur + by

\* INCREX, the deadline: when = 0 is no option, KeepTtl stands for PERSIST.
IncrExExpiry(d, k, had, enx, when) ==
  IF when = KeepTtl THEN d
  ELSE IF when > 0 /\ (~enx \/ had = 0) THEN SetExpiry(d, k, when)
  ELSE IF had # 0 THEN SetExpiry(d, k, had)
  ELSE d

\* INCREX key BYINT by LBOUND lo UBOUND hi [SATURATE] [ENX] [PERSIST|when].
\* A deadline in the past deletes the key, and nothing is replied.
IncrEx(d0, k, by, lo, hi, saturate, enx, when) ==
  LET d == DbGet(d0, k)
      cur == Number(d, k)
      out == Overflows(cur, by) \/ cur + by > hi \/ cur + by < lo
      new == IncrExValue(cur, by, lo, hi)
  IN IF Wrong(d, k, "string") \/ NotANumber(d, k) THEN Err(d)
     ELSE IF out /\ ~saturate THEN Ok(d)
     ELSE IF new - cur \notin MinInt..MaxInt THEN Err(d)
     ELSE IF OomBlocked(d) THEN Err(d)
     ELSE IF when > 0 /\ when <= d.now THEN DelKv(d, k)
     ELSE Ok(IncrExExpiry(SetString(d, k, <<new>>), k, d.exp[k],
                                   enx, when))

----------------------------------------------------------------------------
(* Parts of strings.                                                        *)

\* APPEND: an existing string keeps its TTL.
AppendTo(d0, k, s) ==
  IF OomBlocked(d0) THEN Err(d0)
  ELSE LET d == DbGet(d0, k) IN
       IF Wrong(d, k, "string") THEN Err(d)
       ELSE IF Exists(d, k) THEN Ok(SetStringKeepTtl(d, k, Text(d, k) \o s))
       ELSE Ok(SetString(d, k, s))

\* SETRANGE at offset off >= 0.
SetRange(d0, k, off, s) ==
  LET d == DbGet(d0, k)
      old == Text(d, k)
      end == off + Len(s)
      padded == PadTo(old, end)
  IN IF Wrong(d, k, "string") THEN Err(d)
     ELSE IF Len(s) = 0 /\ (end <= Len(old) \/ ~Exists(d, k)) THEN Ok(d)
     ELSE IF OomBlocked(d) THEN Err(d)
     ELSE Ok(SetString(d, k, [i \in DOMAIN padded |->
                        IF i > off /\ i <= end THEN s[i - off]
                      ELSE padded[i]]))

\* SETBIT on byte i (from 0), which becomes c.
SetBit(d0, k, i, c) ==
  LET d == DbGet(d0, k) IN
  IF Wrong(d, k, "string") \/ OomBlocked(d) THEN Err(d)
  ELSE Ok(SetString(d, k, [PadTo(Text(d, k), i + 1) EXCEPT ![i + 1] = c]))

\* BITFIELD on one field, of byte i: op is "get", "set" or "incrby", c the
\* byte a write leaves.  Every operation, GET too, extends the string to the
\* field, and the string is always stored again.  i = -1 stands for an
\* offset before the start, an error.  BITFIELD_RO does not store.
BitField(d0, k, op, i, c) ==
  LET d == DbGet(d0, k)
      s == PadTo(Text(d, k), i + 1)
  IN IF Wrong(d, k, "string") \/ i < 0 THEN Err(d)
     ELSE Ok(SetString(d, k, IF op = "get" THEN s
                             ELSE [s EXCEPT ![i + 1] = c]))
BitFieldRo(d0, k, i) ==
  LET d == DbGet(d0, k) IN
  IF Wrong(d, k, "string") \/ i < 0 THEN Err(d) ELSE Ok(d)

\* BITOP dst srcs: c is what every byte of the result may be; an empty
\* result deletes the destination.
BitOp(d0, dst, srcs, c) ==
  LET p == ProbeUntil(d0, srcs, LAMBDA d, k : Wrong(d, k, "string"))
      d == p.d
      n == Max({0} \cup {Len(Text(d, srcs[i])) : i \in DOMAIN srcs})
  IN IF p.stop THEN Err(d)
     ELSE IF n = 0 THEN Ok(DelKv(d, dst))
     ELSE IF OomBlocked(d) THEN Err(d)
     ELSE Ok(SetString(d, dst, [i \in 1..n |-> c]))

\* The readers: STRLEN, GETRANGE, GETBIT, BITCOUNT, BITPOS, DIGEST.
StrLen(d, k)   == Read(d, k, "string")
GetRange(d, k) == Read(d, k, "string")
GetBit(d, k)   == Read(d, k, "string")
BitCount(d, k) == Read(d, k, "string")
BitPos(d, k)   == Read(d, k, "string")
Digest(d, k)   == Read(d, k, "string")

----------------------------------------------------------------------------
(* HyperLogLog.  A valid one is the string <<Hyll>> \o registers, here a    *)
(* single register that only grows.                                         *)

ValidHll(d, k) == Is(d, k, "string") /\ Len(Text(d, k)) = 2
                  /\ Text(d, k)[1] = Hyll
Register(d, k) == IF Exists(d, k) THEN Text(d, k)[2] ELSE 0

\* PFADD: r is the run length the elements' hashes show (0: no element).
PfAdd(d0, k, r) ==
  LET d == DbGet(d0, k) IN
  IF Exists(d, k) /\ ~ValidHll(d, k) THEN Err(d)
  ELSE IF r > Register(d, k) \/ (r = 0 /\ ~Exists(d, k)) THEN
         Ok(SetString(d, k, <<Hyll, r>>))
  ELSE Ok(d)

\* The sources of PFCOUNT and PFMERGE, in order; missing ones are skipped.
BadHll(d, k) == Exists(d, k) /\ ~ValidHll(d, k)
PfCount(d0, srcs) ==
  LET p == ProbeUntil(d0, srcs, BadHll) IN
  IF p.stop THEN Err(p.d) ELSE Ok(p.d)

\* PFMERGE stores the maximum of the sources: the destination's own
\* registers take no part, and its type is not looked at.
PfMerge(d0, dst, srcs) ==
  LET p == ProbeUntil(d0, srcs, BadHll)
      r == Max({0} \cup {Register(p.d, srcs[i]) : i \in DOMAIN srcs})
  IN IF p.stop THEN Err(p.d) ELSE Ok(SetString(p.d, dst, <<Hyll, r>>))

\* PFDEBUG: a missing key is an error too.
PfDebug(d0, k) ==
  LET d == DbGet(d0, k) IN IF ValidHll(d, k) THEN Ok(d) ELSE Err(d)
=============================================================================
