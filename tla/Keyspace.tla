------------------------------- MODULE Keyspace -------------------------------
(***************************************************************************)
(* One logical database under the commands of its clients: the command      *)
(* operators of Strings, Hashes, Lists, Sets, Zsets, Arrays and Generic     *)
(* applied one after another, as the event loop runs them, with the clock   *)
(* and the background expiry between them.                                  *)
(*                                                                         *)
(* The commands are explored in families, one per behaviour: a family's     *)
(* commands, and a few of the others so that keys of the wrong type and     *)
(* keys with a deadline are met.  The families "geo", "rename" and "edge"   *)
(* hold the inputs on which the code breaks a rule the others keep; the     *)
(* properties below name them.                                              *)
(***************************************************************************)
EXTENDS Generic, Hashes

CONSTANTS
  Families,    \* the families explored
  MaxTime,     \* bound on the clock and on deadlines
  MaxSize,     \* bound on the elements of a value
  MaxMem,      \* bound on the memory counts, which drift in some families
  Cap          \* maxmemory of the "full", "edge" and "lru" families

VARIABLES
  db,          \* the database (module Db)
  family,      \* the family of commands, chosen once
  fieldsets    \* the session's HIMPORT field sets

vars == <<db, family, fieldsets>>

\* maxmemory and its policy are configuration: a small cap, with noeviction,
\* for some families.  Those of Full hold commands that make the noeviction
\* check; the commands that store without it are at the cap in "edge".
Full == {"full string", "full counter", "full list", "full set", "full hash", "full generic"}
Config(f) ==
  CASE f \in Full \cup {"edge"} -> EmptyDb(Cap, "noeviction")
    [] f = "lru"        -> EmptyDb(Cap, "allkeys-lru")
    [] OTHER            -> EmptyDb(0, "noeviction")

Init ==
  /\ family \in Families
  /\ db = Config(family)
  /\ fieldsets = [n \in {} |-> <<>>]

\* The larger families are explored with a shorter clock.
Horizon == IF family \in {"string", "counter", "hashttl", "generic", "edge"} THEN MaxTime ELSE 1

\* The bounds of the model: sizes, scores, cursors and deadlines.
Bounded(d) ==
  \A k \in Keys :
    /\ Size(d.val[k]) <= MaxSize
    /\ d.exp[k] <= Horizon
    /\ Is(d, k, "zset") => \A m \in DOMAIN d.val[k].v : d.val[k].v[m] \in -2..2
    /\ Is(d, k, "hash") => \A f \in DOMAIN d.val[k].v : d.val[k].v[f].x <= Horizon
    /\ Is(d, k, "array") => /\ Len(d.val[k].v.hist) <= MaxSize
                            /\ d.val[k].v.mem \in 0..MaxMem
    /\ d.mem \in 0..MaxMem

\* session_execute_at_raw: the command, then eviction.
Do(r) ==
  /\ Bounded(r)
  /\ db' \in EvictIfNeeded(r)
  /\ UNCHANGED <<family, fieldsets>>
DoAny(S) == \E r \in S : Do(r)
C == Begin(db)

----------------------------------------------------------------------------
(* The commands, by family.                                                 *)

\* The keys a family uses: one, where its commands name a single key.
Named == IF family \in {"hash", "hashttl", "array", "edge"} THEN {1} ELSE Keys
Orders == {<<k>> : k \in Named} \cup {s \in [1..2 -> Named] : s[1] # s[2]}
Texts == {<<0>>, <<Junk>>}
Ahead == {t \in 1..Horizon : t > db.now}

\* Commands of other families that give a key another type, a deadline or an
\* end.
SetA == \E k \in Named, s \in Texts : Do(Set(C, k, s, "none", FALSE, 0))
PushA == \E k \in Named : Do(PushCmd(C, k, FALSE, <<1>>, FALSE))
DelA == \E ks \in Orders : Do(Del(C, ks))
ExpireA == \E k \in Named, t \in Ahead : Do(Expire(C, k, "none", "none", t))
Foreign == \/ PushA \/ DelA \/ ExpireA

StringCommands ==
  /\ family \in {"string", "full string", "lru"}
  /\ \/ SetA
     \/ \E k \in Named, cond \in {"none", "NX", "XX"}, ttl \in {KeepTtl, 0, 1} :
          Do(Set(C, k, <<Junk>>, cond, FALSE, ttl))
     \/ /\ family = "string"
        /\ \E k \in Named : Do(Set(C, k, <<1>>, "none", TRUE, 0))
     \/ \E k \in Named : \/ Do(SetEx(C, k, <<1>>, 1))
                         \/ Do(SetNx(C, k, <<1>>))
                         \/ Do(GetSet(C, k, <<1>>))
                         \/ Do(GetDel(C, k))
                         \/ Do(AppendTo(C, k, <<Junk>>))
     \/ \E o \in Orders : \/ Do(MSet(C, [k \in Range(o) |-> <<1>>]))
                          \/ Do(MSetNx(C, o, [k \in Range(o) |-> <<1>>]))
     \/ \E o \in {<<1>>, <<1, 2>>}, cond \in {"none", "NX", "XX"},
           when \in {KeepTtl, 0} \cup Ahead :
          Do(MSetEx(C, o, [k \in Range(o) |-> <<1>>], cond, when))
     \/ Foreign

StringReads ==
  /\ family = "string"
  /\ \/ \E k \in Named : \/ Do(Get(C, k)) \/ Do(StrLen(C, k)) \/ Do(GetRange(C, k))
                         \/ Do(GetBit(C, k)) \/ Do(BitCount(C, k)) \/ Do(BitPos(C, k))
                         \/ Do(Digest(C, k))
     \/ \E o \in Orders : Do(MGet(C, o))
     \/ \E k \in Named, opt \in {"none", "persist"} : Do(GetEx(C, k, opt, 0))
     \/ \E k \in Named, when \in 1..Horizon : Do(GetEx(C, k, "at", when))
     \/ \E k \in Named : Do(DelEx(C, k, "none", <<>>))
     \/ \E k \in Named, cond \in {"IFEQ", "IFNE"} :
          ~Wrong(DbGet(C, k), k, "string") /\ Do(DelEx(C, k, cond, <<1>>))

CounterCommands ==
  /\ family \in {"counter", "full counter"}
  /\ \/ SetA
     \/ \E k \in Named, by \in {-1, 1} : Do(Incr(C, k, by)) \/ Do(IncrByFloat(C, k, by))
     \/ \E k \in Named, by \in {-1, 1}, saturate, enx \in BOOLEAN,
           when \in {KeepTtl, 0} \cup Ahead :
          Do(IncrEx(C, k, by, 0, 1, saturate, enx, when))
     \/ Foreign

BitCommands ==
  /\ family = "bits"
  /\ \/ \E k \in Named : Do(Set(C, k, <<Junk>>, "none", FALSE, 0))
     \/ \E k \in Named, i \in 0..1, s \in {<<>>, <<Junk>>} : Do(SetRange(C, k, i, s))
     \/ \E k \in Named, i \in 0..1 : Do(SetBit(C, k, i, Junk))
     \/ \E k \in Named, i \in -1..1 : \/ Do(BitField(C, k, "get", i, 0))
                                      \/ Do(BitField(C, k, "set", i, Junk))
                                      \/ Do(BitFieldRo(C, k, i))
     \/ \E k \in Named, o \in Orders : Do(BitOp(C, k, o, Nul))
     \/ Foreign

HllCommands ==
  /\ family = "hll"
  /\ \/ \E k \in Named, r \in 0..2 : Do(PfAdd(C, k, r))
     \/ \E k \in Named, o \in Orders : Do(PfMerge(C, k, o))
     \/ \E o \in Orders : Do(PfCount(C, o))
     \/ \E k \in Named : Do(PfDebug(C, k)) \/ Do(AppendTo(C, k, <<Junk>>))
     \/ Foreign

ListCommands ==
  /\ family \in {"list", "full list"}
  /\ \/ \E k \in Named : Do(Set(C, k, <<1>>, "none", FALSE, 0))
     \/ \E k \in Named, left, x \in BOOLEAN, e \in 1..2 : Do(PushCmd(C, k, left, <<e>>, x))
     \/ \E k \in Named, left \in BOOLEAN, n \in 1..2 : Do(PopCmd(C, k, left, n))
     \/ \E k \in Named, i \in {-1, 0, 1} : Do(LSet(C, k, i, 2))
     \/ \E k \in Named, n \in {-1, 0, 1} : Do(LRem(C, k, n, 1))
     \/ \E k \in Named, from \in {-1, 0, 1}, to \in {-1, 0} : Do(LTrim(C, k, from, to))
     \/ \E k \in Named, after \in BOOLEAN : Do(LInsert(C, k, after, 1, 2))
     \/ \E src, dst \in Named, l, r \in BOOLEAN : Do(LMove(C, src, dst, l, r))
     \/ \E src, dst \in Named : Do(RPopLPush(C, src, dst))
     \/ \E src, dst \in Named, l, exactly, bulk \in BOOLEAN :
          Do(LMoveM(C, src, dst, l, ~l, 2, exactly, bulk))
     \/ \E o \in Orders, left \in BOOLEAN : Do(LMPop(C, o, left, 1))
     \/ \E k \in Named : \/ Do(LLen(C, k)) \/ Do(LRange(C, k)) \/ Do(LIndex(C, k))
                         \/ Do(LPos(C, k))
     \/ DelA \/ ExpireA

SetCommands ==
  /\ family \in {"set", "full set"}
  /\ \/ \E k \in Named, m \in 1..2 : Do(SAdd(C, k, {m})) \/ Do(SRem(C, k, {m}))
     \/ \E k \in Named, n \in -1..2 : DoAny(SPop(C, k, n))
     \/ \E src, dst \in Named, m \in 1..2 : Do(SMove(C, src, dst, m))
     \/ \E o \in Orders : \/ Do(SetRead(C, o)) \/ Do(SetCard(C, o)) \/ Do(SInterCard(C, o))
     \/ /\ family = "set"
        /\ \E k \in Named, o \in Orders, op \in {"inter", "union", "diff"} :
             Do(SetStore(C, k, op, o))
     \/ \E k \in Named : \/ Do(SIsMember(C, k)) \/ Do(SMIsMember(C, k)) \/ Do(SCard(C, k))
                         \/ Do(SMembers(C, k)) \/ Do(SRandMember(C, k))
     \/ Foreign

ZAddOptions == {<<"none", "none">>, <<"NX", "none">>, <<"XX", "none">>, <<"none", "GT">>,
                <<"XX", "LT">>, <<"NX", "GT">>}
ZsetWrites ==
  /\ family = "zset"
  /\ \/ \E k \in Named, s \in 0..1 : Do(ZAdd(C, k, "none", "none", <<<<1, s>>, <<2, 1>>>>))
     \/ \E k \in Named, s \in 0..1, o \in ZAddOptions :
          Do(ZAdd(C, k, o[1], o[2], <<<<1, s>>>>)) \/ Do(ZAddIncr(C, k, o[1], o[2], 1, s))
     \/ \E k \in Named, m \in 1..2 : Do(ZIncrBy(C, k, m, 1)) \/ Do(ZRem(C, k, {m}))
     \/ \E k \in Named : \/ Do(ZRemRangeByScore(C, k, 0, 0))
                         \/ Do(ZRemRangeByLex(C, k, 1, 1))
                         \/ Do(ZRemRangeByRank(C, k, -1, 1))
     \/ \E k \in Named, low \in BOOLEAN, n \in 0..2 : Do(ZPop(C, k, low, n))
     \/ \E o \in Orders, low \in BOOLEAN : Do(ZMPop(C, o, low, 1))
     \/ Foreign

ZsetStores ==
  /\ family = "zset"
  /\ \/ \E k \in Named, o \in Orders,
           p \in {<<"union", "sum">>, <<"union", "max">>, <<"inter", "min">>, <<"diff", "sum">>} :
          Do(ZStore(C, k, p[1], o, <<1, 2>>, p[2]))
     \/ \E dst, src \in Named, lo \in 0..1 : Do(ZRangeStore(C, dst, src, lo, 1))

ZsetReads ==
  /\ family = "zset"
  /\ \/ \E o \in Orders : Do(ZSetRead(C, o)) \/ Do(ZInterCard(C, o))
     \/ \E k \in Named : \/ Do(ZScore(C, k)) \/ Do(ZCard(C, k)) \/ Do(ZRange(C, k))
                         \/ Do(ZRank(C, k)) \/ Do(ZCount(C, k)) \/ Do(ZRangeByScore(C, k))
                         \/ Do(ZMScore(C, k)) \/ Do(ZRandMember(C, k))
                         \/ Do(ZRangeByLex(C, k)) \/ Do(ZLexCount(C, k))
                         \/ Do(ZRevRangeByScore(C, k))

\* Positions are scores 0 and 1; every position is within distance 1 of both.
GeoCommands ==
  /\ family = "geo"
  /\ \/ \E k \in Named, s \in 0..1, cond \in {"none", "NX", "XX"} : Do(GeoAdd(C, k, cond, 1, s))
     \/ \E k \in Named : Do(GeoAdd(C, k, "none", 2, 1))
     \/ \E dst, src \in Named, m \in 1..2, r \in 0..1 : Do(GeoStore(C, dst, src, m, r))
     \/ \E k \in Named : \/ Do(GeoPos(C, k)) \/ Do(GeoHash(C, k)) \/ Do(GeoDist(C, k))
                         \/ Do(GeoSearch(C, k)) \/ Do(GeoRadius(C, k)) \/ Do(ZRem(C, k, {1}))
     \/ Foreign

HashCommands ==
  /\ family \in {"hash", "hashttl", "full hash"}
  /\ \/ \E k \in Named, f \in 1..2, v \in {1, Text0} : Do(HSet(C, k, [g \in {f} |-> v]))
     \/ \E k \in Named, f \in 1..2 : Do(HDel(C, k, {f})) \/ Do(HGet(C, k, f))
     \/ \E k \in Named, by \in {-1, 1} : Do(HIncrBy(C, k, 1, by))
     \/ \E k \in Named, f \in 1..2 : Do(HSetNx(C, k, f, 1))
     \/ \E k \in Named : DoAny(HLen(C, k))
     \/ Foreign
HashReads ==
  /\ family = "hash"
  /\ \E k \in Named : \/ Do(HExists(C, k, 1)) \/ Do(HMGet(C, k, 1)) \/ DoAny(HGetAll(C, k))
                      \/ Do(HStrLen(C, k)) \/ Do(HRandField(C, k)) \/ Do(HScan(C, k))

HashDeadlines ==
  /\ family = "hashttl"
  /\ \/ \E k \in Named, f \in 1..2, cond \in {"none", "FNX", "FXX"}, opt \in {"none", "keep"} :
          DoAny(HSetEx(C, k, f, 1, cond, opt, 0))
     \/ \E k \in Named, f \in 1..2, cond \in {"none", "FNX", "FXX"}, when \in 1..Horizon :
          DoAny(HSetEx(C, k, f, 1, cond, "at", when))
     \/ \E k \in Named, f \in 1..2, opt \in {"none", "persist", "at"} :
          DoAny(HGetEx(C, k, f, opt, Horizon))
     \/ \E k \in Named, f \in 1..2, cond \in {"none", "NX", "XX", "GT", "LT"},
           when \in 1..Horizon : DoAny(HExpire(C, k, f, cond, when))
     \/ \E k \in Named, f \in 1..2 : \/ DoAny(HTtl(C, k, f))
                                     \/ DoAny(HPersist(C, k, f))
                                     \/ DoAny(HGetDel(C, k, f))

\* HIMPORT PREPARE, DISCARD, DISCARDALL, SET.
HImportCommands ==
  /\ family = "hash"
  /\ \/ \E fs \in {<<1>>, <<1, 1>>, <<2, 1>>} :
          /\ fieldsets' = HImportPrepare(fieldsets, "s", fs)
          /\ db' = IF fs = <<1, 1>> THEN Err(C) ELSE Ok(C)
          /\ UNCHANGED family
     \/ /\ fieldsets' = HImportDiscard(fieldsets, "s")
        /\ db' = Ok(C)
        /\ UNCHANGED family
     \/ \E k \in Named, vs \in {<<1>>, <<1, Text0>>} :
          Do(HImportSet(C, fieldsets, k, "s", vs))

ArrayNext(k) == IF Is(db, k, "array") THEN db.val[k].v.next ELSE 0

\* Slots stay clear of the last index, which "edge" explores.
ArrayCommands ==
  /\ family = "array"
  /\ \/ \E k \in Named, i \in 0..1, vs \in {<<1>>, <<1, 1>>} : DoAny(ArSet(C, k, i, vs))
     \/ \E k \in Named, is \in {<<1>>, <<0, 1>>} : DoAny(ArMSet(C, k, is, 1))
     \/ \E k \in Named : ArrayNext(k) < MaxIndex /\ DoAny(ArInsert(C, k, 1))
     \/ \E k \in Named : DoAny(ArRing(C, k, 2, 1))
     \/ \E k \in Named, is \in {<<0>>, <<0, 1>>} : Do(ArDel(C, k, is))
     \/ \E k \in Named, lo \in 0..1 : Do(ArDelRange(C, k, lo, 1))
     \/ \E k \in Named : \/ Do(ArLen(C, k)) \/ Do(ArCount(C, k)) \/ Do(ArNext(C, k))
                         \/ Do(ArGet(C, k)) \/ Do(ArGetRange(C, k)) \/ Do(ArScan(C, k))
                         \/ Do(ArInfo(C, k)) \/ Do(ArLastItems(C, k)) \/ Do(ArOp(C, k))
                         \/ Do(ArGrep(C, k)) \/ Do(ArMGet(C, k, <<0, 1>>))
     \/ Foreign

GenericCommands ==
  /\ family \in {"generic", "full generic"}
  /\ \/ SetA \/ Foreign
     \/ \E k \in Named, cond \in {"none", "NX", "XX"}, cmp \in {"none", "GT", "LT"},
           t \in 1..Horizon : Do(Expire(C, k, cond, cmp, t))
     \/ \E k \in Named : Do(Persist(C, k))
     \/ \E src, dst \in Named, nx \in BOOLEAN :
          ~Is(db, src, "list") /\ Do(Rename(C, src, dst, nx))
     \/ \E src, dst \in Named, replace \in BOOLEAN : DoAny(Copy(C, src, dst, replace))
     \/ \E k \in Named, x \in {None, Str(<<1>>)}, t \in {0} \cup Ahead, replace \in BOOLEAN :
          Do(Restore(C, k, x, t, replace))
     \/ Do(FlushDb(C)) \/ Do(KeysCmd(C)) \/ Do(DbSize(C))
     \/ \E S \in SUBSET Named : Do(Scan(C, S)) \/ Do(RandomKey(C, S))
     \/ \E o \in Orders : Do(ExistsCmd(C, o)) \/ Do(TouchCmd(C, o))
     \/ \E k \in Named : \/ Do(Type(C, k)) \/ Do(Ttl(C, k)) \/ Do(ExpireTime(C, k))
                         \/ Do(Object(C, k)) \/ Do(Dump(C, k))

\* BY, GET, DESC and LIMIT.
SortOptions ==
  {[by |-> b, get |-> FALSE, desc |-> FALSE, from |-> 0] : b \in BOOLEAN}
    \cup {[by |-> b, get |-> TRUE, desc |-> TRUE, from |-> 0] : b \in BOOLEAN}
    \cup {[by |-> FALSE, get |-> FALSE, desc |-> TRUE, from |-> 1]}
SortCommands ==
  /\ family = "sort"
  /\ \/ SetA \/ Foreign
     \/ \E k \in Named : Do(PushCmd(C, k, FALSE, <<2>>, FALSE))
     \/ \E k \in Named : \/ Do(SAdd(C, k, {2})) \/ Do(ZIncrBy(C, k, 1, 1))
     \/ \E src, dst \in Named, o \in SortOptions :
          Do(SortCmd(C, src, o.by, o.get, o.desc, o.from, 2, dst))
     \/ \E src \in Named, by, desc \in BOOLEAN : Do(SortCmd(C, src, by, FALSE, desc, 0, 2, 0))

\* RENAME of an object.
RenameCommands ==
  /\ family = "rename"
  /\ \/ SetA \/ Foreign
     \/ \E src, dst \in Named, nx \in BOOLEAN : Do(Rename(C, src, dst, nx))

\* The inputs on which the code leaves something behind, writes two replies or
\* none: see the properties.
EdgeCommands ==
  /\ family = "edge"
  /\ \/ SetA \/ Foreign
     \/ \E k \in Named : Do(Set(C, k, <<1>>, "none", TRUE, 0))
     \/ \E k \in Named, when \in 1..Horizon : Do(IncrEx(C, k, 1, 0, 1, FALSE, FALSE, when))
     \/ \E k \in Named, cond \in {"IFEQ", "IFNE"} : Do(DelEx(C, k, cond, <<1>>))
     \/ \E k \in Named, m \in 1..2 : Do(ZAdd(C, k, "none", "none", <<<<m, 0>>, <<m, NotAScore>>>>))
     \/ \E k \in Named : DoAny(ArSet(C, k, MaxIndex, <<1>>)) \/ DoAny(ArSet(C, k, 0, <<1>>))
     \/ \E k \in Named : DoAny(ArMSet(C, k, <<1, MaxIndex>>, 1))
     \/ \E k \in Named : Do(ArSeek(C, k, MaxIndex)) \/ Do(ArDel(C, k, <<0, -1>>))
     \/ \E k \in Named : ArrayNext(k) = MaxIndex /\ DoAny(ArInsert(C, k, 1))
     \/ \E k \in Named : Do(ArMGet(C, k, <<0, -1>>))
     \/ \E src \in Named : Do(SortCmd(C, src, FALSE, TRUE, FALSE, 0, 2, 0))
     \/ \E k \in Named, t \in 1..Horizon :
          \/ Do(Restore(C, k, Str(<<1>>), t, TRUE))
          \/ Do(MSetEx(C, <<k>>, [j \in {k} |-> <<1>>], "none", t))

\* The commands that store more without looking at maxmemory.
UncheckedCommands ==
  /\ family = "edge"
  /\ \/ \E k \in Named : \/ Do(ZAdd(C, k, "none", "none", <<<<1, 0>>>>))
                         \/ Do(SetStore(C, k, "union", <<k>>))
                         \/ Do(ZStore(C, k, "union", <<k, k>>, <<1, 1>>, "sum"))
                         \/ Do(PfAdd(C, k, 1))
                         \/ Do(PfMerge(C, k, <<k>>))
                         \/ Do(BitField(C, k, "set", 1, Junk))
                         \/ DoAny(ArRing(C, k, 2, 1))
     \/ \E k \in Named, f \in 1..2 : DoAny(HSetEx(C, k, f, 1, "none", "none", 0))

----------------------------------------------------------------------------
\* The clock, and the background cycle that samples the keys with a deadline.
Tick ==
  /\ db.now < Horizon
  /\ db' = [C EXCEPT !.now = @ + 1, !.out = <<"none">>]
  /\ UNCHANGED <<family, fieldsets>>
ActiveExpireCycle ==
  \E S \in SUBSET {k \in Keys : db.exp[k] # 0} :
    /\ db' = [ActiveExpire(C, S) EXCEPT !.out = <<"none">>]
    /\ UNCHANGED <<family, fieldsets>>
\* A command refused while its arguments are parsed.
Malformed == Do(Err(C))

Next ==
  \/ StringCommands \/ StringReads \/ CounterCommands \/ BitCommands \/ HllCommands
  \/ ListCommands \/ SetCommands \/ ZsetWrites \/ ZsetStores \/ ZsetReads
  \/ GeoCommands \/ HashCommands \/ HashReads \/ HashDeadlines \/ HImportCommands
  \/ ArrayCommands \/ GenericCommands \/ SortCommands \/ RenameCommands \/ EdgeCommands
  \/ UncheckedCommands
  \/ Tick \/ ActiveExpireCycle \/ Malformed

Spec == Init /\ [][Next]_vars

\* What the next command depends on: not the keys touched and the replies
\* written by the last one.
Tables == <<Begin(db), family, fieldsets>>

----------------------------------------------------------------------------
(* Properties.                                                              *)

\* What a client can still see of a key at the time now: nothing of a key
\* whose deadline passed, of a hash its live fields.
Live(d, k, now) ==
  IF d.exp[k] # 0 /\ d.exp[k] <= now THEN None
  ELSE IF Is(d, k, "hash") THEN Hash(DropFields(d.val[k].v, Dead(d.val[k].v, now)))
  ELSE d.val[k]

Same(x, y) == x.t = y.t /\ x.v = y.v
Unchanged(k) == Same(Live(db, k, db'.now), Live(db', k, db'.now))

\* Every change of what a key holds passes through db_touch_key: it moves
\* db.dirty, which is what makes the command reach the AOF and the replicas,
\* and it invalidates the WATCHes of the key.
ChangesAreTouched ==
  [][\A k \in Keys : ~Unchanged(k) => k \in db'.touched]_vars

\* ChangesAreTouched for the commands whose writes all end in mem_sync or
\* db_set_kv: not GEOADD, and not the failures of "edge".
WritesAreTouched ==
  [][family \notin {"geo", "edge"} =>
       \A k \in Keys : ~Unchanged(k) => k \in db'.touched]_vars

\* used_memory is what the entries of the two tables add up to.  (In a hash
\* with field deadlines a purge follows mem_sync or replaces it; GEOADD and
\* the failures of "edge" change an object without mem_sync; RENAME counts a
\* moved object twice; an array does not know its own size.)
TableMem(d) ==
  MapThenSumSet(LAMBDA k : MemOf(d.val[k]) + (IF d.exp[k] = 0 THEN 0 ELSE ExpiryBytes), Keys)
Accounted == db.mem = TableMem(db)
MemExact == family \notin {"hashttl", "geo", "edge", "array", "rename"} => Accounted

\* A command that replies an error has changed nothing: not what a key holds,
\* not its deadline.  (Failures after the first write: "edge".)
ErrorsChangeNothing ==
  [][(db'.out = <<"err">> /\ family # "edge") =>
       \A k \in Keys : /\ Unchanged(k)
                       /\ Exists(db', k) => db'.exp[k] = db.exp[k]]_vars

\* Every command writes one reply: no early return is silent, and none writes
\* after a reply was already begun.  (Those that do: "edge".)
OneReply == [][family # "edge" => Len(db'.out) = 1]_vars

\* A deadline belongs to the value it was given to: no step leaves one behind
\* without its key, where the next value stored under that name would find it,
\* and a key that was missing or dead and is stored again does not carry the
\* deadline its predecessor died of.  (RESTORE ABSTTL and MSETEX with EXAT or
\* PXAT store a key that is dead already when they are given a time in the
\* past, as "edge" does.)
RebornKeysAreFresh ==
  [][family # "edge" =>
       \A k \in Keys :
         db'.exp[k] # 0 =>
           /\ Exists(db', k)
           /\ (Live(db, k, db'.now).t = "none" /\ k \in db'.touched)
                => db'.exp[k] > db'.now]_vars

\* Under noeviction, over the cap even without its dead keys, a command does
\* not store more (a deadline is not refused).
ValueMem(d) == MapThenSumSet(LAMBDA k : MemOf(d.val[k]), Keys)
StoresNoMore ==
  (/\ db.max # 0 /\ db.policy = "noeviction"
   /\ Visit(db, SetToSeq(Keys)).mem > db.max) => ValueMem(db') <= ValueMem(db)
CapHolds == [][StoresNoMore]_vars

\* CapHolds for the commands of the string, counter, list, set, hash and
\* generic families that call oom_blocked: each does so by hand, on its own
\* path, before or after its lookups, and LMOVE, RPOPLPUSH and LMOVEM for a
\* missing destination only.  (ZADD, the STORE commands, HSETEX, PFADD,
\* PFMERGE, BITFIELD and the array commands do not: UncheckedCommands.)
MemoryBounded == [][(family \in Full) => StoresNoMore]_vars
=============================================================================
