-------------------------------- MODULE Blocked --------------------------------
(***************************************************************************)
(* Clients that wait: BLPOP and its relatives, XREAD BLOCK and XREADGROUP  *)
(* BLOCK on the single-threaded server.  A command that finds nothing is   *)
(* stored in its session; server_process_blocked tries every stored        *)
(* command again, in the order of the connection table, between two rounds *)
(* of socket events, and then resumes the input buffered behind it.        *)
(*                                                                         *)
(* A key holds a list, a sorted set (its members in score order), a stream *)
(* (its entry ids) or a plain string; every element is a fresh number, so  *)
(* that a lost or doubled one shows.  replayed is the database that the    *)
(* append-only log (or the replication stream, which carries the same      *)
(* commands) rebuilds.                                                     *)
(***************************************************************************)
EXTENDS Integers, FiniteSets, SequencesExt

CONSTANTS Clients,   \* connections, 1 .. n
          Keys,
          Requests,  \* the menus of which one is chosen at start
          MaxSent,   \* requests of all connections together
          MaxNew,    \* elements ever added
          MaxTime    \* bound of the clock

VARIABLES menu,      \* the requests each client may send
          conns,     \* server.conns: the open connections in table order
          cl,        \* per connection: input buffer, blocked request, replies
          st,        \* the database, what it gave away, and the replayed log
          role,      \* SESSION_ROLE_MASTER or SESSION_ROLE_REPLICA
          now,
          budget     \* requests and elements sent so far, to bound them

vars == <<menu, conns, cl, st, role, now, budget>>

NoGroup == -1
Gone    == [kind |-> "none", items |-> <<>>, last |-> 0, grp |-> NoGroup]
Idle    == [cmd |-> "none"]

NewClient == [in |-> <<>>, blk |-> Idle, serial |-> 0, dl |-> 0, sent |-> 0, out |-> <<>>]

Init == /\ menu \in Requests
        /\ conns = SetToSortSeq(Clients, <)
        /\ cl = [c \in Clients |-> NewClient]
        /\ st = [d |-> [k \in Keys |-> Gone], replayed |-> [k \in Keys |-> Gone],
                 added |-> 0, taken |-> {}, dropped |-> {}]
        /\ role = "master"
        /\ now = 1
        /\ budget = [sent |-> 0, new |-> 0]

--------------------------------------------------------------------------------
\* What a command does to a database: the new one, whether the command is
\* finished (a reply was written), and the elements that went to the client.
Done(d, took) == [d |-> d, ready |-> TRUE, took |-> took]
Wait(d)       == [d |-> d, ready |-> FALSE, took |-> <<>>]
Error(d)      == Done(d, <<>>)

Take(items, n, left) ==
  IF left THEN SubSeq(items, 1, n) ELSE Reverse(SubSeq(items, Len(items) - n + 1, Len(items)))
Rest(items, n, left) ==
  IF left THEN SubSeq(items, n + 1, Len(items)) ELSE SubSeq(items, 1, Len(items) - n)
Put(items, new, left) == IF left THEN new \o items ELSE items \o new

Holds(d, k, kind) == d[k].kind = kind /\ d[k].items # <<>>
Wrong(d, k, kind) == d[k].kind \notin {kind, "none"}
Store(d, k, kind, items) ==
  [d EXCEPT ![k] = IF items = <<>> THEN Gone ELSE [@ EXCEPT !.kind = kind, !.items = items]]

\* Keys are looked at in the order given; the first that holds something wins,
\* unless one before it holds something else.
Firsts(d, keys, kind) == {i \in DOMAIN keys : Holds(d, keys[i], kind) \/ Wrong(d, keys[i], kind)}

FirstList(d, keys) == IF Firsts(d, keys, "list") = {} THEN 0 ELSE Min(Firsts(d, keys, "list"))
FirstZset(d, keys) == IF Firsts(d, keys, "zset") = {} THEN 0 ELSE Min(Firsts(d, keys, "zset"))

PopAt(d, keys, i, kind, count, left) ==
  LET k == keys[i]
      n == Min({count, Len(d[k].items)})
  IN IF i = 0 THEN Wait(d)
     ELSE IF Wrong(d, k, kind) THEN Error(d)
     ELSE Done(Store(d, k, kind, Rest(d[k].items, n, left)), Take(d[k].items, n, left))

Blpop(d, r)  == PopAt(d, r.keys, FirstList(d, r.keys), "list", 1, r.left)
Blmpop(d, r) == PopAt(d, r.keys, FirstList(d, r.keys), "list", r.count, r.left)
Bzpop(d, r)  == PopAt(d, r.keys, FirstZset(d, r.keys), "zset", 1, r.left)
Bzmpop(d, r) == PopAt(d, r.keys, FirstZset(d, r.keys), "zset", r.count, r.left)

\* Bug: the destination is looked at after the element has left the source.
ListMoveLate(d, r) ==
  LET items == d[r.keys[1]].items
      popped == Store(d, r.keys[1], "list", Rest(items, 1, r.left))
      x == Take(items, 1, r.left)
  IN IF Wrong(d, r.dst, "list") THEN Error(popped)
     ELSE Done(Store(popped, r.dst, "list", Put(popped[r.dst].items, x, r.dleft)), <<>>)

\* One element from source to destination, or round the same list; the
\* destination's type is checked before anything moves.  (Under a noeviction
\* limit, which this server does not have, a move to a missing destination may
\* be refused at the same place, with nothing moved: Keyspace.)
ListMove(d, r) ==
  LET items == d[r.keys[1]].items
      popped == Store(d, r.keys[1], "list", Rest(items, 1, r.left))
      x == Take(items, 1, r.left)
  IN IF Wrong(d, r.dst, "list") THEN Error(d)
     ELSE Done(Store(popped, r.dst, "list", Put(popped[r.dst].items, x, r.dleft)), <<>>)

Blmove(d, r) ==
  IF Wrong(d, r.keys[1], "list") THEN Error(d)
  ELSE IF ~Holds(d, r.keys[1], "list") THEN Wait(d) ELSE ListMove(d, r)

\* n elements at once: OBO as n single moves would leave them, BULK in the
\* order they had.
MoveMany(d, r, n) ==
  LET src == r.keys[1]
      vals == Take(d[src].items, n, r.left)
      placed == IF (IF r.order = "obo" THEN r.dleft ELSE ~r.left) THEN Reverse(vals) ELSE vals
      popped == Store(d, src, "list", Rest(d[src].items, n, r.left))
  IN IF Wrong(d, r.dst, "list") THEN Error(d)
     ELSE Done(Store(popped, r.dst, "list", Put(popped[r.dst].items, placed, r.dleft)), <<>>)

Needed(r) == IF r.mode = "exactly" THEN r.count ELSE 1

Blmovem(d, r) ==
  LET len == Len(d[r.keys[1]].items)
  IN IF Wrong(d, r.keys[1], "list") THEN Error(d)
     ELSE IF len < Needed(r) THEN Wait(d) ELSE MoveMany(d, r, Min({len, r.count}))

Lmovem(d, r) ==
  LET try == Blmovem(d, r) IN IF try.ready THEN try ELSE Error(d)

--------------------------------------------------------------------------------
\* Streams.  "$" stands for the last id of the stream when the question is asked.
Dollar == -1

Newer(d, k, id) == SelectSeq(d[k].items, LAMBDA e : e > id)
From(d, k, r)   == IF r.cmd = "XREADGROUP" THEN d[k].grp
                   ELSE IF r.id = Dollar THEN d[k].last ELSE r.id
Malformed(d, k, r) ==
  \/ Wrong(d, k, "stream")
  \/ r.cmd = "XREADGROUP" /\ (d[k].kind = "none" \/ d[k].grp = NoGroup)

\* xread_ready: 1 and -1 (a request that will be refused) both end the wait.
StreamReady(d, r) ==
  \E i \in DOMAIN r.keys :
     /\ \/ Malformed(d, r.keys[i], r)
        \/ d[r.keys[i]].kind = "stream" /\ Newer(d, r.keys[i], From(d, r.keys[i], r)) # <<>>

\* Bug: the group's cursor stays where it was.
XreadStays(d, r) == Done(d, Newer(d, r.keys[1], From(d, r.keys[1], r)))

\* XREADGROUP hands every new entry to the caller and moves the group's cursor;
\* XREAD gives nothing away.  Both are asked for one stream here.
Xread(d, r) ==
  LET k == r.keys[1]
      new == Newer(d, k, From(d, k, r))
  IN IF Malformed(d, k, r) \/ r.cmd = "XREAD" \/ new = <<>> THEN Error(d)
     ELSE Done([d EXCEPT ![k].grp = Last(new)], new)

--------------------------------------------------------------------------------
\* The commands that feed the waiters.
Add(d, r, e, kind) ==
  IF Wrong(d, r.key, kind) THEN Error(d)
  ELSE Done([Store(d, r.key, kind, Put(d[r.key].items, <<e>>, r.left))
               EXCEPT ![r.key].last = IF kind = "stream" THEN e ELSE 0], <<>>)

\* XGROUP CREATE key group $ MKSTREAM; BUSYGROUP when the group exists.
Xgroup(d, r) ==
  IF Wrong(d, r.key, "stream") \/ d[r.key].grp # NoGroup THEN Error(d)
  ELSE Done([d EXCEPT ![r.key].kind = "stream", ![r.key].grp = d[r.key].last], <<>>)

Adds(r) == r.cmd \in {"PUSH", "ZADD", "XADD"}
Erases(r) == r.cmd \in {"DEL", "SET"}

\* blocking_pop_try, or the dispatch of a command that never waits.
Attempt(d, r, e) ==
  CASE r.cmd = "BLPOP"   -> Blpop(d, r)
    [] r.cmd = "BLMPOP"  -> Blmpop(d, r)
    [] r.cmd = "BLMOVE"  -> Blmove(d, r)
    [] r.cmd = "BLMOVEM" -> Blmovem(d, r)
    [] r.cmd = "LMOVEM"  -> Lmovem(d, r)
    [] r.cmd = "BZPOP"   -> Bzpop(d, r)
    [] r.cmd = "BZMPOP"  -> Bzmpop(d, r)
    [] r.cmd \in {"XREAD", "XREADGROUP"} -> IF StreamReady(d, r) THEN Xread(d, r) ELSE Wait(d)
    [] r.cmd = "PUSH"    -> Add(d, r, e, "list")
    [] r.cmd = "ZADD"    -> Add(d, r, e, "zset")
    [] r.cmd = "XADD"    -> Add(d, r, e, "stream")
    [] r.cmd = "XGROUP"  -> Xgroup(d, r)
    [] r.cmd = "DEL"     -> Done([d EXCEPT ![r.key] = Gone], <<>>)
    [] r.cmd = "SET"     -> Done([d EXCEPT ![r.key] = [Gone EXCEPT !.kind = "string"]], <<>>)

\* 0 waits for ever.
Deadline(r) == IF r.to = 0 THEN 0 ELSE now + r.to

Writes(r) == r.cmd # "XREAD"

--------------------------------------------------------------------------------
\* The steps below work on a pair: the clients x.cl and the data x.st.
Effect(x, c, try) == [x EXCEPT !.st.d = try.d,
                               !.st.taken = @ \cup {<<c, e>> : e \in Range(try.took)}]
Answer(x, c, n)   == [x EXCEPT !.cl[c].out = Append(@, n)]

BlockStart(x, c, n, r) ==
  [x EXCEPT !.cl[c].blk = r, !.cl[c].serial = n, !.cl[c].dl = Deadline(r)]
BlockClear(x, c) == [x EXCEPT !.cl[c].blk = Idle, !.cl[c].serial = 0, !.cl[c].dl = 0]

\* A command that changed the database is appended to the log as it came.
Logged(x, r, e, changed) ==
  IF changed THEN [x EXCEPT !.st.replayed = Attempt(@, r, e).d] ELSE x

\* F of the value of v (v is evaluated once).
With(v, F(_)) == CHOOSE z \in {F(y) : y \in {v}} : TRUE

\* session_execute of one request: refused on a replica, served, or stored.
Finish(x, c, n, r, e, try) ==
  LET erased == IF Erases(r) THEN Range(x.st.d[r.key].items) ELSE {}
      refused == IF Adds(r) /\ try.d = x.st.d THEN {e} ELSE {}
      y == [Effect(x, c, try) EXCEPT !.st.added = IF Adds(r) THEN e ELSE @,
                                     !.st.dropped = @ \cup erased \cup refused]
  IN IF role = "replica" /\ Writes(r) THEN Answer(x, c, n)
     ELSE IF ~try.ready THEN BlockStart(x, c, n, r)
     ELSE Logged(Answer(y, c, n), r, e, try.d # x.st.d)

Execute(x, c, n, r) ==
  With(Attempt(x.st.d, r, x.st.added + 1),
       LAMBDA try : Finish(x, c, n, r, x.st.added + 1, try))

\* conn_process_input: requests of the buffer until one leaves the session blocked.
RECURSIVE ProcessInput(_, _)
ProcessInput(x, c) ==
  IF x.cl[c].in = <<>> THEN x
  ELSE LET m == Head(x.cl[c].in)
       IN With(Execute([x EXCEPT !.cl[c].in = Tail(@)], c, m.n, m.r),
               LAMBDA y : IF y.cl[c].blk # Idle THEN y ELSE ProcessInput(y, c))

Served(x, c, try) ==
  IF try.ready THEN BlockClear(Answer(Effect(x, c, try), c, x.cl[c].serial), c) ELSE x
Expired(x, c) == x.cl[c].dl # 0 /\ now >= x.cl[c].dl

\* Bug: the deadline is not looked at.
BlockedTryForEver(x, c) ==
  IF x.cl[c].blk = Idle THEN x ELSE With(Attempt(x.st.d, x.cl[c].blk, 0), LAMBDA try : Served(x, c, try))

\* command_blocked_try: the deadline first, then the stored request.
BlockedTry(x, c) ==
  IF x.cl[c].blk = Idle THEN x
  ELSE IF Expired(x, c) THEN BlockClear(Answer(x, c, x.cl[c].serial), c)
  ELSE With(Attempt(x.st.d, x.cl[c].blk, 0), LAMBDA try : Served(x, c, try))

Resume(x, c) == IF x.cl[c].blk = Idle THEN ProcessInput(x, c) ELSE x

--------------------------------------------------------------------------------
State == [cl |-> cl, st |-> st]
Becomes(x) == cl' = x.cl /\ st' = x.st

AddsIn(rs) == Cardinality({i \in DOMAIN rs : Adds(rs[i])})
Numbered(rs, n) == [i \in DOMAIN rs |-> [n |-> n + i, r |-> rs[i]]]
RoomFor(rs) ==
  /\ budget.sent + Len(rs) <= MaxSent
  /\ budget.new + AddsIn(rs) <= MaxNew
  /\ \A i \in DOMAIN rs : "to" \in DOMAIN rs[i] => now + rs[i].to <= MaxTime

\* A connection is readable: a segment of requests arrives, is parsed and
\* executed at once, whether or not the session is blocked.
Receive(c, rs) ==
  /\ c \in Range(conns)
  /\ RoomFor(rs)
  /\ \E x \in {[State EXCEPT !.cl[c].sent = @ + Len(rs),
                             !.cl[c].in = @ \o Numbered(rs, cl[c].sent)]} :
        Becomes(ProcessInput(x, c))
  /\ budget' = [sent |-> budget.sent + Len(rs), new |-> budget.new + AddsIn(rs)]
  /\ UNCHANGED <<menu, conns, role, now>>

RECURSIVE Tries(_, _), Resumes(_, _)
Tries(x, cs) ==
  IF cs = <<>> THEN x ELSE With(BlockedTry(x, Head(cs)), LAMBDA y : Tries(y, Tail(cs)))
Resumes(x, cs) ==
  IF cs = <<>> THEN x ELSE With(Resume(x, Head(cs)), LAMBDA y : Resumes(y, Tail(cs)))

\* server_process_blocked: first every waiter, then the input behind them.
ServeBlocked ==
  /\ \E c \in Clients : cl[c].blk # Idle \/ cl[c].in # <<>>
  /\ \E x \in {Tries(State, conns)} : \E y \in {Resumes(x, conns)} : Becomes(y)
  /\ UNCHANGED <<menu, conns, role, now, budget>>

\* conn_close: the last connection moves into the freed place of the table.
Close(c) ==
  /\ c \in Range(conns)
  /\ Len(conns) = Cardinality(Clients)
  /\ LET i == CHOOSE j \in DOMAIN conns : conns[j] = c
     IN conns' = Front([conns EXCEPT ![i] = Last(conns)])
  /\ cl' = [cl EXCEPT ![c] = NewClient]
  /\ UNCHANGED <<menu, st, role, now, budget>>

\* REPLICAOF: the node refuses client writes from here on.
Demote ==
  /\ role = "master"
  /\ role' = "replica"
  /\ UNCHANGED <<menu, conns, cl, st, now, budget>>

Tick ==
  /\ now < MaxTime \/ \E c \in Clients : cl[c].dl > now
  /\ now' = now + 1
  /\ UNCHANGED <<menu, conns, cl, st, role, budget>>

Next == \/ \E c \in Clients : \E r \in menu[c] : Receive(c, <<r>>)
        \/ \E c \in Clients : \E r \in menu[c], q \in menu[c] : Receive(c, <<r, q>>)
        \/ ServeBlocked
        \/ \E c \in Clients : Close(c)
        \/ Demote
        \/ Tick

\* server_run_once is called for ever, and the wall clock advances.
Fairness == WF_vars(ServeBlocked) /\ WF_vars(Tick)

Spec == Init /\ [][Next]_vars /\ Fairness

--------------------------------------------------------------------------------
Places(e)  == {<<k, i>> \in Keys \X (1 .. MaxNew) : i <= Len(st.d[k].items) /\ st.d[k].items[i] = e}
Takers(e)  == {c \in Clients : <<c, e>> \in st.taken}
InStream(e) == \E p \in Places(e) : st.d[p[1]].kind = "stream"

\* Whatever was pushed, moved, rotated and popped, served at once or later,
\* every element is in one place: under one key, with one client that got it
\* from a pop, or erased with its key.  Entries of a stream stay in it and are
\* handed to at most one reader of the group.
NothingLost ==
  \A e \in 1 .. st.added :
     /\ Cardinality(Places(e)) <= 1
     /\ Cardinality(Takers(e)) <= 1
     /\ Places(e) = {} => (Takers(e) # {} \/ e \in st.dropped)
     /\ Places(e) # {} /\ ~InStream(e) => Takers(e) = {} /\ e \notin st.dropped

Fed(c) == LET r == cl[c].blk
              d == st.d
          IN CASE r.cmd \in {"BLPOP", "BLMPOP", "BLMOVE"} -> \E i \in DOMAIN r.keys : Holds(d, r.keys[i], "list")
               [] r.cmd = "BLMOVEM" -> d[r.keys[1]].kind = "list" /\ Len(d[r.keys[1]].items) >= Needed(r)
               [] r.cmd \in {"BZPOP", "BZMPOP"} -> \E i \in DOMAIN r.keys : Holds(d, r.keys[i], "zset")
               [] r.cmd = "XREADGROUP" -> \E e \in Range(d[r.keys[1]].items) : e > d[r.keys[1]].grp
               [] r.cmd = "XREAD" -> r.id # Dollar /\ \E e \in Range(d[r.keys[1]].items) : e > r.id
               [] OTHER -> FALSE

\* No session stays blocked for ever on a key that has what it asked for, and
\* none outlives its deadline: server_process_blocked comes round to it.
\* (XREAD with "$" is left out: see the README.)
WaitersServed == \A c \in Clients : []<>(cl[c].blk = Idle \/ ~(Fed(c) \/ cl[c].dl # 0))

\* What the log or a replica rebuilds is the database.
LogIsComplete == role = "master" => st.replayed = st.d

\* Each connection gets one reply per request, in the order of the requests.
RepliesInOrder == \A c \in Clients : \A i \in DOMAIN cl[c].out : cl[c].out[i] = i
================================================================================
