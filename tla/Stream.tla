------------------------------- MODULE Stream -------------------------------
(***************************************************************************)
(* Streams and consumer groups: ds/stream.c and the X* commands of         *)
(* core/command.c on one key.                                              *)
(*                                                                         *)
(* A 128-bit entry id is a natural number (only its order is used; 0 is    *)
(* 0-0).  Field data, delivery counts, entries_added, max_deleted_id and   *)
(* entries_read are only reported and are left out.  Memory counts one     *)
(* unit per entry, group, consumer and pending record.  Of the absolute    *)
(* time a pending record keeps (the field idle) the model tells apart      *)
(* whether it is the present moment (at = 1) or an earlier one (at = 0);   *)
(* Tick makes every present moment an earlier one.                         *)
(*                                                                         *)
(* A command of one id (XDEL, XACK...) stands for each turn of the loop    *)
(* over the ids of a longer one: when a later id does not parse the        *)
(* command ends in an error and what it did before stays.                  *)
(*                                                                         *)
(* Every command is an operator from the stream object to a result         *)
(* [st, head, sent] with the new object and, for the array replies of      *)
(* XCLAIM and XAUTOCLAIM, the length announced in the header and the       *)
(* number of elements written.                                             *)
(***************************************************************************)
EXTENDS Integers, FiniteSets, SequencesExt

CONSTANTS Groups, Consumers,
          NulName,      \* the one-byte name "\0" that XNACK FORCE uses
          ClaimLists,   \* id lists given to XCLAIM
          ClaimOpts,    \* its options: [minidle, force, justid, at, lastid]
          MaxId,        \* bound: largest id added
          MaxPending    \* bound: pending records of a group

VARIABLES stream,       \* the object, or Missing
          owed          \* elements the last reply announced and did not write

vars == <<stream, owed>>

Ids == 1 .. MaxId
Missing == [entries |-> <<>>, last |-> -1, mem |-> 0, gmem |-> 0, groups |-> <<>>]
EmptyStream == [Missing EXCEPT !.last = 0]
NoLimit == MaxId + 1
None == -1
-----------------------------------------------------------------------------
(***************************************************************************)
(* ds/stream.c: the entry array.                                           *)
(***************************************************************************)

\* Index (from 0) of the first entry with an id >= id, by bisection.
LowerBound(es, id) ==
    LET search[lo \in 0 .. Len(es), hi \in 0 .. Len(es)] ==
            IF lo >= hi THEN lo
            ELSE LET mid == lo + (hi - lo) \div 2 IN
                 IF es[mid + 1] < id THEN search[mid + 1, hi] ELSE search[lo, mid]
    IN search[0, Len(es)]

\* stream_entry_index
HasEntry(st, id) ==
    LET i == LowerBound(st.entries, id) IN i < Len(st.entries) /\ st.entries[i + 1] = id

\* obj_stream_append, for an id above the last one.
Append1(st, id) ==
    [st EXCEPT !.entries = Append(@, id), !.last = id, !.mem = @ + 1]

\* obj_stream_delete
DeleteEntry(st, id) ==
    IF ~HasEntry(st, id) THEN st
    ELSE [st EXCEPT !.entries = RemoveAt(@, LowerBound(@, id) + 1), !.mem = @ - 1]

\* stream_remove_front
RemoveFront(st, n) ==
    [st EXCEPT !.entries = SubSeq(@, n + 1, Len(@)), !.mem = @ - n]

\* obj_stream_trim_maxlen and obj_stream_trim_minid; a trim is [kind, arg, limit].
Trim(st, trim) ==
    LET n == CASE trim.kind = "maxlen" -> Len(st.entries) - trim.arg
               [] trim.kind = "minid"  -> LowerBound(st.entries, trim.arg)
               [] OTHER -> 0
    IN IF n <= 0 THEN st
       ELSE RemoveFront(st, IF trim.limit < n THEN trim.limit ELSE n)

\* The entries after id, at most count of them: obj_stream_lower_bound, then
\* the loop past the entries that are not strictly greater.
After(st, id, count) ==
    LET lb == LowerBound(st.entries, id)
        first == IF HasEntry(st, id) THEN lb + 1 ELSE lb
        n == Len(st.entries) - first
    IN SubSeq(st.entries, first + 1, first + (IF count < n THEN count ELSE n))
-----------------------------------------------------------------------------
(***************************************************************************)
(* ds/stream.c: groups, consumers, pending entry lists.  A group is        *)
(*   [cur, cons] : the last-delivered id and the consumers in the order of *)
(* their creation, each [name, pel] with pel a sequence of [id, at].       *)
(* start, seen, again, forced and moved are history: the id the group was  *)
(* created with, the ids that ">" has delivered, those it has delivered    *)
(* more than once, the ids that FORCE made pending undelivered, and whether*)
(* XCLAIM LASTID has moved the cursor.                                     *)
(***************************************************************************)

NewGroup(cur) == [cur |-> cur, cons |-> <<>>, start |-> cur, seen |-> {},
                  again |-> {}, forced |-> {}, moved |-> 0]

\* The history of deliveries and of FORCE, kept until LASTID moves the cursor.
Delivered(st, g, ids) ==
    IF st.groups[g].moved = 1 THEN st
    ELSE [st EXCEPT !.groups[g].seen = @ \union ids,
                    !.groups[g].again = @ \union (st.groups[g].seen \intersect ids)]
Forced(st, g, id) ==
    IF st.groups[g].moved = 1 THEN st ELSE [st EXCEPT !.groups[g].forced = @ \union {id}]

HasGroup(st, g) == g \in DOMAIN st.groups

\* obj_stream_group_create: an existing group is returned as it is.
GroupCreate(st, g, cur) ==
    IF HasGroup(st, g) THEN st
    ELSE [st EXCEPT !.groups = [h \in DOMAIN @ \union {g} |-> IF h = g THEN NewGroup(cur) ELSE @[h]],
                    !.gmem = @ + 1]

PelLens(grp) == FoldLeft(LAMBDA n, c : n + Len(c.pel), 0, grp.cons)

GroupDestroyKeepsPel(st, g) ==
    [st EXCEPT !.groups = [h \in DOMAIN @ \ {g} |-> @[h]],
               !.gmem = @ - 1 - Len(st.groups[g].cons)]

\* obj_stream_group_destroy, of an existing group.
GroupDestroy(st, g) ==
    [st EXCEPT !.groups = [h \in DOMAIN @ \ {g} |-> @[h]],
               !.gmem = @ - 1 - Len(st.groups[g].cons) - PelLens(st.groups[g])]

\* obj_stream_consumer_get: position of the consumer, 0 when there is none.
ConsumerAt(grp, name) == SelectInSeq(grp.cons, LAMBDA c : c.name = name)

\* obj_stream_consumer_create
ConsumerCreate(st, g, name) ==
    IF ConsumerAt(st.groups[g], name) # 0 THEN st
    ELSE [st EXCEPT !.groups[g].cons = Append(@, [name |-> name, pel |-> <<>>]),
                    !.gmem = @ + 1]

\* obj_stream_consumer_destroy, of an existing consumer.
ConsumerDestroy(st, g, name) ==
    LET i == ConsumerAt(st.groups[g], name) IN
    [st EXCEPT !.groups[g].cons = RemoveAt(@, i),
               !.gmem = @ - 1 - Len(st.groups[g].cons[i].pel)]

PelAt(pel, id) == SelectInSeq(pel, LAMBDA p : p.id = id)

\* stream_group_pel_find: the first consumer with this id pending, 0 for none.
OwnerAt(grp, id) == SelectInSeq(grp.cons, LAMBDA c : PelAt(c.pel, id) # 0)

PendingAt(grp, id) ==
    LET c == grp.cons[OwnerAt(grp, id)] IN c.pel[PelAt(c.pel, id)]

\* obj_stream_consumer_pel_add: an id the consumer already has is left as it is.
PelAdd(st, g, i, id, at) ==
    IF PelAt(st.groups[g].cons[i].pel, id) # 0 THEN st
    ELSE [st EXCEPT !.groups[g].cons[i].pel = Append(@, [id |-> id, at |-> at]),
                    !.gmem = @ + 1]

\* obj_stream_group_pel_remove: the first match over the consumers.
PelRemove(st, g, id) ==
    LET i == OwnerAt(st.groups[g], id) IN
    IF i = 0 THEN st
    ELSE [st EXCEPT !.groups[g].cons[i].pel = RemoveAt(@, PelAt(@, id)), !.gmem = @ - 1]

\* stream_entry_referenced and stream_entry_remove_refs
Referenced(st, id) == \E g \in DOMAIN st.groups : OwnerAt(st.groups[g], id) # 0
RemoveRefs(st, id) ==
    FoldLeft(LAMBDA s, g : PelRemove(s, g, id), st, SetToSeq(DOMAIN st.groups))
-----------------------------------------------------------------------------
(***************************************************************************)
(* The commands.                                                           *)
(***************************************************************************)
Res(st, head, sent) == [st |-> st, head |-> head, sent |-> sent]
Ok(st) == Res(st, 0, 0)

\* XADD.  id is the parsed id ("*" and "ms-*" give some id above the last one),
\* 0 when it does not parse.  The key is created before the id is looked at.
XaddRes(st, id, nomkstream, trim) ==
    LET base == IF st = Missing THEN EmptyStream ELSE st IN
    IF st = Missing /\ nomkstream THEN Ok(st)
    ELSE IF id <= base.last THEN Ok(base)
    ELSE Ok(Trim(Append1(base, id), trim))

XdelRes(st, id) == Ok(DeleteEntry(st, id))

\* XDELEX KEEPREF|DELREF|ACKED
XdelexRes(st, id, strategy) ==
    IF strategy = "acked" /\ Referenced(st, id) THEN Ok(st)
    ELSE Ok(DeleteEntry(IF strategy = "delref" THEN RemoveRefs(st, id) ELSE st, id))

XtrimRes(st, trim) == Ok(Trim(st, trim))

XsetidRes(st, id) == IF id < st.last THEN Ok(st) ELSE Ok([st EXCEPT !.last = id])

\* XGROUP CREATE [MKSTREAM]
XgroupCreateRes(st, g, id, mkstream) ==
    IF st = Missing /\ ~mkstream THEN Ok(st)
    ELSE Ok(GroupCreate(IF st = Missing THEN EmptyStream ELSE st, g, id))

\* XGROUP SETID calls obj_stream_group_create too: it creates a missing group and
\* leaves the cursor of an existing one.
XgroupSetidRes(st, g, id) == Ok(GroupCreate(st, g, id))
XgroupDestroyRes(st, g) == Ok(IF HasGroup(st, g) THEN GroupDestroy(st, g) ELSE st)

XgroupCreateConsumerRes(st, g, c) == Ok(ConsumerCreate(st, g, c))
XgroupDelConsumerRes(st, g, c) ==
    IF ConsumerAt(st.groups[g], c) = 0 THEN Ok(st) ELSE Ok(ConsumerDestroy(st, g, c))

XackRes(st, g, id) == Ok(PelRemove(st, g, id))

\* XACKDEL KEEPREF|DELREF|ACKED
XackdelRes(st, g, id, strategy) ==
    LET s == PelRemove(st, g, id) IN
    IF s = st \/ (strategy = "acked" /\ Referenced(s, id)) THEN Ok(s)
    ELSE Ok(DeleteEntry(IF strategy = "delref" THEN RemoveRefs(s, id) ELSE s, id))

\* How long a pending record has been idle.
Now == 1
IdleOf(p) == Now - p.at

XclaimStepKeeps(s, g, c, id, at, justid) ==
    IF justid THEN s ELSE PelAdd(s, g, ConsumerAt(s.groups[g], c), id, at)

\* One id of XCLAIM: taken from its owner and given to c (not with JUSTID).
XclaimStep(s, g, c, id, at, justid) ==
    IF justid THEN s
    ELSE LET undelivered == OwnerAt(s.groups[g], id) = 0
             t == PelAdd(PelRemove(s, g, id), g, ConsumerAt(s.groups[g], c), id, at)
         IN IF undelivered THEN Forced(t, g, id) ELSE t

\* LASTID; the history of a group whose cursor was moved is not kept.
MoveCursor(st, g, id) ==
    [st EXCEPT !.groups[g] = [NewGroup(id) EXCEPT !.cons = st.groups[g].cons, !.moved = 1]]

\* XCLAIM: a first pass counts for the header, a second one claims.
XclaimRes(st, g, c, minidle, ids, force, justid, at, lastid) ==
    LET base == IF justid THEN st ELSE ConsumerCreate(st, g, c)
        wanted(s, id) == \/ force
                         \/ /\ OwnerAt(s.groups[g], id) # 0
                            /\ IdleOf(PendingAt(s.groups[g], id)) >= minidle
        step(x, id) == IF ~wanted(x.st, id) THEN x
                       ELSE [st |-> XclaimStep(x.st, g, c, id, at, justid), sent |-> x.sent + 1]
        end == FoldLeft(step, [st |-> base, sent |-> 0], ids)
        moved == ~justid /\ lastid # None
    IN Res(IF moved THEN MoveCursor(end.st, g, lastid) ELSE end.st,
           Cardinality({k \in DOMAIN ids : wanted(base, ids[k])}), end.sent)

AutoclaimStepSkips(x, g, c, minidle, start) ==
    LET cons == x.st.groups[g].cons IN
    IF x.i > Len(cons) \/ x.left = 0 THEN x
    ELSE IF x.j > Len(cons[x.i].pel) THEN [x EXCEPT !.i = @ + 1, !.j = 1]
    ELSE LET p == cons[x.i].pel[x.j] IN
         IF p.id <= start \/ IdleOf(p) < minidle THEN [x EXCEPT !.j = @ + 1]
         ELSE [x EXCEPT !.st = PelAdd(PelRemove(@, g, p.id), g, ConsumerAt(x.st.groups[g], c), p.id, Now),
                        !.left = @ - 1, !.j = @ + 1]

\* The state of XAUTOCLAIM's claiming loop: consumer i, record j (from 1), and
\* how many of the announced elements are still to be written.
AutoclaimStep(x, g, c, minidle, start) ==
    LET cons == x.st.groups[g].cons IN
    IF x.i > Len(cons) \/ x.left = 0 THEN x
    ELSE IF x.j > Len(cons[x.i].pel) THEN [x EXCEPT !.i = @ + 1, !.j = 1]
    ELSE LET p == cons[x.i].pel[x.j] IN
         IF p.id <= start \/ IdleOf(p) < minidle THEN [x EXCEPT !.j = @ + 1]
         ELSE [x EXCEPT !.st = PelAdd(PelRemove(@, g, p.id), g, ConsumerAt(x.st.groups[g], c), p.id, Now),
                        !.left = @ - 1]

\* XAUTOCLAIM: a first pass over all pending lists counts the eligible records for
\* the header, a second one moves records to c while it walks the same lists.
XautoclaimRes(st, g, c, minidle, start, count, justid) ==
    LET base == IF justid THEN st ELSE ConsumerCreate(st, g, c)
        grp == base.groups[g]
        eligible == FoldLeft(LAMBDA n, k : n + Len(SelectSeq(k.pel, LAMBDA p : p.id > start /\ IdleOf(p) >= minidle)),
                             0, grp.cons)
        n == IF count < eligible THEN count ELSE eligible
        fuel == (Len(grp.cons) + 1) * (PelLens(grp) + 1)
        loop[k \in 0 .. fuel] == IF k = 0 THEN [st |-> base, i |-> 1, j |-> 1, left |-> n]
                                 ELSE AutoclaimStep(loop[k - 1], g, c, minidle, start)
        end == loop[fuel]
    IN IF justid THEN Res(base, n, n) ELSE Res(end.st, n, n - end.left)

\* XNACK: a pending id becomes claimable at once; with FORCE an id of the stream
\* that nobody has pending goes to the consumer NulName.
XnackRes(st, g, id, force) ==
    LET i == OwnerAt(st.groups[g], id)
        s == ConsumerCreate(st, g, NulName)
    IN IF i # 0
       THEN Ok([st EXCEPT !.groups[g].cons[i].pel[PelAt(st.groups[g].cons[i].pel, id)].at = 0])
       ELSE IF force /\ HasEntry(st, id)
       THEN Ok(Forced(PelAdd(s, g, ConsumerAt(s.groups[g], NulName), id, 0), g, id))
       ELSE Ok(st)

XreadgroupFromCursor(st, g, c, count, noack) ==
    LET s == ConsumerCreate(st, g, c)
        es == SubSeq(st.entries, LowerBound(st.entries, st.groups[g].cur) + 1, Len(st.entries))
        t == FoldLeft(LAMBDA x, id : PelAdd(x, g, ConsumerAt(s.groups[g], c), id, Now), s, es)
    IN Ok(IF es = <<>> THEN s
          ELSE Delivered([t EXCEPT !.groups[g].cur = es[Len(es)]], g, Range(es)))

\* XREADGROUP ">": the entries after the group's cursor go to c and, without
\* NOACK, become pending; the cursor moves to the last one.
XreadgroupRes(st, g, c, count, noack) ==
    LET s == ConsumerCreate(st, g, c)
        es == After(s, s.groups[g].cur, count)
        add(x, id) == IF noack THEN x ELSE PelAdd(x, g, ConsumerAt(x.groups[g], c), id, Now)
        t == FoldLeft(add, s, es)
    IN Ok(IF es = <<>> THEN s
          ELSE Delivered([t EXCEPT !.groups[g].cur = es[Len(es)]], g, Range(es)))

\* XREADGROUP with an explicit id reads the stream and only touches the key; with
\* a second key that has no such group it fails after creating the consumer.
XreadgroupHistoryRes(st) == Ok(st)
XreadgroupNogroupRes(st, g, c) == Ok(ConsumerCreate(st, g, c))
-----------------------------------------------------------------------------
Init == /\ stream = Missing
        /\ owed = 0

\* The end of a command.
Done(res) ==
    /\ stream' = res.st
    /\ \A g \in DOMAIN res.st.groups : PelLens(res.st.groups[g]) <= MaxPending
    /\ owed' = res.head - res.sent

Exists == stream # Missing
GroupsHere == DOMAIN stream.groups
NoTrim == [kind |-> "none", arg |-> 0, limit |-> 0]
Trims == [kind : {"maxlen", "minid"}, arg : 0 .. 1, limit : {NoLimit}]
         \union {[kind |-> "maxlen", arg |-> 0, limit |-> 1], [kind |-> "minid", arg |-> MaxId, limit |-> 1]}
XaddTrims == {NoTrim, [kind |-> "maxlen", arg |-> 1, limit |-> NoLimit]}
Strategies == {"keepref", "delref", "acked"}

Xadd == \E id \in 0 .. MaxId, nomk \in BOOLEAN, trim \in XaddTrims :
            Done(XaddRes(stream, id, nomk, trim))
Xdel == Exists /\ \E id \in Ids : Done(XdelRes(stream, id))
Xdelex == Exists /\ \E id \in Ids, how \in Strategies : Done(XdelexRes(stream, id, how))
Xtrim == Exists /\ \E trim \in Trims : Done(XtrimRes(stream, trim))
Xsetid == Exists /\ \E id \in Ids : Done(XsetidRes(stream, id))
DelKey == Exists /\ Done(Ok(Missing))

XgroupCreate == \E g \in Groups, id \in 0 .. 1, mk \in BOOLEAN :
                    Done(XgroupCreateRes(stream, g, id, mk))
XgroupSetid == Exists /\ \E g \in Groups, id \in 0 .. 1 : Done(XgroupSetidRes(stream, g, id))
XgroupDestroy == Exists /\ \E g \in Groups : Done(XgroupDestroyRes(stream, g))
XgroupCreateConsumer == \E g \in GroupsHere, c \in Consumers : Done(XgroupCreateConsumerRes(stream, g, c))
XgroupDelConsumer == \E g \in GroupsHere, c \in Consumers : Done(XgroupDelConsumerRes(stream, g, c))

Xack == \E g \in GroupsHere, id \in Ids : Done(XackRes(stream, g, id))
Xackdel == \E g \in GroupsHere, id \in Ids, how \in Strategies : Done(XackdelRes(stream, g, id, how))
Xclaim == \E g \in GroupsHere, c \in Consumers, ids \in ClaimLists, o \in ClaimOpts :
              Done(XclaimRes(stream, g, c, o.minidle, ids, o.force, o.justid, o.at, o.lastid))
Xautoclaim == \E g \in GroupsHere, c \in Consumers, minidle \in {0, 1} :
                  \/ \E start \in 0 .. 1, count \in {1, NoLimit} :
                         Done(XautoclaimRes(stream, g, c, minidle, start, count, FALSE))
                  \/ Done(XautoclaimRes(stream, g, c, minidle, 0, NoLimit, TRUE))
Xnack == \E g \in GroupsHere, id \in Ids, force \in BOOLEAN : Done(XnackRes(stream, g, id, force))
Xreadgroup == \E g \in GroupsHere, c \in Consumers, count \in {1, NoLimit}, noack \in BOOLEAN :
                  Done(XreadgroupRes(stream, g, c, count, noack))
XreadgroupHistory == GroupsHere # {} /\ Done(XreadgroupHistoryRes(stream))
XreadgroupNogroup == \E g \in GroupsHere, c \in Consumers : Done(XreadgroupNogroupRes(stream, g, c))

\* Time passes: every record has been idle for a while.
Tick ==
    LET older(c) == [c EXCEPT !.pel = [j \in DOMAIN @ |-> [@[j] EXCEPT !.at = 0]]] IN
    /\ stream' = [stream EXCEPT !.groups = [g \in DOMAIN @ |->
                     [@[g] EXCEPT !.cons = [i \in DOMAIN @ |-> older(@[i])]]]]
    /\ owed' = 0

Next == \/ Xadd \/ Xdel \/ Xdelex \/ Xtrim \/ Xsetid \/ DelKey
        \/ XgroupCreate \/ XgroupSetid \/ XgroupDestroy
        \/ XgroupCreateConsumer \/ XgroupDelConsumer
        \/ Xack \/ Xackdel \/ Xclaim \/ Xautoclaim \/ Xnack
        \/ Xreadgroup \/ XreadgroupHistory \/ XreadgroupNogroup
        \/ Tick

Spec == Init /\ [][Next]_vars
-----------------------------------------------------------------------------
\* The incremental memory counters of obj_stream are the size of what it holds,
\* after any mix of deletions, trims, claims and consumer or group removals
\* (group_pel_remove, consumer_destroy and group_destroy subtract what pel_add,
\* consumer_create and group_create added; stream_group_mem_sub aborts otherwise).
MemExact ==
    /\ stream.mem = Len(stream.entries)
    /\ stream.gmem = FoldLeft(LAMBDA n, g : n + 1 + Len(stream.groups[g].cons) + PelLens(stream.groups[g]),
                              0, SetToSeq(GroupsHere))

\* An entry is pending with one consumer of a group at a time, so that XACK ends
\* it: only an id that FORCE made pending before its delivery, or a cursor moved
\* by XCLAIM LASTID, gives it a second owner.
OneOwner ==
    \A g \in GroupsHere : LET grp == stream.groups[g] IN
        grp.moved = 0 =>
            \A id \in Ids \ grp.forced :
                Cardinality({i \in DOMAIN grp.cons : PelAt(grp.cons[i].pel, id) # 0}) <= 1

\* ">" delivers every entry of the stream once to the group: no id twice, and no
\* entry between the id the group was created with and its cursor is left out,
\* whatever is added, deleted or trimmed in between (unless LASTID moves the cursor).
GroupDelivers ==
    \A g \in GroupsHere : LET grp == stream.groups[g] IN
        grp.moved = 0 => /\ grp.again = {}
                         /\ \A id \in Range(stream.entries) :
                                grp.start < id /\ id <= grp.cur => id \in grp.seen

\* XCLAIM and XAUTOCLAIM announce the length of their array in a first pass and
\* change the pending lists while they write it: they write as many elements.
\* (For lists of distinct ids: a repeated id with a minimum idle time is counted
\* twice and written once.)
ReplyFramed == owed = 0
=============================================================================
