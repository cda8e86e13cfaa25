----------------------------- MODULE ReplProofs -----------------------------
(***************************************************************************)
(* Proofs about Repl for every set of nodes, every configured topology     *)
(* (chains and cycles included), every backlog size and any number of      *)
(* writes, breaks, restarts and REPLICAOF commands.                        *)
(***************************************************************************)
EXTENDS Repl, SequenceTheorems, TLAPS

OpMsg(op) == [k |-> "op", op |-> op]

\* what srv_propagate does to a stream and to a link
AddOp(s, op) == Append(s, op)
AddMsg(q, op) == Append(q, OpMsg(op))

(* Small facts cited where a leaf's other hypotheses would drown them.     *)
LEMMA FirstTwo == 1 \in 1..1 /\ 1 \in 1..2 /\ 2 \in 1..2
OBVIOUS

LEMMA LenIsNat ==
  ASSUME NEW S, NEW s \in Seq(S) PROVE Len(s) \in Nat
OBVIOUS

(* A command appended to the stream and to the messages under way.         *)
LEMMA OpsFromAppend ==
  ASSUME NEW s \in Seq(Ops), NEW q \in Seq(Messages), NEW op \in Ops,
         NEW off \in Nat, NEW skip \in Nat, OpsFrom(s, off, q, skip)
  PROVE  OpsFrom(AddOp(s, op), off, AddMsg(q, op), skip)
<1> DEFINE s2 == Append(s, op)
           q2 == Append(q, OpMsg(op))
<1>1. /\ Len(s2) = Len(s) + 1 /\ Len(s) \in Nat
      /\ \A i \in 1..Len(s) : s2[i] = s[i]
      /\ s2[Len(s) + 1] = op
  OBVIOUS
<1>2. /\ Len(q2) = Len(q) + 1 /\ Len(q) \in Nat
      /\ \A i \in 1..Len(q) : q2[i] = q[i]
      /\ q2[Len(q) + 1] = OpMsg(op)
  OBVIOUS
<1>3. /\ off <= Len(s) /\ Len(q) = skip + (Len(s) - off)
      /\ \A i \in 1..(Len(s) - off) : q[skip + i] = OpMsg(s[off + i])
  BY Zenon DEF OpsFrom, OpMsg
<1> HIDE DEF s2, q2
<1>n. /\ Len(s2) = Len(s) + 1 /\ Len(s) \in Nat /\ Len(q) \in Nat
      /\ off <= Len(s) /\ Len(q) = skip + (Len(s) - off)
  BY Zenon, <1>1, <1>2, <1>3
<1>4. ASSUME NEW i \in 1..(Len(s2) - off) PROVE q2[skip + i] = OpMsg(s2[off + i])
  <2>1. CASE i = Len(s) + 1 - off
    <3>1. skip + i = Len(q) + 1 /\ off + i = Len(s) + 1
      BY <2>1, <1>1, <1>2, <1>3
    <3> QED BY Zenon, <3>1, <1>1, <1>2
  <2>2. CASE i # Len(s) + 1 - off
    <3>1. i \in 1..(Len(s) - off) /\ skip + i \in 1..Len(q) /\ off + i \in 1..Len(s)
      BY <2>2, <1>n, <1>4
    <3> QED BY Zenon, <3>1, <1>1, <1>2, <1>3
  <2> QED BY Zenon, <2>1, <2>2
<1>5. off <= Len(s2) /\ Len(q2) = skip + (Len(s2) - off)
  BY <1>1, <1>2, <1>3
<1> QED BY Zenon, <1>4, <1>5 DEF OpsFrom, OpMsg, AddOp, AddMsg, s2, q2

(* The first message of a pipe is fed.                                     *)
LEMMA OpsFromTail ==
  ASSUME NEW s \in Seq(Ops), NEW q \in Seq(Messages), NEW off \in Nat,
         NEW skip \in Nat, OpsFrom(s, off, q, skip + 1)
  PROVE  /\ q # <<>> /\ OpsFrom(s, off, Tail(q), skip)
         /\ Tail(q) \in Seq(Messages) /\ Head(q) = q[1]
<1>1. /\ off <= Len(s) /\ Len(q) = (skip + 1) + (Len(s) - off)
      /\ \A i \in 1..(Len(s) - off) : q[(skip + 1) + i] = OpMsg(s[off + i])
      /\ Len(s) \in Nat
  BY Zenon, LenProperties DEF OpsFrom, OpMsg
<1>2. Len(q) \in Nat /\ Len(q) >= 1 /\ q # <<>>
  BY <1>1
<1>3. /\ Tail(q) \in Seq(Messages) /\ Len(Tail(q)) = Len(q) - 1 /\ Head(q) = q[1]
      /\ \A i \in 1..(Len(q) - 1) : Tail(q)[i] = q[i + 1]
  BY <1>2
<1>4. ASSUME NEW i \in 1..(Len(s) - off) PROVE Tail(q)[skip + i] = OpMsg(s[off + i])
  <2>1. skip + i \in 1..(Len(q) - 1) /\ (skip + i) + 1 = (skip + 1) + i
    BY <1>1, <1>2, <1>4
  <2> QED BY Zenon, <2>1, <1>1, <1>3, <1>4
<1>5. Len(Tail(q)) = skip + (Len(s) - off)
  BY <1>1, <1>2, <1>3
<1> QED BY Zenon, <1>1, <1>2, <1>3, <1>4, <1>5 DEF OpsFrom, OpMsg

(* A command of the stream is fed: the offset advances by one.             *)
LEMMA OpsFromFeed ==
  ASSUME NEW s \in Seq(Ops), NEW q \in Seq(Messages), NEW off \in Nat,
         OpsFrom(s, off, q, 0), q # <<>>
  PROVE  OpsFrom(s, off + 1, Tail(q), 0) /\ Head(q).k = "op" /\ Head(q).op \in Ops
<1>1. /\ off <= Len(s) /\ Len(q) = Len(s) - off /\ Len(s) \in Nat
      /\ \A i \in 1..(Len(s) - off) : q[i] = OpMsg(s[off + i])
  BY DEF OpsFrom, OpMsg
<1>2. Len(q) \in Nat /\ Len(q) >= 1
  OBVIOUS
<1>3. /\ Len(Tail(q)) = Len(q) - 1 /\ Head(q) = q[1]
      /\ \A i \in 1..(Len(q) - 1) : Tail(q)[i] = q[i + 1]
  BY <1>2
<1>4. off + 1 \in 1..Len(s) /\ q[1] = OpMsg(s[off + 1]) /\ s[off + 1] \in Ops
  BY <1>1, <1>2
<1>5. ASSUME NEW i \in 1..(Len(s) - (off + 1)) PROVE Tail(q)[i] = OpMsg(s[(off + 1) + i])
  <2>1. i \in 1..(Len(q) - 1) /\ i + 1 \in 1..(Len(s) - off) /\ off + (i + 1) = (off + 1) + i
    BY <1>1, <1>2, <1>5
  <2> QED BY Zenon, <2>1, <1>1, <1>3
<1>6. off + 1 <= Len(s) /\ Len(Tail(q)) = 0 + (Len(s) - (off + 1))
  BY <1>1, <1>2, <1>3
<1>7. \A i \in 1..(Len(s) - (off + 1)) : 0 + i = i
  BY <1>1
<1> QED BY <1>3, <1>4, <1>5, <1>6, <1>7 DEF OpsFrom, OpMsg

-----------------------------------------------------------------------------
(* srv_propagate keeps every link in step with its master's stream.        *)

LEMMA PropagateOps ==
  ASSUME TypeOK, NEW m \in Nodes, NEW op \in Ops,
         NEW pipes \in [Nodes -> Seq(Messages)], Propagate(m, op, pipes),
         NEW n \in Nodes, master[n] \in Nodes, n \in Attached(master[n]),
         used[master[n]], NEW off \in Nat, NEW skip \in Nat,
         OpsFrom(stream[master[n]], off, pipes[n], skip)
  PROVE  OpsFrom(stream'[master[n]], off, pipe'[n], skip)
<1>1. CASE ~used[m]
  <2>1. pipe' = pipes /\ stream' = stream
    BY Zenon, <1>1 DEF Propagate
  <2> QED BY Zenon, <2>1
<1>2. CASE used[m] /\ master[n] = m
  <2>1. /\ stream' = [stream EXCEPT ![m] = Append(@, op)]
        /\ pipe' = [x \in Nodes |-> IF x \in Attached(m)
                                    THEN Append(pipes[x], OpMsg(op))
                                    ELSE pipes[x]]
    BY Zenon, <1>2 DEF Propagate, OpMsg
  <2>2. /\ stream'[m] = AddOp(stream[m], op) /\ pipe'[n] = AddMsg(pipes[n], op)
        /\ stream[m] \in Seq(Ops) /\ pipes[n] \in Seq(Messages)
    BY Zenon, <1>2, <2>1 DEF TypeOK, AddOp, AddMsg
  <2>3. OpsFrom(stream[m], off, pipes[n], skip)
    BY Zenon, <1>2
  <2>4. OpsFrom(AddOp(stream[m], op), off, AddMsg(pipes[n], op), skip)
    BY Zenon, <2>2, <2>3, OpsFromAppend
  <2>5. stream'[master[n]] = AddOp(stream[m], op)
    BY Zenon, <1>2, <2>2
  <2> QED BY Zenon, <2>2, <2>4, <2>5
<1>3. CASE used[m] /\ master[n] # m
  <2>1. /\ stream' = [stream EXCEPT ![m] = Append(@, op)]
        /\ pipe' = [x \in Nodes |-> IF x \in Attached(m)
                                    THEN Append(pipes[x], OpMsg(op))
                                    ELSE pipes[x]]
    BY Zenon, <1>3 DEF Propagate, OpMsg
  <2>2. n \notin Attached(m)
    BY Zenon, <1>3 DEF Attached
  <2>3. stream'[master[n]] = stream[master[n]] /\ pipe'[n] = pipes[n]
    BY Zenon, <1>3, <2>1, <2>2 DEF TypeOK
  <2> QED BY Zenon, <2>3
<1> QED BY Zenon, <1>1, <1>2, <1>3

LEMMA PropagateKeeps ==
  ASSUME NEW m \in Nodes, NEW op \in Ops,
         NEW pipes \in [Nodes -> Seq(Messages)], Propagate(m, op, pipes),
         NEW n \in Nodes, NEW i \in 1..Len(pipes[n])
  PROVE  pipe'[n][i] = pipes[n][i]
<1>1. pipe'[n] = pipes[n] \/ pipe'[n] = Append(pipes[n], OpMsg(op))
  BY Zenon DEF Propagate, OpMsg
<1>2. Append(pipes[n], OpMsg(op))[i] = pipes[n][i]
  OBVIOUS
<1> QED BY Zenon, <1>1, <1>2

LEMMA PropagateOthers ==
  ASSUME NEW m \in Nodes, NEW op, NEW pipes \in [Nodes -> Seq(Messages)],
         Propagate(m, op, pipes), NEW n \in Nodes, n \notin Attached(master[n])
  PROVE  pipe'[n] = pipes[n]
BY Zenon DEF Propagate, Attached

LEMMA PropagateTypes ==
  ASSUME TypeOK, BacklogOK, NEW m \in Nodes, NEW op \in Ops,
         NEW pipes \in [Nodes -> Seq(Messages)], Propagate(m, op, pipes)
  PROVE  /\ stream' \in [Nodes -> Seq(Ops)] /\ blen' \in [Nodes -> Nat]
         /\ pipe' \in [Nodes -> Seq(Messages)] /\ BacklogOK'
<1>1. CASE ~used[m]
  BY Zenon, <1>1 DEF Propagate, TypeOK, BacklogOK
<1>2. CASE used[m]
  <2>1. /\ stream' = [stream EXCEPT ![m] = Append(@, op)]
        /\ blen' = [blen EXCEPT ![m] = Least(@ + 1, Cap)]
        /\ pipe' = [x \in Nodes |-> IF x \in Attached(m)
                                    THEN Append(pipes[x], OpMsg(op))
                                    ELSE pipes[x]]
    BY Zenon, <1>2 DEF Propagate, OpMsg
  <2>2. OpMsg(op) \in Messages
    BY Zenon DEF OpMsg, Messages
  <2>3. \A x \in Nodes : pipe'[x] \in Seq(Messages)
    BY <2>1, <2>2
  <2>4. pipe' \in [Nodes -> Seq(Messages)]
    BY Zenon, <2>1, <2>3
  <2>5. stream' \in [Nodes -> Seq(Ops)] /\ stream'[m] = Append(stream[m], op)
    BY <2>1 DEF TypeOK
  <2>6. blen[m] \in Nat /\ blen[m] <= Len(stream[m]) /\ Len(stream[m]) \in Nat
    BY DEF TypeOK, BacklogOK
  <2>7. Least(blen[m] + 1, Cap) \in Nat /\ Least(blen[m] + 1, Cap) <= Len(stream[m]) + 1
    BY <2>6, CapAssumption DEF Least
  <2>8. Len(stream'[m]) = Len(stream[m]) + 1
    BY <2>5 DEF TypeOK
  <2>9. blen' \in [Nodes -> Nat] /\ blen'[m] = Least(blen[m] + 1, Cap)
    BY Zenon, <2>1, <2>7 DEF TypeOK
  <2>10. BacklogOK'
    BY Zenon, <2>1, <2>7, <2>8, <2>9 DEF BacklogOK, TypeOK
  <2> QED BY Zenon, <2>4, <2>5, <2>9, <2>10
<1> QED BY Zenon, <1>1, <1>2

-----------------------------------------------------------------------------
(* Type correctness.                                                       *)

LEMMA InitIInv == Init => IInv
<1> SUFFICES ASSUME Init PROVE IInv
  BY Zenon
<1>1. NoCache \in [id : Ids, off : Nat]
  BY Zenon DEF NoCache, Ids
<1>2. TypeOK
  BY <1>1, NodesAssumption, BoundAssumption DEF Init, TypeOK, LinkStates
<1>3. BacklogOK
  <2> SUFFICES ASSUME NEW n \in Nodes PROVE blen[n] <= Len(stream[n])
    BY Zenon DEF BacklogOK
  <2>1. blen[n] = 0
    BY Zenon DEF Init
  <2>2. stream[n] \in Seq(Ops)
    BY Zenon, <1>2 DEF TypeOK
  <2>3. Len(stream[n]) \in Nat
    BY <2>2
  <2> QED BY <2>1, <2>3
<1>4. \A n \in Nodes : LinkOK(n)
  BY Zenon, NodesAssumption DEF Init, LinkOK
<1> QED BY Zenon, <1>2, <1>3, <1>4 DEF IInv

LEMMA CacheTypes ==
  ASSUME TypeOK, NEW n \in Nodes
  PROVE  /\ NoCache \in [id : Ids, off : Nat]
         /\ Replid(n) \in Ids
         /\ cache[n] \in [id : Ids, off : Nat]
BY Zenon DEF TypeOK, NoCache, Ids, Replid

\* The types a step that closes n's link leaves behind.
LEMMA ClosedTypes ==
  ASSUME TypeOK, NEW n \in Nodes, NEW st \in LinkStates, Closed(n, st)
  PROVE  link' \in [Nodes -> LinkStates] /\ pipe' \in [Nodes -> Seq(Messages)]
BY DEF Closed, TypeOK

LEMMA SpendTypes ==
  ASSUME TypeOK, NEW c \in {"write", "break", "fail", "admin", "restart"},
         count[c] > 0, Spend(c)
  PROVE  count' \in [write : Nat, break : Nat, fail : Nat, admin : Nat, restart : Nat]
BY DEF Spend, TypeOK

Rest == <<role, master, inc, data, stream, blen, used>>

LEMMA LinkTypes ==
  ASSUME TypeOK, NEW n \in Nodes,
         \/ ReconnectTimer(n) \/ ConnectDone(n) \/ ConnectFail(n)
         \/ LinkLost(n) \/ LoadFail(n)
  PROVE  TypeOK' /\ UNCHANGED Rest
<1> USE CacheTypes
<1>1. CASE ReconnectTimer(n)
  <2>1. PICK s \in ConnectOutcome : Closed(n, s)
    BY Zenon, <1>1 DEF ReconnectTimer
  <2>2. s \in LinkStates
    BY Zenon DEF ConnectOutcome, LinkStates
  <2> QED BY Zenon, <1>1, <2>1, <2>2, ClosedTypes DEF ReconnectTimer, TypeOK, server, Rest
<1>2. CASE ConnectDone(n)
  BY Zenon, <1>2, ClosedTypes DEF ConnectDone, TypeOK, server, LinkStates, Rest
<1>3. CASE ConnectFail(n)
  BY Zenon, <1>3, ClosedTypes, SpendTypes DEF ConnectFail, TypeOK, server, LinkStates, Rest
<1>4. CASE LinkLost(n)
  <2>1. cache' \in [Nodes -> [id : Ids, off : Nat]]
    BY Zenon, <1>4 DEF LinkLost, TypeOK
  <2> QED BY Zenon, <1>4, <2>1, ClosedTypes, SpendTypes DEF LinkLost, TypeOK, server, LinkStates, Rest
<1>5. CASE LoadFail(n)
  <2>1. cache' \in [Nodes -> [id : Ids, off : Nat]]
    BY Zenon, <1>5 DEF LoadFail, TypeOK
  <2> QED BY Zenon, <1>5, <2>1, ClosedTypes, SpendTypes DEF LoadFail, TypeOK, server, LinkStates, Rest
<1> QED BY Zenon, <1>1, <1>2, <1>3, <1>4, <1>5

LEMMA ReplicaofTypes ==
  ASSUME TypeOK, NEW n \in Nodes, NEW m \in Nodes \cup {NoOne}, Replicaof(n, m)
  PROVE  TypeOK' /\ UNCHANGED <<inc, data, stream, blen, used>>
<1>1. PICK s \in ConnectOutcome : Closed(n, IF m = NoOne THEN "none" ELSE s)
  BY Zenon DEF Replicaof
<1>2. (IF m = NoOne THEN "none" ELSE s) \in LinkStates
  BY Zenon DEF ConnectOutcome, LinkStates
<1>3. link' \in [Nodes -> LinkStates] /\ pipe' \in [Nodes -> Seq(Messages)]
  BY Zenon, <1>1, <1>2, ClosedTypes
<1>4. cache' \in [Nodes -> [id : Ids, off : Nat]]
  BY Zenon, CacheTypes DEF Replicaof, TypeOK
<1>5. count' \in [write : Nat, break : Nat, fail : Nat, admin : Nat, restart : Nat]
  BY Zenon, SpendTypes DEF Replicaof
<1> QED BY Zenon, <1>3, <1>4, <1>5 DEF Replicaof, TypeOK

LEMMA RestartTypes ==
  ASSUME TypeOK, BacklogOK, NEW n \in Nodes, Restart(n)
  PROVE  TypeOK' /\ BacklogOK'
<1>1. cache' \in [Nodes -> [id : Ids, off : Nat]]
  BY Zenon, CacheTypes DEF Restart, TypeOK
<1>2. data' \in [Nodes -> Seq(Ops)]
  <2>1. PICK k \in 0..Len(data[n]) : data' = [data EXCEPT ![n] = SubSeq(@, 1, k)]
    BY Zenon DEF Restart
  <2>2. data[n] \in Seq(Ops)
    BY Zenon DEF TypeOK
  <2>3. SubSeq(data[n], 1, k) \in Seq(Ops)
    BY <2>2
  <2> QED BY Zenon, <2>1, <2>3 DEF TypeOK
<1>3. count' \in [write : Nat, break : Nat, fail : Nat, admin : Nat, restart : Nat]
  BY Zenon, SpendTypes DEF Restart
<1>4. link' \in [Nodes -> LinkStates] /\ pipe' \in [Nodes -> Seq(Messages)]
  <2>1. PICK E \in SUBSET Nodes :
          /\ link' = [x \in Nodes |-> IF x \in E THEN "none" ELSE link[x]]
          /\ pipe' = [x \in Nodes |-> IF x \in E THEN <<>> ELSE pipe[x]]
    <3> DEFINE ended == {x \in Nodes : master[x] = n
                           /\ link[x] \in {"sent", "served", "snap", "streaming"}}
    <3>1. ended \cup {n} \in SUBSET Nodes
      BY Zenon
    <3> QED BY Zenon, <3>1 DEF Restart
  <2>2. "none" \in LinkStates /\ <<>> \in Seq(Messages)
    BY DEF LinkStates
  <2> QED BY Zenon, <2>1, <2>2 DEF TypeOK
<1>5. /\ role' \in [Nodes -> {"master", "replica"}] /\ inc' \in [Nodes -> Nat]
      /\ master' \in [Nodes -> Nodes \cup {NoOne}]
  <2>1. /\ inc' = [inc EXCEPT ![n] = @ + 1]
        /\ role' = [role EXCEPT ![n] = IF Conf[n] = NoOne THEN "master" ELSE "replica"]
        /\ master' = [master EXCEPT ![n] = Conf[n]]
    BY Zenon DEF Restart
  <2>2. /\ inc \in [Nodes -> Nat] /\ role \in [Nodes -> {"master", "replica"}]
        /\ master \in [Nodes -> Nodes \cup {NoOne}]
    BY Zenon DEF TypeOK
  <2>3. inc' \in [Nodes -> Nat]
    BY <2>1, <2>2
  <2>4. role' \in [Nodes -> {"master", "replica"}]
    BY Zenon, <2>1, <2>2
  <2>5. master' \in [Nodes -> Nodes \cup {NoOne}]
    BY Zenon, <2>1, <2>2, NodesAssumption
  <2> QED BY Zenon, <2>3, <2>4, <2>5
<1>8. used' \in [Nodes -> BOOLEAN]
  <2>1. used' = [used EXCEPT ![n] = FALSE] /\ used \in [Nodes -> BOOLEAN]
    BY Zenon DEF Restart, TypeOK
  <2> QED BY <2>1, Zenon
<1>6. stream' \in [Nodes -> Seq(Ops)] /\ blen' \in [Nodes -> Nat]
  BY DEF Restart, TypeOK
<1>7. BacklogOK'
  <2>1. /\ stream' = [stream EXCEPT ![n] = <<>>] /\ blen' = [blen EXCEPT ![n] = 0]
        /\ Len(<<>>) = 0
    BY Zenon DEF Restart
  <2> QED BY <2>1 DEF TypeOK, BacklogOK
<1> QED BY Zenon, <1>1, <1>2, <1>3, <1>4, <1>5, <1>6, <1>7, <1>8 DEF TypeOK

-----------------------------------------------------------------------------
(* What srv_psync answers.                                                 *)

LEMMA ContinueIs ==
  ASSUME TypeOK, BacklogOK, NEW m \in Nodes, NEW c \in [id : Ids, off : Nat],
         Continuable(m, c)
  PROVE  /\ ContinueReply(m, c) \in Seq(Messages)
         /\ ContinueReply(m, c)[1].k = "continue"
         /\ ContinueReply(m, c)[1].id = Replid(m)
         /\ OpsFrom(stream[m], c.off, ContinueReply(m, c), 1)
<1> DEFINE s == stream[m]
           first == [k |-> "continue", id |-> Replid(m)]
           rest == [i \in 1..(Len(s) - c.off) |-> OpMsg(s[c.off + i])]
           q == <<first>> \o rest
<1>1. /\ s \in Seq(Ops) /\ Len(s) \in Nat /\ blen[m] \in Nat /\ c.off \in Nat
      /\ Len(s) - blen[m] <= c.off /\ c.off <= Len(s)
  BY DEF TypeOK, Continuable
<1>2. Most(c.off, Len(s) - blen[m]) = c.off
  BY <1>1 DEF Most
<1>3. ContinueReply(m, c) = q
  BY Zenon, <1>2 DEF ContinueReply, OpMsg
<1>4. first \in Messages
  BY Zenon, CacheTypes DEF Messages
<1>5. \A i \in 1..(Len(s) - c.off) : OpMsg(s[c.off + i]) \in Messages
  <2> SUFFICES ASSUME NEW i \in 1..(Len(s) - c.off) PROVE OpMsg(s[c.off + i]) \in Messages
    BY Zenon
  <2>1. c.off + i \in 1..Len(s)
    BY <1>1
  <2>2. s[c.off + i] \in Ops
    BY <1>1, <2>1
  <2> QED BY Zenon, <2>2 DEF OpMsg, Messages
<1>6. /\ rest \in Seq(Messages) /\ Len(rest) = Len(s) - c.off
      /\ \A i \in 1..(Len(s) - c.off) : rest[i] = OpMsg(s[c.off + i])
  BY <1>1, <1>5
<1>7. <<first>> \in Seq(Messages) /\ Len(<<first>>) = 1 /\ <<first>>[1] = first
  BY <1>4
<1> HIDE DEF rest, first, s
<1>8. /\ q \in Seq(Messages) /\ Len(q) = 1 + Len(rest)
      /\ \A i \in 1..(1 + Len(rest)) : q[i] = IF i <= 1 THEN <<first>>[i] ELSE rest[i - 1]
  BY <1>6, <1>7, ConcatProperties
<1> HIDE DEF q
<1>9. q[1] = first
  BY <1>1, <1>6, <1>7, <1>8
<1>10. ASSUME NEW i \in 1..(Len(s) - c.off) PROVE q[1 + i] = OpMsg(s[c.off + i])
  <2>1. 1 + i \in 1..(1 + Len(rest)) /\ ~(1 + i <= 1) /\ (1 + i) - 1 = i
    BY <1>1, <1>6
  <2> QED BY Zenon, <2>1, <1>6, <1>8
<1>11. OpsFrom(s, c.off, q, 1)
  BY Zenon, <1>1, <1>6, <1>8, <1>10 DEF OpsFrom, OpMsg
<1> QED BY <1>3, <1>8, <1>9, <1>11 DEF s, first

LEMMA FullIs ==
  ASSUME TypeOK, NEW m \in Nodes
  PROVE  /\ FullReply(m) \in Seq(Messages)
         /\ FullReply(m)[1] \in FullLines
         /\ FullReply(m)[1].id = Replid(m)
         /\ FullReply(m)[2] \in Snapshots
         /\ OpsFrom(stream[m], FullReply(m)[1].off, FullReply(m), 2)
<1>1. stream[m] \in Seq(Ops) /\ Len(stream[m]) \in Nat /\ data[m] \in Seq(Ops)
  BY DEF TypeOK
<1> DEFINE a == [k |-> "fullresync", id |-> Replid(m), off |-> Len(stream[m])]
           b == [k |-> "snapshot", data |-> data[m]]
<1>2. a \in FullLines /\ a.id = Replid(m) /\ a.off = Len(stream[m])
  BY Zenon, <1>1, CacheTypes DEF FullLines
<1>3. b \in Snapshots
  BY Zenon, <1>1 DEF Snapshots
<1>4. FullReply(m) = <<a, b>>
  BY Zenon DEF FullReply
<1> HIDE DEF a, b
<1>5. /\ <<a, b>> \in Seq(Messages) /\ Len(<<a, b>>) = 2
      /\ <<a, b>>[1] = a /\ <<a, b>>[2] = b
  BY <1>2, <1>3 DEF Messages
<1>6. OpsFrom(stream[m], a.off, <<a, b>>, 2)
  BY <1>1, <1>2, <1>5 DEF OpsFrom
<1> QED BY Zenon, <1>2, <1>3, <1>4, <1>5, <1>6

-----------------------------------------------------------------------------
(* The links.                                                              *)

OffStates == {"none", "connecting", "dangling", "sent"}
OnStates == {"served", "snap", "streaming"}

LinkView(x) == <<role[x], master[x], link[x], pipe[x], cache[x]>>

(* A step that touches neither a link nor the stream it follows.           *)
LEMMA LinkFrame ==
  ASSUME NEW x \in Nodes, LinkOK(x), UNCHANGED LinkView(x),
         link[x] \in OnStates =>
           /\ stream'[master[x]] = stream[master[x]]
           /\ inc'[master[x]] = inc[master[x]]
           /\ used[master[x]] => used'[master[x]]
  PROVE  LinkOK(x)'
<1>1. /\ role'[x] = role[x] /\ master'[x] = master[x] /\ link'[x] = link[x]
      /\ pipe'[x] = pipe[x] /\ cache'[x] = cache[x]
  BY Zenon DEF LinkView
<1>2. CASE link[x] \notin OnStates
  BY Zenon, <1>1, <1>2 DEF LinkOK, OnStates
<1>3. CASE link[x] \in OnStates
  <2>1. /\ stream'[master'[x]] = stream[master[x]]
        /\ Replid(master[x])' = Replid(master[x])
        /\ used[master[x]] => used'[master'[x]]
    BY Zenon, <1>1, <1>3 DEF Replid
  <2>2. Continuing(x) => Continuing(x)'
    BY Zenon, <1>1, <2>1 DEF Continuing
  <2>3. Resyncing(x) => Resyncing(x)'
    BY Zenon, <1>1, <2>1 DEF Resyncing
  <2>4. Streaming(x) => Streaming(x)'
    BY Zenon, <1>1, <2>1 DEF Streaming
  <2> QED BY Zenon, <1>1, <1>3, <2>1, <2>2, <2>3, <2>4 DEF LinkOK, OnStates
<1> QED BY Zenon, <1>2, <1>3

(* A link that has just been closed or reopened.                           *)
LEMMA LinkClosed ==
  ASSUME TypeOK, NEW x \in Nodes, NEW st \in OffStates, Closed(x, st),
         role'[x] = "replica" => master'[x] \in Nodes,
         st # "none" => role'[x] = "replica"
  PROVE  LinkOK(x)'
<1>1. link'[x] = st /\ pipe'[x] = <<>>
  BY Zenon DEF Closed, TypeOK
<1> QED BY Zenon, <1>1 DEF LinkOK, OffStates

LEMMA ClosedOthers ==
  ASSUME TypeOK, NEW x \in Nodes, NEW n \in Nodes, x # n, NEW st, Closed(n, st)
  PROVE  link'[x] = link[x] /\ pipe'[x] = pipe[x]
BY Zenon DEF Closed, TypeOK

LEMMA LinkActions ==
  ASSUME IInv, NEW n \in Nodes,
         \/ ReconnectTimer(n) \/ ConnectDone(n) \/ ConnectFail(n)
         \/ LinkLost(n) \/ LoadFail(n)
  PROVE  IInv'
<1>t. TypeOK /\ BacklogOK /\ \A x \in Nodes : LinkOK(x)
  BY Zenon DEF IInv
<1>1. TypeOK' /\ UNCHANGED Rest
  BY Zenon, <1>t, LinkTypes
<1>2. BacklogOK'
  BY Zenon, <1>t, <1>1 DEF BacklogOK, Rest
<1>3. PICK st \in OffStates : Closed(n, st) /\ (st # "none" => role[n] = "replica")
  <2>1. CASE ReconnectTimer(n)
    BY Zenon, <2>1 DEF ReconnectTimer, ConnectOutcome, OffStates
  <2>2. CASE ConnectDone(n)
    BY Zenon, <2>2, <1>t DEF ConnectDone, OffStates, LinkOK
  <2>3. CASE ConnectFail(n)
    BY Zenon, <2>3, <1>t DEF ConnectFail, OffStates, LinkOK
  <2>4. CASE LinkLost(n)
    BY Zenon, <2>4 DEF LinkLost, OffStates
  <2>5. CASE LoadFail(n)
    BY Zenon, <2>5 DEF LoadFail, OffStates
  <2> QED BY Zenon, <2>1, <2>2, <2>3, <2>4, <2>5
<1>4. LinkOK(n)'
  <2>1. LinkOK(n) /\ role'[n] = role[n] /\ master'[n] = master[n]
    BY Zenon, <1>t, <1>1 DEF Rest
  <2>2. role'[n] = "replica" => master'[n] \in Nodes
    BY Zenon, <2>1 DEF LinkOK
  <2>3. st # "none" => role'[n] = "replica"
    BY Zenon, <2>1, <1>3
  <2> QED BY Zenon, <1>t, <1>3, <2>2, <2>3, LinkClosed
<1>5. ASSUME NEW x \in Nodes, x # n PROVE LinkOK(x)'
  <2>1. link'[x] = link[x] /\ pipe'[x] = pipe[x]
    BY Zenon, <1>3, <1>5, <1>t, ClosedOthers
  <2>2. cache'[x] = cache[x]
    BY Zenon, <1>5, <1>t DEF ReconnectTimer, ConnectDone, ConnectFail, LinkLost, LoadFail, TypeOK
  <2>3. UNCHANGED LinkView(x)
    BY Zenon, <2>1, <2>2, <1>1 DEF LinkView, Rest
  <2> QED BY Zenon, <2>3, <1>1, <1>t, LinkFrame DEF Rest
<1> QED BY Zenon, <1>1, <1>2, <1>4, <1>5 DEF IInv

LEMMA ReplicaofAction ==
  ASSUME IInv, NEW n \in Nodes, NEW m \in Nodes \cup {NoOne}, Replicaof(n, m)
  PROVE  IInv'
<1>t. TypeOK /\ BacklogOK /\ \A x \in Nodes : LinkOK(x)
  BY Zenon DEF IInv
<1>1. TypeOK' /\ UNCHANGED <<inc, data, stream, blen, used>>
  BY Zenon, <1>t, ReplicaofTypes
<1>2. BacklogOK'
  BY Zenon, <1>t, <1>1 DEF BacklogOK
<1>3. PICK s \in ConnectOutcome : Closed(n, IF m = NoOne THEN "none" ELSE s)
  BY Zenon DEF Replicaof
<1>4. /\ role' = [role EXCEPT ![n] = IF m = NoOne THEN "master" ELSE "replica"]
      /\ master' = [master EXCEPT ![n] = IF m = NoOne THEN @ ELSE m]
      /\ \A x \in Nodes : x # n => cache'[x] = cache[x]
  BY Zenon, <1>t DEF Replicaof, TypeOK
<1>5. LinkOK(n)'
  <2>1. (IF m = NoOne THEN "none" ELSE s) \in OffStates
    BY Zenon DEF ConnectOutcome, OffStates
  <2>2. /\ role'[n] = IF m = NoOne THEN "master" ELSE "replica"
        /\ m # NoOne => master'[n] = m
    BY Zenon, <1>4, <1>t DEF TypeOK
  <2>3. role'[n] = "replica" => master'[n] \in Nodes
    BY Zenon, <2>2
  <2>4. (IF m = NoOne THEN "none" ELSE s) # "none" => role'[n] = "replica"
    BY Zenon, <2>2
  <2> QED BY Zenon, <1>t, <1>3, <2>1, <2>3, <2>4, LinkClosed
<1>6. ASSUME NEW x \in Nodes, x # n PROVE LinkOK(x)'
  <2>1. link'[x] = link[x] /\ pipe'[x] = pipe[x]
    BY Zenon, <1>3, <1>6, <1>t, ClosedOthers
  <2>2. role'[x] = role[x] /\ master'[x] = master[x] /\ cache'[x] = cache[x]
    BY Zenon, <1>4, <1>6, <1>t DEF TypeOK
  <2>3. UNCHANGED LinkView(x)
    BY Zenon, <2>1, <2>2 DEF LinkView
  <2> QED BY Zenon, <2>3, <1>1, <1>t, LinkFrame
<1> QED BY Zenon, <1>1, <1>2, <1>5, <1>6 DEF IInv

LEMMA RestartAction ==
  ASSUME IInv, NEW n \in Nodes, Restart(n)
  PROVE  IInv'
<1>t. TypeOK /\ BacklogOK /\ \A x \in Nodes : LinkOK(x)
  BY Zenon DEF IInv
<1>1. TypeOK' /\ BacklogOK'
  BY Zenon, <1>t, RestartTypes
<1> DEFINE ended == {x \in Nodes : master[x] = n
                       /\ link[x] \in {"sent", "served", "snap", "streaming"}}
<1>2. /\ inc' = [inc EXCEPT ![n] = @ + 1]
      /\ role' = [role EXCEPT ![n] = IF Conf[n] = NoOne THEN "master" ELSE "replica"]
      /\ master' = [master EXCEPT ![n] = Conf[n]]
      /\ stream' = [stream EXCEPT ![n] = <<>>]
      /\ used' = [used EXCEPT ![n] = FALSE]
      /\ link' = [x \in Nodes |-> IF x \in ended \cup {n} THEN "none" ELSE link[x]]
      /\ pipe' = [x \in Nodes |-> IF x \in ended \cup {n} THEN <<>> ELSE pipe[x]]
      /\ \A x \in Nodes : x \notin ended \cup {n} => cache'[x] = cache[x]
  BY Zenon DEF Restart
<1>3. ASSUME NEW x \in Nodes PROVE LinkOK(x)'
  <2>m. role'[x] = "replica" => master'[x] \in Nodes
    <3>1. CASE x = n
      <4>1. /\ role'[n] = IF Conf[n] = NoOne THEN "master" ELSE "replica"
            /\ master'[n] = Conf[n]
        BY Zenon, <1>2, <1>t DEF TypeOK
      <4> QED BY Zenon, <3>1, <4>1, NodesAssumption
    <3>2. CASE x # n
      <4>1. role'[x] = role[x] /\ master'[x] = master[x]
        BY Zenon, <3>2, <1>2, <1>t DEF TypeOK
      <4> QED BY Zenon, <4>1, <1>t DEF LinkOK
    <3> QED BY Zenon, <3>1, <3>2
  <2>1. CASE x \in ended \cup {n}
    <3>1. link'[x] = "none" /\ pipe'[x] = <<>>
      BY Zenon, <2>1, <1>2
    <3> QED BY Zenon, <3>1, <2>m DEF LinkOK
  <2>2. CASE x \notin ended \cup {n}
    <3>1. x # n /\ ~(master[x] = n /\ link[x] \in OnStates)
      BY Zenon, <2>2 DEF OnStates
    <3>2. /\ role'[x] = role[x] /\ master'[x] = master[x] /\ link'[x] = link[x]
          /\ pipe'[x] = pipe[x] /\ cache'[x] = cache[x]
      BY Zenon, <2>2, <3>1, <1>2, <1>t DEF TypeOK
    <3>3. ASSUME link[x] \in OnStates
          PROVE  /\ stream'[master[x]] = stream[master[x]]
                 /\ inc'[master[x]] = inc[master[x]]
                 /\ used'[master[x]] = used[master[x]]
      <4>1. master[x] \in Nodes /\ master[x] # n
        BY Zenon, <3>1, <3>3, <1>t DEF LinkOK, OnStates
      <4> QED BY Zenon, <4>1, <1>2, <1>t DEF TypeOK
    <3>4. UNCHANGED LinkView(x)
      BY Zenon, <3>2 DEF LinkView
    <3> QED BY Zenon, <3>3, <3>4, <1>t, LinkFrame
  <2> QED BY Zenon, <2>1, <2>2
<1> QED BY Zenon, <1>1, <1>3 DEF IInv

LEMMA ServePsyncAction ==
  ASSUME IInv, NEW n \in Nodes, ServePsync(n)
  PROVE  IInv'
<1>t. TypeOK /\ BacklogOK /\ \A x \in Nodes : LinkOK(x)
  BY Zenon DEF IInv
<1> DEFINE m == master[n]
           reply == IF Continuable(m, cache[n]) THEN ContinueReply(m, cache[n])
                                                ELSE FullReply(m)
<1>1. /\ link[n] = "sent" /\ link' = [link EXCEPT ![n] = "served"]
      /\ pipe' = [pipe EXCEPT ![n] = reply]
      /\ used' = [used EXCEPT ![m] = TRUE]
      /\ UNCHANGED <<role, master, inc, data, stream, blen, cache, count>>
  BY Zenon DEF ServePsync, server
<1>2. m \in Nodes /\ role[n] = "replica"
  BY Zenon, <1>1, <1>t DEF LinkOK
<1>3. cache[n] \in [id : Ids, off : Nat]
  BY Zenon, <1>t, CacheTypes
<1>4. reply \in Seq(Messages)
  BY Zenon, <1>2, <1>3, <1>t, ContinueIs, FullIs
<1>5. TypeOK'
  <2>1. used' \in [Nodes -> BOOLEAN]
    <3>1. used \in [Nodes -> BOOLEAN]
      BY Zenon, <1>t DEF TypeOK
    <3> QED BY <1>1, <3>1, Zenon
  <2>2. link' \in [Nodes -> LinkStates]
    BY Zenon, <1>1, <1>t DEF TypeOK, LinkStates
  <2>3. pipe' \in [Nodes -> Seq(Messages)]
    BY Zenon, <1>1, <1>4, <1>t DEF TypeOK
  <2> QED BY Zenon, <1>1, <1>t, <2>1, <2>2, <2>3 DEF TypeOK
<1>6. BacklogOK'
  BY Zenon, <1>1, <1>t DEF BacklogOK
<1>7. LinkOK(n)'
  <2>1. pipe'[n] = reply /\ link'[n] = "served" /\ master' = master /\ role' = role
    BY Zenon, <1>1, <1>t DEF TypeOK
  <2>2. used'[m]
    <3>1. used \in [Nodes -> BOOLEAN]
      BY Zenon, <1>t DEF TypeOK
    <3> QED BY <1>1, <1>2, <3>1, Zenon
  <2>3. Replid(m)' = Replid(m) /\ stream' = stream /\ cache' = cache
    BY Zenon, <1>1 DEF Replid
  <2>4. CASE Continuable(m, cache[n])
    <3>1. /\ pipe'[n][1].k = "continue" /\ pipe'[n][1].id = Replid(m)
          /\ OpsFrom(stream[m], cache[n].off, pipe'[n], 1)
      <4> DEFINE r == ContinueReply(m, cache[n])
      <4>1. pipe'[n] = r
        BY Zenon, <2>1, <2>4
      <4>2. r[1].k = "continue" /\ r[1].id = Replid(m) /\ OpsFrom(stream[m], cache[n].off, r, 1)
        BY Zenon, <2>4, <1>2, <1>3, <1>t, ContinueIs
      <4> QED BY Zenon, <4>1, <4>2
    <3>2. cache[n].id = Replid(m)
      BY Zenon, <2>4 DEF Continuable
    <3>3. Continuing(n)'
      BY Zenon, <3>1, <3>2, <2>1, <2>3 DEF Continuing
    <3> QED BY Zenon, <3>3, <2>1, <2>2, <1>2 DEF LinkOK
  <2>5. CASE ~Continuable(m, cache[n])
    <3>1. /\ pipe'[n][1] \in FullLines /\ pipe'[n][1].id = Replid(m)
          /\ pipe'[n][2] \in Snapshots
          /\ OpsFrom(stream[m], pipe'[n][1].off, pipe'[n], 2)
      BY Zenon, <2>1, <2>5, <1>2, <1>t, FullIs
    <3>2. Resyncing(n)'
      BY Zenon, <3>1, <2>1, <2>3 DEF Resyncing
    <3> QED BY Zenon, <3>2, <2>1, <2>2, <1>2 DEF LinkOK
  <2> QED BY Zenon, <2>4, <2>5
<1>8. ASSUME NEW x \in Nodes, x # n PROVE LinkOK(x)'
  <2>1. UNCHANGED LinkView(x)
    BY Zenon, <1>1, <1>8, <1>t DEF LinkView, TypeOK
  <2>2. link[x] \in OnStates => master[x] \in Nodes
    BY Zenon, <1>t DEF LinkOK, OnStates
  <2>3. link[x] \in OnStates => (used[master[x]] => used'[master[x]])
    <3>1. used \in [Nodes -> BOOLEAN]
      BY Zenon, <1>t DEF TypeOK
    <3> QED BY <1>1, <1>2, <2>2, <3>1, Zenon
  <2> QED BY Zenon, <1>1, <1>t, <2>1, <2>3, LinkFrame
<1> QED BY Zenon, <1>5, <1>6, <1>7, <1>8 DEF IInv

(* A feed of n that leaves every stream alone.                             *)
LEMMA FeedOthers ==
  ASSUME IInv, NEW n \in Nodes, UNCHANGED <<role, master, inc, stream, used>>,
         \A x \in Nodes : x # n => /\ link'[x] = link[x] /\ pipe'[x] = pipe[x]
                                   /\ cache'[x] = cache[x]
  PROVE  \A x \in Nodes : x # n => LinkOK(x)'
<1> SUFFICES ASSUME NEW x \in Nodes, x # n PROVE LinkOK(x)'
  BY Zenon
<1>1. LinkOK(x) /\ UNCHANGED LinkView(x)
  BY Zenon DEF IInv, LinkView
<1> QED BY Zenon, <1>1, LinkFrame

LEMMA FeedContinueAction ==
  ASSUME IInv, NEW n \in Nodes, FeedContinue(n)
  PROVE  IInv'
<1>t. TypeOK /\ BacklogOK /\ LinkOK(n)
  BY Zenon DEF IInv
<1>1. /\ pipe[n] # <<>> /\ Head(pipe[n]).k = "continue"
      /\ cache' = [cache EXCEPT ![n].id = Head(pipe[n]).id]
      /\ link' = [link EXCEPT ![n] = "streaming"]
      /\ pipe' = [pipe EXCEPT ![n] = Tail(@)]
      /\ UNCHANGED <<role, master, inc, data, stream, blen, used, count>>
  BY Zenon DEF FeedContinue, Feed, Fed, server
<1>2. pipe[n] \in Seq(Messages) /\ cache[n] \in [id : Ids, off : Nat] /\ Head(pipe[n]) = pipe[n][1]
  BY <1>1, <1>t DEF TypeOK
<1>3. link[n] \in OnStates /\ master[n] \in Nodes
  BY Zenon, <1>1, <1>t DEF LinkOK, TypeOK, LinkStates, OnStates
<1>4. stream[master[n]] \in Seq(Ops) /\ cache[n].off \in Nat
  BY Zenon, <1>2, <1>3, <1>t DEF TypeOK
<1>5. link[n] # "streaming"
  <2>1. SUFFICES ASSUME Streaming(n) PROVE FALSE
    BY Zenon, <1>t DEF LinkOK
  <2>2. OpsFrom(stream[master[n]], cache[n].off, pipe[n], 0)
    BY Zenon, <2>1 DEF Streaming
  <2>3. Head(pipe[n]).k = "op"
    BY Zenon, <2>2, <1>1, <1>2, <1>4, OpsFromFeed
  <2> QED BY Zenon, <2>3, <1>1
<1>6. Continuing(n)
  BY Zenon, <1>1, <1>2, <1>3, <1>5, <1>t DEF LinkOK, OnStates, Resyncing, FullLines
<1>7. /\ OpsFrom(stream[master[n]], cache[n].off, Tail(pipe[n]), 0)
      /\ Tail(pipe[n]) \in Seq(Messages) /\ pipe[n][1].id = Replid(master[n])
  <2>1. OpsFrom(stream[master[n]], cache[n].off, pipe[n], 0 + 1)
    BY <1>6 DEF Continuing
  <2> QED BY Zenon, <2>1, <1>2, <1>4, <1>6, OpsFromTail DEF Continuing
<1>8. /\ cache'[n].id = Replid(master[n]) /\ cache'[n].off = cache[n].off
      /\ link'[n] = "streaming" /\ pipe'[n] = Tail(pipe[n])
  BY Zenon, <1>1, <1>2, <1>7, <1>t DEF TypeOK
<1>9. TypeOK'
  <2>1. cache' \in [Nodes -> [id : Ids, off : Nat]]
    <3>1. Head(pipe[n]).id \in Ids
      BY Zenon, <1>2, <1>3, <1>7, <1>t, CacheTypes
    <3>2. [cache[n] EXCEPT !.id = Head(pipe[n]).id] \in [id : Ids, off : Nat]
      BY Zenon, <3>1, <1>2
    <3>3. cache' = [cache EXCEPT ![n] = [cache[n] EXCEPT !.id = Head(pipe[n]).id]]
      BY Zenon, <1>1
    <3> QED BY Zenon, <3>2, <3>3, <1>t DEF TypeOK
  <2>2. pipe' \in [Nodes -> Seq(Messages)]
    BY Zenon, <1>1, <1>7, <1>t DEF TypeOK
  <2> QED BY Zenon, <1>1, <1>t, <2>1, <2>2 DEF TypeOK, LinkStates
<1>10. LinkOK(n)'
  <2>1. Replid(master[n])' = Replid(master[n])
    BY Zenon, <1>1 DEF Replid
  <2>2. Streaming(n)'
    BY Zenon, <1>1, <1>7, <1>8, <2>1 DEF Streaming
  <2> QED BY Zenon, <2>2, <1>1, <1>3, <1>8, <1>t DEF LinkOK, OnStates
<1>11. \A x \in Nodes : x # n => LinkOK(x)'
  BY Zenon, <1>1, <1>t, FeedOthers DEF TypeOK
<1>12. BacklogOK'
  BY Zenon, <1>1, <1>t DEF BacklogOK
<1> QED BY Zenon, <1>9, <1>10, <1>11, <1>12 DEF IInv

LEMMA FeedFullresyncAction ==
  ASSUME IInv, NEW n \in Nodes, FeedFullresync(n)
  PROVE  IInv'
<1>t. TypeOK /\ BacklogOK /\ LinkOK(n)
  BY Zenon DEF IInv
<1>1. /\ pipe[n] # <<>> /\ Head(pipe[n]).k = "fullresync" /\ link[n] = "served"
      /\ link' = [link EXCEPT ![n] = "snap"]
      /\ UNCHANGED <<role, master, inc, data, stream, blen, used, cache, count, pipe>>
  BY Zenon DEF FeedFullresync, Feed, server
<1>2. Head(pipe[n]) = pipe[n][1]
  BY <1>1, <1>t DEF TypeOK
<1>3. Resyncing(n)
  BY Zenon, <1>1, <1>2, <1>t DEF LinkOK, Continuing
<1>4. Resyncing(n)'
  <2>1. Replid(master[n])' = Replid(master[n])
    BY Zenon, <1>1 DEF Replid
  <2> QED BY Zenon, <1>1, <1>3, <2>1 DEF Resyncing
<1>5. TypeOK' /\ link'[n] = "snap"
  BY Zenon, <1>1, <1>t DEF TypeOK, LinkStates
<1>6. LinkOK(n)'
  BY Zenon, <1>1, <1>4, <1>5, <1>t DEF LinkOK
<1>7. \A x \in Nodes : x # n => LinkOK(x)'
  BY Zenon, <1>1, <1>t, FeedOthers DEF TypeOK
<1>8. BacklogOK'
  BY Zenon, <1>1, <1>t DEF BacklogOK
<1> QED BY Zenon, <1>5, <1>6, <1>7, <1>8 DEF IInv

LEMMA FeedSnapshotAction ==
  ASSUME IInv, NEW n \in Nodes, FeedSnapshot(n)
  PROVE  IInv'
<1>t. TypeOK /\ BacklogOK /\ LinkOK(n)
  BY Zenon DEF IInv
<1>1. /\ link[n] = "snap"
      /\ data' = [data EXCEPT ![n] = pipe[n][2].data]
      /\ cache' = [cache EXCEPT ![n] = [id |-> Head(pipe[n]).id, off |-> Head(pipe[n]).off]]
      /\ link' = [link EXCEPT ![n] = "streaming"]
      /\ pipe' = [pipe EXCEPT ![n] = Tail(Tail(@))]
      /\ UNCHANGED <<role, master, inc, stream, blen, used, count>>
  BY Zenon DEF FeedSnapshot, server
<1>2. Resyncing(n) /\ master[n] \in Nodes /\ used[master[n]] /\ role[n] = "replica"
  BY Zenon, <1>1, <1>t DEF LinkOK
<1> DEFINE q == pipe[n]
           s == stream[master[n]]
<1>3. q \in Seq(Messages) /\ s \in Seq(Ops)
  BY Zenon, <1>2, <1>t DEF TypeOK
<1>4. /\ q[1] \in FullLines /\ q[1].id = Replid(master[n]) /\ q[2] \in Snapshots
      /\ OpsFrom(s, q[1].off, q, 2)
  BY Zenon, <1>2 DEF Resyncing
<1>5. q[1].id \in Ids /\ q[1].off \in Nat /\ q[2].data \in Seq(Ops)
  BY Zenon, <1>4 DEF FullLines, Snapshots
<1> HIDE DEF q, s
<1>6. /\ Head(q) = q[1] /\ Tail(q) \in Seq(Messages)
      /\ OpsFrom(s, q[1].off, Tail(q), 1)
  <2>1. OpsFrom(s, q[1].off, q, 1 + 1)
    BY <1>4
  <2> QED BY Zenon, <2>1, <1>3, <1>5, OpsFromTail
<1>7. Tail(Tail(q)) \in Seq(Messages) /\ OpsFrom(s, q[1].off, Tail(Tail(q)), 0)
  <2>1. OpsFrom(s, q[1].off, Tail(q), 0 + 1)
    BY <1>6
  <2> QED BY Zenon, <2>1, <1>3, <1>5, <1>6, OpsFromTail
<1>8. /\ cache' = [cache EXCEPT ![n] = [id |-> q[1].id, off |-> q[1].off]]
      /\ pipe' = [pipe EXCEPT ![n] = Tail(Tail(q))]
      /\ data' = [data EXCEPT ![n] = q[2].data]
  BY Zenon, <1>1, <1>6 DEF q
<1>9. /\ cache'[n] = [id |-> q[1].id, off |-> q[1].off] /\ pipe'[n] = Tail(Tail(q))
      /\ link'[n] = "streaming"
  BY <1>1, <1>8, <1>t DEF TypeOK
<1>10. TypeOK'
  <2>1. cache' \in [Nodes -> [id : Ids, off : Nat]]
    BY Zenon, <1>5, <1>8, <1>t DEF TypeOK
  <2>2. pipe' \in [Nodes -> Seq(Messages)]
    BY Zenon, <1>7, <1>8, <1>t DEF TypeOK
  <2>3. data' \in [Nodes -> Seq(Ops)]
    BY Zenon, <1>5, <1>8, <1>t DEF TypeOK
  <2> QED BY Zenon, <1>1, <1>t, <2>1, <2>2, <2>3 DEF TypeOK, LinkStates
<1>11. LinkOK(n)'
  <2>1. Replid(master[n])' = Replid(master[n]) /\ stream'[master'[n]] = s
    BY Zenon, <1>1 DEF Replid, s
  <2>2. cache'[n].id = Replid(master[n])' /\ cache'[n].off = q[1].off
    BY <1>4, <1>9, <2>1
  <2>3. OpsFrom(stream'[master'[n]], cache'[n].off, pipe'[n], 0)
    BY Zenon, <1>7, <1>9, <2>1, <2>2
  <2>4. Streaming(n)'
    BY Zenon, <2>2, <2>3 DEF Streaming
  <2> QED BY Zenon, <2>4, <1>1, <1>2, <1>9 DEF LinkOK
<1>12. \A x \in Nodes : x # n => LinkOK(x)'
  BY Zenon, <1>1, <1>8, <1>t, FeedOthers DEF TypeOK
<1>13. BacklogOK'
  BY Zenon, <1>1, <1>t DEF BacklogOK
<1> QED BY Zenon, <1>10, <1>11, <1>12, <1>13 DEF IInv

(* srv_propagate at m, for a link x that is not fed in the same step.      *)
LEMMA PropagateLinks ==
  ASSUME IInv, NEW m \in Nodes, NEW op \in Ops,
         NEW pipes \in [Nodes -> Seq(Messages)], Propagate(m, op, pipes),
         UNCHANGED <<role, master, inc, used, link>>,
         NEW x \in Nodes, pipes[x] = pipe[x], cache'[x] = cache[x]
  PROVE  LinkOK(x)'
<1>t. TypeOK /\ LinkOK(x) /\ cache[x] \in [id : Ids, off : Nat]
  BY Zenon DEF IInv, TypeOK
<1>1. CASE link[x] \notin OnStates
  <2>1. x \notin Attached(master[x])
    BY Zenon, <1>1 DEF Attached, OnStates
  <2>2. pipe'[x] = pipe[x]
    BY Zenon, <2>1, PropagateOthers
  <2>3. UNCHANGED LinkView(x)
    BY Zenon, <2>2 DEF LinkView
  <2> QED BY Zenon, <1>1, <1>t, <2>3, LinkFrame
<1>2. CASE link[x] \in OnStates
  <2>1. /\ x \in Attached(master[x]) /\ master[x] \in Nodes /\ used[master[x]]
        /\ role[x] = "replica"
    BY Zenon, <1>2, <1>t DEF Attached, OnStates, LinkOK
  <2>2. ASSUME NEW off \in Nat, NEW skip \in Nat,
               OpsFrom(stream[master[x]], off, pipe[x], skip)
        PROVE  /\ OpsFrom(stream'[master'[x]], off, pipe'[x], skip)
               /\ \A i \in 1..skip : pipe'[x][i] = pipe[x][i]
    <3>1. OpsFrom(stream[master[x]], off, pipes[x], skip)
      BY Zenon, <2>2
    <3>2. OpsFrom(stream'[master[x]], off, pipe'[x], skip)
      BY Zenon, <3>1, <2>1, <2>2, <1>t, PropagateOps
    <3>3. ASSUME NEW i \in 1..skip PROVE pipe'[x][i] = pipes[x][i]
      <4> DEFINE s == stream[master[x]]
      <4>0. s \in Seq(Ops)
        BY Zenon, <2>1, <1>t DEF TypeOK
      <4> HIDE DEF s
      <4>1. Len(s) \in Nat
        BY Zenon, <4>0, LenIsNat
      <4>2. Len(pipes[x]) = skip + (Len(s) - off) /\ off <= Len(s)
        BY Zenon, <3>1 DEF OpsFrom, s
      <4>3. i \in 1..Len(pipes[x])
        BY <4>1, <4>2, <2>2, <3>3
      <4> QED BY Zenon, <4>3, PropagateKeeps
    <3> QED BY Zenon, <3>2, <3>3
  <2>3. Replid(master[x])' = Replid(master[x]) /\ cache[x].off \in Nat
    BY Zenon, <1>t DEF Replid
  <2>4. Continuing(x) => Continuing(x)'
    <3> SUFFICES ASSUME Continuing(x) PROVE Continuing(x)'
      BY Zenon
    <3>1. OpsFrom(stream[master[x]], cache[x].off, pipe[x], 1)
      BY Zenon DEF Continuing
    <3>2. /\ OpsFrom(stream'[master'[x]], cache[x].off, pipe'[x], 1)
          /\ \A i \in 1..1 : pipe'[x][i] = pipe[x][i]
      BY Zenon, <3>1, <2>2, <2>3
    <3>3. pipe'[x][1] = pipe[x][1]
      <4>1. 1 \in 1..1
        BY Zenon, FirstTwo
      <4> QED BY <3>2, <4>1, Zenon
    <3> QED BY Zenon, <3>2, <3>3, <2>3 DEF Continuing
  <2>5. Resyncing(x) => Resyncing(x)'
    <3> SUFFICES ASSUME Resyncing(x) PROVE Resyncing(x)'
      BY Zenon
    <3>1. pipe[x][1].off \in Nat /\ OpsFrom(stream[master[x]], pipe[x][1].off, pipe[x], 2)
      BY Zenon DEF Resyncing, FullLines
    <3>2. /\ OpsFrom(stream'[master'[x]], pipe[x][1].off, pipe'[x], 2)
          /\ \A i \in 1..2 : pipe'[x][i] = pipe[x][i]
      BY Zenon, <3>1, <2>2
    <3>3. pipe'[x][1] = pipe[x][1] /\ pipe'[x][2] = pipe[x][2]
      <4>1. 1 \in 1..2 /\ 2 \in 1..2
        BY Zenon, FirstTwo
      <4> QED BY <3>2, <4>1, Zenon
    <3> QED BY Zenon, <3>2, <3>3, <2>3 DEF Resyncing
  <2>6. Streaming(x) => Streaming(x)'
    BY Zenon, <2>2, <2>3 DEF Streaming
  <2> QED BY Zenon, <1>2, <1>t, <2>1, <2>4, <2>5, <2>6 DEF LinkOK, OnStates
<1> QED BY Zenon, <1>1, <1>2

LEMMA ClientWriteAction ==
  ASSUME IInv, NEW m \in Nodes, NEW d \in DBs, ClientWrite(m, d)
  PROVE  IInv'
<1> DEFINE op == [id |-> count.write, org |-> m, db |-> d]
<1>t. TypeOK /\ BacklogOK
  BY Zenon DEF IInv
<1>1. /\ count.write > 0 /\ data' = [data EXCEPT ![m] = Append(@, op)]
      /\ Propagate(m, op, pipe) /\ Spend("write")
      /\ UNCHANGED <<role, master, inc, used, cache, link>>
  BY Zenon DEF ClientWrite, server
<1>2. op \in Ops /\ pipe \in [Nodes -> Seq(Messages)]
  BY Zenon, <1>t DEF TypeOK, Ops
<1> HIDE DEF op
<1>3. count' \in [write : Nat, break : Nat, fail : Nat, admin : Nat, restart : Nat]
  BY Zenon, <1>1, <1>t, SpendTypes
<1>4. data' \in [Nodes -> Seq(Ops)]
  BY <1>1, <1>2, <1>t DEF TypeOK
<1>5. /\ stream' \in [Nodes -> Seq(Ops)] /\ blen' \in [Nodes -> Nat]
      /\ pipe' \in [Nodes -> Seq(Messages)] /\ BacklogOK'
  BY Zenon, <1>1, <1>2, <1>t, PropagateTypes
<1>6. TypeOK'
  BY Zenon, <1>1, <1>3, <1>4, <1>5, <1>t DEF TypeOK
<1>7. \A x \in Nodes : LinkOK(x)'
  BY Zenon, <1>1, <1>2, PropagateLinks
<1> QED BY Zenon, <1>5, <1>6, <1>7 DEF IInv

LEMMA FeedCommandAction ==
  ASSUME IInv, NEW n \in Nodes, FeedCommand(n)
  PROVE  IInv'
<1> DEFINE op == [Head(pipe[n]).op EXCEPT !.db = 0]
           pipes == [pipe EXCEPT ![n] = Tail(@)]
           s == stream[master[n]]
<1>t. TypeOK /\ BacklogOK /\ LinkOK(n)
  BY Zenon DEF IInv
<1>1. /\ pipe[n] # <<>> /\ link[n] = "streaming"
      /\ data' = [data EXCEPT ![n] = Append(@, op)]
      /\ cache' = [cache EXCEPT ![n].off = @ + 1]
      /\ Propagate(n, op, pipes)
      /\ UNCHANGED <<role, master, inc, used, link, count>>
  BY Zenon DEF FeedCommand, Feed, Fed, server
<1>2. Streaming(n) /\ master[n] \in Nodes /\ used[master[n]] /\ role[n] = "replica"
  BY Zenon, <1>1, <1>t DEF LinkOK
<1>3. /\ pipe[n] \in Seq(Messages) /\ s \in Seq(Ops)
      /\ cache[n] \in [id : Ids, off : Nat] /\ cache[n].off \in Nat
  BY Zenon, <1>2, <1>t DEF TypeOK
<1>4. /\ OpsFrom(s, cache[n].off + 1, Tail(pipe[n]), 0) /\ Head(pipe[n]).op \in Ops
      /\ Tail(pipe[n]) \in Seq(Messages)
  BY <1>1, <1>2, <1>3, OpsFromFeed DEF Streaming
<1>5. op \in Ops
  BY Zenon, <1>4 DEF Ops
<1>6. pipes \in [Nodes -> Seq(Messages)] /\ pipes[n] = Tail(pipe[n])
  BY Zenon, <1>4, <1>t DEF TypeOK
<1>7. \A x \in Nodes : x # n => pipes[x] = pipe[x] /\ cache'[x] = cache[x]
  BY Zenon, <1>1, <1>t DEF TypeOK
<1> HIDE DEF op, pipes, s
<1>8. /\ cache' \in [Nodes -> [id : Ids, off : Nat]]
      /\ cache'[n].id = cache[n].id /\ cache'[n].off = cache[n].off + 1
  <2>1. cache' = [cache EXCEPT ![n] = [cache[n] EXCEPT !.off = cache[n].off + 1]]
    BY Zenon, <1>1
  <2>2. [cache[n] EXCEPT !.off = cache[n].off + 1] \in [id : Ids, off : Nat]
    BY <1>3
  <2> QED BY Zenon, <2>1, <2>2, <1>3, <1>t DEF TypeOK
<1>9. data' \in [Nodes -> Seq(Ops)]
  BY <1>1, <1>5, <1>t DEF TypeOK
<1>10. /\ stream' \in [Nodes -> Seq(Ops)] /\ blen' \in [Nodes -> Nat]
       /\ pipe' \in [Nodes -> Seq(Messages)] /\ BacklogOK'
  BY Zenon, <1>1, <1>5, <1>6, <1>t, PropagateTypes
<1>11. TypeOK'
  BY Zenon, <1>1, <1>8, <1>9, <1>10, <1>t DEF TypeOK
<1>12. LinkOK(n)'
  <2>1. n \in Attached(master[n])
    BY Zenon, <1>1 DEF Attached
  <2>2. cache[n].off + 1 \in Nat /\ OpsFrom(stream[master[n]], cache[n].off + 1, pipes[n], 0)
    <3>1. cache[n].off + 1 \in Nat
      BY <1>3
    <3>2. OpsFrom(s, cache[n].off + 1, pipes[n], 0)
      BY Zenon, <1>4, <1>6
    <3> QED BY Zenon, <3>1, <3>2 DEF s
  <2>3. OpsFrom(stream'[master[n]], cache[n].off + 1, pipe'[n], 0)
    BY Zenon, <2>1, <2>2, <1>1, <1>2, <1>5, <1>6, <1>t, PropagateOps
  <2>4. Replid(master[n])' = Replid(master[n])
    BY Zenon, <1>1 DEF Replid
  <2>5. Streaming(n)'
    BY Zenon, <2>3, <2>4, <1>1, <1>2, <1>8 DEF Streaming
  <2> QED BY Zenon, <2>5, <1>1, <1>2 DEF LinkOK
<1>13. \A x \in Nodes : x # n => LinkOK(x)'
  BY Zenon, <1>1, <1>5, <1>6, <1>7, PropagateLinks
<1> QED BY Zenon, <1>10, <1>11, <1>12, <1>13 DEF IInv

-----------------------------------------------------------------------------
(* The theorems.                                                           *)

LEMMA Inductive == Spec => []IInv
<1>1. IInv /\ [Next]_vars => IInv'
  <2> SUFFICES ASSUME IInv, [Next]_vars PROVE IInv'
    BY Zenon
  <2>1. CASE UNCHANGED vars
    <3>1. TypeOK' /\ BacklogOK'
      BY Zenon, <2>1 DEF vars, IInv, TypeOK, BacklogOK
    <3>2. ASSUME NEW x \in Nodes PROVE LinkOK(x)'
      <4>1. LinkOK(x) /\ UNCHANGED LinkView(x) /\ UNCHANGED <<stream, inc, used>>
        BY Zenon, <2>1 DEF vars, IInv, LinkView
      <4> QED BY Zenon, <4>1, LinkFrame
    <3> QED BY Zenon, <3>1, <3>2 DEF IInv
  <2>2. CASE Next
    BY Zenon, <2>2, ClientWriteAction, LinkActions, ReplicaofAction, RestartAction,
       ServePsyncAction, FeedContinueAction, FeedFullresyncAction,
       FeedSnapshotAction, FeedCommandAction DEF Next
  <2> QED BY Zenon, <2>1, <2>2
<1> QED BY InitIInv, <1>1, PTL DEF Spec

(* A replica that streams holds its master's present replication id, and   *)
(* what is under way to it is the master's stream from the replica's own   *)
(* offset on, for every topology, backlog size and history of breaks,      *)
(* restarts and REPLICAOF commands.                                        *)
THEOREM ReplicaFollows == Spec => []StreamFollows
<1>1. IInv => StreamFollows
  BY Zenon DEF IInv, LinkOK, StreamFollows
<1> QED BY Inductive, <1>1, PTL
=============================================================================
