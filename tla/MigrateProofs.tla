---------------------------- MODULE MigrateProofs ----------------------------
(***************************************************************************)
(* Proofs about Migrate for every set of keys and of clients, every batch  *)
(* size, and any number of writes, timeouts, refusals and restarts.        *)
(***************************************************************************)
EXTENDS Migrate, FiniteSetTheorems, TLAPS

USE DEF Hosts

LEMMA OrdersAreSequences ==
  ASSUME NEW S, IsFiniteSet(S), NEW s \in Orders(S)
  PROVE  s \in Seq(S)
<1>1. Cardinality(S) \in Nat
  BY Zenon, FS_CardinalityType
<1>2. s \in [1..Cardinality(S) -> S]
  BY Zenon DEF Orders
<1> QED BY <1>1, <1>2

LEMMA InRange ==
  ASSUME NEW a \in Nat, NEW b \in Nat, NEW c \in Nat, NEW i \in 1..b, a + b <= c
  PROVE  a + i \in 1..c
OBVIOUS

(* Facts that only concern a part of the state.                            *)
LEMMA SentBound ==
  ASSUME TypesOK, RunOK
  PROVE  /\ run.confirmed \in Nat /\ Len(run.acks) \in Nat /\ Len(run.keys) \in Nat
         /\ Len(run.out) \in Nat /\ run.confirmed + Len(run.acks) <= Len(run.keys)
<1>1. /\ run.keys \in Seq(SlotKeys) /\ run.acks \in Seq(BOOLEAN) /\ run.out \in Seq(Restores)
      /\ run.confirmed \in Nat /\ Len(run.keys) \in Nat /\ Len(run.acks) \in Nat /\ Len(run.out) \in Nat
  BY DEF TypesOK
<1>2. CASE run.open
  BY <1>1, <1>2 DEF RunOK
<1>3. CASE ~run.open
  BY <1>1, <1>3 DEF RunOK
<1> QED BY Zenon, <1>1, <1>2, <1>3

LEMMA ConfirmedSettled ==
  ASSUME TypesOK, RunOK
  PROVE  run.confirmed \in 0..Len(run.keys) /\ \A i \in 1..run.confirmed : Settled(run.keys[i])
<1>1. run.confirmed \in 0..Len(run.keys)
  BY SentBound
<1>2. \A i \in 1..run.confirmed : Settled(run.keys[i])
  BY Zenon DEF RunOK
<1> QED BY Zenon, <1>1, <1>2

(* RunExact, with what it depends on as parameters.                        *)
Exact(r, a, b) ==
  /\ \A i \in 1..Len(r.acks) : r.acks[i]
  /\ \A i \in 1..Len(r.keys) : a[r.keys[i]] # Absent
  /\ \A i \in 1..Len(r.out) : r.out[i].v = a[r.out[i].k]
  /\ \A i \in 1..(r.confirmed + Len(r.acks)) : b[r.keys[i]] = a[r.keys[i]]
  /\ \A k \in SlotKeys : a[k] # Absent /\ b[k] # Absent =>
       \E i \in 1..(r.confirmed + Len(r.acks)) : r.keys[i] = k

LEMMA RunExactIs ==
  /\ RunExact <=> (run # Idle => Moving /\ run.open) /\ Exact(run, host["A"].data, host["B"].data)
  /\ RunExact' <=> (run' # Idle => Moving' /\ run'.open) /\ Exact(run', host'["A"].data, host'["B"].data)
<1>1. RunExact <=> (run # Idle => Moving /\ run.open) /\ Exact(run, host["A"].data, host["B"].data)
  BY Zenon DEF RunExact, Exact, Present
<1>2. RunExact' <=> (run' # Idle => Moving' /\ run'.open) /\ Exact(run', host'["A"].data, host'["B"].data)
  BY Zenon DEF RunExact, Exact, Present
<1> QED BY Zenon, <1>1, <1>2

LEMMA RunFrame ==
  ASSUME RunOK, UNCHANGED run,
         \A i \in 1..Len(run.keys) : Settled(run.keys[i]) => Settled(run.keys[i])',
         TypesOK
  PROVE  RunOK'
<1>1. /\ run.confirmed \in Nat /\ Len(run.acks) \in Nat /\ Len(run.keys) \in Nat
      /\ run.confirmed + Len(run.acks) <= Len(run.keys)
  BY Zenon, SentBound
<1>2. \A i \in 1..run.confirmed : Settled(run.keys[i])'
  BY <1>1 DEF RunOK
<1>3. \A i \in 1..Len(run.acks) : run.acks[i] => Settled(run.keys[run.confirmed + i])'
  <2> SUFFICES ASSUME NEW i \in 1..Len(run.acks), run.acks[i]
               PROVE  Settled(run.keys[run.confirmed + i])'
    BY Zenon
  <2>1. run.confirmed + i \in 1..Len(run.keys)
    BY <1>1
  <2>2. Settled(run.keys[run.confirmed + i])
    BY Zenon DEF RunOK
  <2> QED BY Zenon, <2>1, <2>2
<1> QED BY Zenon, <1>2, <1>3 DEF RunOK

LEMMA InitInv == MigrateInit => MigrateInv
<1> SUFFICES ASSUME MigrateInit PROVE MigrateInv
  BY Zenon
<1>1. TypesOK
  <2>1. host \in [{"A", "B"} -> Hosts]
    BY Zenon DEF MigrateInit, Absent
  <2>2. run \in [keys : Seq(SlotKeys), out : Seq(Restores), acks : Seq(BOOLEAN),
                 confirmed : Nat, open : BOOLEAN]
    BY DEF MigrateInit, Idle
  <2> QED BY Zenon, <2>1, <2>2 DEF MigrateInit, TypesOK, Places
<1>2. RunOK
  BY DEF MigrateInit, RunOK, Idle
<1>3. NoKeyLost
  BY Zenon DEF MigrateInit, NoKeyLost, Absent
<1>4. Undisturbed
  BY DEF MigrateInit, Undisturbed, RunExact, SlotExact, Moving, Authority, Present, Absent, Idle
<1> QED BY Zenon, <1>1, <1>2, <1>3, <1>4 DEF MigrateInv

-----------------------------------------------------------------------------
(* Steps of clients.                                                       *)

LEMMA DataFrame ==
  ASSUME MigrateInv, UNCHANGED <<run, latest>>,
         \A n \in {"A", "B"} : host'[n].data = host[n].data
  PROVE  RunOK' /\ NoKeyLost'
<1>1. \A k \in SlotKeys : Settled(k)' <=> Settled(k)
  BY Zenon DEF Settled
<1>2. \A i \in 1..Len(run.keys) : Settled(run.keys[i]) => Settled(run.keys[i])'
  BY Zenon DEF Settled
<1>3. RunOK'
  BY Zenon, <1>2, RunFrame DEF MigrateInv
<1>4. NoKeyLost'
  BY Zenon DEF MigrateInv, NoKeyLost
<1> QED BY Zenon, <1>3, <1>4

(* A step that only sends, redirects or refuses requests.                  *)
LEMMA ReqsFrame ==
  ASSUME MigrateInv, UNCHANGED <<host, run, late, tool, latest, writes, faults>>,
         reqs' \in [Clients -> SlotCommands \cup {NoReq}],
         faults = 0 =>
           \A c \in Clients :
             reqs'[c] # NoReq /\ reqs'[c].asking =>
               /\ reqs'[c].at = "B" /\ host["A"].data[reqs'[c].k] = Absent
               /\ host["A"].own = "A" => host["A"].moving
  PROVE  MigrateInv'
<1>1. TypesOK'
  BY Zenon DEF MigrateInv, TypesOK
<1>2. RunOK' /\ NoKeyLost'
  BY Zenon, DataFrame
<1>3. ASSUME faults = 0 PROVE Undisturbed'
  <2>1. Undisturbed
    BY Zenon, <1>3 DEF MigrateInv
  <2>2. RunExact'
    BY Zenon, <2>1 DEF Undisturbed, RunExact, Moving, Present
  <2>3. SlotExact'
    BY Zenon, <2>1 DEF Undisturbed, SlotExact, Moving, Present
  <2>4. \A k \in SlotKeys : latest'[k] = Authority(k)'
    BY Zenon, <2>1 DEF Undisturbed, Authority
  <2> QED BY Zenon, <2>1, <2>2, <2>3, <2>4, <1>3 DEF Undisturbed
<1> QED BY Zenon, <1>1, <1>2, <1>3 DEF MigrateInv

LEMMA RequestAction ==
  ASSUME MigrateInv, NEW c \in Clients, NEW op \in {"set", "del"}, NEW k \in SlotKeys,
         NEW n \in {"A", "B"}, Request(c, op, k, n)
  PROVE  MigrateInv'
<1> DEFINE r == [op |-> op, k |-> k, at |-> n, asking |-> FALSE]
<1>1. reqs' = [reqs EXCEPT ![c] = r] /\ reqs \in [Clients -> SlotCommands \cup {NoReq}]
  BY Zenon DEF Request, MigrateInv, TypesOK
<1>2. r \in SlotCommands /\ ~r.asking
  BY Zenon DEF SlotCommands
<1> HIDE DEF r
<1>3. reqs' \in [Clients -> SlotCommands \cup {NoReq}]
  BY Zenon, <1>1, <1>2
<1>4. \A d \in Clients : reqs'[d] = reqs[d] \/ ~reqs'[d].asking
  BY Zenon, <1>1, <1>2
<1> QED BY Zenon, <1>3, <1>4, ReqsFrame DEF Request, MigrateInv, Undisturbed

LEMMA RedirectAction ==
  ASSUME MigrateInv, NEW c \in Clients, Redirect(c)
  PROVE  MigrateInv'
<1> DEFINE r == reqs[c]
           s == Served(r.at, r.k, r.asking)
           new == CASE s = "ASK"   -> [r EXCEPT !.at = Other(r.at), !.asking = TRUE]
                    [] s = "MOVED" -> [r EXCEPT !.at = host[r.at].own, !.asking = FALSE]
                    [] OTHER       -> NoReq
<1>t. /\ reqs \in [Clients -> SlotCommands \cup {NoReq}]
      /\ host \in [{"A", "B"} -> Hosts]
  BY Zenon DEF MigrateInv, TypesOK
<1>1. /\ r # NoReq /\ s # "served" /\ reqs' = [reqs EXCEPT ![c] = new]
  BY Zenon DEF Redirect
<1>2. r \in SlotCommands /\ r.at \in {"A", "B"} /\ r.k \in SlotKeys
  BY Zenon, <1>t, <1>1 DEF SlotCommands
<1>3. CASE s = "ASK"
  <2>1. /\ r.at = "A" /\ host["A"].data[r.k] = Absent /\ host["A"].own = "A" /\ host["A"].moving
    BY Zenon, <1>3, <1>2 DEF Served, Migrating
  <2>2. new = [r EXCEPT !.at = "B", !.asking = TRUE]
    BY Zenon, <1>3, <2>1 DEF Other
  <2>3. new \in SlotCommands /\ new.at = "B" /\ new.k = r.k
    BY Zenon, <2>2, <1>2 DEF SlotCommands
  <2> HIDE DEF new, s
  <2>4. reqs' \in [Clients -> SlotCommands \cup {NoReq}]
    BY Zenon, <1>1, <1>t, <2>3
  <2>5. \A d \in Clients : reqs'[d] = IF d = c THEN new ELSE reqs[d]
    BY Zenon, <1>1, <1>t
  <2> QED BY Zenon, <2>1, <2>3, <2>4, <2>5, ReqsFrame DEF Redirect, MigrateInv, Undisturbed
<1>4. CASE s # "ASK"
  <2>1. new \in SlotCommands \cup {NoReq} /\ (new # NoReq => ~new.asking)
    <3>1. CASE s = "MOVED"
      <4>1. host[r.at].own \in {"A", "B"}
        BY Zenon, <3>1, <1>2, <1>t DEF Served, NoOwner
      <4>2. new = [r EXCEPT !.at = host[r.at].own, !.asking = FALSE]
        BY Zenon, <3>1
      <4> QED BY Zenon, <4>1, <4>2, <1>2 DEF SlotCommands
    <3>2. CASE s # "MOVED"
      BY Zenon, <3>2, <1>4
    <3> QED BY Zenon, <3>1, <3>2
  <2> HIDE DEF new, s
  <2>2. reqs' \in [Clients -> SlotCommands \cup {NoReq}]
    BY Zenon, <1>1, <1>t, <2>1
  <2>3. \A d \in Clients : reqs'[d] = IF d = c THEN new ELSE reqs[d]
    BY Zenon, <1>1, <1>t
  <2> QED BY Zenon, <2>1, <2>2, <2>3, ReqsFrame DEF Redirect, MigrateInv, Undisturbed
<1> QED BY Zenon, <1>3, <1>4

(* What a request meets that is about to be served, when nothing failed.   *)
LEMMA ServedHere ==
  ASSUME TypesOK, Undisturbed, NEW c \in Clients, reqs[c] # NoReq, ~Busy(reqs[c].at),
         Served(reqs[c].at, reqs[c].k, reqs[c].asking) = "served"
  PROVE  /\ host[reqs[c].at].data[reqs[c].k] = latest[reqs[c].k]
         /\ reqs[c].at = "A" => /\ run = Idle /\ host["A"].own = "A"
                                /\ host["A"].data[reqs[c].k] # Absent \/ ~host["A"].moving
         /\ reqs[c].at = "B" => /\ host["A"].data[reqs[c].k] = Absent
                                /\ host["A"].own = "A" => host["A"].moving
<1> DEFINE r == reqs[c]
<1>1. r \in SlotCommands /\ r.at \in {"A", "B"} /\ r.k \in SlotKeys /\ r.asking \in BOOLEAN
  BY Zenon DEF TypesOK, SlotCommands
<1>2. latest[r.k] = Authority(r.k)
  BY Zenon, <1>1 DEF Undisturbed
<1>3. CASE r.at = "A"
  <2>1. run = Idle /\ ~r.asking
    BY Zenon, <1>3 DEF Busy, Undisturbed
  <2>2. host["A"].own = "A" /\ (host["A"].data[r.k] # Absent \/ ~host["A"].moving)
    BY Zenon, <1>3, <2>1 DEF Served, Migrating
  <2>3. host["A"].data[r.k] = Absent => host["B"].data[r.k] = Absent
    BY Zenon, <2>2, <1>1 DEF Undisturbed, SlotExact, Present
  <2> QED BY Zenon, <1>2, <1>3, <2>1, <2>2, <2>3 DEF Authority
<1>4. CASE r.at = "B"
  <2>1. host["A"].data[r.k] = Absent /\ (host["A"].own = "A" => host["A"].moving)
    <3>1. CASE r.asking
      BY Zenon, <3>1 DEF Undisturbed
    <3>2. CASE ~r.asking
      <4>1. host["B"].own = "B"
        BY Zenon, <3>2, <1>4 DEF Served
      <4>2. host["A"].own # "A" /\ Present("A") = {}
        BY Zenon, <4>1 DEF Undisturbed, SlotExact
      <4> QED BY Zenon, <4>2, <1>1 DEF Present
    <3> QED BY Zenon, <3>1, <3>2, <1>1
  <2> QED BY <2>1, <1>2, <1>4 DEF Authority
<1> QED BY Zenon, <1>1, <1>3, <1>4

LEMMA ServeAction ==
  ASSUME MigrateInv, NEW c \in Clients, Serve(c)
  PROVE  MigrateInv'
<1> DEFINE n == reqs[c].at
           k == reqs[c].k
           v == IF reqs[c].op = "set" THEN writes + 1 ELSE Absent
           A == host["A"].data
           B == host["B"].data
<1>t. /\ reqs \in [Clients -> SlotCommands \cup {NoReq}] /\ writes \in Nat
      /\ host \in [{"A", "B"} -> Hosts]
      /\ latest \in [SlotKeys -> Nat]
      /\ A \in [SlotKeys -> Nat] /\ B \in [SlotKeys -> Nat]
  BY Zenon DEF MigrateInv, TypesOK
<1>1. /\ reqs[c] # NoReq /\ ~Busy(n) /\ Served(n, k, reqs[c].asking) = "served"
      /\ host' = [host EXCEPT ![n].data[k] = v]
      /\ writes' = IF reqs[c].op = "set" THEN v ELSE writes
      /\ latest' = IF v = host[n].data[k] THEN latest ELSE [latest EXCEPT ![k] = v]
      /\ reqs' = [reqs EXCEPT ![c] = NoReq]
      /\ UNCHANGED <<run, late, tool, faults>>
  BY Zenon DEF Serve, Execute
<1>2. n \in {"A", "B"} /\ k \in SlotKeys /\ v \in Nat /\ writes' \in Nat
  <2>1. reqs[c] \in SlotCommands
    BY Zenon, <1>t, <1>1
  <2> QED BY <2>1, <1>t, <1>1 DEF SlotCommands, Absent
<1> HIDE DEF v, n, k
<1>3. /\ \A m \in {"A", "B"} : /\ host'[m].own = host[m].own /\ host'[m].moving = host[m].moving
                               /\ m # n => host'[m].data = host[m].data
      /\ host'[n].data = [host[n].data EXCEPT ![k] = v]
      /\ host' \in [{"A", "B"} -> Hosts]
  BY Zenon, <1>1, <1>2, <1>t
<1>4. /\ \A j \in SlotKeys : host'[n].data[j] = IF j = k THEN v ELSE host[n].data[j]
      /\ \A j \in SlotKeys : j # k => latest'[j] = latest[j]
      /\ v = host[n].data[k] => latest'[k] = latest[k]
      /\ v # host[n].data[k] => latest'[k] = v
      /\ latest' \in [SlotKeys -> Nat]
  BY Zenon, <1>1, <1>2, <1>3, <1>t
<1>5. TypesOK'
  <2>1. reqs' \in [Clients -> SlotCommands \cup {NoReq}]
    BY Zenon, <1>1, <1>t
  <2> QED BY Zenon, <2>1, <1>1, <1>2, <1>3, <1>4 DEF TypesOK, MigrateInv
<1>6. RunOK'
  <2>1. CASE n = "A"
    <3>1. run = Idle
      BY Zenon, <2>1, <1>1 DEF Busy
    <3> QED BY <3>1, <1>1 DEF RunOK, Idle
  <2>2. CASE n = "B"
    <3>1. \A j \in SlotKeys : Settled(j) => Settled(j)'
      BY Zenon, <2>2, <1>2, <1>4 DEF Settled
    <3>2. \A i \in 1..Len(run.keys) : run.keys[i] \in SlotKeys
      BY DEF MigrateInv, TypesOK
    <3> QED BY Zenon, <3>1, <3>2, <1>1, RunFrame DEF MigrateInv
  <2> QED BY Zenon, <2>1, <2>2, <1>2
<1>7. NoKeyLost'
  <2> SUFFICES ASSUME NEW j \in SlotKeys, latest'[j] # Absent
               PROVE  \E m \in {"A", "B"} : host'[m].data[j] # Absent
    BY Zenon DEF NoKeyLost
  <2>1. \E m \in {"A", "B"} : host[m].data[j] # Absent \/ (j = k /\ v # Absent)
    BY Zenon, <1>2, <1>4 DEF NoKeyLost, MigrateInv
  <2> QED BY <2>1, <1>2, <1>3, <1>4
<1>8. ASSUME faults' = 0 PROVE Undisturbed'
  <2>u. Undisturbed /\ TypesOK
    BY Zenon, <1>1, <1>8 DEF MigrateInv
  <2>1. /\ host[n].data[k] = latest[k]
        /\ n = "A" => /\ run = Idle /\ host["A"].own = "A"
                      /\ A[k] # Absent \/ ~host["A"].moving
        /\ n = "B" => A[k] = Absent /\ (host["A"].own = "A" => host["A"].moving)
    BY Zenon, <2>u, <1>1, ServedHere DEF n, k
  <2>2. latest'[k] = v
    BY Zenon, <2>1, <1>4
  <2>3. CASE n = "A"
    <3>1. /\ \A j \in SlotKeys : host'["A"].data[j] = IF j = k THEN v ELSE A[j]
          /\ host'["B"].data = B /\ run = Idle
      BY Zenon, <2>1, <2>3, <1>3, <1>4
    <3>2. B[k] = Absent
      <4>1. CASE A[k] # Absent
        BY <4>1, <2>1, <2>3, <2>u, <1>2 DEF Undisturbed, RunExact, Idle, Present
      <4>2. CASE A[k] = Absent
        BY Zenon, <4>2, <2>1, <2>3, <2>u, <1>2 DEF Undisturbed, SlotExact, Present
      <4> QED BY Zenon, <4>1, <4>2
    <3>3. RunExact'
      <4>1. \A j \in Present("A")' \cap Present("B")' : FALSE
        BY <3>1, <3>2, <2>u DEF Undisturbed, RunExact, Idle, Present
      <4> QED BY <3>1, <1>1, <4>1 DEF RunExact, Idle
    <3>4. SlotExact'
      <4>1. tool.at # "nodeA"
        BY Zenon, <2>1, <2>3, <2>u, <1>2 DEF Undisturbed, SlotExact, Moving, Present
      <4> QED BY <4>1, <3>1, <2>1, <2>3, <2>u, <1>1, <1>3 DEF Undisturbed, SlotExact, Moving, Present
    <3>5. \A j \in SlotKeys : latest'[j] = Authority(j)'
      BY <3>1, <3>2, <2>2, <2>u, <1>4 DEF Undisturbed, Authority
    <3>6. \A d \in Clients : reqs'[d] = NoReq \/ reqs'[d] = reqs[d]
      BY Zenon, <1>1, <1>t
    <3>7. \A d \in Clients : reqs'[d] # NoReq /\ reqs'[d].asking =>
            /\ reqs'[d].at = "B" /\ host'["A"].data[reqs'[d].k] = Absent
            /\ host'["A"].own = "A" => host'["A"].moving
      <4> SUFFICES ASSUME NEW d \in Clients, reqs'[d] # NoReq, reqs'[d].asking
                   PROVE  /\ reqs'[d].at = "B" /\ host'["A"].data[reqs'[d].k] = Absent
                          /\ host'["A"].own = "A" => host'["A"].moving
        BY Zenon
      <4>1. reqs'[d] = reqs[d] /\ reqs[d].k \in SlotKeys
        BY Zenon, <3>6, <1>t DEF SlotCommands
      <4>2. /\ reqs[d].at = "B" /\ A[reqs[d].k] = Absent /\ host["A"].moving
        BY Zenon, <4>1, <2>1, <2>3, <2>u DEF Undisturbed
      <4>3. reqs[d].k # k
        BY Zenon, <4>2, <2>1, <2>3
      <4> QED BY <4>1, <4>2, <4>3, <3>1, <1>3
    <3> QED BY Zenon, <3>3, <3>4, <3>5, <3>7, <2>u, <1>1 DEF Undisturbed
  <2>4. CASE n = "B"
    <3>1. /\ \A j \in SlotKeys : host'["B"].data[j] = IF j = k THEN v ELSE B[j]
          /\ host'["A"].data = A /\ A[k] = Absent
      BY Zenon, <2>1, <2>4, <1>3, <1>4
    <3>2. \A i \in 1..Len(run.keys) : run.keys[i] \in SlotKeys /\ run.keys[i] # k
      <4>1. \A i \in 1..Len(run.keys) : A[run.keys[i]] # Absent
        BY <2>u, Zenon DEF Undisturbed, RunExact
      <4>2. \A i \in 1..Len(run.keys) : run.keys[i] \in SlotKeys
        BY <2>u DEF TypesOK
      <4> QED BY <3>1, <4>1, <4>2, Zenon
    <3>3. RunExact'
      <4>0. run.confirmed \in Nat /\ Len(run.acks) \in Nat /\ Len(run.keys) \in Nat
            /\ run.confirmed + Len(run.acks) <= Len(run.keys)
        BY Zenon, <2>u, SentBound DEF MigrateInv
      <4> DEFINE B2 == host'["B"].data
      <4>1. Exact(run, A, B) /\ (run # Idle => Moving /\ run.open)
        BY Zenon, <2>u, RunExactIs DEF Undisturbed
      <4>2. \A i \in 1..(run.confirmed + Len(run.acks)) : B2[run.keys[i]] = A[run.keys[i]]
        <5> SUFFICES ASSUME NEW i \in 1..(run.confirmed + Len(run.acks))
                     PROVE  B2[run.keys[i]] = A[run.keys[i]]
          BY Zenon
        <5>1. B[run.keys[i]] = A[run.keys[i]]
          BY <4>1, Zenon DEF Exact
        <5>2. i \in 1..Len(run.keys)
          BY <4>0
        <5> QED BY Zenon, <5>1, <5>2, <3>1, <3>2
      <4>3. \A j \in SlotKeys : A[j] # Absent /\ B2[j] # Absent =>
              \E i \in 1..(run.confirmed + Len(run.acks)) : run.keys[i] = j
        <5>1. \A j \in SlotKeys : A[j] # Absent => B2[j] = B[j]
          BY Zenon, <3>1
        <5> QED BY <4>1, <5>1, Zenon DEF Exact
      <4>4. Exact(run, A, B2)
        BY <4>1, <4>2, <4>3, Zenon DEF Exact
      <4>5. Moving' = Moving /\ run' = run /\ host'["A"].data = A
        BY Zenon, <1>1, <1>3, <3>1 DEF Moving
      <4> QED BY Zenon, <4>1, <4>4, <4>5, RunExactIs
    <3>4. SlotExact'
      BY <3>1, <2>1, <2>4, <2>u, <1>1, <1>3 DEF Undisturbed, SlotExact, Moving, Present
    <3>5. \A j \in SlotKeys : latest'[j] = Authority(j)'
      BY <3>1, <2>2, <2>u, <1>4 DEF Undisturbed, Authority
    <3>6. \A d \in Clients : reqs'[d] = NoReq \/ reqs'[d] = reqs[d]
      BY Zenon, <1>1, <1>t
    <3> QED BY <3>1, <3>3, <3>4, <3>5, <3>6, <2>u, <1>1, <1>3 DEF Undisturbed
  <2> QED BY Zenon, <2>3, <2>4, <1>2
<1> QED BY Zenon, <1>5, <1>6, <1>7, <1>8 DEF MigrateInv

-----------------------------------------------------------------------------
(* Steps of the tool and of the bus: who owns the slot, no data.           *)

LEMMA ControlFrame ==
  ASSUME MigrateInv, UNCHANGED <<run, late, reqs, latest, writes>>,
         \A n \in {"A", "B"} : host'[n].data = host[n].data,
         host' \in [{"A", "B"} -> Hosts],
         tool' \in [at : Places, batch : SUBSET SlotKeys], faults' = faults,
         faults = 0 => /\ SlotExact'
                       /\ run # Idle => Moving'
                       /\ host'["A"].own = "A" => host["A"].own = "A"
                       /\ host["A"].moving /\ host'["A"].own = "A" => host'["A"].moving
  PROVE  MigrateInv'
<1>1. TypesOK'
  BY Zenon DEF MigrateInv, TypesOK
<1>2. RunOK' /\ NoKeyLost'
  BY Zenon, DataFrame
<1>3. ASSUME faults' = 0 PROVE Undisturbed'
  <2>1. Undisturbed
    BY Zenon, <1>3 DEF MigrateInv
  <2>2. RunExact'
    <3>1. RunExact /\ (run # Idle => Moving')
      BY Zenon, <1>3, <2>1 DEF Undisturbed
    <3>2. run' = run /\ host'["A"].data = host["A"].data /\ host'["B"].data = host["B"].data
      BY Zenon
    <3>3. (run # Idle => run.open) /\ Exact(run, host["A"].data, host["B"].data)
      BY Zenon, <3>1, RunExactIs
    <3> QED BY Zenon, <3>1, <3>2, <3>3, RunExactIs
  <2>3. \A k \in SlotKeys : latest'[k] = Authority(k)'
    BY <2>1 DEF Undisturbed, Authority
  <2>4. \A c \in Clients : reqs'[c] # NoReq /\ reqs'[c].asking =>
         /\ reqs'[c].at = "B" /\ host'["A"].data[reqs'[c].k] = Absent
         /\ host'["A"].own = "A" => host'["A"].moving
    BY <2>1, <1>3 DEF Undisturbed
  <2> QED BY Zenon, <2>1, <2>2, <2>3, <2>4, <1>3 DEF Undisturbed
<1> QED BY Zenon, <1>1, <1>2, <1>3 DEF MigrateInv

LEMMA SetMigratingAction ==
  ASSUME MigrateInv, SetMigrating PROVE MigrateInv'
<1>t. /\ host \in [{"A", "B"} -> Hosts]
      /\ tool \in [at : Places, batch : SUBSET SlotKeys]
  BY Zenon DEF MigrateInv, TypesOK
<1>1. /\ run = Idle /\ UNCHANGED <<run, late, reqs, latest, writes, faults>>
      /\ tool' = [tool EXCEPT !.at = IF host["A"].own = "A" THEN "importing" ELSE "failed"]
      /\ host' = IF host["A"].own = "A" THEN [host EXCEPT !["A"].moving = TRUE] ELSE host
  BY Zenon DEF SetMigrating, Tool, Busy
<1>2. tool' \in [at : Places, batch : SUBSET SlotKeys]
      /\ tool'.at = IF host["A"].own = "A" THEN "importing" ELSE "failed"
  BY Zenon, <1>1, <1>t DEF Places
<1>3. /\ host' \in [{"A", "B"} -> Hosts]
      /\ \A n \in {"A", "B"} : host'[n].data = host[n].data /\ host'[n].own = host[n].own
      /\ host'["B"].moving = host["B"].moving
      /\ host'["A"].moving = (host["A"].own = "A" \/ host["A"].moving)
  BY Zenon, <1>1, <1>t
<1>4. faults = 0 => SlotExact'
  BY <1>2, <1>3 DEF MigrateInv, Undisturbed, SlotExact, Moving, Present
<1> QED BY Zenon, <1>1, <1>2, <1>3, <1>4, ControlFrame

LEMMA SetImportingAction ==
  ASSUME MigrateInv, SetImporting PROVE MigrateInv'
<1>t. /\ host \in [{"A", "B"} -> Hosts]
      /\ tool \in [at : Places, batch : SUBSET SlotKeys]
  BY Zenon DEF MigrateInv, TypesOK
<1>1. /\ tool.at = "importing" /\ UNCHANGED <<run, late, reqs, latest, writes, faults>>
      /\ tool' = [tool EXCEPT !.at = IF host["B"].own # "B" THEN "keys" ELSE "failed"]
      /\ host' = IF host["B"].own # "B" THEN [host EXCEPT !["B"].moving = TRUE] ELSE host
  BY Zenon DEF SetImporting, Tool
<1>2. tool' \in [at : Places, batch : SUBSET SlotKeys]
      /\ tool'.at = IF host["B"].own # "B" THEN "keys" ELSE "failed"
  BY Zenon, <1>1, <1>t DEF Places
<1>3. /\ host' \in [{"A", "B"} -> Hosts]
      /\ \A n \in {"A", "B"} : host'[n].data = host[n].data /\ host'[n].own = host[n].own
      /\ host'["A"].moving = host["A"].moving
      /\ host["B"].moving => host'["B"].moving
      /\ host["B"].own # "B" => host'["B"].moving
  BY Zenon, <1>1, <1>t
<1>4. faults = 0 => SlotExact'
  BY Zenon, <1>1, <1>2, <1>3 DEF MigrateInv, Undisturbed, SlotExact, Moving, Present
<1>5. faults = 0 /\ run # Idle => Moving'
  BY Zenon, <1>3 DEF MigrateInv, Undisturbed, RunExact, Moving
<1> QED BY Zenon, <1>1, <1>2, <1>3, <1>4, <1>5, ControlFrame

LEMMA SetNodeAction ==
  ASSUME MigrateInv, SetNode("A", "nodeA", "nodeB") \/ SetNode("B", "nodeB", "done") PROVE MigrateInv'
<1>t. /\ host \in [{"A", "B"} -> Hosts]
      /\ tool \in [at : Places, batch : SUBSET SlotKeys]
  BY Zenon DEF MigrateInv, TypesOK
<1>1. CASE SetNode("A", "nodeA", "nodeB")
  <2>1. /\ run = Idle /\ tool.at = "nodeA" /\ UNCHANGED <<run, late, reqs, latest, writes, faults>>
        /\ tool' = [tool EXCEPT !.at = "nodeB"]
        /\ host' = [host EXCEPT !["A"].own = "B", !["A"].moving = FALSE]
    BY Zenon, <1>1 DEF SetNode, Tool, Busy
  <2>2. tool' \in [at : Places, batch : SUBSET SlotKeys] /\ tool'.at = "nodeB"
    BY Zenon, <2>1, <1>t DEF Places
  <2>3. /\ host' \in [{"A", "B"} -> Hosts]
        /\ \A n \in {"A", "B"} : host'[n].data = host[n].data
        /\ host'["B"] = host["B"] /\ host'["A"].own = "B" /\ ~host'["A"].moving
    BY <2>1, <1>t
  <2>4. faults = 0 => SlotExact'
    BY <2>1, <2>2, <2>3 DEF MigrateInv, Undisturbed, SlotExact, Moving, Present
  <2> QED BY Zenon, <2>1, <2>2, <2>3, <2>4, ControlFrame
<1>2. CASE SetNode("B", "nodeB", "done")
  <2>1. /\ tool.at = "nodeB" /\ UNCHANGED <<run, late, reqs, latest, writes, faults>>
        /\ tool' = [tool EXCEPT !.at = "done"]
        /\ host' = [host EXCEPT !["B"].own = "B", !["B"].moving = FALSE]
    BY Zenon, <1>2 DEF SetNode, Tool
  <2>2. tool' \in [at : Places, batch : SUBSET SlotKeys] /\ tool'.at = "done"
    BY Zenon, <2>1, <1>t DEF Places
  <2>3. /\ host' \in [{"A", "B"} -> Hosts]
        /\ \A n \in {"A", "B"} : host'[n].data = host[n].data
        /\ host'["A"] = host["A"] /\ host'["B"].own = "B" /\ ~host'["B"].moving
    BY Zenon, <2>1, <1>t
  <2>4. faults = 0 => SlotExact'
    BY <2>1, <2>2, <2>3 DEF MigrateInv, Undisturbed, SlotExact, Moving, Present
  <2>5. faults = 0 => run = Idle
    BY Zenon, <2>1 DEF MigrateInv, Undisturbed, SlotExact, RunExact, Moving
  <2> QED BY Zenon, <2>1, <2>2, <2>3, <2>4, <2>5, ControlFrame
<1> QED BY Zenon, <1>1, <1>2

LEMMA ToolAction ==
  ASSUME MigrateInv, ToolDies \/ ToolAgain \/ GetKeysInSlot PROVE MigrateInv'
<1>t. /\ tool \in [at : Places, batch : SUBSET SlotKeys]
      /\ host \in [{"A", "B"} -> Hosts]
  BY Zenon DEF MigrateInv, TypesOK
<1>1. UNCHANGED <<host, run, late, reqs, latest, writes, faults>>
  BY Zenon DEF ToolDies, ToolAgain, GetKeysInSlot, Tool
<1>2. /\ tool' \in [at : Places, batch : SUBSET SlotKeys]
      /\ \/ tool'.at \in {"failed", "migrating"}
         \/ tool.at = "keys" /\ tool'.at = "migrate"
         \/ tool.at = "keys" /\ tool'.at = "nodeA" /\ Present("A") = {}
  <2>1. CASE ToolDies \/ ToolAgain
    BY Zenon, <2>1, <1>t DEF ToolDies, ToolAgain, Tool, Places
  <2>2. CASE GetKeysInSlot
    <3>1. PICK got \in SUBSET Present("A") :
            /\ Cardinality(got) = Count \/ got = Present("A")
            /\ tool' = [at |-> IF got = {} THEN "nodeA" ELSE "migrate", batch |-> got]
      BY Zenon, <2>2 DEF GetKeysInSlot
    <3>2. got \in SUBSET SlotKeys
      BY Zenon DEF Present
    <3>3. tool' \in [at : Places, batch : SUBSET SlotKeys]
      BY Zenon, <3>1, <3>2 DEF Places
    <3>4. got = {} => Present("A") = {}
      <4>1. Cardinality({}) = 0
        BY Zenon, FS_EmptySet
      <4> QED BY Zenon, <3>1, <4>1, KeysAssumption
    <3> QED BY Zenon, <2>2, <3>1, <3>3, <3>4 DEF GetKeysInSlot
  <2> QED BY Zenon, <2>1, <2>2
<1>3. faults = 0 => SlotExact'
  BY Zenon, <1>1, <1>2 DEF MigrateInv, Undisturbed, SlotExact, Moving, Present
<1>4. faults = 0 /\ run # Idle => Moving'
  BY Zenon, <1>1 DEF MigrateInv, Undisturbed, RunExact, Moving
<1> QED BY Zenon, <1>1, <1>2, <1>3, <1>4, <1>t, ControlFrame

LEMMA HearAction ==
  ASSUME MigrateInv, NEW n \in {"A", "B"}, Hear(n) PROVE MigrateInv'
<1> DEFINE m == Other(n)
           o == IF host[m].own = m THEN m ELSE NoOwner
<1>t. /\ tool \in [at : Places, batch : SUBSET SlotKeys]
      /\ host \in [{"A", "B"} -> Hosts]
  BY Zenon DEF MigrateInv, TypesOK
<1>1. /\ UNCHANGED <<run, late, tool, reqs, latest, writes, faults>>
      /\ host' = [host EXCEPT ![n].own = o]
      /\ IF host[m].own = m THEN host[n].own = NoOwner ELSE host[n].own = m
  BY Zenon DEF Hear
<1>2. m \in {"A", "B"} /\ m # n /\ o \in {"A", "B", NoOwner} /\ o # n
  BY Zenon DEF Other, NoOwner
<1>3. /\ host' \in [{"A", "B"} -> Hosts]
      /\ \A x \in {"A", "B"} : host'[x].data = host[x].data /\ host'[x].moving = host[x].moving
      /\ host'[n].own = o /\ host'[m] = host[m] /\ host[n].own # n
  BY <1>1, <1>2, <1>t DEF NoOwner
<1>4. /\ host["A"].own = "A" <=> host'["A"].own = "A"
      /\ host'["B"].own = "B" => host["B"].own = "B"
  BY Zenon, <1>2, <1>3
<1>5. Present("A")' = Present("A") /\ Present("B")' = Present("B")
  BY Zenon, <1>3 DEF Present
<1>6. faults = 0 => SlotExact'
  BY Zenon, <1>1, <1>3, <1>4, <1>5 DEF MigrateInv, Undisturbed, SlotExact, Moving
<1>7. faults = 0 /\ run # Idle => Moving'
  BY Zenon, <1>3, <1>4 DEF MigrateInv, Undisturbed, RunExact, Moving
<1> QED BY Zenon, <1>1, <1>3, <1>4, <1>6, <1>7, <1>t, ControlFrame

-----------------------------------------------------------------------------
(* MIGRATE and its RESTOREs.                                               *)

LEMMA StartAction ==
  ASSUME MigrateInv, MigrateStart PROVE MigrateInv'
<1> DEFINE S == tool.batch \cap Present("A")
           Outs(live) == [i \in DOMAIN live |-> [k |-> live[i], v |-> host["A"].data[live[i]]]]
<1>t. /\ tool \in [at : Places, batch : SUBSET SlotKeys]
      /\ host \in [{"A", "B"} -> Hosts]
      /\ host["A"].data \in [SlotKeys -> Nat]
  BY Zenon DEF MigrateInv, TypesOK
<1>0. PICK live \in Orders(S) :
        IF live = <<>>
        THEN tool' = [tool EXCEPT !.at = "keys"] /\ UNCHANGED run
        ELSE /\ tool' = [tool EXCEPT !.at = "wait"]
             /\ run' = [Idle EXCEPT !.keys = live, !.open = TRUE, !.out = Outs(live)]
  BY Zenon DEF MigrateStart
<1> DEFINE outs == Outs(live)
<1>1. /\ run = Idle /\ tool.at = "migrate"
      /\ UNCHANGED <<host, late, reqs, latest, writes, faults>>
      /\ IF live = <<>>
         THEN tool' = [tool EXCEPT !.at = "keys"] /\ UNCHANGED run
         ELSE /\ tool' = [tool EXCEPT !.at = "wait"]
              /\ run' = [Idle EXCEPT !.keys = live, !.open = TRUE, !.out = outs]
  BY Zenon, <1>0 DEF MigrateStart, Busy
<1>2. live \in Seq(S) /\ S \subseteq SlotKeys
  <2>1. S \subseteq SlotKeys
    BY Zenon DEF Present
  <2>2. IsFiniteSet(S)
    BY Zenon, <2>1, KeysAssumption, FS_Subset
  <2> QED BY Zenon, <2>1, <2>2, OrdersAreSequences
<1>3. \A i \in 1..Len(live) : live[i] \in SlotKeys /\ host["A"].data[live[i]] \in Nat \ {Absent}
  <2> SUFFICES ASSUME NEW i \in 1..Len(live)
               PROVE  live[i] \in SlotKeys /\ host["A"].data[live[i]] \in Nat \ {Absent}
    BY Zenon
  <2>1. live[i] \in S
    BY <1>2
  <2> QED BY Zenon, <2>1, <1>2, <1>t DEF Present
<1>4. live \in Seq(SlotKeys) /\ Len(live) \in Nat /\ DOMAIN live = 1..Len(live)
  BY <1>2
<1> HIDE DEF S
<1>5. CASE live = <<>>
  <2>1. tool' \in [at : Places, batch : SUBSET SlotKeys] /\ tool'.at = "keys" /\ UNCHANGED run
    BY Zenon, <1>1, <1>5, <1>t DEF Places
  <2>2. faults = 0 => SlotExact'
    BY Zenon, <1>1, <2>1 DEF MigrateInv, Undisturbed, SlotExact, Moving, Present
  <2> QED BY Zenon, <1>1, <1>t, <2>1, <2>2, ControlFrame
<1>6. CASE live # <<>>
  <2>1. run' = [keys |-> live, out |-> outs, acks |-> <<>>, confirmed |-> 0, open |-> TRUE]
    BY Zenon, <1>1, <1>6 DEF Idle
  <2>2. /\ outs \in Seq(Restores) /\ Len(outs) = Len(live)
        /\ \A i \in 1..Len(outs) : outs[i].k = live[i] /\ outs[i].v = host["A"].data[live[i]]
    <3>1. \A i \in 1..Len(live) : [k |-> live[i], v |-> host["A"].data[live[i]]] \in Restores
      BY Zenon, <1>3 DEF Restores
    <3>2. outs \in [1..Len(live) -> Restores]
      BY Zenon, <3>1, <1>4
    <3>3. outs \in Seq(Restores)
      BY <3>2, <1>4
    <3>4. Len(outs) = Len(live)
      BY <3>2, <3>3, <1>4
    <3> QED BY Zenon, <3>3, <3>4, <1>4
  <2> HIDE DEF outs
  <2>3. /\ run'.keys = live /\ run'.out = outs /\ run'.acks = <<>> /\ run'.confirmed = 0 /\ run'.open
        /\ Len(run'.acks) = 0
    BY Zenon, <2>1
  <2>4. tool' \in [at : Places, batch : SUBSET SlotKeys] /\ tool'.at = "wait"
    BY Zenon, <1>1, <1>6, <1>t DEF Places
  <2>5. TypesOK'
    <3>1. run' \in [keys : Seq(SlotKeys), out : Seq(Restores), acks : Seq(BOOLEAN),
                    confirmed : Nat, open : BOOLEAN]
      BY <2>1, <2>2, <1>4
    <3> QED BY Zenon, <1>1, <2>4, <3>1 DEF MigrateInv, TypesOK
  <2>6. RunOK'
    <3>1. \A i \in 1..Len(outs) : 0 + 0 + i = i
      OBVIOUS
    <3> QED BY <2>2, <2>3, <3>1, <1>4 DEF RunOK
  <2>7. NoKeyLost'
    BY Zenon, <1>1 DEF MigrateInv, NoKeyLost
  <2>8. ASSUME faults' = 0 PROVE Undisturbed'
    <3>u. Undisturbed
      BY Zenon, <1>1, <2>8 DEF MigrateInv
    <3>1. Moving /\ Moving'
      BY Zenon, <3>u, <1>1 DEF Undisturbed, SlotExact, Moving
    <3>2. Present("A")' \cap Present("B")' = {}
      BY <3>u, <1>1 DEF Undisturbed, RunExact, Idle, Present
    <3>3. \A i \in 1..Len(run'.keys) : host'["A"].data[run'.keys[i]] # Absent
      BY Zenon, <1>1, <1>3, <2>3
    <3>4. \A i \in 1..Len(run'.out) : run'.out[i].v = host'["A"].data[run'.out[i].k]
      BY Zenon, <1>1, <2>2, <2>3
    <3>5. RunExact'
      BY <2>3, <3>1, <3>2, <3>3, <3>4 DEF RunExact
    <3>6. SlotExact'
      BY Zenon, <3>1, <3>u, <1>1, <2>4 DEF Undisturbed, SlotExact, Moving, Present
    <3> QED BY Zenon, <3>5, <3>6, <3>u, <1>1 DEF Undisturbed, Authority
  <2> QED BY Zenon, <2>5, <2>6, <2>7, <2>8 DEF MigrateInv
<1> QED BY Zenon, <1>5, <1>6

LEMMA RestoredHost ==
  ASSUME TypesOK, NEW r \in Restores, NEW ok \in BOOLEAN, host' = Restored(r, ok)
  PROVE  /\ host' \in [{"A", "B"} -> Hosts]
         /\ \A n \in {"A", "B"} : host'[n].own = host[n].own /\ host'[n].moving = host[n].moving
         /\ host'["A"].data = host["A"].data
         /\ \A k \in SlotKeys : host'["B"].data[k] = IF ok /\ k = r.k THEN r.v ELSE host["B"].data[k]
<1>t. /\ host \in [{"A", "B"} -> Hosts]
      /\ r.k \in SlotKeys /\ r.v \in Nat
  BY Zenon DEF TypesOK, Restores
<1>1. CASE ok
  <2>1. host' = [host EXCEPT !["B"].data[r.k] = r.v]
    BY Zenon, <1>1 DEF Restored
  <2>2. host' = [host EXCEPT !["B"] = [host["B"] EXCEPT !.data = [host["B"].data EXCEPT ![r.k] = r.v]]]
    BY Zenon, <2>1
  <2>3. [host["B"] EXCEPT !.data = [host["B"].data EXCEPT ![r.k] = r.v]] \in Hosts
    BY Zenon, <1>t
  <2>4. host' \in [{"A", "B"} -> Hosts]
    BY Zenon, <2>2, <2>3, <1>t
  <2>5. host'["A"] = host["A"]
    BY Zenon, <2>2, <1>t
  <2>6. /\ host'["B"].own = host["B"].own /\ host'["B"].moving = host["B"].moving
        /\ host'["B"].data = [host["B"].data EXCEPT ![r.k] = r.v]
    BY <2>2, <1>t
  <2> QED BY Zenon, <1>1, <2>4, <2>5, <2>6, <1>t
<1>2. CASE ~ok
  BY Zenon, <1>2, <1>t DEF Restored
<1> QED BY Zenon, <1>1, <1>2

(* RESTORE never takes a key away.                                         *)
LEMMA RestoredKeeps ==
  ASSUME MigrateInv, NEW r \in Restores, NEW ok \in BOOLEAN, host' = Restored(r, ok), latest' = latest
  PROVE  NoKeyLost' /\ \A k \in SlotKeys : Settled(k) => Settled(k)'
<1>1. /\ host'["A"].data = host["A"].data /\ r.v # Absent
      /\ \A k \in SlotKeys : host'["B"].data[k] = IF ok /\ k = r.k THEN r.v ELSE host["B"].data[k]
  BY Zenon, RestoredHost DEF MigrateInv, Restores
<1>2. \A k \in SlotKeys : Settled(k) => Settled(k)'
  BY Zenon, <1>1 DEF Settled
<1>3. NoKeyLost'
  BY <1>1 DEF MigrateInv, NoKeyLost
<1> QED BY Zenon, <1>2, <1>3

LEMMA RestoreLateAction ==
  ASSUME MigrateInv, NEW q \in late, RestoreLate(q) PROVE MigrateInv'
<1> DEFINE ok == Accepted(Head(q).k)
<1>1. /\ q # <<>> /\ host' = Restored(Head(q), ok) /\ q \in Seq(Restores)
      /\ late' = (late \ {q}) \cup ({Tail(q)} \ {<<>>})
      /\ UNCHANGED <<run, tool, reqs, latest, writes, faults>>
  BY Zenon DEF RestoreLate, MigrateInv, TypesOK
<1>2. Head(q) \in Restores /\ Tail(q) \in Seq(Restores) /\ ok \in BOOLEAN
  BY <1>1 DEF Accepted
<1> HIDE DEF ok
<1>3. TypesOK'
  <2>1. host' \in [{"A", "B"} -> Hosts]
    BY Zenon, <1>1, <1>2, RestoredHost DEF MigrateInv
  <2>2. late' \subseteq Seq(Restores)
    BY Zenon, <1>1, <1>2 DEF MigrateInv, TypesOK
  <2> QED BY Zenon, <1>1, <2>1, <2>2 DEF MigrateInv, TypesOK
<1>4. NoKeyLost' /\ \A k \in SlotKeys : Settled(k) => Settled(k)'
  BY Zenon, <1>1, <1>2, RestoredKeeps
<1>5. RunOK'
  <2>1. \A i \in 1..Len(run.keys) : run.keys[i] \in SlotKeys
    BY DEF MigrateInv, TypesOK
  <2> QED BY Zenon, <1>1, <1>4, <2>1, RunFrame DEF MigrateInv
<1>6. faults' # 0
  BY Zenon, <1>1 DEF MigrateInv, Undisturbed
<1> QED BY Zenon, <1>3, <1>4, <1>5, <1>6 DEF MigrateInv

LEMMA RestoreAction ==
  ASSUME MigrateInv, NEW ok \in BOOLEAN, Restore(ok) PROVE MigrateInv'
<1> DEFINE r == Head(run.out)
           done == ok /\ Accepted(r.k)
           sent == run.confirmed + Len(run.acks)
<1>t. /\ run \in [keys : Seq(SlotKeys), out : Seq(Restores), acks : Seq(BOOLEAN),
                   confirmed : Nat, open : BOOLEAN]
      /\ run.keys \in Seq(SlotKeys) /\ run.out \in Seq(Restores) /\ run.acks \in Seq(BOOLEAN)
      /\ faults \in Nat
  BY Zenon DEF MigrateInv, TypesOK
<1>1. /\ run.out # <<>> /\ host' = Restored(r, done)
      /\ run' = [run EXCEPT !.out = Tail(@), !.acks = Append(@, done)]
      /\ IF ok \/ ~Accepted(r.k) THEN faults' = faults ELSE faults' = faults + 1
      /\ UNCHANGED <<late, tool, reqs, latest, writes>>
  BY Zenon DEF Restore, Fault
<1>2. /\ r = run.out[1] /\ r \in Restores /\ done \in BOOLEAN /\ Tail(run.out) \in Seq(Restores)
      /\ Len(run.out) \in Nat /\ Len(run.out) >= 1 /\ Len(Tail(run.out)) = Len(run.out) - 1
      /\ \A i \in 1..Len(Tail(run.out)) : Tail(run.out)[i] = run.out[i + 1]
  BY <1>1, <1>t DEF Accepted
<1>3. /\ run.open /\ sent + Len(run.out) = Len(run.keys) /\ sent \in Nat /\ Len(run.keys) \in Nat
      /\ run.confirmed \in Nat /\ Len(run.acks) \in Nat
  BY <1>1, <1>t DEF MigrateInv, RunOK
<1>4. r.k = run.keys[sent + 1] /\ sent + 1 \in 1..Len(run.keys)
  <2>1. 1 \in 1..Len(run.out)
    BY <1>2
  <2> QED BY <2>1, <1>2, <1>3 DEF MigrateInv, RunOK
<1> DEFINE acks2 == Append(run.acks, done)
<1>5. /\ acks2 \in Seq(BOOLEAN) /\ Len(acks2) = Len(run.acks) + 1
      /\ \A i \in 1..Len(run.acks) : acks2[i] = run.acks[i]
      /\ acks2[Len(run.acks) + 1] = done
  BY <1>t, <1>2
<1>6. /\ run'.keys = run.keys /\ run'.out = Tail(run.out) /\ run'.acks = acks2
      /\ run'.confirmed = run.confirmed /\ run'.open
  BY Zenon, <1>1, <1>3, <1>t
<1>r. run' \in [keys : Seq(SlotKeys), out : Seq(Restores), acks : Seq(BOOLEAN),
                confirmed : Nat, open : BOOLEAN]
  BY Zenon, <1>1, <1>2, <1>3, <1>5, <1>t
<1> HIDE DEF r, done, acks2
<1> DEFINE Ok(k) == latest'[k] # Absent => host'["B"].data[k] # Absent
<1>7. /\ host' \in [{"A", "B"} -> Hosts]
      /\ \A n \in {"A", "B"} : host'[n].own = host[n].own /\ host'[n].moving = host[n].moving
      /\ host'["A"].data = host["A"].data
      /\ \A k \in SlotKeys : host'["B"].data[k] = IF done /\ k = r.k THEN r.v ELSE host["B"].data[k]
      /\ r.v # Absent /\ r.k \in SlotKeys
  BY <1>1, <1>2, RestoredHost DEF MigrateInv, Restores
<1>8. NoKeyLost' /\ \A k \in SlotKeys : Settled(k) => Settled(k)'
  BY Zenon, <1>1, <1>2, RestoredKeeps
<1>s. \A k \in SlotKeys : Settled(k) => Ok(k)
  BY Zenon, <1>8 DEF Settled
<1>9. TypesOK'
  <2>1. faults' \in Nat
    BY <1>1, <1>t
  <2> QED BY Zenon, <1>1, <1>r, <1>7, <2>1 DEF MigrateInv, TypesOK
<1>k. \A i \in 1..Len(run.keys) : run.keys[i] \in SlotKeys
  BY <1>t
<1>10. RunOK'
  <2>1. run'.confirmed + Len(run'.acks) = sent + 1
    <3>1. Len(run'.acks) = Len(run.acks) + 1
      BY Zenon, <1>5, <1>6
    <3> QED BY <3>1, <1>3, <1>6
  <2>2. \A i \in 1..Len(run'.out) : run'.out[i].k = run'.keys[sent + 1 + i]
    <3> SUFFICES ASSUME NEW i \in 1..Len(Tail(run.out))
                 PROVE  Tail(run.out)[i].k = run.keys[sent + 1 + i]
      BY Zenon, <1>6
    <3>1. i + 1 \in 1..Len(run.out) /\ sent + 1 + i = sent + (i + 1)
      BY <1>2, <1>3
    <3>2. run.out[i + 1].k = run.keys[sent + (i + 1)]
      BY Zenon, <3>1 DEF MigrateInv, RunOK
    <3> QED BY Zenon, <3>1, <3>2, <1>2
  <2>3. \A i \in 1..run.confirmed : Ok(run.keys[i])
    <3> SUFFICES ASSUME NEW i \in 1..run.confirmed PROVE Ok(run.keys[i])
      BY Zenon
    <3>1. i \in 1..Len(run.keys)
      BY <1>2, <1>3
    <3>2. Settled(run.keys[i])
      BY Zenon DEF MigrateInv, RunOK
    <3> HIDE DEF Ok
    <3> QED BY Zenon, <3>1, <3>2, <1>s, <1>k
  <2>4. \A i \in 1..(Len(run.acks) + 1) : acks2[i] => Ok(run.keys[run.confirmed + i])
    <3> SUFFICES ASSUME NEW i \in 1..(Len(run.acks) + 1), acks2[i]
                 PROVE  Ok(run.keys[run.confirmed + i])
      BY Zenon
    <3> HIDE DEF Ok
    <3>1. CASE i \in 1..Len(run.acks)
      <4>0. run.confirmed + Len(run.acks) <= Len(run.keys)
        BY <1>2, <1>3
      <4>1. run.confirmed + i \in 1..Len(run.keys)
        BY Zenon, <3>1, <4>0, <1>3, InRange
      <4>2. Settled(run.keys[run.confirmed + i])
        BY Zenon, <3>1, <1>5 DEF MigrateInv, RunOK
      <4> QED BY Zenon, <4>1, <4>2, <1>s, <1>k
    <3>2. CASE i = Len(run.acks) + 1
      <4>t. run.confirmed \in Nat /\ Len(run.acks) \in Nat
        BY Zenon, <1>3
      <4>0. run.confirmed + i = sent + 1
        BY <3>2, <4>t
      <4>1. done
        BY Zenon, <3>2, <1>5
      <4>2. host'["B"].data[r.k] # Absent
        BY Zenon, <4>1, <1>7
      <4> QED BY Zenon, <4>0, <4>2, <1>4 DEF Ok
    <3>3. i \in 1..Len(run.acks) \/ i = Len(run.acks) + 1
      BY <1>3
    <3> QED BY Zenon, <3>1, <3>2, <3>3
  <2>5. sent + 1 + Len(run'.out) = Len(run'.keys)
    BY <1>2, <1>3, <1>6
  <2> HIDE DEF Ok, sent
  <2>6. \A i \in 1..run'.confirmed : Ok(run'.keys[i])
    BY Zenon, <2>3, <1>6
  <2>7. \A i \in 1..Len(run'.acks) : run'.acks[i] => Ok(run'.keys[run'.confirmed + i])
    BY Zenon, <2>4, <1>5, <1>6
  <2> QED BY Zenon, <2>1, <2>2, <2>5, <2>6, <2>7, <1>6 DEF RunOK, Settled, Ok
<1>11. ASSUME faults' = 0 PROVE Undisturbed'
  <2>1. faults = 0 /\ Undisturbed
    BY <1>11, <1>1, <1>t DEF MigrateInv
  <2>2. run # Idle
    BY <1>1 DEF Idle
  <2>3. Moving
    BY Zenon, <2>1, <2>2 DEF Undisturbed, RunExact
  <2>4. Accepted(r.k)
    <3>1. host["B"].own # "B" /\ host["B"].moving
      BY Zenon, <2>1, <2>3 DEF Undisturbed, SlotExact, Moving
    <3> QED BY Zenon, <3>1 DEF Accepted, Served, Importing
  <2>5. done
    BY <2>1, <2>4, <1>1, <1>11, <1>t DEF done
  <2>6. host["A"].data[r.k] = r.v
    <3>1. 1 \in 1..Len(run.out)
      BY <1>2
    <3> QED BY Zenon, <2>1, <3>1, <1>2 DEF Undisturbed, RunExact
  <2> DEFINE A == host["A"].data
             B == host["B"].data
             B2 == host'["B"].data
  <2>7. \A k \in SlotKeys : B2[k] = IF k = r.k THEN A[k] ELSE B[k]
    BY Zenon, <1>7, <2>5, <2>6
  <2>8. Moving' /\ run'.open /\ run'.confirmed + Len(run'.acks) = sent + 1
    <3>1. Moving'
      BY Zenon, <2>3, <1>7 DEF Moving
    <3>2. Len(run'.acks) = Len(run.acks) + 1
      BY Zenon, <1>5, <1>6
    <3> QED BY <3>1, <3>2, <1>3, <1>6
  <2>9. \A i \in 1..Len(run'.acks) : run'.acks[i]
    <3> SUFFICES ASSUME NEW i \in 1..(Len(run.acks) + 1) PROVE acks2[i]
      BY Zenon, <1>5, <1>6
    <3>1. CASE i \in 1..Len(run.acks)
      BY Zenon, <3>1, <1>5, <2>1 DEF Undisturbed, RunExact
    <3>2. CASE i = Len(run.acks) + 1
      BY Zenon, <3>2, <1>5, <2>5
    <3> QED BY <3>1, <3>2, <1>3
  <2>10. \A i \in 1..Len(run'.keys) : host'["A"].data[run'.keys[i]] # Absent
    <3>0. RunExact
      BY Zenon, <2>1 DEF Undisturbed
    <3>1. \A i \in 1..Len(run.keys) : host["A"].data[run.keys[i]] # Absent
      BY <3>0, Zenon DEF RunExact
    <3>2. run'.keys = run.keys
      BY Zenon, <1>6
    <3>3. host'["A"].data = host["A"].data
      BY Zenon, <1>7
    <3> QED BY Zenon, <3>1, <3>2, <3>3
  <2>11. \A i \in 1..Len(run'.out) : run'.out[i].v = host'["A"].data[run'.out[i].k]
    <3>a. run'.out = Tail(run.out)
      BY Zenon, <1>6
    <3>b. host'["A"].data = A
      BY Zenon, <1>7
    <3> SUFFICES ASSUME NEW i \in 1..Len(Tail(run.out))
                 PROVE  Tail(run.out)[i].v = A[Tail(run.out)[i].k]
      BY Zenon, <3>a, <3>b
    <3>1. i + 1 \in 1..Len(run.out)
      BY <1>2
    <3> QED BY Zenon, <3>1, <1>2, <2>1 DEF Undisturbed, RunExact
  <2>12. \A i \in 1..(sent + 1) : B2[run.keys[i]] = A[run.keys[i]]
    <3> SUFFICES ASSUME NEW i \in 1..(sent + 1) PROVE B2[run.keys[i]] = A[run.keys[i]]
      BY Zenon
    <3>1. i \in 1..Len(run.keys) /\ run.keys[i] \in SlotKeys
      BY <1>2, <1>3, <1>k
    <3>2. CASE i = sent + 1
      BY Zenon, <3>1, <3>2, <1>4, <2>7
    <3>3. CASE i \in 1..sent
      <4>1. B[run.keys[i]] = A[run.keys[i]]
        BY Zenon, <3>3, <2>1 DEF Undisturbed, RunExact
      <4> QED BY Zenon, <4>1, <3>1, <2>7
    <3> QED BY <3>2, <3>3, <1>3
  <2>13. \A k \in Present("A")' \cap Present("B")' : \E i \in 1..(sent + 1) : run.keys[i] = k
    <3> SUFFICES ASSUME NEW k \in Present("A")' \cap Present("B")'
                 PROVE  \E i \in 1..(sent + 1) : run.keys[i] = k
      BY Zenon
    <3>1. CASE k = r.k
      BY <3>1, <1>3, <1>4
    <3>2. CASE k # r.k
      <4>1. k \in Present("A") \cap Present("B")
        BY Zenon, <3>2, <1>7, <2>7 DEF Present
      <4>2. \E i \in 1..sent : run.keys[i] = k
        BY Zenon, <4>1, <2>1 DEF Undisturbed, RunExact
      <4> QED BY <4>2, <1>3
    <3> QED BY Zenon, <3>1, <3>2
  <2>14. RunExact'
    <3>1. \A i \in 1..(sent + 1) : host'["B"].data[run'.keys[i]] = host'["A"].data[run'.keys[i]]
      BY <2>12, <1>6, <1>7
    <3>2. \A k \in Present("A")' \cap Present("B")' : \E i \in 1..(sent + 1) : run'.keys[i] = k
      BY Zenon, <2>13, <1>6
    <3> HIDE DEF sent
    <3> QED BY Zenon, <2>8, <2>9, <2>10, <2>11, <3>1, <3>2 DEF RunExact
  <2>15. SlotExact'
    <3>1. Present("A")' = Present("A")
      BY <1>7 DEF Present
    <3>2. Moving'
      BY Zenon, <2>8
    <3> QED BY Zenon, <3>1, <3>2, <2>1, <1>1, <1>7 DEF Undisturbed, SlotExact, Moving
  <2>16. \A k \in SlotKeys : latest'[k] = Authority(k)'
    BY <2>1, <2>7, <1>1, <1>7 DEF Undisturbed, Authority
  <2>17. late' = {} /\ reqs' = reqs
    BY Zenon, <2>1, <1>1 DEF Undisturbed
  <2>18. \A c \in Clients : reqs'[c] # NoReq /\ reqs'[c].asking =>
           /\ reqs'[c].at = "B" /\ host'["A"].data[reqs'[c].k] = Absent
           /\ host'["A"].own = "A" => host'["A"].moving
    BY <2>1, <2>17, <1>7 DEF Undisturbed
  <2> QED BY Zenon, <2>14, <2>15, <2>16, <2>17, <2>18 DEF Undisturbed
<1> QED BY Zenon, <1>8, <1>9, <1>10, <1>11 DEF MigrateInv

(* The next answer is good: one more key is confirmed.                     *)
LEMMA ConfirmAction ==
  ASSUME MigrateInv, Confirm PROVE MigrateInv'
<1> DEFINE sent == run.confirmed + Len(run.acks)
<1>t. /\ run \in [keys : Seq(SlotKeys), out : Seq(Restores), acks : Seq(BOOLEAN),
                   confirmed : Nat, open : BOOLEAN]
      /\ run.keys \in Seq(SlotKeys) /\ run.acks \in Seq(BOOLEAN) /\ run.confirmed \in Nat
  BY Zenon DEF MigrateInv, TypesOK
<1>h. Head(run.acks)
  BY Zenon DEF Confirm
<1>n. run.acks # <<>>
  BY Zenon DEF Confirm
<1>1. /\ run' = [run EXCEPT !.acks = Tail(@), !.confirmed = @ + 1]
      /\ UNCHANGED <<host, late, tool, reqs, latest, writes, faults>>
  BY Zenon DEF Confirm
<1>2. /\ Tail(run.acks) \in Seq(BOOLEAN) /\ Head(run.acks) = run.acks[1]
      /\ Len(run.acks) \in Nat /\ Len(run.acks) >= 1 /\ Len(Tail(run.acks)) = Len(run.acks) - 1
      /\ \A i \in 1..Len(Tail(run.acks)) : Tail(run.acks)[i] = run.acks[i + 1]
  BY <1>n, <1>t
<1>3. /\ run'.keys = run.keys /\ run'.out = run.out /\ run'.acks = Tail(run.acks)
      /\ run'.confirmed = run.confirmed + 1 /\ run'.open = run.open
  BY Zenon, <1>1, <1>t
<1>4. run'.confirmed + Len(run'.acks) = sent
  BY <1>2, <1>3, <1>t
<1>5. TypesOK'
  <2>t. run.confirmed + 1 \in Nat /\ Tail(run.acks) \in Seq(BOOLEAN)
    BY <1>2, <1>t
  <2>1. run' \in [keys : Seq(SlotKeys), out : Seq(Restores), acks : Seq(BOOLEAN),
                  confirmed : Nat, open : BOOLEAN]
    BY Zenon, <1>1, <2>t, <1>t
  <2> QED BY Zenon, <1>1, <2>1 DEF MigrateInv, TypesOK
<1>6. run.open
  BY Zenon, <1>n DEF MigrateInv, RunOK
<1>7. 1 \in 1..Len(run.acks) /\ run.acks[1]
  <2>1. 1 \in 1..Len(run.acks)
    BY <1>2
  <2> QED BY <2>1, <1>2, <1>h, Zenon
<1>8. \A i \in 1..run'.confirmed : Settled(run.keys[i])
  <2> SUFFICES ASSUME NEW i \in 1..(run.confirmed + 1) PROVE Settled(run.keys[i])
    BY Zenon, <1>3
  <2>1. i \in 1..run.confirmed \/ i = run.confirmed + 1
    BY <1>t
  <2>2. Settled(run.keys[run.confirmed + 1])
    BY Zenon, <1>7 DEF MigrateInv, RunOK
  <2>3. \A j \in 1..run.confirmed : Settled(run.keys[j])
    BY Zenon DEF MigrateInv, RunOK
  <2> QED BY Zenon, <2>1, <2>2, <2>3
<1>9. \A i \in 1..Len(run'.acks) : run'.acks[i] => Settled(run.keys[run'.confirmed + i])
  <2> SUFFICES ASSUME NEW i \in 1..Len(Tail(run.acks)), run.acks[i + 1]
               PROVE  Settled(run.keys[run.confirmed + 1 + i])
    BY Zenon, <1>2, <1>3
  <2>1. i + 1 \in 1..Len(run.acks) /\ run.confirmed + 1 + i = run.confirmed + (i + 1)
    BY <1>2, <1>t
  <2>2. Settled(run.keys[run.confirmed + (i + 1)])
    BY Zenon, <2>1 DEF MigrateInv, RunOK
  <2> QED BY Zenon, <2>1, <2>2
<1>10. RunOK'
  <2>1. sent + Len(run.out) = Len(run.keys) /\ \A i \in 1..Len(run.out) : run.out[i].k = run.keys[sent + i]
    BY Zenon, <1>6 DEF MigrateInv, RunOK
  <2> HIDE DEF sent
  <2>2. sent + Len(run'.out) = Len(run'.keys) /\ \A i \in 1..Len(run'.out) : run'.out[i].k = run'.keys[sent + i]
    BY Zenon, <2>1, <1>3
  <2> DEFINE Ok(k) == latest'[k] # Absent => host'["B"].data[k] # Absent
  <2>3. \A k : Settled(k) <=> Ok(k)
    BY Zenon, <1>1 DEF Settled
  <2> HIDE DEF Ok
  <2>4. \A i \in 1..run'.confirmed : Ok(run'.keys[i])
    BY Zenon, <1>3, <1>8, <2>3
  <2>5. \A i \in 1..Len(run'.acks) : run'.acks[i] => Ok(run'.keys[run'.confirmed + i])
    BY Zenon, <1>3, <1>9, <2>3
  <2>6. run'.open
    BY Zenon, <1>3, <1>6
  <2> QED BY Zenon, <1>4, <2>2, <2>4, <2>5, <2>6 DEF RunOK, Settled, Ok
<1>11. NoKeyLost'
  BY Zenon, <1>1 DEF MigrateInv, NoKeyLost
<1>12. ASSUME faults' = 0 PROVE Undisturbed'
  <2>1. Undisturbed
    BY Zenon, <1>1, <1>12 DEF MigrateInv
  <2>2. run # Idle
    BY <1>n DEF Idle
  <2>3. \A i \in 1..Len(run'.acks) : run'.acks[i]
    <3> SUFFICES ASSUME NEW i \in 1..Len(Tail(run.acks)) PROVE run.acks[i + 1]
      BY Zenon, <1>2, <1>3
    <3>1. i + 1 \in 1..Len(run.acks)
      BY <1>2
    <3> QED BY Zenon, <3>1, <2>1 DEF Undisturbed, RunExact
  <2>4. /\ Moving
        /\ \A i \in 1..sent : host["B"].data[run.keys[i]] = host["A"].data[run.keys[i]]
        /\ \A k \in Present("A") \cap Present("B") : \E i \in 1..sent : run.keys[i] = k
        /\ \A i \in 1..Len(run.keys) : host["A"].data[run.keys[i]] # Absent
        /\ \A i \in 1..Len(run.out) : run.out[i].v = host["A"].data[run.out[i].k]
    BY Zenon, <2>1, <2>2 DEF Undisturbed, RunExact
  <2> HIDE DEF sent
  <2>5. Present("A")' = Present("A") /\ Present("B")' = Present("B") /\ Moving' = Moving
    BY Zenon, <1>1 DEF Present, Moving
  <2>6. RunExact'
    <3>1. \A i \in 1..sent : host'["B"].data[run'.keys[i]] = host'["A"].data[run'.keys[i]]
      BY <1>1, <1>3, <2>4
    <3>2. \A k \in Present("A")' \cap Present("B")' : \E i \in 1..sent : run'.keys[i] = k
      <4>1. run'.keys = run.keys
        BY Zenon, <1>3
      <4> QED BY <2>4, <2>5, <4>1, Zenon
    <3>3. \A i \in 1..Len(run'.keys) : host'["A"].data[run'.keys[i]] # Absent
      BY Zenon, <1>1, <1>3, <2>4
    <3>4. \A i \in 1..Len(run'.out) : run'.out[i].v = host'["A"].data[run'.out[i].k]
      BY <1>1, <1>3, <2>4
    <3>5. Moving' /\ run'.open
      BY Zenon, <1>3, <1>6, <2>4, <2>5
    <3> QED BY Zenon, <1>4, <2>3, <3>1, <3>2, <3>3, <3>4, <3>5 DEF RunExact
  <2>7. SlotExact'
    BY Zenon, <1>1, <2>1, <2>5 DEF Undisturbed, SlotExact
  <2> QED BY Zenon, <1>1, <2>1, <2>6, <2>7 DEF Undisturbed, Authority
<1> QED BY Zenon, <1>5, <1>10, <1>11, <1>12 DEF MigrateInv

(* A MIGRATE that ends deletes keys that are settled, and no others.       *)
LEMMA EndsKeeps ==
  ASSUME MigrateInv, NEW n \in 0..Len(run.keys), NEW ok \in BOOLEAN, MigrateEnds(n, ok),
         \A i \in 1..n : Settled(run.keys[i]),
         faults' \in Nat,
         faults' = 0 => faults = 0 /\ n = Len(run.keys) /\ run.out = <<>>
  PROVE  MigrateInv'
<1> DEFINE gone == {run.keys[i] : i \in 1..n}
<1>t. /\ run.keys \in Seq(SlotKeys) /\ run.out \in Seq(Restores) /\ Len(run.keys) \in Nat /\ n \in Nat
      /\ host \in [{"A", "B"} -> Hosts]
  BY DEF MigrateInv, TypesOK
<1>1. /\ host' = [host EXCEPT !["A"].data = Kept(@, gone)]
      /\ late' = late \cup ({run.out} \ {<<>>})
      /\ run' = Idle
      /\ tool' = IF tool.at = "wait" THEN [tool EXCEPT !.at = IF ok THEN "keys" ELSE "failed"] ELSE tool
      /\ UNCHANGED <<reqs, latest, writes>>
  BY Zenon DEF MigrateEnds
<1>2. gone = {run.keys[i] : i \in 1..n}
  BY Zenon
<1> HIDE DEF gone
<1>3. \A k \in gone : k \in SlotKeys /\ Settled(k)
  BY <1>2, <1>t
<1>4. Kept(host["A"].data, gone) \in [SlotKeys -> Nat]
  BY Zenon, <1>t DEF Kept, Absent
<1>5. /\ host' \in [{"A", "B"} -> Hosts]
      /\ \A m \in {"A", "B"} : host'[m].own = host[m].own /\ host'[m].moving = host[m].moving
      /\ host'["B"].data = host["B"].data
      /\ host'["A"].data = Kept(host["A"].data, gone)
  BY Zenon, <1>1, <1>4, <1>t
<1>6. \A k \in SlotKeys : host'["A"].data[k] = IF k \in gone THEN Absent ELSE host["A"].data[k]
  BY Zenon, <1>5 DEF Kept
<1>7. TypesOK'
  <2>1. run' \in [keys : Seq(SlotKeys), out : Seq(Restores), acks : Seq(BOOLEAN),
                  confirmed : Nat, open : BOOLEAN]
    BY <1>1 DEF Idle
  <2>2. late' \subseteq Seq(Restores)
    BY Zenon, <1>1, <1>t DEF MigrateInv, TypesOK
  <2>3. tool' \in [at : Places, batch : SUBSET SlotKeys]
    BY Zenon, <1>1 DEF MigrateInv, TypesOK, Places
  <2> QED BY Zenon, <1>1, <1>5, <2>1, <2>2, <2>3 DEF MigrateInv, TypesOK
<1>8. RunOK'
  BY <1>1 DEF RunOK, Idle
<1>9. NoKeyLost'
  <2> SUFFICES ASSUME NEW k \in SlotKeys, latest[k] # Absent
               PROVE  \E m \in {"A", "B"} : host'[m].data[k] # Absent
    BY Zenon, <1>1 DEF NoKeyLost
  <2>1. CASE k \in gone
    BY Zenon, <2>1, <1>3, <1>5 DEF Settled
  <2>2. CASE k \notin gone
    BY <2>2, <1>5, <1>6 DEF MigrateInv, NoKeyLost
  <2> QED BY Zenon, <2>1, <2>2
<1>10. ASSUME faults' = 0 PROVE Undisturbed'
  <2>1. Undisturbed /\ n = Len(run.keys) /\ run.out = <<>>
    BY Zenon, <1>10 DEF MigrateInv
  <2>2. late' = {}
    BY Zenon, <1>1, <2>1 DEF Undisturbed
  <2>3. \A k \in Present("A") \cap Present("B") : k \in gone
    <3> SUFFICES ASSUME NEW k \in Present("A") \cap Present("B") PROVE k \in gone
      BY Zenon
    <3>1. PICK i \in 1..(run.confirmed + Len(run.acks)) : run.keys[i] = k
      BY Zenon, <2>1 DEF Undisturbed, RunExact
    <3>2. i \in 1..Len(run.keys)
      BY <3>1, SentBound DEF MigrateInv
    <3> QED BY Zenon, <3>1, <3>2, <2>1, <1>2
  <2>4. \A k \in gone : host["B"].data[k] = host["A"].data[k]
    <3> SUFFICES ASSUME NEW i \in 1..Len(run.keys)
                 PROVE  host["B"].data[run.keys[i]] = host["A"].data[run.keys[i]]
      BY Zenon, <2>1, <1>2
    <3>1. Len(run.keys) = run.confirmed + Len(run.acks)
      <4>1. CASE run.open
        <5>1. run.confirmed + Len(run.acks) + Len(run.out) = Len(run.keys)
          BY Zenon, <4>1 DEF MigrateInv, RunOK
        <5>2. Len(run.out) = 0
          BY <2>1
        <5> QED BY <5>1, <5>2, SentBound DEF MigrateInv
      <4>2. CASE ~run.open
        <5>1. run = Idle
          BY Zenon, <4>2, <2>1 DEF Undisturbed, RunExact
        <5> QED BY <5>1 DEF Idle
      <4> QED BY Zenon, <4>1, <4>2
    <3> QED BY Zenon, <3>1, <2>1 DEF Undisturbed, RunExact
  <2>5. Present("A")' \subseteq Present("A") /\ Present("B")' = Present("B")
        /\ Present("A")' \cap Present("B")' = {}
    <3>1. Present("A")' = Present("A") \ gone
      BY Zenon, <1>6 DEF Present
    <3>2. Present("B")' = Present("B")
      BY Zenon, <1>5 DEF Present
    <3> QED BY Zenon, <3>1, <3>2, <2>3
  <2>6. Moving' = Moving
    BY Zenon, <1>5 DEF Moving
  <2>7. RunExact'
    BY <1>1, <2>5 DEF RunExact, Idle
  <2>8. SlotExact'
    <3>1. tool'.at = tool.at \/ (tool.at = "wait" /\ tool'.at \in {"keys", "failed"})
      BY Zenon, <1>1 DEF MigrateInv, TypesOK
    <3>2. SlotExact
      BY Zenon, <2>1 DEF Undisturbed
    <3>3. tool'.at \in {"keys", "migrate", "wait", "nodeA"} => tool.at \in {"keys", "migrate", "wait", "nodeA"}
      BY Zenon, <3>1
    <3>4. /\ tool'.at = "importing" => tool.at = "importing"
          /\ tool'.at = "nodeA" => tool.at = "nodeA"
          /\ tool'.at = "nodeB" => tool.at = "nodeB"
      BY Zenon, <3>1
    <3>5. /\ host'["A"].own = host["A"].own /\ host'["A"].moving = host["A"].moving
          /\ host'["B"].own = host["B"].own
      BY Zenon, <1>5
    <3>6. Present("A") = {} => Present("A")' = {}
      BY Zenon, <2>5
    <3>7. Present("B")' = Present("B")
      BY Zenon, <2>5
    <3> QED BY <3>2, <3>3, <3>4, <3>5, <3>6, <3>7, <2>6, Zenon DEF SlotExact
  <2>9. \A k \in SlotKeys : Authority(k)' = Authority(k)
    <3> SUFFICES ASSUME NEW k \in SlotKeys PROVE Authority(k)' = Authority(k)
      BY Zenon
    <3>1. CASE k \in gone
      BY Zenon, <3>1, <2>4, <1>5, <1>6 DEF Authority
    <3>2. CASE k \notin gone
      BY Zenon, <3>2, <1>5, <1>6 DEF Authority
    <3> QED BY Zenon, <3>1, <3>2
  <2>10. \A k \in SlotKeys : host["A"].data[k] = Absent => host'["A"].data[k] = Absent
    BY Zenon, <1>6
  <2>11. \A c \in Clients : reqs[c] # NoReq => reqs[c].k \in SlotKeys
    BY Zenon DEF MigrateInv, TypesOK, SlotCommands
  <2>12. \A k \in SlotKeys : latest'[k] = Authority(k)'
    BY Zenon, <2>1, <2>9, <1>1 DEF Undisturbed
  <2> QED BY <1>1, <1>5, <2>1, <2>2, <2>7, <2>8, <2>10, <2>11, <2>12 DEF Undisturbed
<1> QED BY Zenon, <1>7, <1>8, <1>9, <1>10 DEF MigrateInv

(* The last answer is good.                                                *)
LEMMA DoneAction ==
  ASSUME MigrateInv, MigrateDone PROVE MigrateInv'
<1>t. run.keys \in Seq(SlotKeys) /\ run.acks \in Seq(BOOLEAN) /\ run.out \in Seq(Restores) /\ faults \in Nat
  BY Zenon DEF MigrateInv, TypesOK
<1>h. Head(run.acks)
  BY Zenon DEF MigrateDone
<1>1. /\ run.acks # <<>> /\ run.confirmed + 1 = Len(run.keys)
      /\ MigrateEnds(Len(run.keys), TRUE) /\ faults' = faults
  BY Zenon DEF MigrateDone
<1>2. Head(run.acks) = run.acks[1] /\ Len(run.acks) \in Nat /\ Len(run.acks) >= 1
  BY <1>1, <1>t
<1>3. /\ run.confirmed \in Nat /\ Len(run.out) \in Nat /\ Len(run.keys) \in Nat /\ run.open
      /\ run.confirmed + Len(run.acks) + Len(run.out) = Len(run.keys)
  BY Zenon, <1>1, SentBound DEF MigrateInv, RunOK
<1>4. run.out = <<>>
  <2>1. Len(run.out) = 0
    BY <1>1, <1>2, <1>3
  <2> QED BY <2>1, <1>t
<1>5. 1 \in 1..Len(run.acks)
  BY <1>2
<1>6. run.acks[1]
  BY <1>2, <1>h, Zenon
<1>7. Settled(run.keys[run.confirmed + 1]) /\ \A i \in 1..run.confirmed : Settled(run.keys[i])
  BY Zenon, <1>5, <1>6 DEF MigrateInv, RunOK
<1>8. \A i \in 1..Len(run.keys) : Settled(run.keys[i])
  <2> SUFFICES ASSUME NEW i \in 1..(run.confirmed + 1) PROVE Settled(run.keys[i])
    BY Zenon, <1>1
  <2>1. i \in 1..run.confirmed \/ i = run.confirmed + 1
    BY <1>3
  <2> QED BY Zenon, <2>1, <1>7
<1>9. Len(run.keys) \in 0..Len(run.keys) /\ faults' \in Nat
  BY <1>1, <1>3, <1>t
<1> QED BY Zenon, <1>1, <1>4, <1>8, <1>9, EndsKeeps

(* B refuses a RESTORE: the keys before it are deleted, the others stay.   *)
LEMMA RefusedAction ==
  ASSUME MigrateInv, MigrateRefused PROVE MigrateInv'
<1>t. run.acks \in Seq(BOOLEAN) /\ faults \in Nat
  BY Zenon DEF MigrateInv, TypesOK
<1>h. ~Head(run.acks)
  BY Zenon DEF MigrateRefused
<1>1. run.acks # <<>> /\ MigrateEnds(run.confirmed, FALSE) /\ faults' = faults
  BY Zenon DEF MigrateRefused
<1>2. Head(run.acks) = run.acks[1] /\ 1 \in 1..Len(run.acks)
  BY <1>1, <1>t
<1>3. faults # 0
  <2>1. SUFFICES ASSUME Undisturbed PROVE FALSE
    BY Zenon DEF MigrateInv
  <2>2. run.acks[1]
    BY Zenon, <1>2, <2>1 DEF Undisturbed, RunExact
  <2> QED BY <2>2, <1>2, <1>h, Zenon
<1>4. run.confirmed \in 0..Len(run.keys) /\ \A i \in 1..run.confirmed : Settled(run.keys[i])
  BY Zenon, ConfirmedSettled DEF MigrateInv
<1> QED BY Zenon, <1>1, <1>3, <1>4, <1>t, EndsKeeps

(* The deadline passes or the connection is gone: what was sent may still  *)
(* be executed, and what was not confirmed stays at A.                     *)
LEMMA TimeoutAction ==
  ASSUME MigrateInv, MigrateTimeout PROVE MigrateInv'
<1>t. faults \in Nat
  BY Zenon DEF MigrateInv, TypesOK
<1>1. /\ run # Idle /\ MigrateEnds(run.confirmed, FALSE)
      /\ IF run.open THEN faults' = faults + 1 ELSE faults' = faults
  BY Zenon DEF MigrateTimeout, Fault
<1>2. faults' \in Nat /\ faults' # 0
  <2>1. CASE run.open
    BY <2>1, <1>1, <1>t
  <2>2. CASE ~run.open
    <3>1. faults # 0
      BY Zenon, <2>2, <1>1 DEF MigrateInv, Undisturbed, RunExact
    <3> QED BY Zenon, <3>1, <2>2, <1>1, <1>t
  <2> QED BY Zenon, <2>1, <2>2
<1>3. run.confirmed \in 0..Len(run.keys) /\ \A i \in 1..run.confirmed : Settled(run.keys[i])
  BY Zenon, ConfirmedSettled DEF MigrateInv
<1> QED BY Zenon, <1>1, <1>2, <1>3, EndsKeeps

(* What is left of a MIGRATE when its connection breaks.                   *)
LEMMA CutRun ==
  ASSUME NEW r \in [keys : Seq(SlotKeys), out : Seq(Restores), acks : Seq(BOOLEAN),
                    confirmed : Nat, open : BOOLEAN]
  PROVE  [r EXCEPT !.out = <<>>, !.acks = <<>>, !.open = FALSE]
           \in [keys : Seq(SlotKeys), out : Seq(Restores), acks : Seq(BOOLEAN),
               confirmed : Nat, open : BOOLEAN]
<1>1. <<>> \in Seq(Restores) /\ <<>> \in Seq(BOOLEAN)
  OBVIOUS
<1> QED BY Zenon, <1>1

(* A node comes back with its keys.                                        *)
LEMMA RestartsAction ==
  ASSUME MigrateInv, NEW n \in {"A", "B"}, NodeRestarts(n) PROVE MigrateInv'
<1> DEFINE Runs == [keys : Seq(SlotKeys), out : Seq(Restores), acks : Seq(BOOLEAN),
                    confirmed : Nat, open : BOOLEAN]
<1>t. /\ host \in [{"A", "B"} -> Hosts] /\ run \in Runs /\ faults \in Nat
      /\ late \subseteq Seq(Restores) /\ tool \in [at : Places, batch : SUBSET SlotKeys]
      /\ reqs \in [Clients -> SlotCommands \cup {NoReq}]
      /\ latest \in [SlotKeys -> Nat] /\ writes \in Nat
  BY Zenon DEF MigrateInv, TypesOK
<1>1. /\ faults' = faults + 1
      /\ host' = [host EXCEPT ![n].moving = FALSE]
      /\ run' = IF n = "A" THEN Idle ELSE [run EXCEPT !.out = <<>>, !.acks = <<>>, !.open = FALSE]
      /\ late' = IF n = "A" THEN late \cup ({run.out} \ {<<>>}) ELSE {}
      /\ tool' = IF tool.at = "done" THEN tool ELSE [tool EXCEPT !.at = "failed"]
      /\ reqs' = [c \in Clients |-> IF reqs[c] # NoReq /\ reqs[c].at = n THEN NoReq ELSE reqs[c]]
      /\ UNCHANGED <<latest, writes>>
  BY Zenon DEF NodeRestarts, Fault
<1>2. host' \in [{"A", "B"} -> Hosts] /\ \A m \in {"A", "B"} : host'[m].data = host[m].data
  BY <1>1, <1>t
<1>3. TypesOK'
  <2>1. run' \in Runs
    <3>1. Idle \in Runs
      BY DEF Idle
    <3>2. [run EXCEPT !.out = <<>>, !.acks = <<>>, !.open = FALSE] \in Runs
      BY Zenon, <1>t, CutRun
    <3>3. run' = Idle \/ run' = [run EXCEPT !.out = <<>>, !.acks = <<>>, !.open = FALSE]
      BY Zenon, <1>1
    <3> HIDE DEF Runs
    <3> QED BY Zenon, <3>1, <3>2, <3>3
  <2>2. late' \subseteq Seq(Restores)
    BY Zenon, <1>1, <1>t
  <2>3. tool' \in [at : Places, batch : SUBSET SlotKeys]
    BY Zenon, <1>1, <1>t DEF Places
  <2>4. reqs' \in [Clients -> SlotCommands \cup {NoReq}]
    BY Zenon, <1>1, <1>t
  <2>5. faults' \in Nat
    BY <1>1, <1>t
  <2> QED BY Zenon, <1>1, <1>2, <1>t, <2>1, <2>2, <2>3, <2>4, <2>5 DEF TypesOK
<1>4. NoKeyLost'
  BY Zenon, <1>1, <1>2 DEF MigrateInv, NoKeyLost
<1>5. RunOK'
  <2>1. CASE n = "A"
    BY <2>1, <1>1 DEF RunOK, Idle
  <2>2. CASE n = "B"
    <3>1. /\ run'.keys = run.keys /\ run'.out = <<>> /\ run'.acks = <<>>
          /\ run'.confirmed = run.confirmed /\ ~run'.open
      BY Zenon, <2>2, <1>1, <1>t
    <3>2. run.confirmed <= Len(run.keys)
      BY SentBound DEF MigrateInv
    <3>3. \A i \in 1..run.confirmed : Settled(run.keys[i])
      BY Zenon DEF MigrateInv, RunOK
    <3> QED BY <3>1, <3>2, <3>3, <1>1, <1>2 DEF RunOK, Settled
  <2> QED BY Zenon, <2>1, <2>2
<1>6. faults' # 0
  BY <1>1, <1>t
<1> QED BY Zenon, <1>3, <1>4, <1>5, <1>6 DEF MigrateInv

-----------------------------------------------------------------------------
LEMMA NextInv == MigrateInv /\ [MigrateNext]_migrateVars => MigrateInv'
<1> SUFFICES ASSUME MigrateInv, [MigrateNext]_migrateVars PROVE MigrateInv'
  BY Zenon
<1>1. CASE \E c \in Clients : \E op \in {"set", "del"}, k \in SlotKeys, n \in {"A", "B"} : Request(c, op, k, n)
  BY Zenon, <1>1, RequestAction
<1>2. CASE \E c \in Clients : Serve(c) \/ Redirect(c)
  BY Zenon, <1>2, ServeAction, RedirectAction
<1>3. CASE SetMigrating \/ SetImporting \/ GetKeysInSlot
  BY Zenon, <1>3, SetMigratingAction, SetImportingAction, ToolAction
<1>4. CASE SetNode("A", "nodeA", "nodeB") \/ SetNode("B", "nodeB", "done")
  BY Zenon, <1>4, SetNodeAction
<1>5. CASE ToolDies \/ ToolAgain
  BY Zenon, <1>5, ToolAction
<1>6. CASE \E n \in {"A", "B"} : Hear(n) \/ NodeRestarts(n)
  BY Zenon, <1>6, HearAction, RestartsAction
<1>7. CASE MigrateStart \/ Confirm \/ MigrateDone \/ MigrateRefused \/ MigrateTimeout
  BY Zenon, <1>7, StartAction, ConfirmAction, DoneAction, RefusedAction, TimeoutAction
<1>8. CASE \E ok \in BOOLEAN : Restore(ok)
  BY Zenon, <1>8, RestoreAction
<1>9. CASE \E q \in late : RestoreLate(q)
  BY Zenon, <1>9, RestoreLateAction
<1>10. CASE UNCHANGED migrateVars
  <2>1. UNCHANGED <<host, run, late, tool, latest, writes, faults>> /\ reqs' = reqs
    BY Zenon, <1>10 DEF migrateVars
  <2> QED BY Zenon, <2>1, ReqsFrame DEF MigrateInv, TypesOK, Undisturbed
<1> QED BY Zenon, <1>1, <1>2, <1>3, <1>4, <1>5, <1>6, <1>7, <1>8, <1>9, <1>10 DEF MigrateNext

(* Moving a slot keeps its keys, for every set of keys and clients, batch  *)
(* size and schedule: db_key_served sends a client to the node that has    *)
(* the key as long as nothing failed, and migrate_run deletes only what    *)
(* the target confirmed, so whatever times out, is refused or restarts, no *)
(* key is lost.                                                            *)
THEOREM SlotMoveKeepsKeys == MigrateSpec => []MoveKeepsKeys
<1>1. MigrateInv => MoveKeepsKeys
  <2>1. ASSUME MigrateInv PROVE MoveIsInvisible
    <3> SUFFICES ASSUME faults = 0, NEW c \in Clients, reqs[c] # NoReq, ~Busy(reqs[c].at),
                        Served(reqs[c].at, reqs[c].k, reqs[c].asking) = "served"
                 PROVE  host[reqs[c].at].data[reqs[c].k] = latest[reqs[c].k]
      BY Zenon DEF MoveIsInvisible
    <3> QED BY Zenon, <2>1, ServedHere DEF MigrateInv
  <2> QED BY Zenon, <2>1 DEF MigrateInv, MoveKeepsKeys
<1> QED BY <1>1, InitInv, NextInv, PTL DEF MigrateSpec
=============================================================================
