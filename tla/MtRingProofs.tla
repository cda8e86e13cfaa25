---------------------------- MODULE MtRingProofs ----------------------------
(***************************************************************************)
(* Proofs about MtRing for every number of rings, ring size, drain limit   *)
(* and pipe capacity.                                                      *)
(***************************************************************************)
EXTENDS MtRing, SequenceTheorems, TLAPS

(* What the masked increment of mt_spsc.h computes.                        *)
LEMMA SuccDef ==
  \A i \in 0..N-1 : /\ Succ(i) = IF i = N - 1 THEN 0 ELSE i + 1
                    /\ Succ(i) \in 0..N-1
<1> SUFFICES ASSUME NEW i \in 0..N-1
             PROVE  /\ Succ(i) = IF i = N - 1 THEN 0 ELSE i + 1
                    /\ Succ(i) \in 0..N-1
  BY Zenon
<1>1. CASE i = N - 1
  BY <1>1, SizeAssumption DEF Succ
<1>2. CASE i # N - 1
  BY <1>2, SizeAssumption DEF Succ
<1> QED BY Zenon, <1>1, <1>2

(* Distances between ring indices, and what one masked increment does to   *)
(* them.                                                                   *)
LEMMA DistFacts ==
  ASSUME NEW a \in 0..N-1, NEW b \in 0..N-1
  PROVE  /\ Dist(a, b) \in 0..N-1
         /\ (Dist(a, b) = 0) <=> (a = b)
         /\ (Dist(a, b) = N - 1) <=> (Succ(b) = a)
         /\ Dist(a, b) # N - 1 => Dist(a, Succ(b)) = Dist(a, b) + 1
         /\ a # b => Dist(Succ(a), b) = Dist(a, b) - 1
BY SuccDef, SizeAssumption DEF Dist

LEMMA NotFull ==
  ASSUME NEW a \in 0..N-1, NEW b \in 0..N-1, Dist(a, b) # N - 1
  PROVE  Succ(b) # a
BY Zenon, DistFacts

LEMMA DistInjective ==
  ASSUME NEW a \in 0..N-1, NEW b \in 0..N-1, NEW c \in 0..N-1,
         Dist(a, b) = Dist(a, c)
  PROVE  b = c
BY SizeAssumption DEF Dist

-----------------------------------------------------------------------------
(* Type correctness.                                                       *)

LEMMA InitIInv == Init => IInv
<1> SUFFICES ASSUME Init PROVE IInv
  BY Zenon
<1> USE SizeAssumption, RingsAssumption, PipeAssumption
<1>1. TypeOK
  BY DEF Init, TypeOK, SlotsOK, Rings, ProducerPC, WorkerPC, StopPC
<1>2. RingInv
  BY DEF Init, RingInv, RingOK, Held, Dist, Rings
<1>3. PopInv /\ WakeInv
  BY DEF Init, PopInv, WakeInv, Empty
<1> QED BY Zenon, <1>1, <1>2, <1>3 DEF IInv

LEMMA StepSlotsOK == TypeOK /\ [Next]_vars => SlotsOK'
<1> SUFFICES ASSUME TypeOK, [Next]_vars PROVE SlotsOK'
  BY Zenon
<1>1. ASSUME NEW r \in Rings, PushStore(r) PROVE SlotsOK'
  <2> DEFINE slots == [buf[r] EXCEPT ![tail[r]] = nsent[r] + 1]
  <2>1. buf[r] \in [0..N-1 -> Nat]
    BY Zenon DEF TypeOK, SlotsOK
  <2>2. nsent[r] + 1 \in Nat
    BY DEF TypeOK
  <2>3. slots \in [0..N-1 -> Nat]
    BY Zenon, <2>1, <2>2
  <2>4. buf' = [buf EXCEPT ![r] = slots]
    BY Zenon, <1>1 DEF PushStore
  <2> QED BY Zenon, <2>3, <2>4 DEF TypeOK, SlotsOK
<1>2. CASE UNCHANGED buf
  BY Zenon, <1>2 DEF TypeOK, SlotsOK
<1>3. CASE UNCHANGED vars
  BY Zenon, <1>2, <1>3 DEF vars, ringVars
<1>4. ASSUME NEW r \in Rings, Producer(r) PROVE SlotsOK'
  BY Zenon, <1>1, <1>2, <1>4 DEF Producer, Pushing, PushLoad, PushFull, PushPublish,
     Kick, KickWrite, ringVars
<1>5. ASSUME Worker PROVE SlotsOK'
  BY Zenon, <1>2, <1>5 DEF Worker, Loop, PollTimeout, PollReady, DrainPipe, Rearm,
     PopLoad, PopRead, PopAdvance, CheckRing, SelfKick, SelfKickWrite, ringVars
<1>6. ASSUME Stopper PROVE SlotsOK'
  BY Zenon, <1>2, <1>6 DEF Stopper, StopBegin, StopWorker, StopKick, StopKickWrite,
     StopProducer, ringVars
<1> QED BY Zenon, <1>3, <1>4, <1>5, <1>6 DEF Next

LEMMA StepTypeOK == TypeOK /\ [Next]_vars => TypeOK'
<1> SUFFICES ASSUME TypeOK, [Next]_vars PROVE TypeOK'
  BY Zenon
<1>0. SlotsOK'
  BY Zenon, StepSlotsOK
<1> USE <1>0 DEF TypeOK, ringVars, prodVars, workVars
<1>1. ASSUME NEW r \in Rings, Producer(r) PROVE TypeOK'
  <2>1. CASE PushLoad(r) BY Zenon, <2>1 DEF PushLoad, ProducerPC
  <2>2. CASE PushFull(r) BY Zenon, <2>2 DEF PushFull, ProducerPC
  <2>3. CASE PushStore(r) BY Zenon, <2>3 DEF PushStore, ProducerPC
  <2>4. CASE PushPublish(r) BY <2>4, SuccDef DEF PushPublish, ProducerPC
  <2>5. CASE Kick(r) BY <2>5 DEF Kick, ProducerPC
  <2>6. CASE KickWrite(r) BY <2>6, PipeAssumption DEF KickWrite, PipeWrite, ProducerPC
  <2> QED BY Zenon, <1>1, <2>1, <2>2, <2>3, <2>4, <2>5, <2>6 DEF Producer, Pushing
<1>2. ASSUME Worker PROVE TypeOK'
  <2> 1 \in Rings /\ (cur < NRings => cur + 1 \in Rings)
    BY RingsAssumption DEF Rings
  <2>1. CASE Loop BY Zenon, <2>1 DEF Loop, WorkerPC
  <2>2. CASE PollTimeout BY Zenon, <2>2 DEF PollTimeout, WorkerPC
  <2>3. CASE PollReady BY Zenon, <2>3 DEF PollReady, WorkerPC
  <2>4. CASE DrainPipe BY <2>4, PipeAssumption DEF DrainPipe, WorkerPC
  <2>5. CASE Rearm BY <2>5 DEF Rearm, WorkerPC
  <2>6. CASE PopLoad BY <2>6 DEF PopLoad, NextRing, WorkerPC
  <2>7. CASE PopRead
    <3>1. item' = buf[cur][head[cur]]
      BY Zenon, <2>7 DEF PopRead
    <3>2. buf[cur] \in [0..N-1 -> Nat] /\ head[cur] \in 0..N-1
      BY Zenon DEF SlotsOK
    <3>3. item' \in Nat
      BY Zenon, <3>1, <3>2
    <3> QED BY Zenon, <2>7, <3>3 DEF PopRead, WorkerPC
  <2>8. CASE PopAdvance BY <2>8, SuccDef DEF PopAdvance, WorkerPC
  <2>9. CASE CheckRing BY Zenon, <2>9 DEF CheckRing, WorkerPC
  <2>10. CASE SelfKick BY <2>10 DEF SelfKick, WorkerPC
  <2>11. CASE SelfKickWrite BY <2>11, PipeAssumption DEF SelfKickWrite, PipeWrite, WorkerPC
  <2> QED BY Zenon, <1>2, <2>1, <2>2, <2>3, <2>4, <2>5, <2>6, <2>7, <2>8, <2>9,
             <2>10, <2>11 DEF Worker
<1>3. ASSUME Stopper PROVE TypeOK'
  <2>1. CASE StopBegin BY Zenon, <2>1 DEF StopBegin, StopPC
  <2>2. CASE StopWorker BY <2>2 DEF StopWorker, StopPC
  <2>3. CASE StopKick BY <2>3 DEF StopKick, StopPC
  <2>4. CASE StopKickWrite BY <2>4, PipeAssumption DEF StopKickWrite, PipeWrite, StopPC
  <2>5. ASSUME NEW r \in Rings, StopProducer(r) PROVE TypeOK'
    BY <2>5 DEF StopProducer
  <2> QED BY Zenon, <1>3, <2>1, <2>2, <2>3, <2>4, <2>5 DEF Stopper
<1>4. CASE UNCHANGED vars BY Zenon, <1>4 DEF vars
<1> QED BY Zenon, <1>1, <1>2, <1>3, <1>4 DEF Next

-----------------------------------------------------------------------------
(* The rings.                                                              *)

\* What RingOK(q) reads.
RingView(q) == <<buf[q], head[q], tail[q], nsent[q], got[q], lhead[q], ppc[q]>>

(* A step that leaves ring q alone keeps it in order.                      *)
LEMMA RingFrame ==
  ASSUME NEW q \in Rings, RingOK(q), UNCHANGED RingView(q)
  PROVE  RingOK(q)'
BY Zenon DEF RingOK, Held, Dist, RingView

LEMMA StepRingInv == IInv /\ [Next]_vars => RingInv'
<1> SUFFICES ASSUME IInv, [Next]_vars, NEW q \in Rings PROVE RingOK(q)'
  BY Zenon DEF RingInv
<1> RingOK(q)
  BY Zenon DEF IInv, RingInv
<1>t. /\ TypeOK /\ SlotsOK
      /\ head[q] \in 0..N-1 /\ tail[q] \in 0..N-1 /\ lhead[q] \in 0..N-1
      /\ nsent[q] \in Nat /\ got[q] \in Nat
      /\ buf[q] \in [0..N-1 -> Nat]
  BY Zenon DEF IInv, TypeOK, SlotsOK
<1>d. /\ Held(q) \in 0..N-1
      /\ Held(q) = 0 <=> head[q] = tail[q]
      /\ Held(q) # N - 1 => Dist(head[q], Succ(tail[q])) = Held(q) + 1
      /\ head[q] # tail[q] => Dist(Succ(head[q]), tail[q]) = Held(q) - 1
      /\ Dist(lhead[q], tail[q]) \in 0..N-1
      /\ Dist(lhead[q], tail[q]) = N - 1 <=> Full(q)
      /\ \A i \in 0..N-1 : Dist(head[q], i) \in 0..N-1
  BY <1>t, DistFacts DEF Held, Full
<1>n. /\ nsent[q] = got[q] + Held(q)
      /\ nsent[q] \in Int /\ got[q] \in Int /\ Held(q) \in Int
      /\ \A i \in 0..N-1 : Dist(head[q], i) \in Int
  <2>1. \A i \in 0..N-1 : i \in Int
    OBVIOUS
  <2>2. \A i \in Nat : i \in Int
    OBVIOUS
  <2> QED BY Zenon, <2>1, <2>2, <1>t, <1>d DEF RingOK
<1>1. CASE UNCHANGED RingView(q)
  BY Zenon, <1>1, RingFrame
<1>2. CASE PushLoad(q)
  BY <1>2, <1>t, <1>d DEF PushLoad, RingOK, Held, TypeOK, ringVars
<1>3. CASE PushFull(q)
  <2>1. UNCHANGED <<buf, head, tail, nsent, got>>
    BY Zenon, <1>3 DEF PushFull, ringVars
  <2>2. \/ ppc'[q] = "loaded" /\ lhead'[q] = head[q]
        \/ ppc'[q] = "idle"
    BY Zenon, <1>3 DEF PushFull, TypeOK, IInv
  <2>3. Dist(head[q], tail[q]) = Held(q) /\ Held(q)' = Held(q)
    BY Zenon, <2>1 DEF Held
  <2>4. /\ nsent'[q] = got'[q] + Held(q)'
        /\ \A i \in 0..N-1 : Dist(head[q], i)' < Held(q)'
              => buf'[q][i] = got'[q] + 1 + Dist(head[q], i)'
    BY Zenon, <2>1, <2>3 DEF RingOK, Dist
  <2>5. CASE ppc'[q] = "idle"
    BY Zenon, <2>4, <2>5 DEF RingOK
  <2>6. CASE ppc'[q] = "loaded" /\ lhead'[q] = head[q]
    <3>1. Held(q)' <= Dist(lhead[q], tail[q])'
      BY <2>1, <2>3, <2>6, <1>d DEF Dist
    <3> QED BY Zenon, <2>4, <2>6, <3>1 DEF RingOK
  <2> QED BY Zenon, <2>2, <2>5, <2>6
<1>4. CASE PushStore(q)
  <2>1. /\ UNCHANGED <<head, tail, nsent, got, lhead>>
        /\ ppc'[q] = "publish"
        /\ \A i \in 0..N-1 : buf'[q][i] = IF i = tail[q] THEN nsent[q] + 1
                                          ELSE buf[q][i]
    BY Zenon, <1>4, <1>t DEF PushStore, TypeOK, SlotsOK
  <2>2. Held(q) <= N - 2
    BY <1>4, <1>d, SizeAssumption DEF PushStore, RingOK
  <2>3. Held(q)' = Held(q) /\ Dist(head[q], tail[q]) = Held(q)
    BY Zenon, <2>1 DEF Held
  <2>4. ASSUME NEW i \in 0..N-1, Dist(head[q], i) < Held(q)
        PROVE  buf'[q][i] = got[q] + 1 + Dist(head[q], i)
    <3>1. i # tail[q]
      BY <2>3, <2>4, <1>d
    <3> QED BY Zenon, <3>1, <2>1, <2>4 DEF RingOK
  <2> QED BY Zenon, <2>1, <2>2, <2>3, <2>4, <1>t DEF RingOK
<1>5. CASE PushPublish(q)
  <2>1. /\ UNCHANGED <<buf, head, got, lhead>>
        /\ tail'[q] = Succ(tail[q])
        /\ nsent'[q] = nsent[q] + 1
        /\ ppc'[q] = "kick"
    BY Zenon, <1>5, <1>t DEF PushPublish, TypeOK
  <2>2. Held(q)' = Held(q) + 1
    <3>1. Held(q) # N - 1
      BY <1>5, <1>d, SizeAssumption DEF PushPublish, RingOK
    <3>2. Held(q)' = Dist(head[q], Succ(tail[q]))
      BY Zenon, <2>1 DEF Held
    <3> QED BY Zenon, <3>1, <3>2, <1>d
  <2>3. ASSUME NEW i \in 0..N-1, Dist(head[q], i) < Held(q)'
        PROVE  buf[q][i] = got[q] + 1 + Dist(head[q], i)
    <3>1. CASE Dist(head[q], i) < Held(q)
      BY Zenon, <3>1, <2>3 DEF RingOK
    <3>2. CASE Dist(head[q], i) = Held(q)
      <4>1. i = tail[q]
        BY Zenon, <2>3, <3>2, <1>t, DistInjective DEF Held
      <4>2. buf[q][tail[q]] = nsent[q] + 1 /\ nsent[q] = got[q] + Held(q)
        BY Zenon, <1>5 DEF RingOK, PushPublish
      <4>3. \A a, b \in Int : a + b + 1 = a + 1 + b
        OBVIOUS
      <4> QED BY Zenon, <4>1, <4>2, <4>3, <3>2, <1>n
    <3>3. \A a, b \in Int : a < b + 1 => a < b \/ a = b
      OBVIOUS
    <3> QED BY Zenon, <3>1, <3>2, <3>3, <2>2, <2>3, <1>n
  <2>4. nsent'[q] = got[q] + Held(q)'
    BY <2>1, <2>2, <1>n
  <2> QED BY Zenon, <2>1, <2>3, <2>4 DEF RingOK
<1>6. CASE Kick(q) \/ KickWrite(q)
  BY Zenon, <1>6, <1>t DEF Kick, KickWrite, RingOK, Held, TypeOK, ringVars
<1>7. CASE PopAdvance /\ cur = q
  <2>1. /\ UNCHANGED <<buf, tail, nsent, lhead, ppc>>
        /\ head'[q] = Succ(head[q])
        /\ got'[q] = got[q] + 1
    BY Zenon, <1>7, <1>t DEF PopAdvance, IInv, PopInv, TypeOK, prodVars
  <2>2. head[q] # tail[q]
    BY Zenon, <1>7 DEF PopAdvance, IInv, PopInv, Empty
  <2>3. Held(q)' = Held(q) - 1
    BY Zenon, <2>1, <2>2, <1>d DEF Held
  <2>4. ASSUME NEW i \in 0..N-1, Dist(head'[q], i) < Held(q)'
        PROVE  buf[q][i] = got'[q] + 1 + Dist(head'[q], i)
    <3>1. head[q] # i
      <4>1. SUFFICES ASSUME head[q] = i PROVE FALSE
        BY Zenon
      <4>2. Dist(Succ(i), i) = N - 1
        BY <2>4, SuccDef, SizeAssumption DEF Dist
      <4> QED BY <4>1, <4>2, <2>1, <2>3, <2>4, <1>d, SizeAssumption
    <3>2. Dist(head'[q], i) = Dist(head[q], i) - 1
      <4>1. Dist(Succ(head[q]), i) = Dist(head[q], i) - 1
        BY Zenon, <2>4, <3>1, <1>t, DistFacts
      <4> QED BY Zenon, <4>1, <2>1
    <3>3. Dist(head[q], i) < Held(q)
      BY <3>2, <2>3, <2>4, <1>d, SizeAssumption
    <3>4. buf[q][i] = got[q] + 1 + Dist(head[q], i)
      BY Zenon, <2>4, <3>3 DEF RingOK
    <3> QED BY <2>4, <3>2, <3>4, <2>1, <1>n
  <2>5. nsent[q] = got'[q] + Held(q)'
    BY <2>1, <2>3, <1>n
  <2>6. ppc'[q] = "loaded" => Held(q)' <= Dist(lhead'[q], tail'[q])
    BY <2>1, <2>3, <1>n, <1>d, SizeAssumption DEF RingOK
  <2>7. ppc'[q] = "publish" => /\ Held(q)' <= N - 2
                              /\ buf'[q][tail'[q]] = nsent'[q] + 1
    BY <2>1, <2>3, <1>n, <1>d, SizeAssumption DEF RingOK
  <2> QED BY Zenon, <2>1, <2>4, <2>5, <2>6, <2>7 DEF RingOK
<1>8. CASE \E r \in Rings : Producer(r)
  <2> PICK r \in Rings : Producer(r) BY Zenon, <1>8
  <2>1. CASE r = q
    BY Zenon, <2>1, <1>2, <1>3, <1>4, <1>5, <1>6 DEF Producer, Pushing
  <2>2. CASE r # q
    BY Zenon, <2>2, <1>1, <1>t DEF Producer, Pushing, PushLoad, PushFull, PushStore,
       PushPublish, Kick, KickWrite, RingView, TypeOK, SlotsOK, ringVars
  <2> QED BY Zenon, <2>1, <2>2
<1>9. CASE Worker
  <2>1. CASE PopAdvance /\ cur # q
    BY Zenon, <2>1, <1>1, <1>t DEF PopAdvance, RingView, TypeOK, prodVars
  <2> QED BY Zenon, <2>1, <1>1, <1>7, <1>9 DEF Worker, Loop, PollTimeout, PollReady,
     DrainPipe, Rearm, PopLoad, PopRead, CheckRing, SelfKick, SelfKickWrite,
     RingView, ringVars, prodVars
<1>10. CASE Stopper
  BY Zenon, <1>1, <1>10 DEF Stopper, StopBegin, StopWorker, StopKick, StopKickWrite,
     StopProducer, RingView, ringVars, prodVars
<1>11. CASE UNCHANGED vars
  BY Zenon, <1>1, <1>11 DEF vars, RingView, ringVars, prodVars
<1> QED BY Zenon, <1>8, <1>9, <1>10, <1>11 DEF Next

LEMMA StepPopInv == IInv /\ [Next]_vars => PopInv'
<1> SUFFICES ASSUME IInv, [Next]_vars PROVE PopInv'
  BY Zenon
<1>t. /\ TypeOK /\ PopInv /\ cur \in Rings /\ RingOK(cur)
      /\ head[cur] \in 0..N-1 /\ tail[cur] \in 0..N-1
      /\ got[cur] \in Nat
  BY Zenon DEF IInv, TypeOK, RingInv
<1>1. CASE PopRead
  <2>1. head[cur] # tail[cur]
    BY Zenon, <1>1, <1>t DEF PopRead, PopInv, Empty
  <2>2. Dist(head[cur], head[cur]) = 0
    BY <1>t, DistFacts
  <2>3. Held(cur) \in 0..N-1 /\ Held(cur) # 0
    BY Zenon, <2>1, <1>t, DistFacts DEF Held
  <2>4. buf[cur][head[cur]] = got[cur] + 1
    BY <2>2, <2>3, <1>t, SizeAssumption DEF RingOK
  <2> QED BY Zenon, <1>1, <2>1, <2>4 DEF PopRead, PopInv, Empty, ringVars
<1>2. CASE \E r \in Rings : Producer(r)
  <2> PICK r \in Rings : Producer(r) BY Zenon, <1>2
  <2>1. UNCHANGED <<wpc, cur, item, head, got>>
    BY Zenon DEF Producer, Pushing, PushLoad, PushFull, PushStore, PushPublish,
       Kick, KickWrite, ringVars, workVars
  <2>2. CASE PushPublish(r) /\ r = cur
    <3>1. Held(cur) \in 0..N-1 /\ Held(cur) # N - 1
      <4>1. Held(cur) <= N - 2
        BY Zenon, <2>2, <1>t DEF PushPublish, RingOK
      <4>2. Held(cur) \in 0..N-1
        BY Zenon, <1>t, DistFacts DEF Held
      <4> QED BY <4>1, <4>2, SizeAssumption
    <3>2. Succ(tail[cur]) # head[cur]
      BY Zenon, <3>1, <1>t, NotFull DEF Held
    <3>3. tail'[cur] = Succ(tail[cur])
      BY Zenon, <2>2, <1>t DEF PushPublish, TypeOK
    <3> QED BY Zenon, <2>1, <3>2, <3>3, <1>t DEF PopInv, Empty
  <2>3. CASE ~(PushPublish(r) /\ r = cur)
    <3>1. tail'[cur] = tail[cur]
      BY Zenon, <2>3, <1>t DEF Producer, Pushing, PushLoad, PushFull, PushStore,
         PushPublish, Kick, KickWrite, ringVars, TypeOK
    <3> QED BY Zenon, <2>1, <3>1, <1>t DEF PopInv, Empty
  <2> QED BY Zenon, <2>2, <2>3
<1>3. CASE Worker /\ ~PopRead
  BY Zenon, <1>3, <1>t DEF Worker, Loop, PollTimeout, PollReady, DrainPipe, Rearm,
     PopLoad, NextRing, PopAdvance, CheckRing, SelfKick, SelfKickWrite,
     PopInv, Empty, ringVars
<1>4. CASE Stopper
  BY Zenon, <1>4, <1>t DEF Stopper, StopBegin, StopWorker, StopKick, StopKickWrite,
     StopProducer, PopInv, Empty, ringVars, workVars
<1>5. CASE UNCHANGED vars
  BY Zenon, <1>5, <1>t DEF vars, PopInv, Empty, ringVars, workVars
<1> QED BY Zenon, <1>1, <1>2, <1>3, <1>4, <1>5 DEF Next

-----------------------------------------------------------------------------
(* The wakeup protocol.                                                    *)

LEMMA StepWakeInv == IInv /\ [Next]_vars => WakeInv'
<1> SUFFICES ASSUME IInv, [Next]_vars PROVE WakeInv'
  BY Zenon
<1>t. /\ TypeOK /\ WakeInv /\ pipe \in Int /\ kick_pending \in 0..1
      /\ cur \in Int
  BY PipeAssumption, RingsAssumption DEF IInv, TypeOK, Rings
<1>p. PipeWrite => pipe' > 0
  BY PipeAssumption DEF PipeWrite, IInv, TypeOK
<1>1. CASE \E r \in Rings : Producer(r)
  <2> PICK r \in Rings : Producer(r) BY Zenon, <1>1
  <2>f. UNCHANGED <<wpc, cur, spc, head>>
    BY Zenon DEF Producer, Pushing, PushLoad, PushFull, PushStore, PushPublish,
       Kick, KickWrite, ringVars, workVars
  <2>1. CASE PushLoad(r) \/ PushFull(r) \/ PushStore(r)
    BY <2>f, <2>1, <1>t DEF PushLoad, PushFull, PushStore, WakeInv, Empty,
       TypeOK, ringVars
  <2>2. CASE PushPublish(r)
    BY Zenon, <2>f, <2>2, <1>t DEF PushPublish, WakeInv, Empty, TypeOK
  <2>3. CASE Kick(r)
    BY <2>f, <2>3, <1>t DEF Kick, WakeInv, Empty, TypeOK, ringVars
  <2>4. CASE KickWrite(r)
    BY Zenon, <2>f, <2>4, <1>t, <1>p DEF KickWrite, WakeInv, Empty, TypeOK, ringVars
  <2> QED BY Zenon, <2>1, <2>2, <2>3, <2>4 DEF Producer, Pushing
<1>2. CASE Worker
  <2>f. UNCHANGED <<ppc, spc, tail>>
    BY Zenon, <1>2 DEF Worker, Loop, PollTimeout, PollReady, DrainPipe, Rearm,
       PopLoad, PopRead, PopAdvance, CheckRing, SelfKick, SelfKickWrite,
       ringVars, prodVars
  <2>1. CASE Loop \/ PollTimeout \/ PollReady
    BY Zenon, <2>1, <2>f, <1>t DEF Loop, PollTimeout, PollReady, WakeInv, Empty,
       ringVars
  <2>2. CASE DrainPipe \/ Rearm
    <3>1. CASE DrainPipe
      BY Zenon, <3>1, <2>f DEF DrainPipe, WakeInv
    <3>2. CASE Rearm
      BY <3>2, <2>f DEF Rearm, WakeInv
    <3> QED BY Zenon, <2>2, <3>1, <3>2
  <2>3. CASE PopLoad
    BY <2>3, <2>f, <1>t, RingsAssumption DEF PopLoad, NextRing, WakeInv,
       Empty, ringVars, Rings
  <2>4. CASE PopRead \/ PopAdvance
    BY Zenon, <2>4, <2>f, <1>t DEF PopRead, PopAdvance, WakeInv
  <2>5. CASE CheckRing
    BY <2>5, <2>f, <1>t, RingsAssumption DEF CheckRing, WakeInv, Empty,
       ringVars, Rings
  <2>6. CASE SelfKick
    BY <2>6, <2>f, <1>t DEF SelfKick, WakeInv, Empty, ringVars
  <2>7. CASE SelfKickWrite
    BY Zenon, <2>7, <2>f, <1>t, <1>p DEF SelfKickWrite, WakeInv, Empty, ringVars
  <2> QED BY Zenon, <1>2, <2>1, <2>2, <2>3, <2>4, <2>5, <2>6, <2>7 DEF Worker
<1>3. CASE Stopper
  <2>f. UNCHANGED <<ppc, wpc, cur, head, tail>>
    BY Zenon, <1>3 DEF Stopper, StopBegin, StopWorker, StopKick, StopKickWrite,
       StopProducer, ringVars, prodVars, workVars
  <2>1. CASE StopKick
    BY <2>1, <2>f, <1>t DEF StopKick, WakeInv, Empty
  <2>2. CASE StopKickWrite
    BY Zenon, <2>2, <2>f, <1>t, <1>p DEF StopKickWrite, WakeInv, Empty
  <2>3. CASE StopBegin \/ StopWorker \/ \E r \in Rings : StopProducer(r)
    BY Zenon, <2>3, <2>f, <1>t DEF StopBegin, StopWorker, StopProducer, WakeInv, Empty
  <2> QED BY Zenon, <1>3, <2>1, <2>2, <2>3 DEF Stopper
<1>4. CASE UNCHANGED vars
  BY Zenon, <1>4, <1>t DEF vars, WakeInv, Empty, ringVars, workVars, prodVars
<1> QED BY Zenon, <1>1, <1>2, <1>3, <1>4 DEF Next

-----------------------------------------------------------------------------
(* The theorems.                                                           *)

LEMMA Inductive == Spec => []IInv
<1>1. IInv /\ [Next]_vars => IInv'
  BY Zenon, StepTypeOK, StepRingInv, StepPopInv, StepWakeInv DEF IInv
<1> QED BY InitIInv, <1>1, PTL DEF Spec

(* The rings, the wakeup latch and the shutdown keep their types: an index *)
(* of mt_spsc.h never leaves the buffer.                                   *)
THEOREM TypeCorrect == Spec => []TypeOK
<1>1. IInv => TypeOK
  BY Zenon DEF IInv
<1> QED BY Inductive, <1>1, PTL

(* For rings of every size: mt_spsc_push never writes a slot mt_spsc_pop   *)
(* has yet to read, however stale its copy of head is.                     *)
THEOREM NoOverwrite == Spec => []PushNeverOverwrites
<1>1. IInv => PushNeverOverwrites
  <2> SUFFICES ASSUME IInv, NEW r \in Rings, ppc[r] = "loaded", ~Full(r)
               PROVE  /\ Succ(tail[r]) # head[r]
                      /\ ~(wpc = "read" /\ cur = r /\ head[r] = tail[r])
    BY Zenon DEF PushNeverOverwrites
  <2>1. /\ head[r] \in 0..N-1 /\ tail[r] \in 0..N-1 /\ lhead[r] \in 0..N-1
        /\ RingOK(r)
    BY Zenon DEF IInv, TypeOK, RingInv
  <2>2. /\ Held(r) \in 0..N-1 /\ Dist(lhead[r], tail[r]) \in 0..N-1
        /\ Dist(lhead[r], tail[r]) # N - 1
        /\ Held(r) <= Dist(lhead[r], tail[r])
    BY Zenon, <2>1, DistFacts DEF Full, Held, RingOK
  <2>3. Held(r) # N - 1
    BY <2>2, SizeAssumption
  <2>4. Succ(tail[r]) # head[r]
    BY Zenon, <2>1, <2>3, NotFull DEF Held
  <2> QED BY Zenon, <2>4 DEF IInv, PopInv, Empty
<1> QED BY Inductive, <1>1, PTL

(* Every ring is an exactly-once FIFO: mt_spsc_pop returns the successor   *)
(* of the pointer it returned before.                                      *)
THEOREM ExactlyOnce == Spec => []FifoExactlyOnce
<1>1. IInv => FifoExactlyOnce
  BY Zenon DEF IInv, PopInv, FifoExactlyOnce
<1> QED BY Inductive, <1>1, PTL

(* For every number of rings and producers: a worker that sleeps on an     *)
(* empty pipe over a nonempty ring is about to be kicked.                  *)
THEOREM WakeupNeverLost == Spec => []NoLostWakeup
<1>1. IInv => NoLostWakeup
  <2> SUFFICES ASSUME IInv, wpc = "poll", pipe = 0,
                      NEW r \in Rings, ~Empty(r)
               PROVE  \/ \E q \in Rings : ppc[q] \in {"kick", "write"}
                      \/ spc = "write"
    BY Zenon DEF NoLostWakeup
  <2>1. ppc[r] = "kick" \/ kick_pending = 1
    BY Zenon DEF IInv, WakeInv
  <2> QED BY <2>1 DEF IInv, WakeInv
<1> QED BY Inductive, <1>1, PTL

-----------------------------------------------------------------------------
(* The refinement.  What a ring holds is got+1 .. nsent, so a step changes *)
(* the queue only when it publishes a push or takes a pointer.             *)

LEMMA SlotFacts ==
  ASSUME TypeOK, NEW r \in Rings, NEW k \in 0..N-1
  PROVE  Slot(r, k) \in 0..N-1 /\ Dist(head[r], Slot(r, k)) = k
<1>1. head[r] \in 0..N-1
  BY Zenon DEF TypeOK
<1> QED BY <1>1, SizeAssumption DEF Slot, Dist

\* the pointers a+1 .. b
Numbers(a, b) == [k \in 1..(b - a) |-> a + k]

LEMMA ContentsAre ==
  ASSUME IInv, NEW r \in Rings
  PROVE  /\ Contents(r) = Numbers(got[r], nsent[r])
         /\ got[r] \in Nat /\ nsent[r] \in Nat /\ got[r] <= nsent[r]
<1>1. /\ TypeOK /\ RingOK(r) /\ got[r] \in Nat /\ nsent[r] \in Nat
      /\ head[r] \in 0..N-1 /\ tail[r] \in 0..N-1
  BY Zenon DEF IInv, TypeOK, RingInv
<1>2. Held(r) \in 0..N-1 /\ nsent[r] - got[r] = Held(r)
  <2>1. Held(r) \in 0..N-1
    BY Zenon, <1>1, DistFacts DEF Held
  <2>2. nsent[r] = got[r] + Held(r)
    BY Zenon, <1>1 DEF RingOK
  <2> QED BY <2>1, <2>2, <1>1, SizeAssumption
<1>3. ASSUME NEW k \in 1..Held(r)
      PROVE  buf[r][Slot(r, k - 1)] = got[r] + k
  <2>1. k - 1 \in 0..N-1 /\ k - 1 < Held(r)
    BY <1>2, <1>3, SizeAssumption
  <2>2. Slot(r, k - 1) \in 0..N-1 /\ Dist(head[r], Slot(r, k - 1)) = k - 1
    BY Zenon, <2>1, <1>1, SlotFacts
  <2>3. buf[r][Slot(r, k - 1)] = got[r] + 1 + (k - 1)
    BY Zenon, <2>1, <2>2, <1>1 DEF RingOK
  <2> QED BY <2>3, <1>1, <1>2, SizeAssumption
<1>4. Contents(r) = [k \in 1..Held(r) |-> got[r] + k]
  BY Zenon, <1>3 DEF Contents
<1>5. got[r] <= nsent[r]
  BY <1>1, <1>2, SizeAssumption
<1> QED BY Zenon, <1>1, <1>2, <1>4, <1>5 DEF Numbers

LEMMA NumbersPush ==
  ASSUME NEW a \in Nat, NEW b \in Nat, a <= b
  PROVE  Numbers(a, b + 1) = Append(Numbers(a, b), b + 1)
BY DEF Numbers

LEMMA NumbersPop ==
  ASSUME NEW a \in Nat, NEW b \in Nat, a < b
  PROVE  /\ Numbers(a, b) # <<>>
         /\ Head(Numbers(a, b)) = a + 1
         /\ Tail(Numbers(a, b)) = Numbers(a + 1, b)
<1> DEFINE s == Numbers(a, b)
<1>1. /\ s \in Seq(Nat) /\ Len(s) = b - a
      /\ \A k \in 1..(b - a) : s[k] = a + k
  BY DEF Numbers
<1>2. s # <<>> /\ Head(s) = a + 1
  BY <1>1
<1>3. /\ Tail(s) \in Seq(Nat) /\ Len(Tail(s)) = b - (a + 1)
      /\ \A k \in 1..(b - (a + 1)) : Tail(s)[k] = s[k + 1]
  BY <1>1, <1>2
<1>4. \A k \in 1..(b - (a + 1)) : Tail(s)[k] = a + 1 + k
  BY <1>1, <1>3
<1> DEFINE t == Numbers(a + 1, b)
<1>5. /\ t \in Seq(Nat) /\ Len(t) = b - (a + 1)
      /\ \A k \in 1..(b - (a + 1)) : t[k] = a + 1 + k
  BY DEF Numbers
<1> HIDE DEF s, t
<1>6. Tail(s) = t
  BY Zenon, <1>3, <1>4, <1>5, SeqEqual
<1> QED BY Zenon, <1>2, <1>6 DEF s, t

Queues == [r \in Rings |-> Numbers(got[r], nsent[r])]

QueuesInv ==
  /\ [r \in Rings |-> Contents(r)] = Queues
  /\ got \in [Rings -> Nat] /\ nsent \in [Rings -> Nat]
  /\ \A r \in Rings : got[r] <= nsent[r]

LEMMA QueuesHold == IInv => QueuesInv
BY Zenon, ContentsAre DEF QueuesInv, Queues, IInv, TypeOK

(* The ring of mt_spsc.h, with a producer that works on an old head and    *)
(* accesses that are split into steps, implements the queue MtQueue: for   *)
(* every ring size and any number of rings.                                *)
THEOREM RingIsQueue == Spec => ImplementsFifo
<1>1. Init => Fifo!Init
  <2> SUFFICES ASSUME Init PROVE Fifo!Init
    BY Zenon
  <2>1. ASSUME NEW r \in Rings PROVE Contents(r) = <<>>
    <3>1. got[r] = 0 /\ nsent[r] = 0
      BY Zenon DEF Init
    <3>2. Contents(r) = Numbers(0, 0)
      BY Zenon, <3>1, InitIInv, ContentsAre
    <3> QED BY <3>2 DEF Numbers
  <2> QED BY Zenon, <2>1 DEF Init, Fifo!Init
<1>2. IInv /\ QueuesInv /\ QueuesInv' /\ [Next]_vars
        => [Fifo!Next]_(Fifo!vars)
  <2> SUFFICES ASSUME IInv, QueuesInv, QueuesInv', [Next]_vars
               PROVE  [Fifo!Next]_(Fifo!vars)
    BY Zenon
  <2>q. /\ [r \in Rings |-> Contents(r)] = Queues
        /\ [r \in Rings |-> Contents(r)]' = Queues'
    BY Zenon DEF QueuesInv
  <2>t. /\ got \in [Rings -> Nat] /\ nsent \in [Rings -> Nat]
        /\ \A r \in Rings : got[r] <= nsent[r]
    BY Zenon DEF QueuesInv
  <2>1. ASSUME NEW r \in Rings, PushPublish(r) PROVE Fifo!Push(r)
    <3>1. nsent' = [nsent EXCEPT ![r] = @ + 1] /\ UNCHANGED got
      BY Zenon, <2>1 DEF PushPublish
    <3>2. Queues' = [Queues EXCEPT ![r] = Append(@, nsent[r] + 1)]
      BY Zenon, <3>1, <2>t, NumbersPush DEF Queues
    <3> QED BY Zenon, <3>1, <3>2, <2>q DEF Fifo!Push
  <2>2. ASSUME PopAdvance PROVE cur \in Rings /\ Fifo!Pop(cur)
    <3>1. /\ got' = [got EXCEPT ![cur] = item] /\ UNCHANGED nsent
          /\ item = got[cur] + 1 /\ cur \in Rings
      BY Zenon, <2>2 DEF PopAdvance, IInv, PopInv, TypeOK
    <3>2. got[cur] < nsent[cur]
      <4>1. got'[cur] <= nsent'[cur]
        BY Zenon, <3>1 DEF QueuesInv
      <4> QED BY <4>1, <3>1, <2>t
    <3>3. Queues[cur] = Numbers(got[cur], nsent[cur])
      BY Zenon, <3>1 DEF Queues
    <3>4. /\ Queues[cur] # <<>> /\ Head(Queues[cur]) = item
          /\ Tail(Queues[cur]) = Numbers(item, nsent[cur])
      BY <3>1, <3>2, <3>3, <2>t, NumbersPop
    <3>5. Queues' = [Queues EXCEPT ![cur] = Numbers(item, nsent[cur])]
      BY Zenon, <3>1, <2>t DEF Queues
    <3> QED BY Zenon, <3>1, <3>4, <3>5, <2>q DEF Fifo!Pop
  <2>3. CASE UNCHANGED <<got, nsent>>
    <3>1. Queues' = Queues
      BY Zenon, <2>3 DEF Queues
    <3> QED BY Zenon, <2>3, <3>1, <2>q DEF Fifo!vars
  <2>4. ASSUME NEW r \in Rings, Producer(r), ~PushPublish(r)
        PROVE  UNCHANGED <<got, nsent>>
    BY Zenon, <2>4 DEF Producer, Pushing, PushLoad, PushFull, PushStore, Kick, KickWrite
  <2>5. ASSUME Worker, ~PopAdvance PROVE UNCHANGED <<got, nsent>>
    BY Zenon, <2>5 DEF Worker, Loop, PollTimeout, PollReady, DrainPipe, Rearm,
       PopLoad, PopRead, CheckRing, SelfKick, SelfKickWrite
  <2>6. ASSUME Stopper PROVE UNCHANGED <<got, nsent>>
    BY Zenon, <2>6 DEF Stopper, StopBegin, StopWorker, StopKick, StopKickWrite,
       StopProducer
  <2> QED BY Zenon, <2>1, <2>2, <2>3, <2>4, <2>5, <2>6 DEF Next, vars, Fifo!Next
<1> QED BY <1>1, <1>2, Inductive, QueuesHold, PTL DEF Spec, ImplementsFifo, Fifo!Spec
=============================================================================
