------------------------------- MODULE MtRing -------------------------------
(***************************************************************************)
(* One worker of the thread-per-core server, the rings that feed it and    *)
(* the wakeup that tells it to look at them.                               *)
(*                                                                         *)
(* Sources: src/server/mt_spsc.h (ring), mt_kick / mt_push_task /          *)
(* worker_on_wakeup / worker_main / mt_server_stop of                      *)
(* src/server/mt_server.c, src/pal/pal_wakeup.c (self pipe).               *)
(*                                                                         *)
(* Ring r has one producer thread, process r; the worker is the only       *)
(* consumer of every ring.  A process step is one access to shared memory  *)
(* (an atomic load, store or exchange, a slot read or write, a pipe call). *)
(* The i-th pointer pushed into a ring is represented by the number i.     *)
(***************************************************************************)
EXTENDS Integers, Sequences

CONSTANTS
  NRings,      \* rings 1..NRings, drained in this order by worker_on_wakeup
  Bounded,     \* rings drained at most DRAIN_MAX items a time (inbox,
               \* completions); the others (accepts, migrate) until empty
  N,           \* slots of a ring: mask + 1
  DRAIN_MAX,   \* MT_DRAIN_MAX
  MaxPush,     \* bound: MaxPush[r] pointers are pushed into ring r
  PipeCap      \* bytes the self pipe holds

Rings == 1..NRings

ASSUME SizeAssumption == N \in Nat /\ N >= 2
ASSUME RingsAssumption == NRings \in Nat /\ NRings >= 1
ASSUME PipeAssumption == PipeCap \in Nat /\ PipeCap >= 1
ASSUME BoundAssumption == /\ Bounded \subseteq Rings
                          /\ DRAIN_MAX \in Nat /\ DRAIN_MAX >= 1
                          /\ MaxPush \in [Rings -> Nat]

VARIABLES
  buf,          \* buf[r][i]: slot i of ring r (0: never written)
  head, tail,   \* ring indices
  ppc,          \* producer program counter
  lhead,        \* producer's loaded (possibly stale) copy of head
  prunning,     \* prunning[r]: `running` of the worker that produces r
  kick_pending, \* the worker's kick latch
  pipe,         \* unread bytes in the self pipe
  wpc,          \* worker program counter
  cur,          \* ring being drained or checked
  n,            \* items popped from cur in this drain
  item,         \* the pointer mt_spsc_pop read
  running,      \* `running` of this worker
  spc,          \* mt_server_stop program counter
  nsent,        \* pushes published, per ring
  got           \* got[r]: the pointer last popped from ring r (0: none)

ringVars == <<buf, head, tail>>
prodVars == <<ppc, lhead, prunning>>
workVars == <<wpc, cur, n, item>>
vars == <<ringVars, prodVars, kick_pending, pipe, workVars, running, spc,
          nsent, got>>

\* (i + 1) & mask
Succ(i) == (i + 1) % N

Empty(r) == head[r] = tail[r]

\* number of slots from index a up to index b
Dist(a, b) == IF b >= a THEN b - a ELSE b - a + N

ProducerPC == {"idle", "loaded", "publish", "kick", "write"}
WorkerPC == {"loop", "poll", "drain", "rearm", "pop", "read", "advance",
             "check", "rekick", "rewrite", "exited"}
StopPC == {"run", "stopping", "kick", "write", "done"}

Init ==
  /\ buf = [r \in Rings |-> [i \in 0..N-1 |-> 0]]
  /\ head = [r \in Rings |-> 0]
  /\ tail = [r \in Rings |-> 0]
  /\ ppc = [r \in Rings |-> "idle"]
  /\ lhead = [r \in Rings |-> 0]
  /\ prunning = [r \in Rings |-> 1]
  /\ kick_pending = 0
  /\ pipe = 0
  /\ wpc = "loop"
  /\ cur = 1
  /\ n = 0
  /\ item = 0
  /\ running = 1
  /\ spc = "run"
  /\ nsent = [r \in Rings |-> 0]
  /\ got = [r \in Rings |-> 0]

-----------------------------------------------------------------------------
(* Producer r: mt_push_task = mt_spsc_push in a retry loop, then mt_kick.  *)

\* A full nonblocking pipe already holds a byte: the kick is then a no-op.
PipeWrite == pipe' = IF pipe < PipeCap THEN pipe + 1 ELSE pipe

\* mt_spsc_push: load own tail, load head (acquire)
PushLoad(r) ==
  /\ ppc[r] = "idle"
  /\ nsent[r] < MaxPush[r]
  /\ prunning[r] = 1
  /\ lhead' = [lhead EXCEPT ![r] = head[r]]
  /\ ppc' = [ppc EXCEPT ![r] = "loaded"]
  /\ UNCHANGED <<ringVars, prunning, kick_pending, pipe, workVars, running,
                 spc, nsent, got>>

\* next == head, by the producer's copy of head
FullNever(r) == FALSE
Full(r) == Succ(tail[r]) = lhead[r]

PushFullSpins(r) ==
  /\ ppc[r] = "loaded"
  /\ Full(r)
  /\ lhead' = [lhead EXCEPT ![r] = head[r]]
  /\ UNCHANGED <<ringVars, ppc, prunning, kick_pending, pipe, workVars,
                 running, spc, nsent, got>>

\* full: mt_push_task drains its own queues and retries, or
\* drops the task once its own worker is told to stop.
PushFull(r) ==
  /\ ppc[r] = "loaded"
  /\ Full(r)
  /\ \/ /\ prunning[r] = 1
        /\ lhead' = [lhead EXCEPT ![r] = head[r]]
        /\ UNCHANGED ppc
     \/ /\ prunning[r] = 0
        /\ ppc' = [ppc EXCEPT ![r] = "idle"]
        /\ UNCHANGED lhead
  /\ UNCHANGED <<ringVars, prunning, kick_pending, pipe, workVars, running,
                 spc, nsent, got>>

\* buf[tail] = ptr
PushStore(r) ==
  /\ ppc[r] = "loaded"
  /\ ~Full(r)
  /\ buf' = [buf EXCEPT ![r][tail[r]] = nsent[r] + 1]
  /\ ppc' = [ppc EXCEPT ![r] = "publish"]
  /\ UNCHANGED <<head, tail, lhead, prunning, kick_pending, pipe, workVars,
                 running, spc, nsent, got>>

\* kick only when the push found the ring empty
PushPublishKickIfEmpty(r) ==
  /\ ppc[r] = "publish"
  /\ tail' = [tail EXCEPT ![r] = Succ(tail[r])]
  /\ nsent' = [nsent EXCEPT ![r] = @ + 1]
  /\ ppc' = [ppc EXCEPT ![r] = IF tail[r] = lhead[r] THEN "kick" ELSE "idle"]
  /\ UNCHANGED <<buf, head, lhead, prunning, kick_pending, pipe, workVars,
                 running, spc, got>>

\* store tail (release); mt_push_task kicks whatever was_empty says
PushPublish(r) ==
  /\ ppc[r] = "publish"
  /\ tail' = [tail EXCEPT ![r] = Succ(tail[r])]
  /\ nsent' = [nsent EXCEPT ![r] = @ + 1]
  /\ ppc' = [ppc EXCEPT ![r] = "kick"]
  /\ UNCHANGED <<buf, head, lhead, prunning, kick_pending, pipe, workVars,
                 running, spc, got>>

\* mt_kick: exchange the latch, write a byte only when it was clear
Kick(r) ==
  /\ ppc[r] = "kick"
  /\ kick_pending' = 1
  /\ ppc' = [ppc EXCEPT ![r] = IF kick_pending # 0 THEN "idle" ELSE "write"]
  /\ UNCHANGED <<ringVars, lhead, prunning, pipe, workVars, running, spc,
                 nsent, got>>

\* pal_wakeup_kick
KickWrite(r) ==
  /\ ppc[r] = "write"
  /\ PipeWrite
  /\ ppc' = [ppc EXCEPT ![r] = "idle"]
  /\ UNCHANGED <<ringVars, lhead, prunning, kick_pending, workVars, running,
                 spc, nsent, got>>

-----------------------------------------------------------------------------
(* The worker: worker_main and worker_on_wakeup.                           *)

\* while (running) server_run_once(srv, 50)
Loop ==
  /\ wpc = "loop"
  /\ wpc' = IF running = 1 THEN "poll" ELSE "exited"
  /\ UNCHANGED <<ringVars, prodVars, kick_pending, pipe, cur, n, item,
                 running, spc, nsent, got>>

\* pal_loop_wait times out after 50 ms: no callback runs
PollTimeout ==
  /\ wpc = "poll"
  /\ pipe = 0
  /\ wpc' = "loop"
  /\ UNCHANGED <<ringVars, prodVars, kick_pending, pipe, cur, n, item,
                 running, spc, nsent, got>>

\* the wakeup fd is readable
PollReady ==
  /\ wpc = "poll"
  /\ pipe > 0
  /\ wpc' = "drain"
  /\ UNCHANGED <<ringVars, prodVars, kick_pending, pipe, cur, n, item,
                 running, spc, nsent, got>>

\* pal_wakeup_drain
DrainPipe ==
  /\ wpc = "drain"
  /\ pipe' = 0
  /\ wpc' = "rearm"
  /\ UNCHANGED <<ringVars, prodVars, kick_pending, cur, n, item,
                 running, spc, nsent, got>>

\* exchange(kick_pending, 0), then start with the first ring
Rearm ==
  /\ wpc = "rearm"
  /\ kick_pending' = 0
  /\ wpc' = "pop"
  /\ cur' = 1
  /\ n' = 0
  /\ UNCHANGED <<ringVars, prodVars, pipe, item, running, spc, nsent,
                 got>>

\* leave ring cur: the next ring, or the leftover check after the last one
NextRing ==
  IF cur < NRings THEN /\ cur' = cur + 1 /\ wpc' = "pop"
                  ELSE /\ cur' = 1 /\ wpc' = "check"

\* mt_spsc_pop: load own head, load tail (acquire); NULL when they are equal.
\* A bounded ring is also left after DRAIN_MAX items.
PopLoad ==
  /\ wpc = "pop"
  /\ IF \/ cur \in Bounded /\ n >= DRAIN_MAX
        \/ head[cur] = tail[cur]
       THEN NextRing /\ n' = 0
       ELSE wpc' = "read" /\ UNCHANGED <<cur, n>>
  /\ UNCHANGED <<ringVars, prodVars, kick_pending, pipe, item, running, spc,
                 nsent, got>>

\* ptr = buf[head]
PopRead ==
  /\ wpc = "read"
  /\ item' = buf[cur][head[cur]]
  /\ wpc' = "advance"
  /\ UNCHANGED <<ringVars, prodVars, kick_pending, pipe, cur, n,
                 running, spc, nsent, got>>

\* store head (release); the item is then adopted, executed or delivered
PopAdvance ==
  /\ wpc = "advance"
  /\ head' = [head EXCEPT ![cur] = Succ(head[cur])]
  /\ got' = [got EXCEPT ![cur] = item]
  /\ n' = IF cur \in Bounded THEN n + 1 ELSE n
  /\ wpc' = "pop"
  /\ UNCHANGED <<buf, tail, prodVars, kick_pending, pipe, cur, item,
                 running, spc, nsent>>

CheckRingNoRekick ==
  /\ wpc = "check"
  /\ wpc' = "loop"
  /\ UNCHANGED <<ringVars, prodVars, kick_pending, pipe, cur, n, item,
                 running, spc, nsent, got>>

\* leftover check, ring by ring: kick ourselves for the first nonempty one
CheckRing ==
  /\ wpc = "check"
  /\ IF ~Empty(cur) THEN wpc' = "rekick" /\ UNCHANGED cur
     ELSE IF cur < NRings THEN cur' = cur + 1 /\ UNCHANGED wpc
     ELSE wpc' = "loop" /\ UNCHANGED cur
  /\ UNCHANGED <<ringVars, prodVars, kick_pending, pipe, n, item,
                 running, spc, nsent, got>>

\* mt_kick(w) from the worker itself
SelfKick ==
  /\ wpc = "rekick"
  /\ kick_pending' = 1
  /\ wpc' = IF kick_pending # 0 THEN "loop" ELSE "rewrite"
  /\ UNCHANGED <<ringVars, prodVars, pipe, cur, n, item, running, spc,
                 nsent, got>>

SelfKickWrite ==
  /\ wpc = "rewrite"
  /\ PipeWrite
  /\ wpc' = "loop"
  /\ UNCHANGED <<ringVars, prodVars, kick_pending, cur, n, item,
                 running, spc, nsent, got>>

-----------------------------------------------------------------------------
(* mt_server_stop: clear `running` of every worker, kicking each.          *)

StopBegin ==
  /\ spc = "run"
  /\ spc' = "stopping"
  /\ UNCHANGED <<ringVars, prodVars, kick_pending, pipe, workVars, running,
                 nsent, got>>

\* another worker, the producer of ring r, is told to stop
StopProducer(r) ==
  /\ spc # "run"
  /\ prunning[r] = 1
  /\ prunning' = [prunning EXCEPT ![r] = 0]
  /\ UNCHANGED <<ringVars, ppc, lhead, kick_pending, pipe, workVars, running,
                 spc, nsent, got>>

StopWorker ==
  /\ spc = "stopping"
  /\ running' = 0
  /\ spc' = "kick"
  /\ UNCHANGED <<ringVars, prodVars, kick_pending, pipe, workVars, nsent,
                 got>>

StopKick ==
  /\ spc = "kick"
  /\ kick_pending' = 1
  /\ spc' = IF kick_pending # 0 THEN "done" ELSE "write"
  /\ UNCHANGED <<ringVars, prodVars, pipe, workVars, running, nsent, got>>

StopKickWrite ==
  /\ spc = "write"
  /\ PipeWrite
  /\ spc' = "done"
  /\ UNCHANGED <<ringVars, prodVars, kick_pending, workVars, running, nsent,
                 got>>

-----------------------------------------------------------------------------
\* a push that has begun
Pushing(r) == \/ PushFull(r) \/ PushStore(r) \/ PushPublish(r)
              \/ Kick(r) \/ KickWrite(r)

Producer(r) == PushLoad(r) \/ Pushing(r)

Worker == \/ Loop \/ PollTimeout \/ PollReady \/ DrainPipe \/ Rearm
          \/ PopLoad \/ PopRead \/ PopAdvance \/ CheckRing
          \/ SelfKick \/ SelfKickWrite

Stopper == \/ StopBegin \/ StopWorker \/ StopKick \/ StopKickWrite
           \/ \E r \in Rings : StopProducer(r)

Next == Worker \/ Stopper \/ \E r \in Rings : Producer(r)

\* The OS schedules every thread, so a thread that can take a step takes
\* one.  Nobody is obliged to begin a push or to call mt_server_stop, but
\* both run to their end once begun.
Fairness ==
  /\ WF_vars(Worker)
  /\ \A r \in Rings : WF_vars(Pushing(r))
  /\ WF_vars(StopWorker \/ StopKick \/ StopKickWrite)
  /\ \A r \in Rings : WF_vars(StopProducer(r))

Spec == Init /\ [][Next]_vars
FairSpec == Spec /\ Fairness
-----------------------------------------------------------------------------
(* Properties.                                                             *)

SlotsOK == buf \in [Rings -> [0..N-1 -> Nat]]

TypeOK ==
  /\ SlotsOK
  /\ head \in [Rings -> 0..N-1]
  /\ tail \in [Rings -> 0..N-1]
  /\ ppc \in [Rings -> ProducerPC]
  /\ lhead \in [Rings -> 0..N-1]
  /\ prunning \in [Rings -> 0..1]
  /\ kick_pending \in 0..1
  /\ pipe \in 0..PipeCap
  /\ wpc \in WorkerPC
  /\ cur \in Rings
  /\ n \in Nat
  /\ item \in Nat
  /\ running \in 0..1
  /\ spc \in StopPC
  /\ nsent \in [Rings -> Nat]
  /\ got \in [Rings -> Nat]

\* The plain (non-atomic) accesses to a slot never collide and no live slot
\* is overwritten: when mt_spsc_push has decided from its possibly stale
\* copy of head that there is room, the slot it is about to write is free,
\* and mt_spsc_pop is not reading it.
PushNeverOverwrites ==
  \A r \in Rings :
    ppc[r] = "loaded" /\ ~Full(r)
      => /\ Succ(tail[r]) # head[r]
         /\ ~(wpc = "read" /\ cur = r /\ head[r] = tail[r])

\* mt_spsc_pop hands the pointers over in push order, each exactly once:
\* the pointer just read is the successor of the one handed over before.
FifoExactlyOnce ==
  wpc = "advance" => item = got[cur] + 1

\* A worker asleep in pal_loop_wait with an empty self pipe while a ring of
\* its own holds work has a kick on its way: some thread is still between
\* its push and the end of mt_kick.  Without that the work would wait for
\* an unrelated wakeup, for the 50 ms timeout runs no queue callback.
NoLostWakeup ==
  wpc = "poll" /\ pipe = 0 /\ (\E r \in Rings : ~Empty(r))
    => \/ \E r \in Rings : ppc[r] \in {"kick", "write"}
       \/ spc = "write"

\* Every pointer pushed is popped, unless the worker has been stopped: the
\* latch, the re-arm order of worker_on_wakeup and the self kick after a
\* bounded drain never leave work behind.
EveryPushPopped ==
  \A r \in Rings : \A k \in 1..MaxPush[r] :
    (nsent[r] >= k) ~> (got[r] >= k \/ running = 0)

\* mt_server_stop returns: its joins are not held up by a producer spinning
\* on a full ring whose worker is gone, nor by a worker asleep in poll.
StopTerminates ==
  (spc # "run") ~> (wpc = "exited" /\ \A r \in Rings : ppc[r] = "idle")
-----------------------------------------------------------------------------
(* What a ring promises.                                                   *)

\* the pointers from head up to tail, oldest first
Held(r) == Dist(head[r], tail[r])
Slot(r, k) == IF head[r] + k < N THEN head[r] + k ELSE head[r] + k - N
Contents(r) == [k \in 1..Held(r) |-> buf[r][Slot(r, k - 1)]]

Fifo == INSTANCE MtQueue WITH
  q <- [r \in Rings |-> Contents(r)],
  last <- nsent

\* The ring of mt_spsc.h with its stale loads and split accesses is a FIFO
\* with atomic push and pop: the abstraction the routing modules rely on.
ImplementsFifo == Fifo!Spec
-----------------------------------------------------------------------------
(* The inductive invariant behind the safety properties.                   *)

\* The ring: what lies between head and tail is the pointers got+1 .. nsent
\* in order, and a producer's stale copy of head is never ahead of head.
RingOK(r) ==
  /\ nsent[r] = got[r] + Held(r)
  /\ \A i \in 0..N-1 :
       Dist(head[r], i) < Held(r)
         => buf[r][i] = got[r] + 1 + Dist(head[r], i)
  /\ ppc[r] = "loaded" => Held(r) <= Dist(lhead[r], tail[r])
  /\ ppc[r] = "publish" => /\ Held(r) <= N - 2
                           /\ buf[r][tail[r]] = nsent[r] + 1

RingInv == \A r \in Rings : RingOK(r)

PopInv ==
  /\ wpc \in {"read", "advance"} => ~Empty(cur)
  /\ wpc = "advance" => item = got[cur] + 1

\* The latch is set only while a byte is in the pipe or about to be written
\* (or the worker is about to clear it), and work the worker will not look
\* at before it sleeps is covered by the latch or by a coming exchange.
WakeInv ==
  /\ kick_pending = 1 /\ wpc \notin {"drain", "rearm"}
       => \/ pipe > 0
          \/ \E r \in Rings : ppc[r] = "write"
          \/ spc = "write"
          \/ wpc = "rewrite"
  /\ wpc = "rewrite" => kick_pending = 1
  /\ \A r \in Rings :
       /\ wpc \in {"loop", "poll"} \/ (wpc = "check" /\ r < cur)
       /\ ~Empty(r)
       => ppc[r] = "kick" \/ kick_pending = 1

\* Together: what makes the rings and the wakeup of worker_on_wakeup right.
IInv == TypeOK /\ RingInv /\ PopInv /\ WakeInv
=============================================================================
