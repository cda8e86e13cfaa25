------------------------------ MODULE MtQueue ------------------------------
(***************************************************************************)
(* What a ring of mt_spsc.h promises: an unbounded-looking FIFO per        *)
(* producer, whose only operations are "append the next pointer" and       *)
(* "hand the oldest pointer to the worker".  The routing modules use rings *)
(* in this form; MtRing implements it.                                     *)
(***************************************************************************)
EXTENDS Integers, Sequences

CONSTANT Rings

VARIABLES
  q,    \* q[r]: pointers pushed and not yet popped, oldest first
  last, \* last[r]: the newest pointer pushed
  got   \* got[r]: the pointer last popped

vars == <<q, last, got>>

Init == /\ q = [r \in Rings |-> <<>>]
        /\ last = [r \in Rings |-> 0]
        /\ got = [r \in Rings |-> 0]

Push(r) == /\ last' = [last EXCEPT ![r] = @ + 1]
           /\ q' = [q EXCEPT ![r] = Append(@, last[r] + 1)]
           /\ UNCHANGED got

Pop(r) == /\ q[r] # <<>>
          /\ got' = [got EXCEPT ![r] = Head(q[r])]
          /\ q' = [q EXCEPT ![r] = Tail(@)]
          /\ UNCHANGED last

Next == \E r \in Rings : Push(r) \/ Pop(r)

Spec == Init /\ [][Next]_vars
=============================================================================
