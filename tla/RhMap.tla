------------------------------- MODULE RhMap -------------------------------
(***************************************************************************)
(* What core/rhtable.h promises: a map from keys to values.  rh_get        *)
(* returns what the last rh_set of the key stored, rh_set says whether it  *)
(* overwrote, rh_del says whether the key was there; and a read changes    *)
(* nothing, whatever the table does inside to rehash itself.               *)
(***************************************************************************)

CONSTANTS Keys, Vals, Absent

VARIABLES map, reply

Init == /\ map = [k \in Keys |-> Absent]
        /\ reply = Absent

Found(k) == IF map[k] = Absent THEN 0 ELSE 1

Get(k) == /\ reply' = map[k]
          /\ UNCHANGED map

Set(k, v) == /\ reply' = Found(k)
             /\ map' = [map EXCEPT ![k] = v]

Del(k) == /\ reply' = Found(k)
          /\ map' = [map EXCEPT ![k] = Absent]

Next == \E k \in Keys : Get(k) \/ Del(k) \/ (\E v \in Vals : Set(k, v))

Spec == Init /\ [][Next]_<<map, reply>>
=============================================================================
