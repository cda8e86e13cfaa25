------------------------------- MODULE MCRepl -------------------------------
(***************************************************************************)
(* Topologies for model checking Repl.                                     *)
(***************************************************************************)
EXTENDS Repl, TLC

CONSTANTS A, B, C

\* one master, one replica, no REPLICAOF at run time
PairConf == (A :> NoOne) @@ (B :> A)
PairTargets == [n \in Nodes |-> {}]

\* B may be promoted and demoted again
PromoteTargets == (A :> {}) @@ (B :> {NoOne, A})

\* two masters and a replica that is moved between them
MoveConf == (A :> NoOne) @@ (B :> NoOne) @@ (C :> A)
MoveTargets == (A :> {}) @@ (B :> {}) @@ (C :> {A, B, NoOne})

\* A -> B -> C
ChainConf == (A :> NoOne) @@ (B :> A) @@ (C :> B)

\* the roles of A and B are swapped and swapped back
SwapTargets == (A :> {NoOne, B}) @@ (B :> {NoOne, A})

\* what the clients' sessions have selected
DB0 == {0}
DB01 == {0, 1}
=============================================================================
