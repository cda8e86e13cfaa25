----------------------------- MODULE MCRhTable -----------------------------
(***************************************************************************)
(* Instances of RhTable: 4 slots at the start, so the fourth key grows the *)
(* table, and every hash function onto homes that collide before, after or *)
(* across the wrap-around of either size.                                  *)
(***************************************************************************)
EXTENDS RhTable, TLC

CONSTANTS k1, k2, k3, k4, v1, v2,
          Homes     \* the hash values used

MCKeys == {k1, k2, k3, k4}
MCVals == {v1, v2}
\* Keys and values are interchangeable: HashFns is closed under renaming keys.
MCSymmetry == Permutations(MCKeys) \union Permutations(MCVals)
MCHashFns == [MCKeys -> Homes]
=============================================================================
