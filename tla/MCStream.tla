------------------------------ MODULE MCStream ------------------------------
(***************************************************************************)
(* Instances of Stream.                                                    *)
(***************************************************************************)
EXTENDS Stream, TLC

CONSTANTS g1, c1, c2

\* The consumers are interchangeable.
MCSymmetry == Permutations({c1, c2})

\* XCLAIM with one id, or with two different ones in either order.
DistinctLists == ({<<i>> : i \in Ids} \union {<<i, j>> : i, j \in Ids}) \ {<<i, i>> : i \in Ids}
\* XCLAIM that names the same id twice.
RepeatedLists == {<<i, i>> : i \in Ids}

\* The options of XCLAIM: a minimum idle time, IDLE or TIME that set an old
\* delivery time, FORCE, JUSTID, and LASTID back to 0-0.
Plain == [minidle |-> 0, force |-> FALSE, justid |-> FALSE, at |-> Now, lastid |-> None]
MCClaimOpts == {Plain, [Plain EXCEPT !.minidle = 1], [Plain EXCEPT !.at = 0], [Plain EXCEPT !.force = TRUE],
                [Plain EXCEPT !.justid = TRUE], [Plain EXCEPT !.lastid = 0]}
=============================================================================
