---------------------------- MODULE ClusterClaims ----------------------------
(***************************************************************************)
(* Who holds a slot: the operations on one node's table that move slots    *)
(* between its entries.  A table t maps node ids (numbers, ordered as      *)
(* memcmp orders the ids) to entries.                                      *)
(***************************************************************************)
EXTENDS Integers

None == 0   \* a master's master

\* Bug: no tie-break between equal epochs.
BetterNoTie(t, a, b) == t[a].epoch > t[b].epoch

Better(t, a, b) == t[a].epoch > t[b].epoch \/ (t[a].epoch = t[b].epoch /\ a > b)
Holders(t, s)   == {o \in DOMAIN t : s \in t[o].slots}

\* Bug: the loser of a contested slot does not yield.
ContestKeeps(t, c, bm) ==
  [o \in DOMAIN t |->
     [t[o] EXCEPT !.slots = IF o = c
                            THEN {s \in bm : \A h \in Holders(t, s) \ {c} : Better(t, c, h)}
                            ELSE @]]

\* The claims bm of node c against every other holder; the loser of a pair
\* yields even when c loses to a third.
Contest(t, c, bm) ==
  [o \in DOMAIN t |->
     [t[o] EXCEPT !.slots = IF o = c
                            THEN {s \in bm : \A h \in Holders(t, s) \ {c} : Better(t, c, h)}
                            ELSE {s \in @ : s \in bm => ~Better(t, c, o)}]]

\* SETSLOT NODE: m takes slot s from whoever has it.
Assign(t, s, m) ==
  [o \in DOMAIN t |-> [t[o] EXCEPT !.slots = IF o = m THEN @ \cup {s} ELSE @ \ {s}]]

\* cluster_failover_promote: node me becomes a master with epoch e and the
\* slots of its old master.
Inherit(t, me, e) ==
  LET m == t[me].of
  IN [o \in DOMAIN t |->
        IF o = me THEN [t[o] EXCEPT !.of = None, !.epoch = e,
                                    !.slots = IF m \in DOMAIN t THEN @ \cup t[m].slots ELSE @]
        ELSE IF o = m THEN [t[o] EXCEPT !.slots = {}]
        ELSE t[o]]

-----------------------------------------------------------------------------
Entries(Slots) ==
  [epoch : Nat, slots : SUBSET Slots, of : Int, pfail : BOOLEAN, fail : BOOLEAN,
   disc : BOOLEAN, seen : BOOLEAN, reps : SUBSET Int]

\* No slot has two holders in the table.
Exclusive(t) == \A a, b \in DOMAIN t : a # b => t[a].slots \cap t[b].slots = {}
=============================================================================
