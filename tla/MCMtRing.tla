------------------------------ MODULE MCMtRing ------------------------------
(* MtRing with two rings.                                                  *)
EXTENDS MtRing

\* ring 1 wraps around; ring 2 gives a second producer of kicks
MCMaxPush == <<3, 1>>
=============================================================================
