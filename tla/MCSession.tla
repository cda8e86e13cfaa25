------------------------------ MODULE MCSession -----------------------------
(***************************************************************************)
(* Command sets for model checking Session.                                *)
(***************************************************************************)
EXTENDS Session, TLC

WatchCmds == {"set", "flushdb", "flushall", "select", "unwatch"}

\* with SWAPDB, ExecIsOptimistic fails
FlushSwapCmds == {"flushdb", "swapdb", "set"}
SwapCmds == {"swapdb", "set"}
Perms == Permutations(Sessions)
=============================================================================
