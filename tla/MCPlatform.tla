----------------------------- MODULE MCPlatform -----------------------------
(***************************************************************************)
(* A small instance of Platform: beside the services, a change with a      *)
(* board of two whose quorum is both of them, and the engineer who raises  *)
(* it.                                                                     *)
(***************************************************************************)
EXTENDS Platform

CONSTANTS eng, mgr, ann, board

PairBoard == [chair |-> mgr, quorum |-> 2, threshold |-> "majority",
              members |-> {mgr, ann}, weight |-> [u \in Users |-> 1]]
PairConfig == {PairBoard}
=============================================================================
