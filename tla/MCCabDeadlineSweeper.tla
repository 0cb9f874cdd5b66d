----------------------- MODULE MCCabDeadlineSweeper ------------------------
(***************************************************************************)
(* Small instances of the sweeper beside one change: two members whose     *)
(* quorum is both of them, and an engineer who raises the change.          *)
(***************************************************************************)
EXTENDS CabDeadlineSweeper

CONSTANTS eng, mgr, ann, board, s1, o1, w1, w2

PairBoard == [chair |-> mgr, quorum |-> 2, threshold |-> "majority",
              members |-> {mgr, ann}, weight |-> [u \in Users |-> 1]]
PairConfig == {PairBoard}
=============================================================================
