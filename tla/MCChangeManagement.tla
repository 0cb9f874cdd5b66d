------------------------ MODULE MCChangeManagement -------------------------
(***************************************************************************)
(* Small instances of ChangeManagement.  One engineer raises changes, and  *)
(* also sits on the board; the manager administers it, votes and           *)
(* implements; two members only vote.                                      *)
(***************************************************************************)
EXTENDS ChangeManagement

CONSTANTS eng, mgr, ann, bob, board, t1, s1, s2, o1, o2

Weigh(heavy) == [u \in Users |-> IF u \in heavy THEN 2 ELSE 1]

Config(chair, quorum, threshold, members, heavy) ==
  [chair |-> chair, quorum |-> quorum, threshold |-> threshold,
   members |-> members \cap Users, weight |-> Weigh(heavy)]

(* A board with the raiser on it and a quorum only all of it can meet, a   *)
(* larger one with a heavy chair, and a small one that must be unanimous.  *)
FullBoard  == Config(ann, 3, "majority", {eng, ann, bob}, {})
HeavyBoard == Config(mgr, 2, "two_thirds", {mgr, ann, bob}, {mgr})
SmallBoard == Config(NoUser, 1, "unanimous", {ann, mgr}, {})

OneConfig    == {HeavyBoard}
TwoConfigs   == {FullBoard, HeavyBoard}
ThreeConfigs == {FullBoard, HeavyBoard, SmallBoard}
=============================================================================
