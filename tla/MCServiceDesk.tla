--------------------------- MODULE MCServiceDesk ---------------------------
(***************************************************************************)
(* A small instance of ServiceDesk.  The response target is one unit and   *)
(* the resolution target three: the former is breached outright, the       *)
(* latter warns first once a pause has moved its due time to four.         *)
(***************************************************************************)
EXTENDS ServiceDesk

SmallTarget == [response |-> 1, resolution |-> 3]
=============================================================================
