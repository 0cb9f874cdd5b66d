---------------------------- MODULE MCOperations ----------------------------
(***************************************************************************)
(* A small instance of Operations: what the form of a new user may say of  *)
(* groups: a distribution list named twice, one beside a group that can    *)
(* carry a role, and one with a rule beside the access of another user,    *)
(* who is in an ordinary one; and the workflow of a desk that puts no      *)
(* ticket on hold.                                                         *)
(***************************************************************************)
EXTENDS Operations

CONSTANTS everyone, admins, news, robots

SomeAnswers ==
  {[names |-> <<news, news>>, mirror |-> FALSE], [names |-> <<admins, news>>, mirror |-> FALSE],
   [names |-> <<robots>>, mirror |-> TRUE]}

ShortWorkflow ==
  {e \in DefaultTransitions : {e[1], e[2]} \cap {"waiting_customer", "waiting_vendor", "on_hold", "blocked"} = {}}

SmallTarget == [response |-> 1, resolution |-> 3]
=============================================================================
