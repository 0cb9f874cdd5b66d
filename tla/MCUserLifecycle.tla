-------------------------- MODULE MCUserLifecycle --------------------------
(***************************************************************************)
(* A small instance of UserLifecycle: what the provisioning planner may    *)
(* read, from a plain account to one with every optional step, a tenant    *)
(* out of Cloud PC licences and a supervisor nobody can find; and terms of *)
(* one and two days, so that a sweep falls before, on and after each end.  *)
(***************************************************************************)
EXTENDS UserLifecycle

Plain == [manager |-> "none", groups |-> "none", cloudPc |-> FALSE,
          credential |-> "issue_tap", seats |-> Skus, privileged |-> FALSE]
Full  == [manager |-> "found", groups |-> "found", cloudPc |-> TRUE,
          credential |-> "set_password", seats |-> Skus, privileged |-> FALSE]

SomeInputs == {Plain, Full, [Full EXCEPT !.seats = {"baseline"}], [Full EXCEPT !.manager = "unresolved"]}

ShortTerms == [standard |-> 1, privileged |-> 2]
=============================================================================
