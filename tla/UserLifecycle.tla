---------------------------- MODULE UserLifecycle ----------------------------
(***************************************************************************)
(* The life of a directory account as the help desk drives it: it is       *)
(* provisioned, offboarded, and its record retained.  While one engine     *)
(* works on an account the others have nothing to do with it: provisioning *)
(* and offboarding import nothing of each other, and offboarding leaves to *)
(* retention a single row, the hold that RecordHold records, which         *)
(* Retention finds recorded (RecordHoldFor) when it begins.  A behaviour   *)
(* of all three is therefore one behaviour of each: `stage' says which of  *)
(* them a behaviour shows, and the other two rest in an initial state.     *)
(***************************************************************************)
EXTENDS Provisioning, Offboarding, Retention

VARIABLE stage

lifeVars == <<provVars, offVars, retVars, stage>>

LifeInit ==
  /\ stage \in {"joining", "leaving", "retained"}
  /\ ProvInit /\ OffInit /\ RetInit
  /\ stage # "leaving" => person.licensed

LifeNext ==
  \/ stage = "joining"  /\ ProvNext /\ UNCHANGED <<offVars, retVars, stage>>
  \/ stage = "leaving"  /\ OffNext  /\ UNCHANGED <<provVars, retVars, stage>>
  \/ stage = "retained" /\ RetNext  /\ UNCHANGED <<provVars, offVars, stage>>

(* An engine at rest has no step that must be taken: its fairness is that  *)
(* of the engine the behaviour shows.                                      *)
LifeSpec == LifeInit /\ [][LifeNext]_lifeVars /\ ProvFairness /\ OffFairness /\ RetFairness

-----------------------------------------------------------------------------
(* Whatever one of the engines begins comes to an end that somebody learns *)
(* of: a provisioning run, an offboarding run that is due, the watch over  *)
(* a retained account, however often processes die, polls come late and    *)
(* Graph is out (cloudpc-poller.ts, offboarding-sweeper.ts,                *)
(* retention-sweeper.ts).                                                  *)
WhatBeginsEnds == RunEnds /\ DueRunsEnd /\ GoneIsNoticed
=============================================================================
