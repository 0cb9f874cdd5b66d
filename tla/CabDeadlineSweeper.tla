------------------------- MODULE CabDeadlineSweeper ------------------------
(***************************************************************************)
(* The deadline sweeper (apps/api/src/jobs/cab-deadline-sweeper.ts) beside *)
(* the handlers of ChangeManagement.                                       *)
(*                                                                         *)
(* A tick selects the change if it is in review, past its deadline and not *)
(* yet notified, reads its ballots, judges them against the quorum of the  *)
(* selected row, sets the durable marker with a conditional update, and    *)
(* publishes change.vote_overdue.  Each is a statement of its own, outside *)
(* any transaction (withSystemContext).  Ticks do not wait for each other  *)
(* and every API process has its own timer, so several run at once; a      *)
(* process may die between two statements.                                 *)
(***************************************************************************)
EXTENDS ChangeManagement

CONSTANTS
  Sweepers,    \* ticks that may run at once
  MaxCrashes   \* bound: how many ticks die half way

ASSUME MaxCrashesNat == MaxCrashes \in Nat

VARIABLES
  marker,   \* vote_overdue_notified_at is not null
  sweep,    \* where each tick is, and the quorum it selected
  notices,  \* change.vote_overdue events published
  crashes

sweepVars == <<marker, sweep, notices, crashes>>
sysVars   == <<vars, sweepVars>>

IdleTick == [pc |-> "idle", quorum |-> 1]

SysInit ==
  /\ Init
  /\ marker = FALSE /\ notices = 0 /\ crashes = 0
  /\ sweep = [w \in Sweepers |-> IdleTick]

(* Time reaches vote_deadline.                                             *)
DeadlinePasses ==
  /\ deadline = "future"
  /\ deadline' = "past"
  /\ UNCHANGED <<status, ctype, raiser, tpl, ballots, rules, pir, everApproved,
                 configVars, sub, op, sweepVars>>

SweepSelect(w) ==
  /\ sweep[w].pc = "idle"
  /\ status = "cab_review" /\ deadline = "past" /\ ~marker
  /\ sweep' = [sweep EXCEPT ![w] = [pc |-> "selected", quorum |-> rules.quorum]]
  /\ UNCHANGED <<vars, marker, notices, crashes>>

(* Mutant of SweepJudge: a vote counts as alive once anybody has voted. *)
SweepJudgeAnyCast(w) ==
  /\ sweep[w].pc = "selected"
  /\ sweep' = [sweep EXCEPT ![w] =
                 IF StandingCast(ballots) = 0 THEN [@ EXCEPT !.pc = "overdue"] ELSE IdleTick]
  /\ UNCHANGED <<vars, marker, notices, crashes>>

SweepJudge(w) ==
  /\ sweep[w].pc = "selected"
  /\ sweep' = [sweep EXCEPT ![w] =
                 IF IsVoteOverdue("cab_review", TRUE, ballots, sweep[w].quorum)
                   THEN [@ EXCEPT !.pc = "overdue"] ELSE IdleTick]
  /\ UNCHANGED <<vars, marker, notices, crashes>>

(* Mutant of SweepClaim: the marker is set without asking whether it was. *)
SweepClaimBlind(w) ==
  /\ sweep[w].pc = "overdue"
  /\ sweep' = [sweep EXCEPT ![w].pc = "claimed"]
  /\ marker' = TRUE
  /\ UNCHANGED <<vars, notices, crashes>>

SweepClaim(w) ==
  /\ sweep[w].pc = "overdue"
  /\ sweep' = [sweep EXCEPT ![w] = IF marker THEN IdleTick ELSE [@ EXCEPT !.pc = "claimed"]]
  /\ marker' = TRUE
  /\ UNCHANGED <<vars, notices, crashes>>

SweepPublish(w) ==
  /\ sweep[w].pc = "claimed"
  /\ notices' = notices + 1
  /\ sweep' = [sweep EXCEPT ![w] = IdleTick]
  /\ UNCHANGED <<vars, marker, crashes>>

SweepCrash(w) ==
  /\ sweep[w].pc # "idle" /\ crashes < MaxCrashes
  /\ crashes' = crashes + 1
  /\ sweep' = [sweep EXCEPT ![w] = IdleTick]
  /\ UNCHANGED <<vars, marker, notices>>

Tick(w) == SweepSelect(w) \/ SweepJudge(w) \/ SweepClaim(w) \/ SweepPublish(w)

SysNext ==
  \/ Next /\ UNCHANGED sweepVars
  \/ DeadlinePasses
  \/ \E w \in Sweepers : Tick(w) \/ SweepCrash(w)

(* The timer fires for as long as a process lives, and processes are       *)
(* restarted: a tick that can take its next statement does.  Nobody is     *)
(* bound to vote, submit or cancel.                                        *)
SweepFairness == \A w \in Sweepers : WF_sysVars(Tick(w))

SysSpec == SysInit /\ [][SysNext]_sysVars /\ SweepFairness

-----------------------------------------------------------------------------
(* The chair is told of an overdue vote at most once, however many ticks   *)
(* run at once, die and are started again.                                 *)
NotifiedAtMostOnce == notices <= 1

Overdue == IsVoteOverdue(status, deadline = "past", ballots, rules.quorum)

(* A vote that stays overdue is claimed for escalation by some tick, also  *)
(* when ticks die half way.                                                *)
OverdueIsClaimed == Overdue ~> (marker \/ ~Overdue)

(* ... and the chair is told of it: broken by a crash after the claim.     *)
OverdueIsNotified == Overdue ~> (notices > 0 \/ ~Overdue)
=============================================================================
