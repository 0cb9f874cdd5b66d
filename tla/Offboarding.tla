----------------------------- MODULE Offboarding -----------------------------
(***************************************************************************)
(* Offboarding of one person from a ticket (modules/offboarding and        *)
(* jobs/offboarding-sweeper.ts), up to the retention hold each run leaves  *)
(* (modules/retention/index.ts).                                           *)
(*                                                                         *)
(* A technician arms an approved plan; a sweeper of one of the API         *)
(* processes claims it when it is due, plans again, and writes to the      *)
(* directory step by step.  Meanwhile people edit the request and the      *)
(* directory, Graph fails, and processes die.                              *)
(***************************************************************************)
EXTENDS Integers, Sequences

CONSTANTS
  Armers,      \* POST /offboarding/schedule requests
  OffSweepers, \* API processes, each with its sweeper
  MaxArmed,    \* bound: runs of the ticket
  MaxEdits,    \* bound: edits of the request and of the directory
  MaxCrashes   \* bound: processes that die, and database failures in a run

ASSUME OffAssumption ==
  MaxArmed \in Nat /\ MaxEdits \in Nat /\ MaxCrashes \in Nat

(* The steps of a plan, in order.  The conversion is one of them if there  *)
(* is a user mailbox, and comes before the licence is taken.               *)
OffSteps(mailbox) ==
  IF mailbox
  THEN <<"block_signin", "revoke_sessions", "rename_account",
         "convert_shared_mailbox", "remove_licenses", "remove_groups_dls_roles">>
  ELSE <<"block_signin", "revoke_sessions", "rename_account",
         "remove_licenses", "remove_groups_dls_roles">>
SecuritySteps == {"block_signin", "revoke_sessions"}
InFlightStatuses == {"scheduled", "running"}

VARIABLES
  answers,    \* the form: last_day, standing for all but the licences that the
              \* fingerprint covers, and the legal hold
  draft,      \* the answers of an edit that has not committed
  person,     \* the account of the departing user
  armed,      \* the offboarding runs of the ticket
  armer,      \* per schedule request: the plan that passed every check
  fire,       \* per sweeper: the run it works on, and how far it is
  held,       \* whether the account has a retention hold
  edits, crashes

requestVars == <<answers, draft>>
offVars == <<requestVars, person, armed, armer, fire, held, edits, crashes>>

-----------------------------------------------------------------------------
(* planOffboard (planner.ts).  Graph cannot tell what mailbox an account   *)
(* has: a licensed one is taken to have a user mailbox.                    *)

OffBlockers ==
  {code \in {"bad_last_day", "user_not_found", "already_offboarded", "legal_hold"} :
     \/ code = "bad_last_day" /\ answers.lastDay = "bad"
     \/ code = "user_not_found" /\ ~person.exists
     \/ code = "already_offboarded" /\ person.exists /\ ~person.enabled /\ person.renamed
     \/ code = "legal_hold" /\ answers.legalHold}

(* The plan is what the fingerprint covers.  Whether the account is enabled*)
(* or renamed, and the legal hold, are not part of it.                     *)
OffPlan ==
  LET licensed == person.exists /\ person.licensed
  IN [steps |-> OffSteps(licensed), lastDay |-> answers.lastDay, licensed |-> licensed]

NoDraft == [lastDay |-> "none", legalHold |-> FALSE]

EmptyPlan == [steps |-> <<>>, lastDay |-> "bad", licensed |-> FALSE]

-----------------------------------------------------------------------------
Quiet == [pc |-> "idle", run |-> 0, plan |-> EmptyPlan, drifted |-> FALSE, done |-> <<>>]

OffInit ==
  /\ answers = [lastDay |-> "approved", legalHold |-> FALSE] /\ draft = NoDraft
  /\ person \in {[exists |-> TRUE, enabled |-> TRUE, renamed |-> FALSE,
                  licensed |-> b, mailbox |-> IF b THEN "user" ELSE "none"] : b \in BOOLEAN}
  /\ armed = <<>>
  /\ armer = [a \in Armers |-> EmptyPlan]
  /\ fire = [s \in OffSweepers |-> Quiet]
  /\ held = FALSE
  /\ edits = 0 /\ crashes = 0

(* schedule: the approved and previewed plan, free of blockers, ...        *)
ScheduleCheck(a) ==
  /\ armer[a] = EmptyPlan /\ Len(armed) < MaxArmed
  /\ OffBlockers = {}
  /\ armer' = [armer EXCEPT ![a] = OffPlan]
  /\ UNCHANGED <<requestVars, person, armed, fire, held, edits, crashes>>

(* ... is inserted unless a run is in flight, else the request is refused. *)
ScheduleInsert(a) ==
  /\ armer[a] # EmptyPlan
  /\ armed' = IF Len(armed) = MaxArmed \/ \E k \in DOMAIN armed : armed[k].status \in InFlightStatuses
              THEN armed
              ELSE Append(armed, [status |-> "scheduled", plan |-> armer[a], due |-> FALSE,
                                  why |-> "none", claims |-> 0,
                                  blocked |-> FALSE, lost |-> FALSE])
  /\ armer' = [armer EXCEPT ![a] = EmptyPlan]
  /\ UNCHANGED <<requestVars, person, fire, held, edits, crashes>>

CancelRun ==
  /\ \E k \in DOMAIN armed :
       /\ armed[k].status = "scheduled"
       /\ armed' = [armed EXCEPT ![k].status = "cancelled"]
  /\ UNCHANGED <<requestVars, person, armer, fire, held, edits, crashes>>

(* The moment HR gave comes. *)
MomentComes(k) ==
  /\ armed[k].status = "scheduled" /\ ~armed[k].due
  /\ armed' = [armed EXCEPT ![k].due = TRUE]
  /\ UNCHANGED <<requestVars, person, armer, fire, held, edits, crashes>>

-----------------------------------------------------------------------------
(* A tick of the sweeper *)

End(k, status, why) == [armed EXCEPT ![k].status = status, ![k].why = why]

(* Mutant of Strand: an interrupted run is noted and left running. *)
StrandNoted(s) ==
  /\ fire[s].pc = "idle"
  /\ \E k \in DOMAIN armed : armed[k].status = "running" /\ armed' = End(k, "running", "interrupted")
  /\ UNCHANGED <<requestVars, person, armer, fire, held, edits, crashes>>

(* First, a run that takes too long is handed to a human.  Two hours may   *)
(* be over at any point of it: the process that works on it may be dead,   *)
(* or slow and still alive.                                                *)
Strand(s) ==
  /\ fire[s].pc = "idle"
  /\ \E k \in DOMAIN armed : armed[k].status = "running" /\ armed' = End(k, "needs_review", "interrupted")
  /\ UNCHANGED <<requestVars, person, armer, fire, held, edits, crashes>>

(* Mutant of ClaimDue: what was interrupted is executed again. *)
ClaimDueOrOld(s) ==
  /\ fire[s].pc = "idle"
  /\ \E k \in DOMAIN armed :
       /\ armed[k].status \in InFlightStatuses /\ armed[k].due
       /\ armed' = [armed EXCEPT ![k].status = "running", ![k].claims = @ + 1]
       /\ fire' = [fire EXCEPT ![s] = [Quiet EXCEPT !.pc = "claimed", !.run = k]]
  /\ UNCHANGED <<requestVars, person, armer, held, edits, crashes>>

(* Then a due run is claimed, by one sweeper only (SKIP LOCKED). *)
ClaimDue(s) ==
  /\ fire[s].pc = "idle"
  /\ \E k \in DOMAIN armed :
       /\ armed[k].status = "scheduled" /\ armed[k].due
       /\ armed' = [armed EXCEPT ![k].status = "running", ![k].claims = @ + 1]
       /\ fire' = [fire EXCEPT ![s] = [Quiet EXCEPT !.pc = "claimed", !.run = k]]
  /\ UNCHANGED <<requestVars, person, armer, held, edits, crashes>>

(* The plan is built again.  Blockers count as drift.  Graph may fail, and *)
(* the account may be gone: the run fails before its first step.           *)
Rebuild(s) ==
  LET k == fire[s].run IN
  /\ fire[s].pc = "claimed"
  /\ \/ /\ person.exists
        /\ fire' = [fire EXCEPT ![s].pc = "steps", ![s].plan = OffPlan,
                      ![s].drifted = OffPlan # armed[k].plan \/ OffBlockers # {}]
        /\ UNCHANGED armed
     \/ /\ armed' = End(k, "failed", "error")
        /\ fire' = [fire EXCEPT ![s] = Quiet]
  /\ UNCHANGED <<requestVars, person, armer, held, edits, crashes>>

-----------------------------------------------------------------------------
(* executeOffboardPlan (executor.ts) *)

OffKey(s) == fire[s].plan.steps[Len(fire[s].done) + 1]
AtStep(s) == fire[s].pc = "steps" /\ Len(fire[s].done) < Len(fire[s].plan.steps)
Manual(key) == key = "convert_shared_mailbox"

(* What Graph does to the account.  The licences it removes are those the  *)
(* plan has seen.                                                          *)
Applied(key, plan) ==
  [person EXCEPT !.enabled = @ /\ key # "block_signin",
                 !.renamed = @ \/ key = "rename_account",
                 !.licensed = @ /\ ~(key = "remove_licenses" /\ plan.licensed)]

StepDone(s) ==
  LET key == OffKey(s)  k == fire[s].run IN
  /\ AtStep(s) /\ ~Manual(key) /\ (fire[s].drifted => key \in SecuritySteps)
  /\ person.exists
  /\ person' = Applied(key, fire[s].plan)
  /\ armed' = [armed EXCEPT ![k].blocked = @ \/ key = "block_signin"]
  /\ fire' = [fire EXCEPT ![s].done = Append(@, "succeeded")]
  /\ UNCHANGED <<requestVars, armer, held, edits, crashes>>

(* The rest of a drifted plan is skipped. *)
StepSkipped(s) ==
  /\ AtStep(s) /\ fire[s].drifted /\ OffKey(s) \notin SecuritySteps
  /\ fire' = [fire EXCEPT ![s].done = Append(@, "skipped")]
  /\ UNCHANGED <<requestVars, person, armed, armer, held, edits, crashes>>

(* Mutant of StepManual: the conversion is left for later. *)
StepManualPassedOver(s) ==
  /\ AtStep(s) /\ ~fire[s].drifted /\ Manual(OffKey(s))
  /\ fire' = [fire EXCEPT ![s].done = Append(@, "awaiting_manual")]
  /\ UNCHANGED <<requestVars, person, armed, armer, held, edits, crashes>>

(* A manual step stops the run: what follows depends on it. *)
StepManual(s) ==
  /\ AtStep(s) /\ ~fire[s].drifted /\ Manual(OffKey(s))
  /\ fire' = [fire EXCEPT ![s].done = Append(@, "awaiting_manual"), ![s].pc = "hold"]
  /\ UNCHANGED <<requestVars, person, armed, armer, held, edits, crashes>>

(* A step fails before or after Graph has done it, or only the record of   *)
(* it fails, which counts as the step's failure.                           *)
StepFailed(s) ==
  LET key == OffKey(s) IN
  /\ AtStep(s) /\ ~Manual(key) /\ (fire[s].drifted => key \in SecuritySteps)
  /\ person' \in {person} \union (IF person.exists THEN {Applied(key, fire[s].plan)} ELSE {})
  /\ fire' = [fire EXCEPT ![s].done = Append(@, "failed"), ![s].pc = "hold"]
  /\ UNCHANGED <<requestVars, armed, armer, held, edits, crashes>>

StepsDone(s) ==
  /\ fire[s].pc = "steps" /\ Len(fire[s].done) = Len(fire[s].plan.steps)
  /\ fire' = [fire EXCEPT ![s].pc = "hold"]
  /\ UNCHANGED <<requestVars, person, armed, armer, held, edits, crashes>>

-----------------------------------------------------------------------------
(* The retention hold is owed as soon as the account is disabled. *)
HoldOwed(done) == done[1] = "succeeded"

(* A second hold for the account is a no-op; a failure is logged, no more. *)
RecordHold(s) ==
  LET k == fire[s].run IN
  /\ fire[s].pc = "hold"
  /\ IF HoldOwed(fire[s].done)
       THEN \/ held' = TRUE /\ UNCHANGED armed
            \/ armed' = [armed EXCEPT ![k].lost = TRUE] /\ UNCHANGED held
       ELSE UNCHANGED <<held, armed>>
  /\ fire' = [fire EXCEPT ![s].pc = "finish"]
  /\ UNCHANGED <<requestVars, person, armer, edits, crashes>>

(* Mutant of Verdict: a drifted run is taken to have secured the account. *)
VerdictUnread(done, drifted) ==
  IF drifted THEN <<"needs_review", "drift">>
  ELSE IF "failed" \in {done[i] : i \in DOMAIN done} THEN <<"failed", "error">>
  ELSE IF "awaiting_manual" \in {done[i] : i \in DOMAIN done} THEN <<"needs_review", "manual">>
  ELSE <<"succeeded", "none">>

Verdict(done, drifted) ==
  IF "failed" \in {done[i] : i \in DOMAIN done} THEN <<"failed", "error">>
  ELSE IF drifted THEN <<"needs_review", "drift">>
  ELSE IF "awaiting_manual" \in {done[i] : i \in DOMAIN done} THEN <<"needs_review", "manual">>
  ELSE <<"succeeded", "none">>

(* finish writes by id, whatever the run has become. *)
Finish(s) ==
  LET verdict == Verdict(fire[s].done, fire[s].drifted) IN
  /\ fire[s].pc = "finish"
  /\ armed' = End(fire[s].run, verdict[1], verdict[2])
  /\ fire' = [fire EXCEPT ![s] = Quiet]
  /\ UNCHANGED <<requestVars, person, armer, held, edits, crashes>>

(* The database fails in the middle of a run: whatever has been done, the  *)
(* run fails and no hold is recorded.                                      *)
RunThrows(s) ==
  /\ fire[s].pc = "steps" /\ crashes < MaxCrashes
  /\ armed' = End(fire[s].run, "failed", "error")
  /\ fire' = [fire EXCEPT ![s] = Quiet]
  /\ crashes' = crashes + 1
  /\ UNCHANGED <<requestVars, person, armer, held, edits>>

ProcessDies(s) ==
  /\ fire[s].pc # "idle" /\ crashes < MaxCrashes
  /\ fire' = [fire EXCEPT ![s] = Quiet]
  /\ crashes' = crashes + 1
  /\ UNCHANGED <<requestVars, person, armed, armer, held, edits>>

-----------------------------------------------------------------------------
(* What people do meanwhile: edit the form, assign a licence, convert the  *)
(* mailbox, enable or delete the account.                                  *)

(* editTicketForm looks, on the locked ticket, for a run in flight; schedule*)
(* locks nothing and may insert one before the edit commits, if it does.   *)
EditFormCheck ==
  /\ draft = NoDraft /\ edits < MaxEdits /\ edits' = edits + 1
  /\ \A k \in DOMAIN armed : armed[k].status \notin InFlightStatuses
  /\ draft' \in {[answers EXCEPT !.lastDay = d] : d \in {"edited", "bad"}}
                \union {[answers EXCEPT !.legalHold = ~@]}
  /\ UNCHANGED <<answers, person, armed, armer, fire, held, crashes>>

EditFormEnds ==
  /\ draft # NoDraft /\ draft' = NoDraft
  /\ answers' \in {answers, draft}
  /\ UNCHANGED <<person, armed, armer, fire, held, edits, crashes>>

EditDirectory ==
  /\ edits < MaxEdits /\ edits' = edits + 1
  /\ person.exists
  /\ person' \in {[person EXCEPT !.licensed = TRUE, !.mailbox = IF @ = "none" THEN "user" ELSE @],
                  [person EXCEPT !.mailbox = IF person.licensed THEN "shared" ELSE @],
                  [person EXCEPT !.enabled = TRUE],
                  [person EXCEPT !.exists = FALSE]}
  /\ UNCHANGED <<requestVars, armed, armer, fire, held, crashes>>

-----------------------------------------------------------------------------
SweepRun(s) ==
  \/ Strand(s) \/ ClaimDue(s) \/ Rebuild(s)
  \/ StepDone(s) \/ StepSkipped(s) \/ StepManual(s) \/ StepFailed(s) \/ StepsDone(s)
  \/ RecordHold(s) \/ Finish(s)

OffNext ==
  \/ \E a \in Armers : ScheduleCheck(a) \/ ScheduleInsert(a)
  \/ CancelRun
  \/ \E k \in DOMAIN armed : MomentComes(k)
  \/ \E s \in OffSweepers : SweepRun(s) \/ RunThrows(s) \/ ProcessDies(s)
  \/ EditFormCheck \/ EditFormEnds \/ EditDirectory

(* Time passes; some sweeper ticks or goes on as long as one can, which a  *)
(* process that starts again after a crash does too.                       *)
OffFairness ==
  /\ WF_offVars(\E k \in DOMAIN armed : MomentComes(k))
  /\ WF_offVars(\E s \in OffSweepers : SweepRun(s))

OffSpec == OffInit /\ [][OffNext]_offVars /\ OffFairness

-----------------------------------------------------------------------------
(* Properties *)

(* An armed run fires once, whatever several sweepers, crashes and slow    *)
(* calls do, and one that was cancelled does not fire (offboarding-        *)
(* sweeper.ts, the claim; index.ts, cancel).                               *)
FiresOnce ==
  \A k \in DOMAIN armed :
    /\ armed[k].claims <= 1
    /\ armed[k].status = "cancelled" => armed[k].claims = 0

(* No run takes the licence of an account that still has a user mailbox,   *)
(* although the planner infers the mailbox and the plan may be stale       *)
(* (planner.ts, OFFBOARD_STEP_ORDER; executor.ts, manual steps).           *)
MailboxKept == person.exists /\ person.mailbox = "user" => person.licensed

(* A run the desk is told has done its part, or waits for a human after    *)
(* securing the account, has blocked sign-in, and the account has its      *)
(* retention hold unless the loss of it was logged.                        *)
SecuredAndHeld ==
  \A k \in DOMAIN armed :
    \/ armed[k].status = "succeeded"
    \/ armed[k].status = "needs_review" /\ armed[k].why # "interrupted"
    => armed[k].blocked /\ (held \/ armed[k].lost)

(* An account that leaves loses nothing on the way: neither the content of *)
(* its mailbox nor, once it is blocked, its place on record.               *)
LeavesNothingBehind == MailboxKept /\ SecuredAndHeld

(* No due run is forgotten: also one whose process died is ended, so that  *)
(* someone learns of it (offboarding-sweeper.ts, STRANDED_AFTER).          *)
DueRunsEnd ==
  []<>(\A k \in DOMAIN armed : armed[k].due => armed[k].status \notin InFlightStatuses)
=============================================================================
