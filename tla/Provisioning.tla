---------------------------- MODULE Provisioning ----------------------------
(***************************************************************************)
(* Provisioning of one new user from an onboarding ticket                  *)
(* (apps/api/src/modules/provisioning, jobs/cloudpc-poller.ts).            *)
(*                                                                         *)
(* A request rebuilds the plan an administrator approved, records a run,   *)
(* and writes to the directory step by step, outside any transaction.  A   *)
(* step fails before or after it took effect; the process may die between  *)
(* any two writes.  A run that waits for its Cloud PC is ended by a        *)
(* poller, one per process.                                                *)
(***************************************************************************)
EXTENDS Integers, Sequences

CONSTANTS
  ProvRequests,  \* POST /provision requests
  ProvPollers,   \* API processes, each with its poller
  ProvInputs,    \* the answers and tenant states the planner may read
  MaxRuns,       \* bound: runs of the ticket
  MaxDeaths      \* bound: requests that die half way

StepKeys == {"create_user", "set_manager", "assign_licenses", "add_groups",
             "assign_cloudpc", "issue_tap", "set_password", "await_cloudpc"}
Skus     == {"baseline", "cloudpc"}
InFlight == {"running", "awaiting_cloudpc"}
Ended    == {"succeeded", "failed"}

(* What the plan depends on: who the supervisor resolves to, what is asked *)
(* for, the credential the deployment uses, and the state of the tenant.   *)
InputRecords ==
  [manager : {"none", "found", "unresolved"}, groups : {"none", "found", "missing"},
   cloudPc : BOOLEAN, credential : {"issue_tap", "set_password"},
   seats : SUBSET Skus, privileged : BOOLEAN]

ASSUME ProvAssumption ==
  /\ ProvInputs \subseteq InputRecords
  /\ MaxRuns \in Nat /\ MaxDeaths \in Nat

VARIABLES
  runs,       \* the provisioning_runs of the ticket, with their steps
  account,    \* the directory: the account, its licences, the Cloud PC group
  worker,     \* where each request is
  poll,       \* per poller: the run it looked up, and the verdict
  deaths

provVars == <<runs, account, worker, poll, deaths>>

-----------------------------------------------------------------------------
(* The planner (planner.ts) *)

SkusWanted(in) == {"baseline"} \union (IF in.cloudPc THEN {"cloudpc"} ELSE {})

Blockers(in) ==
  {code \in {"manager_unresolved", "group_missing", "privileged_account", "no_seats"} :
     \/ code = "manager_unresolved" /\ in.manager = "unresolved"
     \/ code = "group_missing" /\ in.groups = "missing"
     \/ code = "privileged_account" /\ in.privileged
     \/ code = "no_seats" /\ ~(SkusWanted(in) \subseteq in.seats)}

When(condition, key) == IF condition THEN <<key>> ELSE <<>>

PlanRun(in) ==
  [steps |-> <<"create_user">> \o When(in.manager = "found", "set_manager")
             \o <<"assign_licenses">> \o When(in.groups # "none", "add_groups")
             \o When(in.cloudPc, "assign_cloudpc")
             \o <<in.credential>> \o When(in.cloudPc, "await_cloudpc"),
   skus |-> SkusWanted(in)]

NoPlan == [steps |-> <<>>, skus |-> {}]

-----------------------------------------------------------------------------
Resting   == [pc |-> "idle", plan |-> NoPlan, run |-> 0, done |-> <<>>]
NotPolled == [run |-> 0, verdict |-> "awaiting_cloudpc"]

ProvInit ==
  /\ runs = <<>>
  /\ account = [exists |-> FALSE, skus |-> {}, inGroup |-> FALSE, credential |-> "none"]
  /\ worker = [e \in ProvRequests |-> Resting]
  /\ poll = [p \in ProvPollers |-> NotPolled]
  /\ deaths = 0

(* provision, up to its last refusal.  The answers and the tenant may be   *)
(* anything by the time the plan is rebuilt; it goes on only if the plan   *)
(* is the one an administrator previewed and approved, and free of         *)
(* blockers.  A refusal leaves no trace.                                   *)
ProvisionCheck(e) ==
  /\ worker[e].pc = "idle"
  /\ \E in \in ProvInputs :
       /\ Blockers(in) = {}
       /\ worker' = [worker EXCEPT ![e] = [Resting EXCEPT !.pc = "checked", !.plan = PlanRun(in)]]
  /\ UNCHANGED <<runs, account, poll, deaths>>

(* Mutant of RecordRun: a run that waits for its Cloud PC blocks no other. *)
RecordRunBesideWaiting(e) ==
  /\ worker[e].pc = "checked"
  /\ IF Len(runs) = MaxRuns \/ \E k \in DOMAIN runs : runs[k].status = "running"
       THEN worker' = [worker EXCEPT ![e] = Resting] /\ UNCHANGED runs
       ELSE /\ runs' = Append(runs, [status |-> "running", plan |-> worker[e].plan,
                                     steps |-> <<>>, late |-> FALSE])
            /\ worker' = [worker EXCEPT ![e].pc = "recorded", ![e].run = Len(runs) + 1]
  /\ UNCHANGED <<account, poll, deaths>>

(* recordRun: the conditional insert and, for two at once, the partial     *)
(* unique index behind it; the loser is refused.                           *)
RecordRun(e) ==
  /\ worker[e].pc = "checked"
  /\ IF Len(runs) = MaxRuns \/ \E k \in DOMAIN runs : runs[k].status \in InFlight
       THEN worker' = [worker EXCEPT ![e] = Resting] /\ UNCHANGED runs
       ELSE /\ runs' = Append(runs, [status |-> "running", plan |-> worker[e].plan,
                                     steps |-> <<>>, late |-> FALSE])
            /\ worker' = [worker EXCEPT ![e].pc = "recorded", ![e].run = Len(runs) + 1]
  /\ UNCHANGED <<account, poll, deaths>>

RecordSteps(e) ==
  /\ worker[e].pc = "recorded"
  /\ runs' = [runs EXCEPT ![worker[e].run].steps = [i \in DOMAIN worker[e].plan.steps |-> "pending"]]
  /\ worker' = [worker EXCEPT ![e].pc = "executing"]
  /\ UNCHANGED <<account, poll, deaths>>

-----------------------------------------------------------------------------
(* executePlan (executor.ts).  What the directory makes of a step: *)

Effect(acc, key, plan) ==
  [exists     |-> acc.exists \/ key = "create_user",
   skus       |-> IF key = "assign_licenses" THEN acc.skus \union plan.skus ELSE acc.skus,
   inGroup    |-> acc.inGroup \/ key = "assign_cloudpc",
   credential |-> IF key \in {"issue_tap", "set_password"} THEN "issued" ELSE acc.credential]

NextKey(e) == worker[e].plan.steps[Len(worker[e].done) + 1]
Executing(e) == worker[e].pc = "executing" /\ Len(worker[e].done) < Len(worker[e].plan.steps)

(* issue_tap is skipped in a tenant without the method.  A credential that *)
(* was issued is delivered in the same step.                               *)
StepSucceeds(e) ==
  /\ Executing(e)
  /\ \/ /\ account' = LET acc == Effect(account, NextKey(e), worker[e].plan) IN
                        IF NextKey(e) \in {"issue_tap", "set_password"}
                          THEN [acc EXCEPT !.credential = "delivered"] ELSE acc
        /\ worker' = [worker EXCEPT ![e].done = Append(@, "succeeded")]
     \/ /\ NextKey(e) = "issue_tap"
        /\ worker' = [worker EXCEPT ![e].done = Append(@, "skipped")]
        /\ UNCHANGED account
  /\ UNCHANGED <<runs, poll, deaths>>

(* Mutant of StepFails: the run goes on after a failed step. *)
StepFailsAndGoesOn(e) ==
  /\ Executing(e) /\ NextKey(e) # "await_cloudpc"
  /\ account' \in {account, Effect(account, NextKey(e), worker[e].plan)}
  /\ worker' = [worker EXCEPT ![e].done = Append(@, "failed")]
  /\ UNCHANGED <<runs, poll, deaths>>

(* Graph refuses, or times out after it has done what was asked: no later  *)
(* step is run.                                                            *)
StepFails(e) ==
  /\ Executing(e) /\ NextKey(e) # "await_cloudpc"
  /\ account' \in {account, Effect(account, NextKey(e), worker[e].plan)}
  /\ worker' = [worker EXCEPT ![e].done = Append(@, "failed"), ![e].pc = "executed"]
  /\ UNCHANGED <<runs, poll, deaths>>

ExecuteEnds(e) ==
  /\ worker[e].pc = "executing" /\ Len(worker[e].done) = Len(worker[e].plan.steps)
  /\ worker' = [worker EXCEPT ![e].pc = "executed"]
  /\ UNCHANGED <<runs, account, poll, deaths>>

(* recordOutcomes: the steps, those never reached as skipped, ... *)
RecordOutcomes(e) ==
  LET done == worker[e].done IN
  /\ worker[e].pc = "executed"
  /\ runs' = [runs EXCEPT ![worker[e].run].steps =
                [i \in DOMAIN @ |-> IF i \in DOMAIN done THEN done[i] ELSE "skipped"]]
  /\ worker' = [worker EXCEPT ![e].pc = "outcomes"]
  /\ UNCHANGED <<account, poll, deaths>>

(* Mutant of RunStatus: only a missing account fails the run. *)
RunStatusOfAccount(done, plan) ==
  IF done[1] = "failed" THEN "failed"
  ELSE IF plan.steps[Len(plan.steps)] = "await_cloudpc" THEN "awaiting_cloudpc" ELSE "succeeded"

RunStatus(done, plan) ==
  IF \E i \in DOMAIN done : done[i] = "failed" THEN "failed"
  ELSE IF plan.steps[Len(plan.steps)] = "await_cloudpc" THEN "awaiting_cloudpc" ELSE "succeeded"

(* ... then the run.  Its notes and follow-up tasks are left out. *)
RecordStatus(e) ==
  /\ worker[e].pc = "outcomes"
  /\ runs' = [runs EXCEPT ![worker[e].run].status = RunStatus(worker[e].done, worker[e].plan)]
  /\ worker' = [worker EXCEPT ![e] = Resting]
  /\ UNCHANGED <<account, poll, deaths>>

(* The process dies, or the database fails outside the executor's try. *)
WorkerDies(e) ==
  /\ worker[e].pc # "idle" /\ deaths < MaxDeaths
  /\ worker' = [worker EXCEPT ![e] = Resting]
  /\ deaths' = deaths + 1
  /\ UNCHANGED <<runs, account, poll>>

(* resendCredentials: refused only while a run is running; it resets the   *)
(* password of the account a run created, then delivers it or fails to.    *)
ResendCredentials ==
  /\ \A k \in DOMAIN runs : runs[k].status # "running"
  /\ \E k \in DOMAIN runs : runs[k].steps # <<>> /\ runs[k].steps[1] = "succeeded"
  /\ account' \in {[account EXCEPT !.credential = c] : c \in {"issued", "delivered"}}
  /\ UNCHANGED <<runs, worker, poll, deaths>>

-----------------------------------------------------------------------------
(* The Cloud PC poller *)

(* The deadline of a run is four hours after its start. *)
DeadlinePasses(k) ==
  /\ runs[k].status = "awaiting_cloudpc" /\ ~runs[k].late
  /\ runs' = [runs EXCEPT ![k].late = TRUE]
  /\ UNCHANGED <<account, worker, poll, deaths>>

(* Mutant of NextRunState: there is no deadline. *)
NextRunStatePatient(found, late) ==
  IF found = "provisioned" THEN "succeeded"
  ELSE IF found = "failed" THEN "failed" ELSE "awaiting_cloudpc"

NextRunState(found, late) ==
  IF found = "provisioned" THEN "succeeded"
  ELSE IF found = "failed" \/ late THEN "failed" ELSE "awaiting_cloudpc"

(* One run of the tick's select: looked up, possibly in vain.  Another     *)
(* poller may end it in the meantime.                                      *)
PollLookup(p, k) ==
  /\ poll[p].run = 0
  /\ runs[k].status = "awaiting_cloudpc"
  /\ \E found \in {"null", "provisioned", "failed"} :
       poll' = [poll EXCEPT ![p] = [run |-> k, verdict |-> NextRunState(found, runs[k].late)]]
  /\ UNCHANGED <<runs, account, worker, deaths>>

(* Mutant of PollWrite: a run that must wait is written as well. *)
PollWriteAlways(p) ==
  /\ poll[p].run # 0
  /\ runs' = [runs EXCEPT ![poll[p].run].status = poll[p].verdict]
  /\ poll' = [poll EXCEPT ![p] = NotPolled]
  /\ UNCHANGED <<account, worker, deaths>>

(* The run is ended by id, whatever it is by now. *)
PollWrite(p) ==
  /\ poll[p].run # 0
  /\ runs' = IF poll[p].verdict = "awaiting_cloudpc" THEN runs
             ELSE [runs EXCEPT ![poll[p].run].status = poll[p].verdict]
  /\ poll' = [poll EXCEPT ![p] = NotPolled]
  /\ UNCHANGED <<account, worker, deaths>>

-----------------------------------------------------------------------------
WorkerStep(e) ==
  \/ RecordRun(e) \/ RecordSteps(e)
  \/ StepSucceeds(e) \/ StepFails(e) \/ ExecuteEnds(e)
  \/ RecordOutcomes(e) \/ RecordStatus(e)

PollerStep(p) == PollWrite(p) \/ \E k \in DOMAIN runs : PollLookup(p, k)

ProvNext ==
  \/ \E e \in ProvRequests : ProvisionCheck(e) \/ WorkerStep(e) \/ WorkerDies(e)
  \/ ResendCredentials
  \/ \E k \in DOMAIN runs : DeadlinePasses(k)
  \/ \E p \in ProvPollers : PollerStep(p)

(* Requests that do not die go on, some poller ticks, and time passes. *)
ProvFairness ==
  /\ \A e \in ProvRequests : WF_provVars(WorkerStep(e))
  /\ WF_provVars(\E p \in ProvPollers : PollerStep(p))
  /\ WF_provVars(\E k \in DOMAIN runs : DeadlinePasses(k))

ProvSpec == ProvInit /\ [][ProvNext]_provVars /\ ProvFairness

-----------------------------------------------------------------------------
(* Properties *)

(* At most one run of a ticket is in flight, whatever requests, crashes    *)
(* and pollers do (recordRun and migration 0057).                          *)
OneRunInFlight ==
  \A j, k \in DOMAIN runs : runs[j].status \in InFlight /\ runs[k].status \in InFlight => j = k

(* The account is in a Cloud PC policy's group only once it is licensed    *)
(* for a Cloud PC: no failed step, crash, retry or edit of the request     *)
(* between two runs leaves an account whose Cloud PC never builds          *)
(* (planner.ts, the order of the steps; executor.ts, the first failure     *)
(* ends the run).                                                          *)
CloudPcOnlyWhenLicensed == account.inGroup => "cloudpc" \in account.skus

(* A run that ended well, or waits for its Cloud PC, has every step of the *)
(* approved plan on record as done, the credential step possibly skipped   *)
(* (recordOutcomes).                                                       *)
SucceededIsComplete ==
  \A k \in DOMAIN runs : runs[k].status \in {"succeeded", "awaiting_cloudpc"} =>
    /\ DOMAIN runs[k].steps = DOMAIN runs[k].plan.steps
    /\ \A i \in DOMAIN runs[k].steps :
         \/ runs[k].steps[i] = "succeeded"
         \/ runs[k].steps[i] = "skipped" /\ runs[k].plan.steps[i] = "issue_tap"

(* What the runs say of the account is what was done to it, and the order  *)
(* of the steps outlives whatever interrupts them.                         *)
AccountIsAsPlanned == CloudPcOnlyWhenLicensed /\ SucceededIsComplete

(* A run that has ended never counts as in flight again, although pollers  *)
(* write by id what they looked up some time ago (cloudpc-poller.ts).      *)
EndedStaysEnded ==
  [][\A k \in DOMAIN runs : runs[k].status \in Ended => runs'[k].status \in Ended]_provVars

(* No run stays in flight for ever unless the request that carried it      *)
(* died: the deadline ends one whose Cloud PC is never seen                *)
(* (nextRunState).                                                         *)
RunEnds == []<>(deaths > 0 \/ \A k \in DOMAIN runs : runs[k].status \in Ended)
=============================================================================
