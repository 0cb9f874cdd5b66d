----------------------------- MODULE GroupAccess -----------------------------
(***************************************************************************)
(* The groups of a new user (modules/provisioning): a plan is previewed    *)
(* and approved, the answers, the directory and the groups of the user     *)
(* whose access is copied change, the plan is built again and executed     *)
(* only if it is the previewed one.  Module Provisioning has the other     *)
(* steps of a run.  Display names are unique; a name that is repeated in   *)
(* the answers stands for another spelling of it.                          *)
(***************************************************************************)
EXTENDS Naturals, Sequences, FiniteSets

CONSTANTS Plain, Privileged,   \* groups Graph can write; role-assignable ones
          Lists, Dynamics,     \* groups only Exchange can write; dynamic ones
          GroupAnswers,        \* what the form may say: [names, mirror]
          Provisioners,        \* POST /provision requests
          MaxGroupRuns, MaxGroupChanges, MaxGroupFaults   \* bounds

Groups == Plain \cup Privileged \cup Lists \cup Dynamics

ASSUME GroupAccessAssumption ==
  /\ \A a \in GroupAnswers : a.names \in Seq(Groups) /\ a.mirror \in BOOLEAN
  /\ Plain \cap Privileged = {} /\ (Plain \cup Privileged) \cap (Lists \cup Dynamics) = {}
  /\ Lists \cap Dynamics = {} /\ IsFiniteSet(Groups)
  /\ {MaxGroupRuns, MaxGroupChanges, MaxGroupFaults} \subseteq Nat

VARIABLES answers,    \* the answers on the ticket
          decided,    \* the approvals of the ticket
          present,    \* the groups in the directory
          held,       \* the groups of the user to copy from
          members,    \* the groups of the new account
          previews,   \* the plans an administrator has been shown
          groupRuns,  \* the runs: [plan, status, asked], asked being what its notes list
          tasks,      \* pending follow-up tasks: <<key, run that left it>>
          grantee,    \* per request, where it is
          groupCounts \* changes from outside, faults

worldVars == <<answers, decided, present, held>>
groupVars == <<worldVars, members, previews, groupRuns, tasks, grantee, groupCounts>>

Unread == [pc |-> "idle", plan |-> {}, token |-> {}, todo |-> {}, failed |-> FALSE,
           reached |-> "groups", run |-> 0]

GroupsInit ==
  /\ answers \in GroupAnswers /\ decided = "requested"
  /\ present = Groups /\ held = Groups /\ members = {} /\ previews = {} /\ groupRuns = <<>>
  /\ tasks = {} /\ grantee = [p \in Provisioners |-> Unread]
  /\ groupCounts = [changes |-> 0, faults |-> 0]

-----------------------------------------------------------------------------
(* Mutant of Copied: whatever the other user holds is copied. *)
CopiedAll == IF answers.mirror THEN held ELSE {}

(* partitionMirrorGroups: what may be copied from the other user.          *)
Copied == IF answers.mirror THEN held \cap Plain ELSE {}

Withheld == IF answers.mirror THEN held \cap Privileged ELSE {}

(* buildPlan: what planRun asks for, resolved to ids.  The number of names *)
(* is kept, for the executor compares with it.                             *)
GroupPlan ==
  LET named == {answers.names[i] : i \in DOMAIN answers.names}
      asked == named \cup Copied
      size  == Len(answers.names) + Cardinality(Copied \ named)
  IN  [named |-> named,
       size |-> size,
       ids |-> asked \cap present \cap (Plain \cup Privileged),
       exchange |-> asked \cap present \cap Lists,
       dynamic |-> asked \cap present \cap Dynamics,
       missing |-> asked \ present,      \* each a blocker
       withheld |-> Withheld,            \* the warning
       skipped |-> IF answers.mirror /\ size > 0 THEN held \cap (Lists \cup Dynamics) ELSE {}]

(* The world changes: somebody edits the answers, which approvals do not   *)
(* prevent, deletes or makes a group, or moves the other user.             *)
WorldChanges ==
  /\ groupCounts.changes < MaxGroupChanges
  /\ groupCounts' = [groupCounts EXCEPT !.changes = @ + 1]
  /\ \/ answers' \in GroupAnswers \ {answers} /\ UNCHANGED <<decided, present, held>>
     \/ \E g \in Groups : present' = (present \ {g}) \cup ({g} \ present)
        /\ UNCHANGED <<answers, decided, held>>
     \/ \E g \in Groups : held' = (held \ {g}) \cup ({g} \ held)
        /\ UNCHANGED <<answers, decided, present>>
  /\ UNCHANGED <<members, previews, groupRuns, tasks, grantee>>

(* decideApproval asks for no state: a request may be decided again.       *)
Decide ==
  /\ decided' \in {"approved", "rejected"} \ {decided}
  /\ UNCHANGED <<answers, present, held, members, previews, groupRuns, tasks, grantee, groupCounts>>

Preview ==
  /\ previews' = previews \cup {GroupPlan}
  /\ UNCHANGED <<worldVars, members, groupRuns, tasks, grantee, groupCounts>>

-----------------------------------------------------------------------------
Turns(p, fields) == grantee' = [grantee EXCEPT ![p] = fields]

(* A request brings the fingerprint of a preview; the plan is built again. *)
BeginProvision(p) ==
  /\ grantee[p].pc = "idle"
  /\ \E token \in previews : Turns(p, [Unread EXCEPT !.pc = "planned", !.plan = GroupPlan, !.token = token])
  /\ UNCHANGED <<worldVars, members, previews, groupRuns, tasks, groupCounts>>

(* Mutant of Refused: the fingerprint is not compared. *)
RefusedUnlessBlocked(p) ==
  \/ decided # "approved" \/ grantee[p].plan.missing # {}
  \/ \E k \in DOMAIN groupRuns : groupRuns[k].status = "running"

(* requireApprovedOnboardingRequest, the fingerprint, the blockers, and    *)
(* the unique index on runs in flight.                                     *)
Refused(p) ==
  \/ decided # "approved" \/ grantee[p].plan # grantee[p].token \/ grantee[p].plan.missing # {}
  \/ \E k \in DOMAIN groupRuns : groupRuns[k].status = "running"

StartRun(p) ==
  /\ grantee[p].pc = "planned"
  /\ IF Refused(p) \/ Len(groupRuns) = MaxGroupRuns
       THEN Turns(p, Unread) /\ UNCHANGED groupRuns
       ELSE /\ groupRuns' = Append(groupRuns, [plan |-> grantee[p].plan, status |-> "running", asked |-> {}])
            /\ Turns(p, [grantee[p] EXCEPT !.pc = "joining", !.todo = grantee[p].plan.ids, !.run = Len(groupRuns) + 1])
  /\ UNCHANGED <<worldVars, members, previews, tasks, groupCounts>>

(* addToGroup: every group is tried.  A refusal may come after the         *)
(* membership was written; one that is there already is adopted.           *)
Join(p, g) ==
  /\ grantee[p].pc = "joining" /\ g \in grantee[p].todo
  /\ \/ g \in present /\ members' = members \cup {g}
        /\ Turns(p, [grantee[p] EXCEPT !.todo = grantee[p].todo \ {g}])
     \/ members' \in {members, members \cup ({g} \cap present)}
        /\ Turns(p, [grantee[p] EXCEPT !.todo = grantee[p].todo \ {g}, !.failed = TRUE])
  /\ UNCHANGED <<worldVars, previews, groupRuns, tasks, groupCounts>>

(* The executor's check that names were resolved: it counts names that are *)
(* repeated, of which the resolver reports each list once.                 *)
Unsettled(plan) ==
  plan.ids = {} /\ plan.size > Cardinality(plan.exchange) + Cardinality(plan.dynamic)

(* A step before add_groups fails, with or without an account.             *)
FailEarly(p) ==
  /\ grantee[p].pc = "joining" /\ grantee[p].todo = grantee[p].plan.ids /\ ~grantee[p].failed
  /\ groupRuns' = [groupRuns EXCEPT ![grantee[p].run].status = "failed"]
  /\ \E reached \in {"nothing", "account"} :
       Turns(p, [grantee[p] EXCEPT !.pc = "noting", !.reached = reached])
  /\ UNCHANGED <<worldVars, members, previews, tasks, groupCounts>>

(* recordOutcomes; a later step may fail too.  That a run which waits for  *)
(* its Cloud PC blocks the next one is left to module Provisioning.        *)
EndRun(p) ==
  /\ grantee[p].pc = "joining" /\ grantee[p].todo = {}
  /\ \E status \in {"succeeded", "failed"} :
       /\ grantee[p].failed \/ Unsettled(grantee[p].plan) => status = "failed"
       /\ groupRuns' = [groupRuns EXCEPT ![grantee[p].run].status = status]
  /\ Turns(p, [grantee[p] EXCEPT !.pc = "noting"])
  /\ UNCHANGED <<worldVars, members, previews, tasks, groupCounts>>

AfterNote == [noting |-> "listing", listing |-> "reviewing", listed |-> "reviewing",
              reviewing |-> "idle", reviewed |-> "idle"]
Proceeds(p) ==
  Turns(p, IF AfterNote[grantee[p].pc] = "idle" THEN Unread
          ELSE [grantee[p] EXCEPT !.pc = AfterNote[grantee[p].pc]])

(* noteRunOutcome and the two tasks are best effort: a failure is logged.  *)
WriteFails(p) ==
  /\ grantee[p].pc \in DOMAIN AfterNote /\ groupCounts.faults < MaxGroupFaults
  /\ groupCounts' = [groupCounts EXCEPT !.faults = @ + 1]
  /\ Proceeds(p)
  /\ UNCHANGED <<worldVars, members, previews, groupRuns, tasks>>

GroupsKnown(p) == grantee[p].reached = "groups" /\ ~Unsettled(grantee[p].plan)

(* Mutant of NoteOutcome: the lists are left to the task. *)
NoteOutcomeBare(p) ==
  /\ grantee[p].pc = "noting" /\ Proceeds(p)
  /\ groupRuns' = [groupRuns EXCEPT ![grantee[p].run].asked = grantee[p].plan.withheld]
  /\ UNCHANGED <<worldVars, members, previews, tasks, groupCounts>>

(* The note lists what is withheld and, if add_groups got to know it, what *)
(* Graph cannot write.                                                     *)
NoteOutcome(p) ==
  LET plan == grantee[p].plan IN
  /\ grantee[p].pc = "noting" /\ Proceeds(p)
  /\ groupRuns' = [groupRuns EXCEPT ![grantee[p].run].asked =
                     plan.withheld \cup (IF GroupsKnown(p) THEN plan.exchange \cup plan.dynamic ELSE {})]
  /\ UNCHANGED <<worldVars, members, previews, tasks, groupCounts>>

(* queueExchangeGroupTask and queueRoleAssignableTask: none is left while  *)
(* one of its kind is pending, whatever that one lists.                    *)
TaskKey(p) == IF grantee[p].pc \in {"listing", "listed"} THEN "exchange" ELSE "review"

Needed(p) ==
  IF TaskKey(p) = "exchange" THEN grantee[p].plan.exchange # {} /\ grantee[p].reached = "groups"
  ELSE grantee[p].plan.withheld # {} /\ grantee[p].reached # "nothing"

LookForTask(p) ==
  /\ grantee[p].pc \in {"listing", "reviewing"}
  /\ IF Needed(p) /\ ~\E t \in tasks : t[1] = TaskKey(p)
       THEN Turns(p, [grantee[p] EXCEPT !.pc = IF TaskKey(p) = "exchange" THEN "listed" ELSE "reviewed"])
       ELSE Proceeds(p)
  /\ UNCHANGED <<worldVars, members, previews, groupRuns, tasks, groupCounts>>

LeaveTask(p) ==
  /\ grantee[p].pc \in {"listed", "reviewed"}
  /\ tasks' = tasks \cup {<<TaskKey(p), grantee[p].run>>} /\ Proceeds(p)
  /\ UNCHANGED <<worldVars, members, previews, groupRuns, groupCounts>>

TickOff(t) ==
  /\ t \in tasks /\ tasks' = tasks \ {t}
  /\ UNCHANGED <<worldVars, members, previews, groupRuns, grantee, groupCounts>>

(* The process dies; a run that was running stays so and blocks others.    *)
ProvisionerDies(p) ==
  /\ grantee[p].pc # "idle" /\ groupCounts.faults < MaxGroupFaults
  /\ groupCounts' = [groupCounts EXCEPT !.faults = @ + 1]
  /\ Turns(p, Unread)
  /\ UNCHANGED <<worldVars, members, previews, groupRuns, tasks>>

GroupsNext ==
  \/ WorldChanges \/ Decide \/ Preview
  \/ \E p \in Provisioners :
       \/ BeginProvision(p) \/ StartRun(p) \/ FailEarly(p) \/ EndRun(p) \/ NoteOutcome(p)
       \/ LookForTask(p) \/ LeaveTask(p) \/ WriteFails(p) \/ ProvisionerDies(p)
       \/ \E g \in Groups : Join(p, g)
  \/ \E t \in tasks : TickOff(t)

GroupsSpec == GroupsInit /\ [][GroupsNext]_groupVars

-----------------------------------------------------------------------------
(* Whatever happens between preview and execution, the account is only in  *)
(* groups of a plan that was previewed; and a group that can carry a role  *)
(* is copied from nobody: a plan named it (index.ts, "the dry run an admin *)
(* approves is provably the plan that executes").                          *)
OnlyWhatWasApproved ==
  \A g \in members : \E plan \in previews :
    /\ g \in plan.ids
    /\ g \in Privileged => g \in plan.named

(* What a run that succeeded was asked for is there, or on the ticket,     *)
(* unless a write of the service itself failed (resolveGroupIds, "never    *)
(* dropped").                                                              *)
NothingIsDropped ==
  \A k \in DOMAIN groupRuns :
    LET run == groupRuns[k] IN
    run.status = "succeeded" =>
      /\ run.plan.missing = {} /\ run.plan.ids \subseteq members
      /\ \/ (run.plan.exchange \cup run.plan.dynamic \cup run.plan.withheld) \subseteq run.asked
         \/ groupCounts.faults > 0
         \/ \E p \in Provisioners : grantee[p].run = k /\ grantee[p].pc = "noting"

AccessAsApproved == OnlyWhatWasApproved /\ NothingIsDropped
=============================================================================
