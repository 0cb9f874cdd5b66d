----------------------------- MODULE Automation -----------------------------
(***************************************************************************)
(* One automation rule (modules/automation.ts): what the handler of an     *)
(* event performs at once, what waits for somebody to approve it, and the  *)
(* rows that record it.  Every statement commits by itself.  What an       *)
(* action does to its ticket is left out.                                  *)
(***************************************************************************)
CONSTANTS Safe,      \* actions of the rule that are performed at once
          Gated,     \* actions that wait for an approval
          Firings,   \* events that match the rule, by event_id
          Judges     \* requests that approve or reject, and may overlap

(* The two sets of types an action may have, SAFE_ACTIONS, GATED_ACTIONS.  *)
ASSUME AutomationAssumption == Safe \cap Gated = {}

VARIABLES rule,       \* draft, published, disabled
          handler,    \* of each event: new, acting, approving, linking, over
          execution,  \* its row of automation_executions: [outcome, linked]
          gate,       \* its row of approvals
          did,        \* the actions performed for it
          judge       \* each request: [pc, of, linked, todo]

ruleVars == <<rule, handler, execution, gate, did>>
automationVars == <<ruleVars, judge>>

Judging(c, to) == judge' = [judge EXCEPT ![c] = to]
NoJudge == [pc |-> "idle", of |-> "none", linked |-> FALSE, todo |-> {}]

AutomationInit ==
  /\ rule = "draft"
  /\ handler = [e \in Firings |-> "new"]
  /\ execution = [e \in Firings |-> [outcome |-> "none", linked |-> FALSE]]
  /\ gate = [e \in Firings |-> "none"]
  /\ did = [e \in Firings |-> {}]
  /\ judge = [c \in Judges |-> NoJudge]

-----------------------------------------------------------------------------
(* publishRule (by somebody else than the author) and setState             *)
SetRule(state) ==
  /\ rule # state
  /\ rule' = state
  /\ UNCHANGED <<handler, execution, gate, did, judge>>

(* The handler of an event reads the published rules.                      *)
HandleEvent(e) ==
  /\ handler[e] = "new"
  /\ handler' = [handler EXCEPT ![e] = IF rule = "published" THEN "acting" ELSE "over"]
  /\ UNCHANGED <<rule, execution, gate, did, judge>>

PerformSafe(e) ==
  /\ handler[e] = "acting"
  /\ \E action \in Safe \ did[e] : did' = [did EXCEPT ![e] = @ \cup {action}]
  /\ UNCHANGED <<rule, handler, execution, gate, judge>>

(* Mutant of RecordExecution: the row is inserted before the actions. *)
RecordExecutionFirst(e) ==
  /\ handler[e] = "acting" /\ execution[e].outcome = "none"
  /\ execution' = [execution EXCEPT ![e].outcome = "pending_approval"]
  /\ handler' = [handler EXCEPT ![e] = IF Safe \subseteq did[e] THEN "approving" ELSE @]
  /\ UNCHANGED <<rule, gate, did, judge>>

(* All of them performed, the execution is recorded, for good if nothing   *)
(* is gated; a firing without an organization gets no approval.            *)
RecordExecution(e) ==
  /\ handler[e] = "acting" /\ Safe \subseteq did[e]
  /\ execution' = [execution EXCEPT ![e].outcome = IF Gated = {} THEN "executed" ELSE "pending_approval"]
  /\ \E next \in IF Gated = {} THEN {"over"} ELSE {"approving", "over"} :
       handler' = [handler EXCEPT ![e] = next]
  /\ UNCHANGED <<rule, gate, did, judge>>

RecordApproval(e) ==
  /\ handler[e] = "approving"
  /\ gate' = [gate EXCEPT ![e] = "requested"]
  /\ handler' = [handler EXCEPT ![e] = "linking"]
  /\ UNCHANGED <<rule, execution, did, judge>>

LinkApproval(e) ==
  /\ handler[e] = "linking"
  /\ execution' = [execution EXCEPT ![e].linked = TRUE]
  /\ handler' = [handler EXCEPT ![e] = "over"]
  /\ UNCHANGED <<rule, gate, did, judge>>

HandlerFails(e) ==
  /\ handler[e] \in {"acting", "approving", "linking"}
  /\ handler' = [handler EXCEPT ![e] = "over"]
  /\ UNCHANGED <<rule, execution, gate, did, judge>>

-----------------------------------------------------------------------------
(* approveExecution and rejectExecution read the row without a lock.       *)
BeginJudging(c, e) ==
  /\ judge[c].pc = "idle" /\ execution[e].outcome = "pending_approval"
  /\ \E pc \in {"performing", "rejecting"} :
       Judging(c, [pc |-> pc, of |-> e, linked |-> execution[e].linked, todo |-> Gated])
  /\ UNCHANGED ruleVars

PerformGated(c) ==
  /\ judge[c].pc = "performing"
  /\ \E action \in judge[c].todo :
       /\ did' = [did EXCEPT ![judge[c].of] = @ \cup {action}]
       /\ Judging(c, [judge[c] EXCEPT !.todo = @ \ {action}])
  /\ UNCHANGED <<rule, handler, execution, gate>>

(* Mutant of MarkExecuted: it is marked before the actions are performed. *)
MarkExecutedFirst(c) ==
  /\ judge[c].pc = "performing" /\ execution[judge[c].of].outcome # "executed"
  /\ execution' = [execution EXCEPT ![judge[c].of].outcome = "executed"]
  /\ Judging(c, [judge[c] EXCEPT !.pc = IF @ = "performing" /\ judge[c].todo = {} THEN "approved" ELSE @])
  /\ UNCHANGED <<rule, handler, gate, did>>

MarkExecuted(c) ==
  /\ judge[c].pc = "performing" /\ judge[c].todo = {}
  /\ execution' = [execution EXCEPT ![judge[c].of].outcome = "executed"]
  /\ Judging(c, [judge[c] EXCEPT !.pc = "approved"])
  /\ UNCHANGED <<rule, handler, gate, did>>

MarkRejected(c) ==
  /\ judge[c].pc = "rejecting"
  /\ execution' = [execution EXCEPT ![judge[c].of].outcome = "rejected"]
  /\ Judging(c, [judge[c] EXCEPT !.pc = "rejected"])
  /\ UNCHANGED <<rule, handler, gate, did>>

(* The approval follows, if the row that was read refers to one.           *)
MarkApproval(c) ==
  /\ judge[c].pc \in {"approved", "rejected"}
  /\ gate' = IF judge[c].linked THEN [gate EXCEPT ![judge[c].of] = judge[c].pc] ELSE gate
  /\ Judging(c, NoJudge)
  /\ UNCHANGED <<rule, handler, execution, did>>

JudgeFails(c) ==
  /\ judge[c].pc # "idle"
  /\ Judging(c, NoJudge)
  /\ UNCHANGED ruleVars

AutomationNext ==
  \/ \E state \in {"draft", "published", "disabled"} : SetRule(state)
  \/ \E e \in Firings : \/ HandleEvent(e) \/ PerformSafe(e) \/ RecordExecution(e)
                        \/ RecordApproval(e) \/ LinkApproval(e) \/ HandlerFails(e)
                        \/ \E c \in Judges : BeginJudging(c, e)
  \/ \E c \in Judges : \/ PerformGated(c) \/ MarkExecuted(c) \/ MarkRejected(c)
                       \/ MarkApproval(c) \/ JudgeFails(c)

AutomationSpec == AutomationInit /\ [][AutomationNext]_automationVars

-----------------------------------------------------------------------------
(* An execution that is called executed, or whose approval is approved,    *)
(* has had all its actions performed, and no gated action is performed     *)
(* before the safe ones are through, wherever a handler or an approval     *)
(* fails and however approvals and rejections overlap (approveExecution,   *)
(* rejectExecution, registerAutomationHandlers).                           *)
ExecutedIsDone ==
  \A e \in Firings :
    /\ execution[e].outcome = "executed" \/ gate[e] = "approved" => Safe \cup Gated \subseteq did[e]
    /\ did[e] \cap Gated # {} => Safe \subseteq did[e]
=============================================================================
