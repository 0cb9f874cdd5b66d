----------------------------- MODULE Operations -----------------------------
(***************************************************************************)
(* What a request and the people who work on it go through: how tickets    *)
(* come in, the form, what becomes of personal data, the checklist, the    *)
(* survey, and the access of staff; then paging, alerts, automation,       *)
(* notices and the groups of a new user; the promise of the change board   *)
(* (CabVerdict), which module ChangeManagement implements; and the ticket  *)
(* itself (ServiceDesk), with requests that overlap.  As in Platform,      *)
(* `part' says which part a behaviour shows, and the others rest in an     *)
(* initial state.                                                          *)
(***************************************************************************)
EXTENDS TicketIntake, RequestForms, SensitiveAnswers, Fulfilment, Surveys, StaffAccess,
        OnCall, OpsAlerts, Automation, Notifications, GroupAccess, CabVerdict, ServiceDesk

VARIABLE part

requestVars == <<intakeVars, formVars, answerVars, fulfilVars, surveyVars, staffVars>>
responseVars == <<onCallVars, alertVars, automationVars, noticeVars, groupVars, vars>>
operationsVars == <<requestVars, responseVars, deskVars, part>>

OperationsInit ==
  /\ part \in {"intake", "forms", "answers", "fulfilment", "surveys", "staff",
               "oncall", "alerts", "automation", "notices", "groups", "verdict", "ticket"}
  /\ IntakeInit /\ FormInit /\ AnswersInit /\ FulfilInit /\ SurveysInit /\ StaffInit
  /\ OnCallInit /\ AlertsInit /\ AutomationInit /\ NoticesInit /\ GroupsInit /\ Init /\ DeskInit
  /\ part # "intake" => cursor = NoLink
  /\ part # "answers" => \A t \in Cases : ~formed[t]
  /\ part # "fulfilment" => ~gated
  /\ part # "notices" => ~case.filed /\ ~case.balloted /\ muted = {} /\ ~teams /\ ~mail
  /\ part # "groups" => answers = CHOOSE a \in GroupAnswers : TRUE
  /\ part # "ticket" => ticket.status = "triage" /\ clock.response.state = "none"
  /\ part # "staff" => \A s \in Staff : account[s] = "none"

RequestPartsNext ==
  \/ part = "intake" /\ IntakeNext
     /\ UNCHANGED <<formVars, answerVars, fulfilVars, surveyVars, staffVars>>
  \/ part = "forms" /\ FormNext
     /\ UNCHANGED <<intakeVars, answerVars, fulfilVars, surveyVars, staffVars>>
  \/ part = "answers" /\ AnswersNext
     /\ UNCHANGED <<intakeVars, formVars, fulfilVars, surveyVars, staffVars>>
  \/ part = "fulfilment" /\ FulfilNext
     /\ UNCHANGED <<intakeVars, formVars, answerVars, surveyVars, staffVars>>
  \/ part = "surveys" /\ SurveysNext
     /\ UNCHANGED <<intakeVars, formVars, answerVars, fulfilVars, staffVars>>
  \/ part = "staff" /\ StaffNext
     /\ UNCHANGED <<intakeVars, formVars, answerVars, fulfilVars, surveyVars>>

ResponsePartsNext ==
  \/ part = "oncall" /\ OnCallNext
     /\ UNCHANGED <<alertVars, automationVars, noticeVars, groupVars, vars>>
  \/ part = "alerts" /\ AlertsNext
     /\ UNCHANGED <<onCallVars, automationVars, noticeVars, groupVars, vars>>
  \/ part = "automation" /\ AutomationNext
     /\ UNCHANGED <<onCallVars, alertVars, noticeVars, groupVars, vars>>
  \/ part = "notices" /\ NoticesNext
     /\ UNCHANGED <<onCallVars, alertVars, automationVars, groupVars, vars>>
  \/ part = "groups" /\ GroupsNext
     /\ UNCHANGED <<onCallVars, alertVars, automationVars, noticeVars, vars>>
  \/ part = "verdict" /\ Next
     /\ UNCHANGED <<onCallVars, alertVars, automationVars, noticeVars, groupVars>>

OperationsNext ==
  \/ RequestPartsNext /\ UNCHANGED <<responseVars, deskVars, part>>
  \/ ResponsePartsNext /\ UNCHANGED <<requestVars, deskVars, part>>
  \/ part = "ticket" /\ DeskNext /\ UNCHANGED <<requestVars, responseVars, part>>

OperationsSpec == OperationsInit /\ [][OperationsNext]_operationsVars

-----------------------------------------------------------------------------
(* The requester hears of each thing once: a resolution asks for one       *)
(* rating, however often it is published and whoever answers (modules/     *)
(* csat.ts), and a move of the ticket is told once (notifications.ts).     *)
HeardOnce == AskedOnce /\ ToldOnce

(* Access is what was granted: that of staff is never lost to another      *)
(* change of their account (platform-users.ts), and the groups of a new    *)
(* user are those of the plan an administrator read, none of them dropped  *)
(* in silence (provisioning/index.ts).                                     *)
AccessAsGranted == AccessNeverLost /\ AccessAsApproved
=============================================================================
