------------------------------ MODULE Surveys -------------------------------
(***************************************************************************)
(* The satisfaction survey of a ticket (modules/csat.ts): made when the    *)
(* ticket is resolved, and answered in the portal or through the link in a *)
(* mail.  The event that calls for it is handled from the moment of        *)
(* publish(), whatever becomes of the transaction that published it        *)
(* (events/bus.ts), and the completion of a task publishes it again and    *)
(* again (modules/catalog.ts).                                             *)
(***************************************************************************)
EXTENDS Naturals

CONSTANTS Links,       \* answers through the link in the mail
          Raters,      \* answers in the portal
          MaxResolved  \* bound on ticket.resolved events

ASSUME SurveysAssumption == Links \cap Raters = {} /\ MaxResolved \in Nat

VARIABLES ratable,    \* whether the ticket is resolved or closed
          published,  \* ticket.resolved events
          unhandled,  \* those whose handler has not run
          survey,     \* [state, link]: link is false on a row made by a rating
          invited,    \* mails with a link
          linkOk,     \* answers through the link that were told `ok'
          answer      \* where each answer is

resolutionVars == <<ratable, published>>
surveyVars == <<resolutionVars, unhandled, survey, invited, linkOk, answer>>

SurveysInit ==
  /\ ratable = FALSE /\ published = 0 /\ unhandled = 0
  /\ survey = [state |-> "none", link |-> FALSE] /\ invited = 0 /\ linkOk = 0
  /\ answer = [a \in Links \cup Raters |-> "idle"]

(* A transaction publishes ticket.resolved, and may be rolled back.        *)
Publish ==
  /\ published < MaxResolved
  /\ published' = published + 1 /\ unhandled' = unhandled + 1
  /\ UNCHANGED <<ratable, survey, invited, linkOk, answer>>

(* The ticket is resolved, closed or reopened.                             *)
TicketMoves ==
  /\ ratable' \in (IF published > 0 THEN BOOLEAN ELSE {FALSE})
  /\ UNCHANGED <<published, unhandled, survey, invited, linkOk, answer>>

-----------------------------------------------------------------------------
(* Mutant of IssueSurvey: mails an invitation whoever made the row. *)
IssueSurveyAlways ==
  /\ unhandled > 0 /\ unhandled' = unhandled - 1
  /\ survey' = IF survey.state = "none" THEN [state |-> "open", link |-> TRUE] ELSE survey
  /\ invited' = invited + 1
  /\ UNCHANGED <<resolutionVars, linkOk, answer>>

(* createSurveyForTicket: INSERT ... ON CONFLICT DO NOTHING, and the mail  *)
(* only if a row came of it.                                               *)
IssueSurvey ==
  /\ unhandled > 0 /\ unhandled' = unhandled - 1
  /\ IF survey.state = "none"
       THEN /\ survey' = [state |-> "open", link |-> TRUE]
            /\ invited' = invited + 1
       ELSE UNCHANGED <<survey, invited>>
  /\ UNCHANGED <<resolutionVars, linkOk, answer>>

(* The handler fails, or the process stops, before the mail is out.        *)
SurveyIsLost ==
  /\ unhandled > 0 /\ unhandled' = unhandled - 1
  /\ survey' \in {survey} \cup (IF survey.state = "none" THEN {[state |-> "open", link |-> TRUE]} ELSE {})
  /\ UNCHANGED <<resolutionVars, invited, linkOk, answer>>

(* respondPublic: the link works while the survey is not answered and not  *)
(* expired; each statement commits by itself.                              *)
LinkReads(a) ==
  /\ answer[a] = "idle" /\ invited > 0 /\ survey.state = "open"
  /\ answer' = [answer EXCEPT ![a] = "read"]
  /\ UNCHANGED <<resolutionVars, unhandled, survey, invited, linkOk>>

(* Mutant of LinkWrites: by id alone, as the portal does. *)
LinkWritesById(a) ==
  /\ answer[a] = "read"
  /\ survey' = [survey EXCEPT !.state = "answered"]
  /\ linkOk' = linkOk + 1
  /\ answer' = [answer EXCEPT ![a] = "idle"]
  /\ UNCHANGED <<resolutionVars, unhandled, invited>>

LinkWrites(a) ==
  /\ answer[a] = "read"
  /\ survey' = [survey EXCEPT !.state = "answered"]
  /\ linkOk' = IF survey.state = "answered" THEN linkOk ELSE linkOk + 1
  /\ answer' = [answer EXCEPT ![a] = "idle"]
  /\ UNCHANGED <<resolutionVars, unhandled, invited>>

(* respondByTicket: finds the survey of a finished ticket or makes one,    *)
(* without a link; respond answers it in a transaction of its own.         *)
RaterFinds(a) ==
  /\ answer[a] = "idle" /\ (survey.state # "none" \/ ratable)
  /\ survey' = IF survey.state = "none" THEN [state |-> "open", link |-> FALSE] ELSE survey
  /\ answer' = [answer EXCEPT ![a] = "found"]
  /\ UNCHANGED <<resolutionVars, unhandled, invited, linkOk>>

RaterReads(a) ==
  /\ answer[a] = "found"
  /\ answer' = [answer EXCEPT ![a] = IF survey.state = "answered" THEN "idle" ELSE "read"]
  /\ UNCHANGED <<resolutionVars, unhandled, survey, invited, linkOk>>

RaterWrites(a) ==
  /\ answer[a] = "read"
  /\ survey' = [survey EXCEPT !.state = "answered"]
  /\ answer' = [answer EXCEPT ![a] = "idle"]
  /\ UNCHANGED <<resolutionVars, unhandled, invited, linkOk>>

AnswerFails(a) ==
  /\ answer[a] # "idle"
  /\ answer' = [answer EXCEPT ![a] = "idle"]
  /\ UNCHANGED <<resolutionVars, unhandled, survey, invited, linkOk>>

SurveysNext ==
  \/ Publish \/ TicketMoves \/ IssueSurvey \/ SurveyIsLost
  \/ \E a \in Links : LinkReads(a) \/ LinkWrites(a)
  \/ \E a \in Raters : RaterFinds(a) \/ RaterReads(a) \/ RaterWrites(a)
  \/ \E a \in Links \cup Raters : AnswerFails(a)

SurveysSpec == SurveysInit /\ [][SurveysNext]_surveyVars

-----------------------------------------------------------------------------
(* The requester is invited at most once, however often the ticket is      *)
(* resolved or its tasks are completed again, and at most one answer       *)
(* through the link is accepted, whoever else answers meanwhile            *)
(* (createSurveyForTicket; respondPublic, "two clicks on the same link").  *)
AskedOnce == invited <= 1 /\ linkOk <= invited
=============================================================================
