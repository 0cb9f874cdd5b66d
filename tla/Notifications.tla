---------------------------- MODULE Notifications ----------------------------
(***************************************************************************)
(* Who is told of what (modules/notifications.ts and                       *)
(* notifications-recipients.ts): one operation on a ticket or a change,    *)
(* the events it publishes, and the dispatch of each, which starts at      *)
(* publish(), before the transaction commits, and reads the ticket on a    *)
(* connection of its own, while others change it.  Events of posture and   *)
(* paging, whose recipients are one query each, are left out.              *)
(***************************************************************************)
EXTENDS Naturals, FiniteSets

CONSTANTS Requester,   \* the customer who asked
          Crew,        \* the agents who cover the customer's organization
          Desk,        \* the shared mailbox of the service desk
          Board,       \* those with a ballot on the change; Crew may overlap
          Chair, Raiser

ASSUME NotificationsAssumption ==
  /\ Requester \notin Crew \cup Board \cup {Desk, Chair, Raiser}
  /\ Desk \notin Crew \cup Board
  /\ (Crew \cup Board \cup {Requester, Desk, Chair, Raiser}) \cap {"nobody", "none", "internal"} = {}

VARIABLES case,     \* the ticket, and whether the change has ballots, as committed
          draft,    \* as the transaction at work will leave it; case if there is none
          began,    \* whether the operation has begun
          notices,  \* its events with their dispatch: [type, from, to, pc, todo]
          rows,     \* notification_deliveries: <<type, channel, recipient, status>>
          muted,    \* users who disabled mail
          teams, mail      \* whether the cloud and the adapter support the channel

moveVars == <<case, draft, began>>
fixedVars == <<muted, teams, mail>>
noticeVars == <<moveVars, notices, rows, fixedVars>>

SettledStatuses == {"resolved", "closed"}
CaseStatuses == SettledStatuses \cup {"triage", "in_progress"}

NoticesInit ==
  /\ case \in [filed : BOOLEAN, status : CaseStatuses, assignee : Crew \cup {"nobody"},
               balloted : BOOLEAN]
  /\ case.filed => ~case.balloted
  /\ ~case.filed => case.status = "triage" /\ case.assignee = "nobody"
  /\ draft = case /\ began = FALSE /\ notices = {} /\ rows = {}
  /\ muted \in SUBSET {Requester, Chair} /\ teams \in BOOLEAN /\ mail \in BOOLEAN

-----------------------------------------------------------------------------
(* usersByIds and coveringAgents leave out who disabled mail, and nobody.  *)
UsersByIds(ids) == ids \ (muted \cup {"nobody"})
CoveringAgents == UsersByIds(Crew)

(* Mutant of TicketRecipients: a milestone does not silence status_changed *)
(* when the ticket leaves a finished state. *)
TicketRecipientsTwice(n) ==
  CASE n.type = "ticket.status_changed" /\ n.to \in SettledStatuses -> {}
    [] n.type = "ticket.created" -> CoveringAgents \cup {Desk}
    [] n.type \in {"ticket.escalated", "ticket.commented"} -> CoveringAgents
    [] OTHER -> UsersByIds({Requester, case.assignee})

(* Mutant of TicketRecipients: every comment goes to the parties. *)
TicketRecipientsLeak(n) ==
  CASE n.type = "ticket.created" -> CoveringAgents \cup {Desk}
    [] n.type = "ticket.escalated" -> CoveringAgents
    [] n.type = "ticket.status_changed" /\ {n.from, n.to} \cap SettledStatuses # {} -> {}
    [] OTHER -> UsersByIds({Requester, case.assignee})

(* resolveRecipients for a ticket that is found.                           *)
TicketRecipients(n) ==
  CASE n.type = "ticket.acknowledged" -> UsersByIds({Requester})
    [] n.type = "ticket.created" /\ case.assignee # "nobody" -> UsersByIds({case.assignee})
    [] n.type = "ticket.created" /\ case.assignee = "nobody" -> CoveringAgents \cup {Desk}
    [] n.type = "ticket.assigned" -> UsersByIds({IF n.to = "nobody" THEN case.assignee ELSE n.to, Requester})
    [] n.type = "ticket.escalated" -> CoveringAgents
    [] n.type = "ticket.commented" /\ n.to = "internal" -> UsersByIds({case.assignee}) \cup CoveringAgents
    [] n.type = "ticket.status_changed" /\ {n.from, n.to} \cap SettledStatuses # {} -> {}
    [] OTHER -> UsersByIds({Requester, case.assignee})

(* ... and for a change: the holders of the ballots that are committed,    *)
(* the chair unless the vote is the chair's own, the raiser of what is     *)
(* decided; an approval stands for a rejection and a schedule too.         *)
ChangeRecipients(n) ==
  CASE n.type = "change.cab_requested" -> IF case.balloted THEN UsersByIds(Board) ELSE {}
    [] n.type \in {"change.vote_cast", "change.vote_overdue"} -> UsersByIds({Chair} \ {n.from})
    [] OTHER -> UsersByIds({Raiser})

OfChange(n) ==
  n.type \in {"change.cab_requested", "change.vote_cast", "change.vote_overdue", "change.approved"}

(* An acknowledgement of a mail goes to the address it came from, disabled *)
(* or not; a ticket whose transaction has not committed is not found.      *)
ResolveRecipients(n) ==
  IF OfChange(n) THEN ChangeRecipients(n)
  ELSE IF n.type = "ticket.acknowledged" /\ n.to = "sender" THEN {Requester}
  ELSE IF case.filed THEN TicketRecipients(n) ELSE {}

EmailOnly(n) == n.type \in {"ticket.acknowledged", "change.cab_requested"}

-----------------------------------------------------------------------------
Event(type, from, to) ==
  [type |-> type, from |-> from, to |-> to, pc |-> "published", todo |-> {}]

(* The operation publishes its events and leaves its transaction open.     *)
Operates(events, after) ==
  /\ ~began /\ began' = TRUE
  /\ notices' = events /\ draft' = after
  /\ UNCHANGED <<case, rows, fixedVars>>

(* createTicket, and ingestMessage, which publishes after its COMMIT.      *)
CreateTicket ==
  /\ ~case.filed
  /\ Operates({Event("ticket.created", "none", "none"), Event("ticket.acknowledged", "none", "none")},
              [case EXCEPT !.filed = TRUE])

IngestMessage ==
  /\ ~case.filed /\ ~began /\ began' = TRUE
  /\ case' = [case EXCEPT !.filed = TRUE] /\ draft' = case'
  /\ notices' = {Event("ticket.created", "none", "none"), Event("ticket.acknowledged", "none", "sender")}
  /\ UNCHANGED <<rows, fixedVars>>

(* What applyTransition publishes.                                         *)
Milestones(from, to) ==
  {Event("ticket.status_changed", from, to)}
    \cup (IF to = "resolved" THEN {Event("ticket.resolved", from, to)} ELSE {})
    \cup (IF to = "closed" THEN {Event("ticket.closed", from, to)} ELSE {})
    \cup (IF from \in SettledStatuses /\ to \notin SettledStatuses THEN {Event("ticket.reopened", from, to)} ELSE {})

(* Any map of transitions may be configured.                               *)
ApplyTransition(to) ==
  case.filed /\ Operates(Milestones(case.status, to), [case EXCEPT !.status = to])

AssignTicket(a) ==
  case.filed /\ Operates({Event("ticket.assigned", "none", a)},
                         [case EXCEPT !.assignee = a, !.status = IF @ = "triage" THEN "in_progress" ELSE @])

AddComment(visibility) == case.filed /\ Operates({Event("ticket.commented", "none", visibility)}, case)

EscalateCase ==
  case.filed /\ Operates({Event("ticket.escalated", "none", "none")},
                         [case EXCEPT !.assignee = "nobody", !.status = IF @ = "triage" THEN "in_progress" ELSE @])

SubmitForCab ==
  ~case.balloted /\ Operates({Event("change.cab_requested", "none", "none")}, [case EXCEPT !.balloted = TRUE])

(* resendVoteRequest, castVote with or without a verdict, and the sweeper. *)
ChangeMoves(v) ==
  \E types \in {{"change.cab_requested"}, {"change.vote_cast"}, {"change.vote_cast", "change.approved"},
                {"change.vote_overdue"}} :
    case.balloted /\ Operates({Event(t, IF t = "change.vote_cast" THEN v ELSE "none", "none") : t \in types}, case)

CaseCommits == draft # case /\ case' = draft /\ UNCHANGED <<draft, began, notices, rows, fixedVars>>

CaseRollsBack == draft # case /\ draft' = case /\ UNCHANGED <<case, began, notices, rows, fixedVars>>

(* Another operation, whose events are not followed, assigns the ticket.   *)
OthersWrite ==
  /\ began /\ draft = case /\ case.filed
  /\ \E a \in Crew \cup {"nobody"} : case' = [case EXCEPT !.assignee = a]
  /\ draft' = case'
  /\ UNCHANGED <<began, notices, rows, fixedVars>>

-----------------------------------------------------------------------------
Becomes(n, pc, todo) == notices' = (notices \ {n}) \cup {[n EXCEPT !.pc = pc, !.todo = todo]}

Logged(n, channel, who, status) == rows' = rows \cup {<<n.type, channel, who, status>>}

(* dispatch resolves the recipients and records the portal floor.          *)
Resolve(n) ==
  /\ n.pc = "published"
  /\ Becomes(n, IF EmailOnly(n) THEN "email" ELSE "teams", ResolveRecipients(n))
  /\ Logged(n, "portal", "none", "sent")
  /\ UNCHANGED <<moveVars, fixedVars>>

After(channel) == IF channel = "teams" THEN "email" ELSE "done"

(* A channel that is not supported, or has nobody to tell, is passed over. *)
PassOver(n) ==
  /\ n.pc \in {"teams", "email"}
  /\ \/ ~(IF n.pc = "teams" THEN teams ELSE mail) /\ Logged(n, n.pc, "none", "substituted")
     \/ (IF n.pc = "teams" THEN teams ELSE mail) /\ n.todo = {} /\ Logged(n, n.pc, "none", "skipped")
  /\ Becomes(n, After(n.pc), n.todo)
  /\ UNCHANGED <<moveVars, fixedVars>>

(* sendWithRetry reports a failure after three of them, any of which may   *)
(* have arrived all the same.  A post that is reported sent ends the chain.*)
SendTeams(n) ==
  /\ n.pc = "teams" /\ teams /\ n.todo # {}
  /\ \/ Logged(n, "teams", "none", "sent") /\ Becomes(n, "done", n.todo)
     \/ Logged(n, "teams", "none", "failed") /\ Becomes(n, "email", n.todo)
  /\ UNCHANGED <<moveVars, fixedVars>>

(* Mutant of SendEmail: the failure of one recipient ends the loop. *)
SendEmailBreaks(n, r) ==
  /\ n.pc = "email" /\ mail /\ r \in n.todo
  /\ \/ Logged(n, "email", r, "sent") /\ Becomes(n, IF n.todo = {r} THEN "done" ELSE "email", n.todo \ {r})
     \/ Logged(n, "email", r, "failed") /\ Becomes(n, "done", n.todo \ {r})
  /\ UNCHANGED <<moveVars, fixedVars>>

(* Mails go one by one, each recorded when it is sent or given up.         *)
SendEmail(n, r) ==
  /\ n.pc = "email" /\ mail /\ r \in n.todo
  /\ \E result \in {"sent", "failed"} : Logged(n, "email", r, result)
  /\ Becomes(n, IF n.todo = {r} THEN "done" ELSE "email", n.todo \ {r})
  /\ UNCHANGED <<moveVars, fixedVars>>

(* The handler throws or the process stops: nobody takes it up again.      *)
DispatchDies(n) ==
  /\ n.pc \notin {"done", "died"} /\ Becomes(n, "died", n.todo)
  /\ UNCHANGED <<moveVars, rows, fixedVars>>

Dispatch == \E n \in notices :
  Resolve(n) \/ PassOver(n) \/ SendTeams(n) \/ (\E r \in n.todo : SendEmail(n, r)) \/ DispatchDies(n)

NoticesNext ==
  \/ CreateTicket \/ IngestMessage \/ EscalateCase \/ SubmitForCab \/ CaseCommits \/ CaseRollsBack \/ OthersWrite
  \/ \E s \in CaseStatuses : ApplyTransition(s)
  \/ \E a \in Crew \cup {"nobody"} : AssignTicket(a)
  \/ \E v \in {"internal", "customer"} : AddComment(v)
  \/ \E v \in Board : ChangeMoves(v)
  \/ Dispatch

NoticesSpec == NoticesInit /\ [][NoticesNext]_noticeVars

-----------------------------------------------------------------------------
MoveTypes == {"ticket.status_changed", "ticket.resolved", "ticket.closed", "ticket.reopened", "ticket.assigned"}

Tried(n) == {r \in rows : r[1] = n.type /\ r[2] # "portal" /\ r[4] \in {"sent", "failed"}}

(* Whatever transitions are configured, and whoever changes the ticket     *)
(* meanwhile, a transition or an assignment whose dispatch ends is told to *)
(* the requester once and not twice: of its events exactly one finds       *)
(* somebody to tell (notifications-recipients.ts, "avoid double emails").  *)
MoveToldOnce ==
  LET heard == {n \in notices : Tried(n) # {}}
  IN  /\ notices # {} /\ Requester \notin muted /\ (teams \/ mail)
      /\ \A n \in notices : n.type \in MoveTypes /\ n.pc = "done"
      => /\ Cardinality(heard) = 1
         /\ \A n \in heard : \E r \in Tried(n) : r[3] = Requester \/ <<r[2], r[4]>> = <<"teams", "sent">> \/ ~mail

(* What is for the desk is never mailed to the customer, and what is       *)
(* addressed to a person is never posted to the team.                      *)
InternalStaysInside ==
  \A n \in notices, r \in rows : r[1] = n.type =>
    /\ n.type \in {"ticket.created", "ticket.escalated"} \/ n.to = "internal" => r[3] # Requester
    /\ EmailOnly(n) => r[2] # "teams"

(* A dispatch that ended has an account of everybody it was for.           *)
EndedIsOnRecord ==
  \A n \in notices : n.pc = "done" =>
    \/ <<n.type, "teams", "none", "sent">> \in rows
    \/ \E s \in {"skipped", "substituted"} : <<n.type, "email", "none", s>> \in rows
    \/ n.todo = {} /\ Tried(n) # {}

ToldOnce == MoveToldOnce /\ InternalStaysInside /\ EndedIsOnRecord
=============================================================================
