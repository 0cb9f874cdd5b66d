------------------------------ MODULE Tickets ------------------------------
(***************************************************************************)
(* One support ticket with its two SLA clocks: the handlers of             *)
(* apps/api/src/modules/tickets.ts and sla.ts.                             *)
(*                                                                         *)
(* Beside them, what the automation engine does to a ticket                *)
(* (modules/automation.ts).                                                *)
(*                                                                         *)
(* A request runs in a transaction at READ COMMITTED.  What it reads       *)
(* without a lock is a step of its own; its writes become visible at       *)
(* COMMIT.  An UPDATE of the ticket waits while another transaction holds  *)
(* the row, which "rowLock" keeps for the two transactions that hold it    *)
(* over a further read: a resuming transition and the auto-close job.      *)
(***************************************************************************)
EXTENDS Integers, FiniteSets

CONSTANTS
  Requests,     \* requests that may overlap
  Transitions,  \* the effective workflow: pairs <<from, to>>
  Target,       \* minutes promised per metric
  RuleActions,  \* what approved automation does to the ticket: reopen_ticket,
                \* close_stale_ticket, or the status a change_status gives it
  MaxTime,      \* bound: the last instant
  NoOne         \* holder of a free row lock

Statuses == {"new", "triage", "assigned", "in_progress", "blocked", "waiting_customer",
             "waiting_vendor", "on_hold", "resolved", "closed", "reopened"}
Metrics  == {"response", "resolution"}

ASSUME TicketAssumption ==
  /\ Transitions \subseteq Statuses \X Statuses
  /\ Target \in [Metrics -> Nat \ {0}]
  /\ RuleActions \subseteq Statuses \cup {"reopen_ticket", "close_stale_ticket"}
  /\ MaxTime \in Nat
  /\ NoOne \notin Requests

(* apps/api/src/modules/workflows.ts, DEFAULT_TRANSITIONS *)
DefaultNext ==
  [new              |-> {"triage", "assigned"},
   triage           |-> {"assigned", "in_progress"},
   assigned         |-> {"in_progress", "waiting_customer", "on_hold", "blocked"},
   in_progress      |-> {"waiting_customer", "waiting_vendor", "on_hold", "resolved", "blocked"},
   blocked          |-> {"in_progress", "assigned"},
   waiting_customer |-> {"in_progress", "resolved"},
   waiting_vendor   |-> {"in_progress"},
   on_hold          |-> {"in_progress"},
   resolved         |-> {"closed", "reopened"},
   reopened         |-> {"in_progress"},
   closed           |-> {"reopened"}]
DefaultTransitions == {e \in Statuses \X Statuses : e[2] \in DefaultNext[e[1]]}

Intake   == {"new", "triage"}
TerminalStatuses == {"resolved", "closed"}
OnHold   == {"waiting_customer", "waiting_vendor", "on_hold"}

Never == MaxTime + 1     \* a null timestamp

VARIABLES
  now,
  ticket,    \* status; resolved_at (no, recently or longAgo, against the
             \* auto-close window) and whether closed_at is set
  clock,     \* the sla_instances rows: state ("none" without a row), due time
             \* (they start at 0) and paused_at
  rowLock,   \* who holds the ticket's row over several statements
  req        \* what each request has read so far

ticketVars == <<now, ticket, clock, rowLock, req>>

IsTransitionAllowed(from, to) == <<from, to>> \in Transitions

-----------------------------------------------------------------------------
(* sla.ts.  paused_at is read only of a paused clock, and kept no longer.  *)

(* Bound: a due time past the horizon neither warns nor breaches any more. *)
Capped(due) == IF due > MaxTime + 2 THEN MaxTime + 2 ELSE due

Row(state, due) == [state |-> state, due |-> due, pausedAt |-> Never]

MarkResponseMet(c) ==
  IF c.response.state \in {"running", "warning", "paused"}
    THEN [c EXCEPT !.response = Row("met", c.response.due)] ELSE c

(* applyTransition stops the resolution clock the same way, breached ones apart. *)
MarkResolutionMet(c) ==
  IF c.resolution.state \in {"running", "warning", "paused"}
    THEN [c EXCEPT !.resolution = Row("met", c.resolution.due)] ELSE c

(* Mutant of EvaluateState: the due instant itself is still in time. *)
EvaluateStateLate(row, t) ==
  IF row.state \in {"met", "breached", "paused"} THEN row.state
  ELSE IF t > row.due THEN "breached"
  ELSE IF 4 * t >= 3 * row.due THEN "warning"
  ELSE "running"

EvaluateState(row, t) ==
  IF row.state \in {"met", "breached", "paused"} THEN row.state
  ELSE IF t >= row.due THEN "breached"
  ELSE IF 4 * t >= 3 * row.due THEN "warning"
  ELSE "running"

PauseTicketSlas(c, t) ==
  [m \in Metrics |-> IF c[m].state \in {"running", "warning"}
                       THEN [c[m] EXCEPT !.state = "paused", !.pausedAt = t] ELSE c[m]]

(* Mutant of ResumedRows: a begun unit of the pause is rounded up. *)
ResumedRowsRoundedUp(c, t) ==
  [m \in {m \in Metrics : c[m].state = "paused"} |-> Capped(c[m].due + (t - c[m].pausedAt) + 1)]

(* The rows resumeTicketSlas selects, each with the due time applyResume   *)
(* gives it, ...                                                           *)
ResumedRows(c, t) ==
  [m \in {m \in Metrics : c[m].state = "paused"} |-> Capped(c[m].due + (t - c[m].pausedAt))]

(* ... which is written to each of them by id, whatever it is by then. *)
ResumeRows(c, due) ==
  [m \in Metrics |-> IF m \in DOMAIN due THEN Row("running", due[m]) ELSE c[m]]

-----------------------------------------------------------------------------
Idle     == [pc |-> "idle", read |-> "new", to |-> "new", due |-> <<>>]

(* createTicket has committed: the row was moved to triage, or to blocked  *)
(* for an integration's story, and its clocks run unless they were         *)
(* suppressed; or createRequest has, and the request waits for approval or *)
(* is assigned.                                                            *)
TicketInit ==
  /\ now = 0
  /\ ticket \in [status : {"triage", "blocked", "new", "assigned"}, resolved : {"no"}, closed : {FALSE}]
  /\ clock \in {[m \in Metrics |-> Row("running", Target[m])], [m \in Metrics |-> Row("none", 0)]}
  /\ ticket.status \in {"new", "assigned"} => clock.response.state = "running"
  /\ rowLock = NoOne
  /\ req = [r \in Requests |-> Idle]

Tick ==
  /\ now < MaxTime
  /\ now' = now + 1
  /\ UNCHANGED <<ticket, clock, rowLock, req>>

(* Mutant of StampedRow: leaving closed does not clear the stamps. *)
StampedRowLeavingResolved(row, from, to) ==
  LET leaving == from = "resolved" /\ to \notin TerminalStatuses
  IN  [status     |-> to,
       resolved   |-> IF to = "resolved" THEN "recently" ELSE IF leaving THEN "no" ELSE row.resolved,
       closed     |-> to = "closed" \/ (~leaving /\ row.closed)]

(* The row applyTransition writes, "from" being the status it read. *)
StampedRow(row, from, to) ==
  LET leaving == from \in TerminalStatuses /\ to \notin TerminalStatuses
  IN  [status     |-> to,
       resolved   |-> IF to = "resolved" THEN "recently" ELSE IF leaving THEN "no" ELSE row.resolved,
       closed     |-> to = "closed" \/ (~leaving /\ row.closed)]

(* The clocks after a transition that resumes nothing. *)
TransitionClocks(c, from, to) ==
  LET stopped   == IF to = "resolved" THEN MarkResolutionMet(c) ELSE c
      responded == IF from \in Intake /\ to \notin Intake THEN MarkResponseMet(stopped) ELSE stopped
  IN  IF to \in OnHold /\ from \notin OnHold THEN PauseTicketSlas(responded, now) ELSE responded

Resumes(from, to) == to = "in_progress" /\ from \in OnHold

-----------------------------------------------------------------------------
(* Requests *)

TransitionRead(r, to) ==
  /\ req[r].pc = "idle"
  /\ IsTransitionAllowed(ticket.status, to)
  /\ req' = [req EXCEPT ![r] = [Idle EXCEPT !.pc = "transition", !.read = ticket.status, !.to = to]]
  /\ UNCHANGED <<now, ticket, clock, rowLock>>

TransitionWrite(r) ==
  /\ req[r].pc = "transition" /\ ~Resumes(req[r].read, req[r].to)
  /\ rowLock = NoOne
  /\ ticket' = StampedRow(ticket, req[r].read, req[r].to)
  /\ clock' = TransitionClocks(clock, req[r].read, req[r].to)
  /\ req' = [req EXCEPT ![r] = Idle]
  /\ UNCHANGED <<now, rowLock>>

(* A transition that resumes: its UPDATE holds the row while it selects    *)
(* the paused clocks.                                                      *)
TransitionLock(r) ==
  /\ req[r].pc = "transition" /\ Resumes(req[r].read, req[r].to)
  /\ rowLock = NoOne
  /\ rowLock' = r
  /\ req' = [req EXCEPT ![r].pc = "resuming", ![r].due = ResumedRows(clock, now)]
  /\ UNCHANGED <<now, ticket, clock>>

TransitionCommit(r) ==
  /\ req[r].pc = "resuming"
  /\ ticket' = StampedRow(ticket, req[r].read, req[r].to)
  /\ clock' = ResumeRows(clock, req[r].due)
  /\ rowLock' = NoOne
  /\ req' = [req EXCEPT ![r] = Idle]
  /\ UNCHANGED now

AssignRead(r) ==
  /\ req[r].pc = "idle"
  /\ req' = [req EXCEPT ![r] = [Idle EXCEPT !.pc = "assign", !.read = ticket.status]]
  /\ UNCHANGED <<now, ticket, clock, rowLock>>

AssignWrite(r, hasAgent) ==
  /\ req[r].pc = "assign" /\ rowLock = NoOne
  /\ ticket' = [ticket EXCEPT !.status = IF req[r].read \in Intake THEN "assigned" ELSE req[r].read]
  /\ clock' = IF hasAgent THEN MarkResponseMet(clock) ELSE clock
  /\ req' = [req EXCEPT ![r] = Idle]
  /\ UNCHANGED <<now, rowLock>>

(* One UPDATE decides and writes; an escalation is no first response. *)
Escalate ==
  /\ rowLock = NoOne
  /\ ticket' = [ticket EXCEPT !.status = IF @ \in Intake THEN "assigned" ELSE @]
  /\ UNCHANGED <<now, clock, rowLock, req>>

CloseById == ticket' = [ticket EXCEPT !.status = "closed", !.closed = TRUE]

(* performGatedAction (automation.ts): an approved action writes the       *)
(* status by id, and nothing else of what a transition does.               *)
RuleChangesStatus ==
  /\ rowLock = NoOne
  /\ \E to \in RuleActions \cap Statuses : ticket' = [ticket EXCEPT !.status = to]
  /\ UNCHANGED <<now, clock, rowLock, req>>

RuleReopens ==
  /\ "reopen_ticket" \in RuleActions /\ rowLock = NoOne
  /\ ticket.status \in TerminalStatuses
  /\ ticket' = [ticket EXCEPT !.status = "reopened"]
  /\ UNCHANGED <<now, clock, rowLock, req>>

RuleCloses ==
  /\ "close_stale_ticket" \in RuleActions /\ rowLock = NoOne
  /\ ticket.status # "closed"
  /\ CloseById
  /\ UNCHANGED <<now, clock, rowLock, req>>

(* A customer-visible comment of an agent. *)
Reply ==
  /\ clock' = MarkResponseMet(clock)
  /\ UNCHANGED <<now, ticket, rowLock, req>>

PauseSla ==
  /\ clock' = PauseTicketSlas(clock, now)
  /\ UNCHANGED <<now, ticket, rowLock, req>>

ResumeSlaRead(r) ==
  /\ req[r].pc = "idle"
  /\ req' = [req EXCEPT ![r] = [Idle EXCEPT !.pc = "resume", !.due = ResumedRows(clock, now)]]
  /\ UNCHANGED <<now, ticket, clock, rowLock>>

ResumeSlaWrite(r) ==
  /\ req[r].pc = "resume"
  /\ clock' = ResumeRows(clock, req[r].due)
  /\ req' = [req EXCEPT ![r] = Idle]
  /\ UNCHANGED <<now, ticket, rowLock>>

(* Requests that look at the ticket and then write a fixed status by id,   *)
(* without a look at the workflow: the last task of a catalog request is   *)
(* done or its approval is decided (catalog.ts), the ticket is merged into *)
(* another (links.ts), a customer answers by mail (ingest.ts).             *)
Begins(r, pc) ==
  /\ req[r].pc = "idle"
  /\ req' = [req EXCEPT ![r] = [Idle EXCEPT !.pc = pc]]
  /\ UNCHANGED <<now, ticket, clock, rowLock>>

OtherRead(r) ==
  \/ Begins(r, "fulfil") \/ Begins(r, "decide")
  \/ ticket.status \notin TerminalStatuses /\ Begins(r, "merge")
  \/ ticket.status \in TerminalStatuses /\ Begins(r, "mail")

Writes(r, pc) ==
  /\ req[r].pc = pc /\ rowLock = NoOne
  /\ req' = [req EXCEPT ![r] = Idle]
  /\ UNCHANGED <<now, rowLock>>

(* The clock is stopped even if the ticket has been resolved meanwhile.    *)
FulfilWrite(r) ==
  /\ Writes(r, "fulfil")
  /\ ticket' = IF ticket.status \in TerminalStatuses THEN ticket
               ELSE [ticket EXCEPT !.status = "resolved", !.resolved = "recently"]
  /\ clock' = MarkResolutionMet(clock)

DecideWrite(r) ==
  /\ Writes(r, "decide") /\ UNCHANGED clock
  /\ \/ ticket' = [ticket EXCEPT !.status = IF @ = "new" THEN "assigned" ELSE @]
     \/ CloseById

MergeWrite(r) == Writes(r, "merge") /\ CloseById /\ UNCHANGED clock

MailWrite(r) ==
  /\ Writes(r, "mail") /\ UNCHANGED clock
  /\ ticket' = [status |-> "reopened", resolved |-> "no", closed |-> FALSE]

(* A deadlock or a lost connection rolls the transaction back. *)
RequestAbort(r) ==
  /\ req[r].pc # "idle"
  /\ req' = [req EXCEPT ![r] = Idle]
  /\ rowLock' = IF rowLock = r THEN NoOne ELSE rowLock
  /\ UNCHANGED <<now, ticket, clock>>

RequestEnds(r) ==
  \/ TransitionWrite(r)
  \/ TransitionLock(r)
  \/ TransitionCommit(r)
  \/ \E hasAgent \in BOOLEAN : AssignWrite(r, hasAgent)
  \/ ResumeSlaWrite(r)
  \/ FulfilWrite(r) \/ DecideWrite(r) \/ MergeWrite(r) \/ MailWrite(r)

RequestNext(r) ==
  \/ \E to \in Statuses : TransitionRead(r, to)
  \/ AssignRead(r)
  \/ ResumeSlaRead(r)
  \/ OtherRead(r)
  \/ RequestEnds(r)
  \/ RequestAbort(r)

TicketNext ==
  \/ Tick
  \/ Escalate
  \/ RuleChangesStatus \/ RuleReopens \/ RuleCloses
  \/ Reply
  \/ PauseSla
  \/ \E r \in Requests : RequestNext(r)
=============================================================================
