---------------------------- MODULE ServiceDesk ----------------------------
(***************************************************************************)
(* The ticket of Tickets beside the two jobs that work on it unasked: the  *)
(* SLA sweeper (apps/api/src/jobs/sla-sweeper.ts) and the auto-close job   *)
(* (apps/api/src/jobs/auto-close-resolved.ts).                             *)
(*                                                                         *)
(* The sweeper runs in withSystemContext, where every statement commits by *)
(* itself: it selects the open clocks, then evaluates and overwrites each  *)
(* of them by id.  The auto-close job selects its candidates the same way, *)
(* but re-reads each of them under the row's lock in a transaction.        *)
(***************************************************************************)
EXTENDS Tickets

CONSTANTS
  Sweepers,       \* ticks of the SLA sweeper that may run at once
  Closers         \* ticks of the auto-close job, one per API process

ASSUME DeskAssumption == NoOne \notin Closers /\ Closers \cap Requests = {}

VARIABLES
  sweep,    \* per sweeper: the rows it selected and has not written yet
  closer    \* per closer: idle, with a candidate, or holding its row

deskVars == <<ticketVars, sweep, closer>>

IdleSweep  == <<>>

DeskInit ==
  /\ TicketInit
  /\ sweep = [w \in Sweepers |-> IdleSweep]
  /\ closer = [c \in Closers |-> "idle"]

jobVars == <<sweep, closer>>
Request == TicketNext /\ UNCHANGED jobVars

-----------------------------------------------------------------------------
(* The SLA sweeper *)

SweepSelect(w) ==
  LET open == {m \in Metrics : clock[m].state \in {"running", "warning"}}
  IN  /\ sweep[w] = IdleSweep
      /\ open # {}
      /\ sweep' = [sweep EXCEPT ![w] = [m \in open |-> [state |-> clock[m].state, due |-> clock[m].due]]]
      /\ UNCHANGED <<ticketVars, closer>>

(* The rows come in the order of the select, here response first. *)
NextRow(rows) == IF "response" \in DOMAIN rows THEN "response" ELSE "resolution"
Drop(rows, m) == [k \in (DOMAIN rows) \ {m} |-> rows[k]]

(* Each row is evaluated as it was selected, and overwritten by id if its  *)
(* state changes, whatever it is by now; the round trip of the UPDATE adds *)
(* nothing to the delay since the select.  The warning or breach this      *)
(* announces, once per process, changes no state and is left out.          *)
SweepRow(w) ==
  LET rows == sweep[w]
      m    == NextRow(rows)
      next == EvaluateState(rows[m], now)
  IN  /\ DOMAIN rows # {}
      /\ clock' = IF next = rows[m].state THEN clock
                  ELSE [clock EXCEPT ![m] = Row(next, clock[m].due)]
      /\ sweep' = [sweep EXCEPT ![w] = Drop(rows, m)]
      /\ UNCHANGED <<now, ticket, rowLock, req, closer>>

-----------------------------------------------------------------------------
(* The auto-close job *)

(* The window is counted in days: a resolution ages while no tick is half  *)
(* way, so that it is old against the cutoff of the tick that looks.       *)
WindowPasses ==
  /\ ticket.resolved = "recently" /\ \A c \in Closers : closer[c] = "idle"
  /\ ticket' = [ticket EXCEPT !.resolved = "longAgo"]
  /\ UNCHANGED <<now, clock, rowLock, req, jobVars>>

(* Mutant of IsDueForAutoClose: a ticket that was closed before is done. *)
IsDueForAutoCloseOnce(row) == row.status = "resolved" /\ row.resolved = "longAgo" /\ ~row.closed

IsDueForAutoClose(row) == row.status = "resolved" /\ row.resolved = "longAgo"

CloserSelect(c) ==
  /\ closer[c] = "idle"
  /\ IsTransitionAllowed("resolved", "closed")
  /\ IsDueForAutoClose(ticket)
  /\ closer' = [closer EXCEPT ![c] = "candidate"]
  /\ UNCHANGED <<ticketVars, sweep>>

(* Mutant of CloserLock: the row is locked but not read again. *)
CloserLockUnchecked(c) ==
  /\ closer[c] = "candidate" /\ rowLock = NoOne
  /\ rowLock' = c
  /\ closer' = [closer EXCEPT ![c] = "locked"]
  /\ UNCHANGED <<now, ticket, clock, req, sweep>>

(* SELECT ... FOR UPDATE SKIP LOCKED, and the second look at the row. *)
CloserLock(c) ==
  /\ closer[c] = "candidate"
  /\ IF rowLock = NoOne /\ IsDueForAutoClose(ticket)
       THEN rowLock' = c /\ closer' = [closer EXCEPT ![c] = "locked"]
       ELSE closer' = [closer EXCEPT ![c] = "idle"] /\ UNCHANGED rowLock
  /\ UNCHANGED <<now, ticket, clock, req, sweep>>

(* applyTransition(null, 'closed') reads the row again and commits. *)
CloserCommit(c) ==
  /\ closer[c] = "locked"
  /\ IF IsTransitionAllowed(ticket.status, "closed")
       THEN /\ ticket' = StampedRow(ticket, ticket.status, "closed")
            /\ clock' = TransitionClocks(clock, ticket.status, "closed")
       ELSE UNCHANGED <<ticket, clock>>
  /\ rowLock' = NoOne
  /\ closer' = [closer EXCEPT ![c] = "idle"]
  /\ UNCHANGED <<now, req, sweep>>

CloserFails(c) ==
  /\ closer[c] = "locked"
  /\ rowLock' = NoOne
  /\ closer' = [closer EXCEPT ![c] = "idle"]
  /\ UNCHANGED <<now, ticket, clock, req, sweep>>

-----------------------------------------------------------------------------
SweeperStep(w) == SweepSelect(w) \/ SweepRow(w)
CloserStep(c)  == CloserSelect(c) \/ CloserLock(c) \/ CloserCommit(c)

DeskNext ==
  \/ Request
  \/ WindowPasses
  \/ \E w \in Sweepers : SweeperStep(w)
  \/ \E c \in Closers : CloserStep(c) \/ CloserFails(c)

DeskSafety == DeskInit /\ [][DeskNext]_deskVars

(* A request ends, time passes, and both jobs tick for ever.  A closing    *)
(* transaction may fail, but not every time: its commit is strongly fair.  *)
DeskFairness ==
  /\ WF_deskVars(Tick /\ UNCHANGED jobVars) /\ WF_deskVars(WindowPasses)
  /\ \A r \in Requests : WF_deskVars(RequestEnds(r) /\ UNCHANGED jobVars)
  /\ \A w \in Sweepers : WF_deskVars(SweepSelect(w)) /\ WF_deskVars(SweepRow(w))
  /\ \A c \in Closers : WF_deskVars(CloserSelect(c)) /\ WF_deskVars(CloserLock(c)) /\ SF_deskVars(CloserCommit(c))

DeskSpec == DeskSafety /\ DeskFairness

-----------------------------------------------------------------------------
(* Properties *)

(* A ticket that is neither resolved nor closed carries no completion      *)
(* stamp (tickets.ts, LEAVING_TERMINAL): what the code sets out to         *)
(* establish, and does not where requests overlap or a rule reopens.       *)
OpenHasNoStamp ==
  ticket.status \notin TerminalStatuses => ticket.resolved = "no" /\ ~ticket.closed

(* A transition or an assignment that writes over a status it has not read.*)
WritesOverMove(r) ==
  /\ req[r].pc \in {"transition", "resuming", "assign"} /\ req[r].read # ticket.status
  /\ RequestEnds(r)

(* However requests, jobs and rules overlap, two things only leave an open *)
(* ticket with a completion stamp: a write over a status that has moved    *)
(* since it was read, and a rule that gives the ticket another status.  No *)
(* other way out of resolved or closed does: not a transition that saw the *)
(* ticket as it is, nor the row held over a resumption or by the           *)
(* auto-close job, nor the answer of a customer, a merge, a decision, an   *)
(* escalation or the last task.                                            *)
ReopeningClearsStamps ==
  [][OpenHasNoStamp /\ ~OpenHasNoStamp' =>
       RuleChangesStatus \/ RuleReopens \/ \E r \in Requests : WritesOverMove(r)]_deskVars

(* The auto-close job closes a ticket only while it is resolved, and was   *)
(* resolved long enough ago: a reopened ticket, or one resolved again      *)
(* since it was selected, is spared (auto-close-resolved.ts, the row lock  *)
(* and the second look).                                                   *)
AutoCloseSparesReopened ==
  [][\A c \in Closers : CloserCommit(c) =>
       ticket.status = "resolved" /\ ticket.resolved = "longAgo"]_deskVars

(* The time a clock is given beyond its target was really spent paused:    *)
(* overlapping resumptions and sweeps never credit the same pause twice,   *)
(* and no clock is breached before its target has passed (sla.ts,          *)
(* applyResume and evaluateState).                                         *)
PauseCreditedOnce ==
  \A m \in Metrics : clock[m].state # "none" =>
    /\ clock[m].due <= Target[m] + now
    /\ clock[m].state = "breached" => now >= Target[m]

Overdue(m) == clock[m].state \in {"running", "warning"} /\ now >= clock[m].due

(* A clock past its due time does not stay open: it is found breached,     *)
(* unless it is met, paused or given more time first (sla-sweeper.ts).     *)
OverdueIsNoticed == \A m \in Metrics : Overdue(m) ~> ~Overdue(m)

(* A resolved ticket is closed in the end unless somebody reopens or       *)
(* rewrites it (auto-close-resolved.ts).                                   *)
ResolvedIsClosed ==
  ticket.status = "resolved" /\ ticket.resolved # "no" ~> ticket.status # "resolved"

(* Nothing is forgotten: neither a clock that runs out nor a ticket that   *)
(* is done.                                                                *)
NothingIsForgotten == OverdueIsNoticed /\ ResolvedIsClosed
=============================================================================
