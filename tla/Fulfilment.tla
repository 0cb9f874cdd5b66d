----------------------------- MODULE Fulfilment -----------------------------
(***************************************************************************)
(* A request from the service catalog (modules/catalog.ts): its approval,  *)
(* its checklist of tasks, and the ticket that they resolve or close.  A   *)
(* call works in a READ COMMITTED transaction: what it has written is seen *)
(* by others when it commits, and a row it has written is locked until     *)
(* then.                                                                   *)
(***************************************************************************)
EXTENDS FiniteSets, Naturals

CONSTANTS Tasks,    \* the checklist of the item
          Approval, \* the task with the step key `approval'
          Agents,   \* calls of completeTask that may overlap
          Deciders  \* calls of decideApproval that may overlap

NoLock == "no lock"
NoTask == "no task"
NoWrite == [status |-> "none", code |-> "none"]
Clerks == Agents \cup Deciders

ASSUME FulfilmentAssumption ==
  Agents \cap Deciders = {} /\ NoLock \notin Clerks /\ NoTask \notin Tasks

VARIABLES gated,      \* whether the item requires an approval
          reqTicket,  \* [status, code]; no ticket before the order
          todo,       \* tasks that are pending
          approval,   \* the approval row
          ticketLock, \* who holds the row of the ticket
          clerk       \* each call: [pc, task, approves, write]

fulfilVars == <<gated, reqTicket, todo, approval, ticketLock, clerk>>

NoCall == [pc |-> "idle", task |-> NoTask, approves |-> FALSE, write |-> NoWrite]

FulfilInit ==
  /\ gated \in BOOLEAN
  /\ reqTicket = NoWrite /\ todo = {} /\ approval = "none"
  /\ ticketLock = NoLock /\ clerk = [c \in Clerks |-> NoCall]

Filed == reqTicket # NoWrite
Finished == {"resolved", "closed"}

-----------------------------------------------------------------------------
(* createRequest, one transaction on rows nobody knows before it commits.  *)
CreateRequest ==
  /\ ~Filed
  /\ reqTicket' = [status |-> IF gated THEN "new" ELSE "assigned", code |-> "none"]
  /\ todo' = Tasks
  /\ approval' = IF gated THEN "requested" ELSE "none"
  /\ UNCHANGED <<gated, ticketLock, clerk>>

(* applyTransition, by an agent or by the auto-close job.  Its check of    *)
(* the workflow is on an unlocked read, so that it may write any status.   *)
Transition ==
  /\ Filed /\ ticketLock = NoLock
  /\ \E to \in {"assigned", "reopened", "resolved", "closed"}, keep \in BOOLEAN :
       reqTicket' = [status |-> to, code |-> IF to = "resolved" /\ ~keep THEN "other" ELSE reqTicket.code]
  /\ UNCHANGED <<gated, todo, approval, ticketLock, clerk>>

-----------------------------------------------------------------------------
(* completeTask: the task is marked, on a row no other call holds, ...     *)
Unmarked(t) == \A d \in Clerks : clerk[d].pc = "idle" \/ clerk[d].task # t

MarkTask(c, t) ==
  /\ Filed /\ clerk[c].pc = "idle" /\ Unmarked(t)
  /\ clerk' = [clerk EXCEPT ![c] = [NoCall EXCEPT !.pc = "marked", !.task = t]]
  /\ UNCHANGED <<gated, reqTicket, todo, approval, ticketLock>>

(* Mutant of Remaining: the list the page showed, without the last task. *)
RemainingAsShown(c) == IF Cardinality(todo) <= 1 THEN {} ELSE todo \ {clerk[c].task}

(* ... the pending ones are counted: what has committed and its own, ...   *)
Remaining(c) == todo \ {clerk[c].task}

CountTasks(c) ==
  /\ clerk[c].pc = "marked" /\ c \in Agents
  /\ clerk' = [clerk EXCEPT ![c].pc = IF Remaining(c) = {} THEN "counted" ELSE "written"]
  /\ UNCHANGED <<gated, reqTicket, todo, approval, ticketLock>>

(* A conditional UPDATE of the ticket waits for its row if it would match, *)
(* and then looks again.                                                   *)
WriteTicket(c, from, to) ==
  IF reqTicket.status \in from
    THEN /\ ticketLock = NoLock /\ ticketLock' = c
         /\ clerk' = [clerk EXCEPT ![c].pc = "written", ![c].write = to]
    ELSE /\ clerk' = [clerk EXCEPT ![c].pc = "written"]
         /\ UNCHANGED ticketLock

AnyStatus == {"new", "assigned", "reopened", "resolved", "closed"}

(* ... and if none is left the ticket is resolved, unless it is already or *)
(* is closed.                                                              *)
ResolveTicket(c) ==
  /\ clerk[c].pc = "counted"
  /\ WriteTicket(c, AnyStatus \ Finished, [status |-> "resolved", code |-> "fulfilled"])
  /\ UNCHANGED <<gated, reqTicket, todo, approval>>

(* decideApproval: approval and task are written; an approval moves a new  *)
(* ticket on, a rejection closes whatever it finds.                        *)
DecideApproval(d) ==
  /\ Filed /\ clerk[d].pc = "idle" /\ Unmarked(Approval)
  /\ approval = "none" \/ \A other \in Deciders : clerk[other].pc = "idle"
  /\ \E approves \in BOOLEAN :
       clerk' = [clerk EXCEPT ![d] = [NoCall EXCEPT !.pc = "marked", !.approves = approves,
                                                    !.task = IF Approval \in Tasks THEN Approval ELSE NoTask]]
  /\ UNCHANGED <<gated, reqTicket, todo, approval, ticketLock>>

DecideTicket(d) ==
  /\ clerk[d].pc = "marked" /\ d \in Deciders
  /\ IF clerk[d].approves
       THEN WriteTicket(d, {"new"}, [status |-> "assigned", code |-> reqTicket.code])
       ELSE WriteTicket(d, AnyStatus, [status |-> "closed", code |-> "rejected"])
  /\ UNCHANGED <<gated, reqTicket, todo, approval>>

CallEnds(c) ==
  /\ clerk' = [clerk EXCEPT ![c] = NoCall]
  /\ ticketLock' = IF ticketLock = c THEN NoLock ELSE ticketLock

CallCommits(c) ==
  /\ clerk[c].pc = "written"
  /\ todo' = todo \ {clerk[c].task}
  /\ reqTicket' = IF clerk[c].write = NoWrite THEN reqTicket ELSE clerk[c].write
  /\ approval' = IF c \in Agents \/ approval = "none" THEN approval
                 ELSE IF clerk[c].approves THEN "approved" ELSE "rejected"
  /\ CallEnds(c)
  /\ UNCHANGED gated

(* A statement or the audit record fails: ROLLBACK.                        *)
CallFails(c) ==
  /\ clerk[c].pc # "idle"
  /\ CallEnds(c)
  /\ UNCHANGED <<gated, reqTicket, todo, approval>>

FulfilNext ==
  \/ CreateRequest \/ Transition
  \/ \E c \in Agents : (\E t \in Tasks : MarkTask(c, t)) \/ CountTasks(c) \/ ResolveTicket(c)
  \/ \E d \in Deciders : DecideApproval(d) \/ DecideTicket(d)
  \/ \E c \in Clerks : CallCommits(c) \/ CallFails(c)

FulfilSpec == FulfilInit /\ [][FulfilNext]_fulfilVars

-----------------------------------------------------------------------------
(* A request that its checklist resolves has no task left, however calls   *)
(* overlap, fail, and complete tasks that were complete before; and a      *)
(* request that was rejected, or is finished otherwise, is brought back by *)
(* nothing but a transition: neither a late task nor a late approval that  *)
(* waited for the row does (completeTask, decideApproval).                 *)
ChecklistDecides ==
  [][/\ reqTicket'.code = "fulfilled" => todo' = {}
     /\ (reqTicket.status \in Finished /\ reqTicket'.status \notin Finished) => Transition]_fulfilVars
=============================================================================
