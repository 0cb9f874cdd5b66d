------------------------------- MODULE OnCall -------------------------------
(***************************************************************************)
(* Paging on one schedule (modules/oncall.ts, and the pages that alerts.ts *)
(* asks for).  Every statement of oncall.ts commits by itself.  Who of the *)
(* rotation is on call turns with the clock and with overrides, so it may  *)
(* be any responder: of the rotation, only the number of its participants  *)
(* is kept.                                                                *)
(***************************************************************************)
EXTENDS Naturals

CONSTANTS Responders, Pages,
          Calls,     \* requests that page, acknowledge, escalate
          Managers,  \* requests that change the schedule
          MaxRota    \* bound on the participants of a rotation

ASSUME OnCallAssumption == Responders # {} /\ MaxRota \in Nat \ {0}

VARIABLES schedule,  \* none, open, gone
          rota,      \* how many participants its primary rotation has
          page,      \* each page: [state, by]
          acks,      \* rows of oncall_acknowledgements: <<page, user>>
          alerted,   \* the page that an alert refers to, or none
          caller, change

rotaVars == <<schedule, rota>>
pagerVars == <<page, acks, alerted>>
onCallVars == <<rotaVars, pagerVars, caller, change>>

Unanswered == {"notified", "escalated"}
NoCaller == [pc |-> "idle", on |-> "none", by |-> "none"]
NoChange == [pc |-> "idle", left |-> 0]
Paged == {p \in Pages : page[p].state \notin {"none", "gone"}}

OnCallInit ==
  /\ schedule = "none" /\ rota = 0
  /\ page = [p \in Pages |-> [state |-> "none", by |-> "none"]] /\ acks = {} /\ alerted = "none"
  /\ caller = [c \in Calls |-> NoCaller]
  /\ change = [m \in Managers |-> NoChange]

-----------------------------------------------------------------------------
(* createSchedule inserts the schedule, its rotation and the participants  *)
(* one by one.                                                             *)
CreateSchedule(m) ==
  /\ change[m].pc = "idle" /\ schedule = "none"
  /\ schedule' = "open"
  /\ \E n \in 1..MaxRota : change' = [change EXCEPT ![m] = [pc |-> "adding", left |-> n]]
  /\ UNCHANGED <<rota, pagerVars, caller>>

(* updateRotation: DELETE, then the new participants one by one.           *)
UpdateRotation(m) ==
  /\ change[m].pc = "idle" /\ schedule = "open"
  /\ rota' = 0
  /\ \E n \in 1..MaxRota : change' = [change EXCEPT ![m] = [pc |-> "adding", left |-> n]]
  /\ UNCHANGED <<schedule, pagerVars, caller>>

AddParticipant(m) ==
  /\ change[m].pc = "adding" /\ schedule = "open" /\ rota < MaxRota
  /\ rota' = rota + 1
  /\ change' = [change EXCEPT ![m] = IF @.left = 1 THEN NoChange ELSE [pc |-> "adding", left |-> @.left - 1]]
  /\ UNCHANGED <<schedule, pagerVars, caller>>

(* removeParticipant: not the last one of the list it has read; another    *)
(* request may have removed the same one.                                  *)
BeginRemoval(m) ==
  /\ change[m].pc = "idle" /\ rota > 1
  /\ change' = [change EXCEPT ![m].pc = "removing"]
  /\ UNCHANGED <<rotaVars, pagerVars, caller>>

RemoveParticipant(m) ==
  /\ change[m].pc = "removing"
  /\ rota' \in {rota} \cup (IF rota > 0 THEN {rota - 1} ELSE {})
  /\ change' = [change EXCEPT ![m] = NoChange]
  /\ UNCHANGED <<schedule, pagerVars, caller>>

(* deleteSchedule counts the pages that are not answered, ...              *)
BeginDeletion(m) ==
  /\ change[m].pc = "idle" /\ schedule = "open"
  /\ \A p \in Pages : page[p].state \notin Unanswered
  /\ change' = [change EXCEPT ![m].pc = "deleting"]
  /\ UNCHANGED <<rotaVars, pagerVars, caller>>

(* Mutant of DeleteSchedule: the acknowledgements go, and the pages stay. *)
DeleteAcksOnly(m) ==
  /\ change[m].pc = "deleting" /\ schedule = "open" /\ alerted = "none"
  /\ schedule' = "gone" /\ rota' = 0
  /\ acks' = {}
  /\ change' = [change EXCEPT ![m] = NoChange]
  /\ UNCHANGED <<page, alerted, caller>>

(* ... and the pages of the moment of the DELETE go with the schedule, and *)
(* their acknowledgements with them, unless an alert refers to a page.     *)
DeleteSchedule(m) ==
  /\ change[m].pc = "deleting" /\ schedule = "open" /\ alerted = "none"
  /\ schedule' = "gone" /\ rota' = 0
  /\ page' = [p \in Pages |-> IF p \in Paged THEN [state |-> "gone", by |-> "none"] ELSE page[p]]
  /\ acks' = {}
  /\ change' = [change EXCEPT ![m] = NoChange]
  /\ UNCHANGED <<alerted, caller>>

(* A statement fails (a constraint, the connection), or the process stops. *)
ChangeFails(m) ==
  /\ change[m].pc # "idle"
  /\ change' = [change EXCEPT ![m] = NoChange]
  /\ UNCHANGED <<rotaVars, pagerVars, caller>>

-----------------------------------------------------------------------------
(* resolveCurrent: an empty rotation has nobody, whatever the overrides.   *)
Resolved == IF schedule # "open" \/ rota = 0 THEN {"nobody"} ELSE Responders

Goes(c, to) == caller' = [caller EXCEPT ![c] = to]

(* createPage: the responder is read, then the page inserted.              *)
BeginPage(c) ==
  /\ caller[c].pc = "idle" /\ schedule = "open"
  /\ \E r \in Resolved : Goes(c, [NoCaller EXCEPT !.pc = "paging", !.by = r])
  /\ UNCHANGED <<rotaVars, pagerVars, change>>

(* escalateAlert reads its alert, and pages somebody if asked to and the   *)
(* alert refers to no page yet.                                            *)
BeginEscalateAlert(c) ==
  /\ caller[c].pc = "idle"
  /\ \/ Goes(c, [NoCaller EXCEPT !.pc = "linking", !.on = alerted])
     \/ /\ alerted = "none" /\ schedule = "open"
        /\ \E r \in Resolved : Goes(c, [NoCaller EXCEPT !.pc = "alerting", !.by = r])
  /\ UNCHANGED <<rotaVars, pagerVars, change>>

InsertPage(c) ==
  /\ caller[c].pc \in {"paging", "alerting"} /\ schedule = "open"
  /\ \E p \in Pages :
       /\ page[p].state = "none"
       /\ page' = [page EXCEPT ![p] = [state |-> "notified", by |-> caller[c].by]]
       /\ Goes(c, IF caller[c].pc = "paging" THEN NoCaller ELSE [NoCaller EXCEPT !.pc = "linking", !.on = p])
  /\ UNCHANGED <<rotaVars, acks, alerted, change>>

(* It writes what it read or made, whatever another has written meanwhile; *)
(* a page it refers to must still be there.                                *)
LinkAlert(c) ==
  /\ caller[c].pc = "linking" /\ caller[c].on \in Paged \cup {"none"}
  /\ alerted' = caller[c].on
  /\ Goes(c, NoCaller)
  /\ UNCHANGED <<rotaVars, page, acks, change>>

(* acknowledge                                                             *)
BeginAck(c, p) ==
  /\ caller[c].pc = "idle" /\ page[p].state \in Unanswered
  /\ \E r \in Responders : Goes(c, [pc |-> "acking", on |-> p, by |-> r])
  /\ UNCHANGED <<rotaVars, pagerVars, change>>

(* Mutant of InsertAck: the page is updated before the row is inserted. *)
UpdateThenInsertAck(c) ==
  /\ caller[c].pc = "acking" /\ caller[c].on \in Paged
  /\ page' = [page EXCEPT ![caller[c].on] = [state |-> "acknowledged", by |-> caller[c].by]]
  /\ Goes(c, [caller[c] EXCEPT !.pc = "acked"])
  /\ UNCHANGED <<rotaVars, acks, alerted, change>>

InsertAck(c) ==
  /\ caller[c].pc = "acking" /\ caller[c].on \in Paged
  /\ acks' = acks \cup {<<caller[c].on, caller[c].by>>}
  /\ Goes(c, [caller[c] EXCEPT !.pc = "acked"])
  /\ UNCHANGED <<rotaVars, page, alerted, change>>

UpdateAcked(c) ==
  /\ caller[c].pc = "acked"
  /\ page' = IF caller[c].on \in Paged
               THEN [page EXCEPT ![caller[c].on] = [state |-> "acknowledged", by |-> caller[c].by]] ELSE page
  /\ Goes(c, NoCaller)
  /\ UNCHANGED <<rotaVars, acks, alerted, change>>

(* escalatePage asks for no state.                                         *)
BeginEscalate(c, p) ==
  /\ caller[c].pc = "idle" /\ p \in Paged
  /\ \E r \in Resolved : Goes(c, [pc |-> "escalating", on |-> p, by |-> r])
  /\ UNCHANGED <<rotaVars, pagerVars, change>>

UpdateEscalated(c) ==
  /\ caller[c].pc = "escalating"
  /\ page' = IF caller[c].on \in Paged
               THEN [page EXCEPT ![caller[c].on] = [state |-> "escalated", by |-> caller[c].by]] ELSE page
  /\ Goes(c, NoCaller)
  /\ UNCHANGED <<rotaVars, acks, alerted, change>>

PagingFails(c) ==
  /\ caller[c].pc # "idle"
  /\ Goes(c, NoCaller)
  /\ UNCHANGED <<rotaVars, pagerVars, change>>

OnCallNext ==
  \/ \E m \in Managers : \/ CreateSchedule(m) \/ UpdateRotation(m) \/ AddParticipant(m)
                         \/ BeginRemoval(m) \/ RemoveParticipant(m)
                         \/ BeginDeletion(m) \/ DeleteSchedule(m) \/ ChangeFails(m)
  \/ \E c \in Calls : \/ BeginPage(c) \/ BeginEscalateAlert(c) \/ InsertPage(c) \/ LinkAlert(c)
                      \/ InsertAck(c) \/ UpdateAcked(c) \/ UpdateEscalated(c) \/ PagingFails(c)
                      \/ \E p \in Pages : BeginAck(c, p) \/ BeginEscalate(c, p)

OnCallSpec == OnCallInit /\ [][OnCallNext]_onCallVars

-----------------------------------------------------------------------------
(* Whoever a page says has acknowledged it is on record as having done so, *)
(* and the page an alert refers to exists, when several acknowledge and    *)
(* escalate and somebody deletes the schedule at once (acknowledge,        *)
(* escalatePage, deleteSchedule, escalateAlert).                           *)
AckIsRecorded ==
  /\ \A p \in Pages : page[p].state = "acknowledged" => <<p, page[p].by>> \in acks
  /\ alerted \in Paged \cup {"none"}
=============================================================================
