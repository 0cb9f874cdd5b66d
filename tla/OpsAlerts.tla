----------------------------- MODULE OpsAlerts ------------------------------
(***************************************************************************)
(* Operations alerts (modules/alerts.ts).  An operation is a READ          *)
(* COMMITTED transaction that reads its alert without a lock and writes it *)
(* last: the row is locked from that write to the commit, so both are one  *)
(* step, and it finds whatever row is there then.  The page an alert is     *)
(* escalated to is part of module OnCall.                                  *)
(***************************************************************************)
CONSTANTS Alerts,      \* rows of the table
          DedupKeys,   \* keys of an organization's sources; NoKey: none given
          NoKey,
          AlertCalls   \* requests that may overlap

AlertStates == {"triggered", "acknowledged", "resolved"}

VARIABLES alert,   \* each row: [state, key, acked, stamped], the last two: its stamps are set
          asked    \* each request: [pc, on, to, key, read]

alertVars == <<alert, asked>>

NoAlert == [state |-> "none", key |-> NoKey, acked |-> FALSE, stamped |-> FALSE]
NotAsked == [pc |-> "idle", on |-> "none", to |-> "none", key |-> NoKey, read |-> NoAlert]

Unresolved(key) == {a \in Alerts : alert[a].state \in {"triggered", "acknowledged"} /\ alert[a].key = key}

AlertsInit ==
  /\ alert = [a \in Alerts |-> NoAlert]
  /\ asked = [c \in AlertCalls |-> NotAsked]

-----------------------------------------------------------------------------
(* createAlert returns the unresolved alert of its key, if there is one.   *)
BeginAlert(c) ==
  /\ asked[c].pc = "idle"
  /\ \E key \in DedupKeys \cup {NoKey} :
       /\ key # NoKey => Unresolved(key) = {}
       /\ asked' = [asked EXCEPT ![c] = [NotAsked EXCEPT !.pc = "creating", !.key = key]]
  /\ UNCHANGED alert

(* Mutant of IndexAllows: the index is on triggered alerts only. *)
IndexAllowsAcknowledged(key, others) ==
  key = NoKey \/ \A a \in others : alert[a].state = "triggered" => alert[a].key # key

(* The unique index alerts_open_dedup.                                     *)
IndexAllows(key, others) == key = NoKey \/ Unresolved(key) \cap others = {}

InsertAlert(c) ==
  /\ asked[c].pc = "creating" /\ IndexAllows(asked[c].key, Alerts)
  /\ \E a \in Alerts :
       /\ alert[a].state = "none"
       /\ alert' = [alert EXCEPT ![a] = [NoAlert EXCEPT !.state = "triggered", !.key = asked[c].key]]
  /\ asked' = [asked EXCEPT ![c] = NotAsked]

-----------------------------------------------------------------------------
(* canAlertTransition                                                      *)
CanMove(from, to) ==
  \/ from = "triggered" /\ to \in {"acknowledged", "resolved"}
  \/ from = "acknowledged" /\ to = "resolved"

BeginMove(c, a) ==
  /\ asked[c].pc = "idle"
  /\ \E to \in AlertStates :
       /\ CanMove(alert[a].state, to)
       /\ asked' = [asked EXCEPT ![c] = [NotAsked EXCEPT !.pc = "moving", !.on = a, !.to = to, !.read = alert[a]]]
  /\ UNCHANGED alert

(* Mutant of MovedRow: only the stamp of the transition is written. *)
MovedRowOwnStamp(row, read, to) ==
  [row EXCEPT !.state = to, !.acked = @ \/ to = "acknowledged", !.stamped = @ \/ to = "resolved"]

(* State and both stamps are written, those of the other transition as     *)
(* they were read.                                                         *)
MovedRow(row, read, to) ==
  [row EXCEPT !.state = to, !.acked = read.acked \/ to = "acknowledged",
              !.stamped = read.stamped \/ to = "resolved"]

(* A row that leaves `resolved' by a late acknowledgement comes under the  *)
(* index again.                                                            *)
MoveAlert(c) ==
  LET a == asked[c].on IN
  /\ asked[c].pc = "moving"
  /\ asked[c].to = "acknowledged" => IndexAllows(alert[a].key, Alerts \ {a})
  /\ alert' = [alert EXCEPT ![a] = MovedRow(@, asked[c].read, asked[c].to)]
  /\ asked' = [asked EXCEPT ![c] = NotAsked]

(* A statement fails, on the index too, or the process stops: ROLLBACK.    *)
AlertFails(c) ==
  /\ asked[c].pc # "idle"
  /\ asked' = [asked EXCEPT ![c] = NotAsked]
  /\ UNCHANGED alert

AlertsNext ==
  \E c \in AlertCalls :
    \/ BeginAlert(c) \/ InsertAlert(c) \/ MoveAlert(c) \/ AlertFails(c)
    \/ \E a \in Alerts : BeginMove(c, a)

AlertsSpec == AlertsInit /\ [][AlertsNext]_alertVars

-----------------------------------------------------------------------------
(* However creations, acknowledgements and resolutions overlap, a source   *)
(* that repeats its key has one unresolved alert, and the stamps of an     *)
(* alert are those of its state, even if a late acknowledgement undoes a   *)
(* resolution (createAlert, transition, the index alerts_open_dedup).      *)
AlertsAreWhole ==
  /\ \A a, b \in Alerts :
       {alert[a].state, alert[b].state} \subseteq {"triggered", "acknowledged"}
         /\ alert[a].key = alert[b].key /\ alert[a].key # NoKey => a = b
  /\ \A a \in Alerts : /\ alert[a].stamped <=> alert[a].state = "resolved"
                       /\ alert[a].acked => alert[a].state # "triggered"
                       /\ alert[a].state = "acknowledged" => alert[a].acked
=============================================================================
