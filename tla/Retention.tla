------------------------------ MODULE Retention ------------------------------
(***************************************************************************)
(* Retention holds of offboarded accounts (modules/retention) and the      *)
(* daily sweep that compares them with the tenant                          *)
(* (jobs/retention-sweeper.ts).                                            *)
(*                                                                         *)
(* Nothing stops an administrator from deleting a retained account; the    *)
(* sweep notices.  Graph may not answer, and the process may die between   *)
(* any two writes.  Time is counted in sweeps, a term being a few of them. *)
(***************************************************************************)
EXTENDS Integers, FiniteSets

CONSTANTS
  Accounts,     \* offboarded accounts
  Retainers,    \* API processes, each with its daily sweep
  SweepBatch,   \* holds per sweep
  Terms,        \* the retention term of each class
  LastDay,      \* bound: the last day
  MaxHalts      \* bound: processes that die

ASSUME RetentionAssumption ==
  /\ IsFiniteSet(Accounts) /\ "none" \notin Accounts /\ IsFiniteSet(Retainers)
  /\ Terms \in [standard : Nat \ {0}, privileged : Nat \ {0}]
  /\ SweepBatch \in Nat \ {0} /\ LastDay \in Nat /\ MaxHalts \in Nat

VARIABLES
  day,
  hold,      \* per account
  turn,      \* per account: its place in the turn, the longest unchecked first
  goneOn,    \* per account: the day it was deleted, or Still
  retainer,  \* per process: where its sweep is
  halts

retVars == <<day, hold, turn, goneOn, retainer, halts>>

Still  == LastDay + 1
Never  == -1
NoHold == [state |-> "none", until |-> 0, checked |-> Never, alarms |-> 0]

-----------------------------------------------------------------------------
(* classify.ts: any evidence of privilege, ever.  A grant that was refused *)
(* or is pending was never held.                                           *)

GrantStatuses == {"requested", "rejected", "active", "expired", "revoked"}
Evidence == [roles : BOOLEAN, permissions : BOOLEAN, grants : SUBSET GrantStatuses]

ClassifyRetention(ev) ==
  IF ev.roles \/ ev.permissions \/ ev.grants \cap {"active", "expired", "revoked"} # {}
  THEN "privileged" ELSE "standard"

(* The clock starts when the account was disabled.  The clamping of the    *)
(* 29th of February is below the granularity of the model.                 *)
RetainUntil(offboardedAt, class) == offboardedAt + Terms[class]

(* Mutant of DecideHold: no answer is taken for an account that is there. *)
DecideHoldTrusting(until, present, at) ==
  IF present = "gone" THEN (IF at >= until THEN "disposed" ELSE "breached")
  ELSE (IF at >= until THEN "eligible" ELSE "touch")

DecideHold(until, present, at) ==
  IF present = "unknown" THEN "none"
  ELSE IF present = "gone" THEN (IF at >= until THEN "disposed" ELSE "breached")
  ELSE (IF at >= until THEN "eligible" ELSE "touch")

-----------------------------------------------------------------------------
Off == [pc |-> "idle", todo |-> [a \in {} |-> 0], at |-> 0, on |-> "none", outcome |-> "none"]

RetInit ==
  /\ day = 0
  /\ hold = [a \in Accounts |-> NoHold]
  /\ turn = [a \in Accounts |-> 0]
  /\ goneOn = [a \in Accounts |-> Still]
  /\ retainer = [w \in Retainers |-> Off]
  /\ halts = 0

Held == {a \in Accounts : hold[a].state # "none"}

(* recordHold: the hold of an account that was just disabled.  It has      *)
(* never been checked, so that it comes first, those like it by term.      *)
RecordHoldFor(a) ==
  /\ hold[a].state = "none"
  /\ \E ev \in Evidence :
       LET until == RetainUntil(day, ClassifyRetention(ev))
           before == {b \in Held : hold[b].checked = Never /\ hold[b].until <= until}
       IN /\ hold' = [hold EXCEPT ![a] = [NoHold EXCEPT !.state = "active", !.until = until]]
          /\ turn' = [b \in Accounts |-> IF b = a THEN Cardinality(before) + 1
                                         ELSE IF b \in Held \ before THEN turn[b] + 1 ELSE turn[b]]
  /\ UNCHANGED <<day, goneOn, retainer, halts>>

DayPasses ==
  /\ day < LastDay
  /\ day' = day + 1
  /\ UNCHANGED <<hold, turn, goneOn, retainer, halts>>

AccountDeleted(a) ==
  /\ hold[a].state # "none" /\ goneOn[a] = Still
  /\ goneOn' = [goneOn EXCEPT ![a] = day]
  /\ UNCHANGED <<day, hold, turn, retainer, halts>>

-----------------------------------------------------------------------------
(* A sweep *)

(* Mutant of Ahead: the hold that ends first comes first, always. *)
AheadByTerm(b, a) == hold[b].until < hold[a].until

Ahead(b, a) == turn[b] < turn[a]

Selected ==
  LET active == {a \in Accounts : hold[a].state = "active"}
  IN {a \in active : Cardinality({b \in active : Ahead(b, a)}) < SweepBatch}

(* The holds are read once, with their order. *)
SweepStart(w) ==
  /\ retainer[w].pc = "idle" /\ Selected # {}
  /\ retainer' = [retainer EXCEPT ![w] = [Off EXCEPT !.pc = "check", !.at = day,
                                                    !.todo = [a \in Selected |-> turn[a]]]]
  /\ UNCHANGED <<day, hold, turn, goneOn, halts>>

(* The next hold, or the end of the sweep. *)
OnToNext(w, a) ==
  LET rest == DOMAIN retainer[w].todo \ {a}
  IN [retainer EXCEPT ![w] = IF rest = {} THEN Off
                             ELSE [retainer[w] EXCEPT !.pc = "check", !.on = "none", !.outcome = "none",
                                     !.todo = [b \in rest |-> retainer[w].todo[b]]]]

NextOf(todo, a) == a \in DOMAIN todo /\ \A b \in DOMAIN todo : todo[a] <= todo[b]

CheckHold(w, a, present) ==
  LET outcome == DecideHold(hold[a].until, present, retainer[w].at) IN
  /\ retainer[w].pc = "check" /\ NextOf(retainer[w].todo, a)
  /\ retainer' = IF outcome = "none" THEN OnToNext(w, a)
                 ELSE [retainer EXCEPT ![w].pc = "write", ![w].on = a, ![w].outcome = outcome]
  /\ UNCHANGED <<day, hold, turn, goneOn, halts>>

GraphAnswers(w, a)  == CheckHold(w, a, IF goneOn[a] = Still THEN "there" ELSE "gone")
GraphIsSilent(w, a) == CheckHold(w, a, "unknown")

ToBack(a) ==
  [b \in Accounts |-> IF b = a THEN Cardinality(Held)
                     ELSE IF turn[b] > turn[a] THEN turn[b] - 1 ELSE turn[b]]

(* setState.  A breach, or the end of a term, goes on to its ticket. *)
SetState(w) ==
  LET a == retainer[w].on  outcome == retainer[w].outcome IN
  /\ retainer[w].pc = "write"
  /\ hold' = [hold EXCEPT ![a].state = IF outcome = "touch" THEN @ ELSE outcome,
                          ![a].checked = retainer[w].at]
  /\ turn' = ToBack(a)
  /\ retainer' = IF outcome \in {"breached", "eligible"}
                 THEN [retainer EXCEPT ![w].pc = "ticket"] ELSE OnToNext(w, a)
  /\ UNCHANGED <<day, goneOn, halts>>

(* Mutant of RaiseTicket: a ticket that cannot be raised keeps its hold    *)
(* active, to be tried again, whatever the database has made of the insert.*)
RaiseTicketAgain(w) ==
  LET a == retainer[w].on IN
  /\ retainer[w].pc = "ticket"
  /\ \/ hold' = [hold EXCEPT ![a].alarms = @ + 1]
     \/ hold' = [hold EXCEPT ![a].alarms = @ + 1, ![a].state = "active"]
  /\ retainer' = OnToNext(w, a)
  /\ UNCHANGED <<day, turn, goneOn, halts>>

(* raiseTicket: a transaction of its own, after the state, so that a       *)
(* failure loses a ticket and never repeats one.                           *)
RaiseTicket(w) ==
  LET a == retainer[w].on IN
  /\ retainer[w].pc = "ticket"
  /\ \/ hold' = [hold EXCEPT ![a].alarms = @ + 1]
     \/ UNCHANGED hold
  /\ retainer' = OnToNext(w, a)
  /\ UNCHANGED <<day, turn, goneOn, halts>>

(* A write fails: the hold is left for the next sweep. *)
SweepOneFails(w) ==
  /\ retainer[w].pc = "write" /\ halts < MaxHalts
  /\ retainer' = OnToNext(w, retainer[w].on)
  /\ halts' = halts + 1
  /\ UNCHANGED <<day, hold, turn, goneOn>>

RetainerDies(w) ==
  /\ retainer[w].pc # "idle" /\ halts < MaxHalts
  /\ retainer' = [retainer EXCEPT ![w] = Off]
  /\ halts' = halts + 1
  /\ UNCHANGED <<day, hold, turn, goneOn>>

-----------------------------------------------------------------------------
RetainerStep(w) ==
  \/ SweepStart(w) \/ SetState(w) \/ RaiseTicket(w)
  \/ \E a \in Accounts : GraphAnswers(w, a) \/ GraphIsSilent(w, a)

RetNext ==
  \/ DayPasses
  \/ \E a \in Accounts : RecordHoldFor(a) \/ AccountDeleted(a)
  \/ \E w \in Retainers : RetainerStep(w) \/ SweepOneFails(w) \/ RetainerDies(w)

(* The sweep is started again every day, and again after a crash; Graph    *)
(* does not stay silent about an account for ever.                         *)
RetFairness ==
  \A w \in Retainers :
    /\ WF_retVars(RetainerStep(w))
    /\ \A a \in Accounts : SF_retVars(GraphAnswers(w, a))

RetSpec == RetInit /\ [][RetNext]_retVars /\ RetFairness

-----------------------------------------------------------------------------
(* Properties *)

(* A hold that has raised a ticket is never swept again: no crash, failed  *)
(* write or retry files the same breach every day (retention-sweeper.ts,   *)
(* state before ticket).  Its tickets come from the sweeps that had it in  *)
(* hand at the same time: one at most where sweeps do not overlap, while   *)
(* each of those that do may raise one.                                    *)
AlarmedOnce ==
  \A a \in Accounts :
    /\ hold[a].state = "active" => hold[a].alarms = 0
    /\ hold[a].alarms + Cardinality({w \in Retainers : a \in DOMAIN retainer[w].todo})
         <= Cardinality(Retainers)

(* An account is on record as checked only up to the day it was deleted:   *)
(* an outage of Graph never reads as an account that is still there        *)
(* (sweep-decision.ts).                                                    *)
OutageIsNotPresence == \A a \in Accounts : hold[a].state = "active" => hold[a].checked <= goneOn[a]

(* What the sweep records of an account is true, and not said again.       *)
HoldIsTruthful == AlarmedOnce /\ OutageIsNotPresence

(* The loss of a retained account is noticed in the end, whatever else     *)
(* the sweep has to do: every hold gets its turn (retention-sweeper.ts,    *)
(* the rotation on last_checked_at).                                       *)
GoneIsNoticed == []<>(\A a \in Accounts : goneOn[a] # Still => hold[a].state # "active")
=============================================================================
