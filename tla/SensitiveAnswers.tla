-------------------------- MODULE SensitiveAnswers --------------------------
(***************************************************************************)
(* Personal data given on a request form (modules/sensitive-fields.ts):    *)
(* staff edit it (ticket-form-edit.ts) or attach a form to a request that  *)
(* has none (forms.ts) while the request is open; the daily purge          *)
(* (jobs/retention-purge.ts) destroys it once the request is resolved or   *)
(* closed, and leaves a tombstone in the audit trail.                      *)
(*                                                                         *)
(* The purge destroys in one transaction and writes its tombstones after   *)
(* it.  What a transaction has changed is seen when it commits; who would  *)
(* change the same rows waits until then.                                  *)
(***************************************************************************)
EXTENDS Integers, FiniteSets

CONSTANTS Cases,           \* requests
          Keys,            \* sensitive fields of their form
          Editors,         \* edits and attachments of forms that may overlap
          Purgers,         \* API processes, each with its daily purge
          MaxAnswerEdits,  \* bound on edits
          MaxPurgeFaults   \* bound on failures and deaths

Unheld == "unheld"

ASSUME AnswersAssumption ==
  /\ IsFiniteSet(Keys) /\ IsFiniteSet(Purgers) /\ Unheld \notin Editors
  /\ {MaxAnswerEdits, MaxPurgeFaults} \subseteq Nat

VARIABLES desk,       \* each case: open, done (resolved or closed), old, or gone
          formed,     \* whether a case has its form
          stored,     \* the sensitive fields on record
          holder,     \* who holds the row of the ticket
          edit,       \* each editor: [pc, case, values]
          purge,      \* each purge: [pc, taken, todo]
          destroyed,  \* values destroyed
          evidence,   \* values accounted for by tombstones
          unwritten,  \* cases whose own tombstone failed, or whose purge died
          answerEdits, purgeFaults

caseVars == <<desk, formed, holder>>
countVars == <<answerEdits, purgeFaults>>
trailVars == <<destroyed, evidence, unwritten>>
answerVars == <<caseVars, stored, edit, purge, trailVars, countVars>>

NoEdit == [pc |-> "idle", case |-> "none", values |-> {}]
NoPurge == [pc |-> "idle", taken |-> [t \in Cases |-> {}], todo |-> {}]

(* createRequest stores the answers with the ticket they belong to, in its *)
(* transaction.                                                            *)
AnswersInit ==
  /\ desk = [t \in Cases |-> "open"]
  /\ formed \in [Cases -> BOOLEAN]
  /\ stored \in {s \in [Cases -> SUBSET Keys] : \A t \in Cases : ~formed[t] => s[t] = {}}
  /\ holder = [t \in Cases |-> Unheld]
  /\ edit = [e \in Editors |-> NoEdit] /\ purge = [p \in Purgers |-> NoPurge]
  /\ destroyed = [t \in Cases |-> 0] /\ evidence = [t \in Cases |-> 0] /\ unwritten = {}
  /\ answerEdits = 0 /\ purgeFaults = 0

-----------------------------------------------------------------------------
(* What becomes of a ticket otherwise: an incident is old once it has been *)
(* resolved or closed for longer than tickets are kept.  A purge compares  *)
(* with the instant it began, so that no ticket grows old during one.      *)
CaseMoves(t) ==
  /\ holder[t] = Unheld
  /\ \E to \in CASE desk[t] = "open" -> {"done"}
                 [] desk[t] = "done" -> {"open", "old"}
                 [] desk[t] = "old"  -> {"open"}
                 [] OTHER            -> {} :
       /\ to = "old" => \A p \in Purgers : purge[p].pc # "purging"
       /\ desk' = [desk EXCEPT ![t] = to]
  /\ UNCHANGED <<formed, holder, stored, edit, purge, trailVars, countVars>>

Terminal == {t \in Cases : desk[t] \in {"done", "old"}}

-----------------------------------------------------------------------------
(* Mutant of HoldCase: the row is read without FOR UPDATE. *)
HoldCaseNot(e, t) == holder[t] = Unheld /\ UNCHANGED holder

HoldCase(e, t) == holder[t] = Unheld /\ holder' = [holder EXCEPT ![t] = e]

ReleaseCase(e) == holder' = [t \in Cases |-> IF holder[t] = e THEN Unheld ELSE holder[t]]

(* editTicketForm and submitAnswers lock the ticket and look at its status *)
(* (editGuards); the former corrects a form, the latter attaches one.      *)
EditBegins(e, t) ==
  /\ edit[e].pc = "idle" /\ answerEdits < MaxAnswerEdits
  /\ desk[t] = "open"
  /\ HoldCase(e, t)
  /\ \E values \in SUBSET Keys :
       edit' = [edit EXCEPT ![e] = [pc |-> IF formed[t] THEN "editing" ELSE "attaching",
                                    case |-> t, values |-> values]]
  /\ answerEdits' = answerEdits + 1
  /\ UNCHANGED <<desk, formed, stored, purge, trailVars, purgeFaults>>

EditEnds(e) == edit' = [edit EXCEPT ![e] = NoEdit] /\ ReleaseCase(e)

(* A row a purge has deleted and not committed keeps the edit waiting.     *)
Untouched(t, keys) == \A p \in Purgers : purge[p].pc = "purging" => purge[p].taken[t] \cap keys = {}

(* Values are set or cleared on the connection of the edit.                *)
EditCommits(e) ==
  LET t == edit[e].case IN
  /\ edit[e].pc = "editing" /\ Untouched(t, edit[e].values)
  /\ \E cleared \in SUBSET edit[e].values :
       stored' = [stored EXCEPT ![t] = (@ \cup edit[e].values) \ cleared]
  /\ EditEnds(e)
  /\ UNCHANGED <<desk, formed, purge, trailVars, countVars>>

(* An attached form commits if none of its answers is sensitive.           *)
AttachCommits(e) ==
  /\ edit[e].pc = "attaching" /\ edit[e].values = {}
  /\ formed' = [formed EXCEPT ![edit[e].case] = TRUE]
  /\ EditEnds(e)
  /\ UNCHANGED <<desk, stored, purge, trailVars, countVars>>

(* storeSensitive inserts on a second connection, and the foreign key of   *)
(* the row waits for the ticket that the first one holds: an attached form *)
(* with a sensitive answer has no next step.  When its process is gone,    *)
(* the database undoes the first transaction and may still do the insert   *)
(* that was waiting.                                                       *)
AttachDies(e) ==
  LET t == edit[e].case IN
  /\ edit[e].pc = "attaching" /\ edit[e].values # {} /\ purgeFaults < MaxPurgeFaults
  /\ stored' \in {stored} \cup {[stored EXCEPT ![t] = @ \cup {k}] : k \in edit[e].values}
  /\ purgeFaults' = purgeFaults + 1
  /\ EditEnds(e)
  /\ UNCHANGED <<desk, formed, purge, trailVars, answerEdits>>

(* A write, or the audit record before the commit, fails: ROLLBACK.        *)
EditFails(e) ==
  /\ \/ edit[e].pc = "editing"
     \/ edit[e].pc = "attaching" /\ edit[e].values = {}
  /\ EditEnds(e)
  /\ UNCHANGED <<desk, formed, stored, purge, trailVars, countVars>>

-----------------------------------------------------------------------------
(* A purge                                                                 *)

(* sensitivePurgeSql: the values of every resolved or closed ticket.       *)
PurgePii(p) ==
  LET taken == [t \in Cases |-> IF t \in Terminal THEN stored[t] ELSE {}] IN
  /\ purge[p].pc = "idle" /\ Terminal # {}
  /\ \A t \in Cases : Untouched(t, taken[t])
  /\ purge' = [purge EXCEPT ![p] = [NoPurge EXCEPT !.pc = "purging", !.taken = taken]]
  /\ UNCHANGED <<caseVars, stored, edit, trailVars, countVars>>

(* piiPurgeTombstones: a record for each ticket that lost values.          *)
Recorded(taken) == {t \in Cases : taken[t] # {}}

(* Then the old tickets go, with the values that are still on them, and    *)
(* all of it commits.                                                      *)
PurgeCommits(p) ==
  LET taken == purge[p].taken  old == {t \in Cases : desk[t] = "old"}
      lost == [t \in Cases |-> IF t \in old THEN stored[t] ELSE taken[t]]
  IN
  /\ purge[p].pc = "purging"
  /\ \A t \in old :
       /\ holder[t] = Unheld
       /\ \A q \in Purgers \ {p} : purge[q].pc = "purging" => purge[q].taken[t] = {}
  /\ desk' = [t \in Cases |-> IF t \in old THEN "gone" ELSE desk[t]]
  /\ stored' = [t \in Cases |-> stored[t] \ lost[t]]
  /\ destroyed' = [t \in Cases |-> destroyed[t] + Cardinality(lost[t])]
  /\ purge' = [purge EXCEPT ![p] = IF Recorded(taken) = {} THEN NoPurge
                                   ELSE [@ EXCEPT !.pc = "recording", !.todo = Recorded(taken)]]
  /\ UNCHANGED <<formed, holder, edit, evidence, unwritten, countVars>>

PurgeFails(p) ==
  /\ purge[p].pc = "purging" /\ purgeFaults < MaxPurgeFaults
  /\ purge' = [purge EXCEPT ![p] = NoPurge]
  /\ purgeFaults' = purgeFaults + 1
  /\ UNCHANGED <<caseVars, stored, edit, trailVars, answerEdits>>

OnToNextRecord(p, t) ==
  purge' = [purge EXCEPT ![p] = IF purge[p].todo = {t} THEN NoPurge ELSE [purge[p] EXCEPT !.todo = @ \ {t}]]

WriteTombstone(p, t) ==
  /\ t \in purge[p].todo
  /\ evidence' = [evidence EXCEPT ![t] = @ + Cardinality(purge[p].taken[t])]
  /\ OnToNextRecord(p, t)
  /\ UNCHANGED <<caseVars, stored, edit, destroyed, unwritten, countVars>>

(* Mutant of TombstoneFails: the error ends the sweep. *)
TombstoneFailsAndAll(p, t) ==
  /\ t \in purge[p].todo /\ purgeFaults < MaxPurgeFaults
  /\ unwritten' = unwritten \cup {t}
  /\ purge' = [purge EXCEPT ![p] = NoPurge]
  /\ purgeFaults' = purgeFaults + 1
  /\ UNCHANGED <<caseVars, stored, edit, destroyed, evidence, answerEdits>>

TombstoneFails(p, t) ==
  /\ t \in purge[p].todo /\ purgeFaults < MaxPurgeFaults
  /\ unwritten' = unwritten \cup {t}
  /\ OnToNextRecord(p, t)
  /\ purgeFaults' = purgeFaults + 1
  /\ UNCHANGED <<caseVars, stored, edit, destroyed, evidence, answerEdits>>

PurgerDies(p) ==
  /\ purge[p].pc = "recording" /\ purgeFaults < MaxPurgeFaults
  /\ unwritten' = unwritten \cup purge[p].todo
  /\ purge' = [purge EXCEPT ![p] = NoPurge]
  /\ purgeFaults' = purgeFaults + 1
  /\ UNCHANGED <<caseVars, stored, edit, destroyed, evidence, answerEdits>>

-----------------------------------------------------------------------------
AnswersNext ==
  \/ \E t \in Cases : CaseMoves(t)
  \/ \E e \in Editors : \/ \E t \in Cases : EditBegins(e, t)
                        \/ EditCommits(e) \/ AttachCommits(e) \/ AttachDies(e) \/ EditFails(e)
  \/ \E p \in Purgers : \/ PurgePii(p) \/ PurgeCommits(p) \/ PurgeFails(p) \/ PurgerDies(p)
                        \/ \E t \in Cases : WriteTombstone(p, t) \/ TombstoneFails(p, t)

AnswersSpec == AnswersInit /\ [][AnswersNext]_answerVars

-----------------------------------------------------------------------------
(* No personal value is stored on a request that is not open: an edit that *)
(* overlaps the resolution of its ticket does not leave data behind where  *)
(* the purge has already been (ticket-form-edit.ts, the row lock before    *)
(* editGuards).                                                            *)
StoredWhileOpen == [][\A t \in Cases : stored'[t] \subseteq stored[t] \/ desk[t] = "open"]_answerVars

(* The values of a case that purges have still to record, and their number.*)
Unrecorded(t) == {e \in Purgers \X Keys : t \in purge[e[1]].todo /\ e[2] \in purge[e[1]].taken[t]}
Outstanding(t) == Cardinality(Unrecorded(t))

(* Every destroyed value is on record, or about to be, whatever overlapping*)
(* purges, edits and reopened tickets do: a tombstone that fails costs its *)
(* own record and no other, and the deletion of old tickets takes no value *)
(* with it that was not counted (writeTombstones; startRetentionPurge,     *)
(* "PII first").                                                           *)
EvidenceKept ==
  \A t \in Cases \ unwritten : evidence[t] + Outstanding(t) = destroyed[t]

(* Personal data is accounted for: it is on open requests only, and what   *)
(* is destroyed is on record.                                              *)
PersonalDataIsAccounted == []EvidenceKept /\ StoredWhileOpen
=============================================================================
