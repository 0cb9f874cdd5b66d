-------------------------- MODULE ChangeManagement -------------------------
(***************************************************************************)
(* The life of one change, from the handlers of                            *)
(* apps/api/src/modules/changes.ts and the board and template editors of   *)
(* modules/cab.ts.                                                         *)
(*                                                                         *)
(* Every handler runs in one READ COMMITTED transaction.  castVote locks   *)
(* the change row first (SELECT ... FOR UPDATE), so it is one step; so are *)
(* createChange and the editors, whose only writes are their own rows.     *)
(* The other handlers read the change without a lock, decide, and write    *)
(* status by id alone: their read and their write are steps of their own,  *)
(* and anything may commit in between.  Submitters and Operators are the   *)
(* requests that can be in flight at once; a request whose process dies or *)
(* that is refused leaves nothing behind (ROLLBACK).                       *)
(***************************************************************************)
EXTENDS CabVoting

CONSTANTS
  Creators,      \* users whose principal can change.create
  Managers,      \* ... cab.manage
  Voters,        \* ... change.vote
  Implementers,  \* ... change.implement
  BoardAdmins,   \* the managers who do not hold change.create (raisesChanges)
  Boards,        \* cab_boards rows, DefaultBoard the one resolveBoard picks
  DefaultBoard,
  BoardConfigs,  \* bound: the contents putBoard requests may carry
  Templates,     \* bound: ids createTemplate may hand out
  NoUser, NoBoard, NoTemplate,
  Submitters,    \* bound: submit-cab requests in flight for the change
  Operators      \* bound: cancel/schedule/transition/pir requests in flight

BoardRows == [chair : Users \cup {NoUser}, quorum : Quorums, threshold : Thresholds,
              members : SUBSET Users, weight : [Users -> Weights]]

ASSUME RolesAreUsers ==
  /\ Creators \subseteq Users /\ Managers \subseteq Users
  /\ Voters \subseteq Users /\ Implementers \subseteq Users
  /\ BoardAdmins \subseteq Managers
ASSUME NullsAreNotIds ==
  NoUser \notin Users /\ NoBoard \notin Boards /\ NoTemplate \notin Templates
ASSUME BoardsSane == DefaultBoard \in Boards /\ BoardConfigs \subseteq BoardRows

VARIABLES
  status, ctype, raiser, tpl,   \* the changes row; tpl is standard_template_id
  ballots, rules,               \* its change_votes rows, cab_quorum/cab_threshold
  pir,                          \* pir_outcome is not null
  deadline,                     \* vote_deadline: not set, to come, passed
  boards, templates,            \* cab_boards with members; change_templates
  sub,                          \* what each submit-cab request has read
  op,                           \* the write each other request is about to make
  everApproved                  \* history: the status was "approved" at some time

changeVars == <<status, ctype, raiser, tpl, ballots, rules, pir, deadline, everApproved>>
configVars == <<boards, templates>>
vars == <<changeVars, configVars, sub, op>>

(***************************************************************************)
(* The status machine.                                                     *)
(***************************************************************************)
Statuses == {"draft", "cab_review", "approved", "scheduled", "implementing",
             "review", "closed", "rejected", "cancelled"}

Transitions ==
       ({"draft"}        \X {"cab_review", "approved", "cancelled"})
  \cup ({"cab_review"}   \X {"approved", "rejected", "cancelled"})
  \cup ({"approved"}     \X {"scheduled", "cancelled"})
  \cup ({"scheduled"}    \X {"implementing", "cancelled"})
  \cup ({"implementing"} \X {"review"})
  \cup ({"review"}       \X {"closed"})

CanTransition(from, to) == <<from, to>> \in Transitions

(* Mutant of RequiresPir: guards a transition nobody can ask for. *)
RequiresPirEarly(from, to) == from = "implementing" /\ to = "closed"

RequiresPir(from, to) == from = "review" /\ to = "closed"
RequiresCab(changeType) == changeType # "standard"

MayCancel(actor) == actor \in Implementers \/ (actor \in Creators /\ actor = raiser)

TemplateStates == ChangeTypes \cup {"absent"}
TypeOfTemplate(t) == IF t = NoTemplate THEN "absent" ELSE templates[t]

SeedBoard == [chair |-> NoUser, quorum |-> 1, threshold |-> "majority",
              members |-> {}, weight |-> [u \in Users |-> 1]]

NoSubmit == [pc |-> "idle", actor |-> NoUser, board |-> NoBoard, extras |-> {},
             chair |-> NoUser, rules |-> DefaultRules, ballots |-> NoBallots]
SubmitStates ==
  [pc : {"idle", "read", "preapproved", "board", "cut"}, actor : Users \cup {NoUser},
   board : Boards \cup {NoBoard}, extras : SUBSET Users, chair : Users \cup {NoUser},
   rules : Rules, ballots : Ballots]

PirWrites == {"pir_close", "pir_amend"}
OpStates  == {"none"} \cup PirWrites
               \cup {"cancelled", "scheduled", "implementing", "review", "closed"}

Init ==
  /\ status = "absent" /\ ctype = "normal" /\ raiser = NoUser /\ tpl = NoTemplate
  /\ ballots = NoBallots /\ rules = DefaultRules
  /\ pir = FALSE /\ deadline = "none" /\ everApproved = FALSE
  /\ boards = [b \in Boards |-> SeedBoard]
  /\ templates = [t \in Templates |-> "absent"]
  /\ sub = [s \in Submitters |-> NoSubmit]
  /\ op = [o \in Operators |-> "none"]

-----------------------------------------------------------------------------
(***************************************************************************)
(* createChange.  A standard change must name a standard template; the     *)
(* template of any other change leaves only defaults behind.               *)
(***************************************************************************)
CreateChange(actor, t, type) ==
  /\ status = "absent" /\ actor \in Creators
  /\ t # NoTemplate => templates[t] # "absent"
  /\ PreapprovalGranted(type, TypeOfTemplate(t))
  /\ status' = "draft" /\ ctype' = type /\ raiser' = actor
  /\ tpl' = IF type = "standard" THEN t ELSE NoTemplate
  /\ UNCHANGED <<ballots, rules, pir, deadline, everApproved, configVars, sub, op>>

(***************************************************************************)
(* submitForCab.                                                           *)
(***************************************************************************)
(* Mutant of SubmitRead: any change may be submitted again. *)
SubmitReadAgain(s, actor) ==
  /\ sub[s].pc = "idle" /\ status # "absent"
  /\ actor \in Creators \cup Managers
  /\ sub' = [sub EXCEPT ![s] = [@ EXCEPT !.pc = "read", !.actor = actor]]
  /\ UNCHANGED <<changeVars, configVars, op>>

SubmitRead(s, actor) ==
  /\ sub[s].pc = "idle" /\ status = "draft"
  /\ actor \in Creators \cup Managers
  /\ sub' = [sub EXCEPT ![s] = [@ EXCEPT !.pc = "read", !.actor = actor]]
  /\ UNCHANGED <<changeVars, configVars, op>>

(* A standard change: the template is looked up again, then the change is  *)
(* approved without a vote.                                                *)
SubmitReadTemplate(s) ==
  /\ sub[s].pc = "read" /\ ~RequiresCab(ctype)
  /\ PreapprovalGranted("standard", TypeOfTemplate(tpl))
  /\ sub' = [sub EXCEPT ![s].pc = "preapproved"]
  /\ UNCHANGED <<changeVars, configVars, op>>

SubmitPreapprove(s) ==
  /\ sub[s].pc = "preapproved"
  /\ status' = "approved" /\ everApproved' = TRUE
  /\ sub' = [sub EXCEPT ![s] = NoSubmit]
  /\ UNCHANGED <<ctype, raiser, tpl, ballots, rules, pir, deadline, configVars, op>>

(* Any other change: the board row first, and with it the right to name a  *)
(* board or attach reviewers; b is the default board when none is named.   *)
SubmitReadBoard(s, b, extras) ==
  /\ sub[s].pc = "read" /\ RequiresCab(ctype)
  /\ b # DefaultBoard \/ extras # {} =>
       MayComposeRoster(sub[s].actor, raiser, sub[s].actor \in Managers,
                        boards[b].chair = sub[s].actor)
  /\ sub' = [sub EXCEPT ![s] =
               [@ EXCEPT !.pc = "board", !.board = b, !.extras = extras,
                         !.chair = boards[b].chair,
                         !.rules = [quorum |-> boards[b].quorum,
                                    threshold |-> boards[b].threshold]]]
  /\ UNCHANGED <<changeVars, configVars, op>>

(* Then the members, in a statement of their own; the roster is cut, the   *)
(* raiser recused, and the quorum clamped to what is left.                 *)
SubmitReadMembers(s) ==
  /\ sub[s].pc = "board"
  /\ LET row == boards[sub[s].board] IN
     \E members \in IF ctype = "emergency" THEN EcabRosters(row.members, sub[s].chair)
                                           ELSE {row.members} :
       LET cut == CutBallots(members, row.weight, sub[s].extras, raiser) IN
       /\ Standing(cut) # {}
       /\ sub' = [sub EXCEPT ![s] =
                    [@ EXCEPT !.pc = "cut", !.ballots = cut,
                              !.rules.quorum = SnapshotQuorum(sub[s].rules.quorum, StandingRoster(cut))]]
  /\ UNCHANGED <<changeVars, configVars, op>>

(* The ballots are inserted and the change is updated by id.               *)
SubmitCommit(s) ==
  /\ sub[s].pc = "cut"
  /\ ballots' = InsertBallots(ballots, sub[s].ballots)
  /\ rules' = sub[s].rules
  /\ status' = "cab_review" /\ deadline' = "future"
  /\ sub' = [sub EXCEPT ![s] = NoSubmit]
  /\ UNCHANGED <<ctype, raiser, tpl, pir, everApproved, configVars, op>>

SubmitAbort(s) ==
  /\ sub[s].pc # "idle"
  /\ sub' = [sub EXCEPT ![s] = NoSubmit]
  /\ UNCHANGED <<changeVars, configVars, op>>

(***************************************************************************)
(* castVote, under the row lock.                                           *)
(***************************************************************************)
(* Mutant of CastVote: resolves on the ballots as they were before this one. *)
CastVoteStale(voter, x) ==
  /\ voter \in Voters /\ VoteEligible(status, ballots, voter, raiser)
  /\ ballots' = [ballots EXCEPT !.vote[voter] = x]
  /\ status' = ResolveVote(ballots, rules)
  /\ everApproved' = (everApproved \/ status' = "approved")
  /\ UNCHANGED <<ctype, raiser, tpl, rules, pir, deadline, configVars, sub, op>>

CastVote(voter, x) ==
  /\ voter \in Voters /\ VoteEligible(status, ballots, voter, raiser)
  /\ ballots' = [ballots EXCEPT !.vote[voter] = x]
  /\ status' = ResolveVote(ballots', rules)
  /\ everApproved' = (everApproved \/ status' = "approved")
  /\ UNCHANGED <<ctype, raiser, tpl, rules, pir, deadline, configVars, sub, op>>

(***************************************************************************)
(* cancelChange, scheduleChange, transitionChange, recordPir: the checks   *)
(* on the row as read, then the write.                                     *)
(***************************************************************************)
WillWrite(o, w) ==
  /\ op[o] = "none"
  /\ op' = [op EXCEPT ![o] = w]
  /\ UNCHANGED <<changeVars, configVars, sub>>

CancelRead(o) ==
  /\ CanTransition(status, "cancelled")
  /\ \E actor \in Users : MayCancel(actor)
  /\ WillWrite(o, "cancelled")

(* Mutant of ScheduleRead: a change is scheduled while it is voted on. *)
ScheduleReadInReview(o) ==
  /\ status \in {"cab_review", "approved"} /\ Implementers # {}
  /\ WillWrite(o, "scheduled")

ScheduleRead(o) ==
  /\ status = "approved" /\ Implementers # {}
  /\ WillWrite(o, "scheduled")

TransitionRead(o, to) ==
  /\ Implementers # {}
  /\ CanTransition(status, to)
  /\ RequiresPir(status, to) => pir
  /\ WillWrite(o, to)

PirRead(o) ==
  /\ status \in {"review", "closed"} /\ Implementers # {}
  /\ WillWrite(o, IF status = "review" THEN "pir_close" ELSE "pir_amend")

StatusWrite(o) ==
  /\ op[o] \in Statuses
  /\ status' = op[o]
  /\ op' = [op EXCEPT ![o] = "none"]
  /\ UNCHANGED <<ctype, raiser, tpl, ballots, rules, pir, deadline, everApproved, configVars, sub>>

PirWrite(o) ==
  /\ op[o] \in PirWrites
  /\ pir' = TRUE
  /\ status' = IF op[o] = "pir_close" THEN "closed" ELSE status
  /\ op' = [op EXCEPT ![o] = "none"]
  /\ UNCHANGED <<ctype, raiser, tpl, ballots, rules, deadline, everApproved, configVars, sub>>

OpAbort(o) ==
  /\ op[o] # "none"
  /\ op' = [op EXCEPT ![o] = "none"]
  /\ UNCHANGED <<changeVars, configVars, sub>>

(***************************************************************************)
(* The configuration a vote depends on.                                    *)
(***************************************************************************)
PutBoard(b, config) ==
  /\ BoardAdmins # {}
  /\ boards' = [boards EXCEPT ![b] = config]
  /\ UNCHANGED <<changeVars, templates, sub, op>>

CreateTemplate(actor, t, type) ==
  /\ actor \in Managers /\ (type = "standard" => actor \in BoardAdmins)
  /\ templates[t] = "absent"
  /\ templates' = [templates EXCEPT ![t] = type]
  /\ UNCHANGED <<changeVars, boards, sub, op>>

(* ON DELETE SET NULL takes the change's reference away with the template. *)
DeleteTemplate(t) ==
  /\ Managers # {}
  /\ templates[t] # "absent"
  /\ templates' = [templates EXCEPT ![t] = "absent"]
  /\ tpl' = IF tpl = t THEN NoTemplate ELSE tpl
  /\ UNCHANGED <<status, ctype, raiser, ballots, rules, pir, deadline, everApproved,
                 boards, sub, op>>

-----------------------------------------------------------------------------
Submission(s) ==
  \/ \E actor \in Users : SubmitRead(s, actor)
  \/ SubmitReadTemplate(s) \/ SubmitPreapprove(s)
  \/ \E b \in Boards, extras \in SUBSET Users : SubmitReadBoard(s, b, extras)
  \/ SubmitReadMembers(s) \/ SubmitCommit(s) \/ SubmitAbort(s)

Operation(o) ==
  \/ CancelRead(o) \/ ScheduleRead(o) \/ PirRead(o)
  \/ \E to \in {"implementing", "review", "closed"} : TransitionRead(o, to)
  \/ StatusWrite(o) \/ PirWrite(o) \/ OpAbort(o)

Administration ==
  \/ \E b \in Boards, config \in BoardConfigs : PutBoard(b, config)
  \/ \E actor \in Users, t \in Templates, type \in ChangeTypes : CreateTemplate(actor, t, type)
  \/ \E t \in Templates : DeleteTemplate(t)

Next ==
  \/ \E actor \in Users, t \in Templates \cup {NoTemplate}, type \in ChangeTypes :
        CreateChange(actor, t, type)
  \/ \E s \in Submitters : Submission(s)
  \/ \E voter \in Users, x \in CastValues : CastVote(voter, x)
  \/ \E o \in Operators : Operation(o)
  \/ Administration

Spec == Init /\ [][Next]_vars

-----------------------------------------------------------------------------
(* Every variable holds a value the columns and the handlers allow.        *)
TypeOK ==
  /\ status \in Statuses \cup {"absent"}
  /\ ctype \in ChangeTypes
  /\ raiser \in Users \cup {NoUser}
  /\ tpl \in Templates \cup {NoTemplate}
  /\ ballots \in Ballots
  /\ rules \in Rules
  /\ pir \in BOOLEAN
  /\ deadline \in {"none", "future", "past"}
  /\ everApproved \in BOOLEAN
  /\ boards \in [Boards -> BoardRows]
  /\ templates \in [Templates -> TemplateStates]
  /\ sub \in [Submitters -> SubmitStates]
  /\ op \in [Operators -> OpStates]

(***************************************************************************)
(* Whatever requests overlap.                                              *)
(***************************************************************************)

(* The raiser of a change never has a ballot on it, whoever submits it,    *)
(* with whichever board, reviewers and edits of the board in between.      *)
RaiserRecused == raiser \notin ballots.voters

ReleasedStatuses == {"scheduled", "implementing", "review", "closed"}

(* No interleaving of stale reads brings a change into the work phases     *)
(* that was not at some time approved.                                     *)
NoWorkWithoutApproval == status \in ReleasedStatuses => everApproved

(* A closed change has its post-implementation review on record, also when *)
(* the review and the transition that needs it race each other.            *)
ClosedHasPir == status = "closed" => pir

(* A ballot that was cast is never wiped: a submission that meets existing *)
(* rows leaves them alone.                                                 *)
CastBallotsSurvive ==
  [][\A v \in HasCast(ballots) : v \in HasCast(ballots') /\
                                 ballots'.weight[v] = ballots.weight[v]]_ballots

(***************************************************************************)
(* While submissions of the change do not overlap.                         *)
(***************************************************************************)

(* An open vote can still go either way with the ballots it is waiting     *)
(* for: nobody's ballot is missing from a decision that has been reached.  *)
OpenVoteUndecided ==
  status = "cab_review" => ResolveVote(ballots, rules) = "cab_review"

(* The snapshotted quorum can be met by the standing members who have a    *)
(* ballot: a vote cannot sit in cab_review for ever because the board was  *)
(* edited, cut to an ECAB or lost a recused raiser.                        *)
QuorumReachable ==
  ballots.voters # {} => rules.quorum <= StandingRoster(ballots)

(* A change past approval is standard or has ballots that approve it under *)
(* the rules it was submitted with, whatever cancel, schedule, transition  *)
(* and review requests overwrote each other.                               *)
ApprovedStatuses == ReleasedStatuses \cup {"approved"}
ApprovalBackedByBallots ==
  status \in ApprovedStatuses =>
    \/ ctype = "standard"
    \/ ballots.voters # {} /\ ResolveVote(ballots, rules) = "approved"

(* The promise of CabVerdict: one vote per change, on a fixed roster under *)
(* fixed rules, whose verdict is final.                                    *)
Verdict == INSTANCE CabVerdict WITH
             preapproved <- (ctype = "standard"),
             released <- (status \in ApprovedStatuses)
VerdictSpec == Verdict!Spec

(***************************************************************************)
(* What the documents and comments say of every change, and overlapping    *)
(* requests can break (see the findings in README.md).                     *)
(***************************************************************************)

(* rejected and cancelled are terminal: no request takes a change out.     *)
TerminalIsFinal == [][(status \in {"rejected", "cancelled"}) => status' = status]_status

(* Who judges a change, and by which rules, is fixed once it is in review. *)
RosterFixedInReview ==
  [][status = "cab_review" /\ status' = "cab_review"
       => ballots'.voters = ballots.voters /\ rules' = rules]_<<status, ballots, rules>>

(* A vote is finalized only when the standing board has turned out.        *)
DecidedByQuorum ==
  [][status = "cab_review" /\ status' \in {"approved", "rejected"}
       => QuorumMet(ballots', rules)]_status
=============================================================================
