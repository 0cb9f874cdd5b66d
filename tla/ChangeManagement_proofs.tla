----------------------- MODULE ChangeManagement_proofs ----------------------
(***************************************************************************)
(* What ChangeManagement guarantees for every set of users, boards,        *)
(* templates and rosters, and for every number of overlapping requests.    *)
(***************************************************************************)
EXTENDS ChangeManagement, CabVoting_proofs

-----------------------------------------------------------------------------
(***************************************************************************)
(* Type correctness.                                                       *)
(***************************************************************************)
LEMMA NoSubmitType == NoSubmit \in SubmitStates
BY NoBallotsType, BoundsPositive
   DEF NoSubmit, SubmitStates, DefaultRules, Rules, Quorums, Thresholds

(* TypeOK does not say by itself that a submission that has read a board    *)
(* row remembers which board that was; its next read needs it.             *)
BoardNamed == \A s \in Submitters : sub[s].pc = "board" => sub[s].board \in Boards
TypeInv    == TypeOK /\ BoardNamed

LEMMA InitType == Init => TypeInv
<1> SUFFICES ASSUME Init PROVE TypeInv
  OBVIOUS
<1>1. rules \in Rules
  BY BoundsPositive DEF Init, DefaultRules, Rules, Quorums, Thresholds
<1>2. SeedBoard \in BoardRows
  BY BoundsPositive DEF SeedBoard, BoardRows, Quorums, Thresholds, Weights
<1>3. ballots \in Ballots /\ sub \in [Submitters -> SubmitStates]
  BY NoBallotsType, NoSubmitType DEF Init
<1>4. TypeOK
  BY <1>1, <1>2, <1>3 DEF Init, TypeOK, ChangeTypes, TemplateStates, OpStates
<1>5. BoardNamed
  BY DEF Init, BoardNamed, NoSubmit
<1> QED BY <1>4, <1>5 DEF TypeInv

LEMMA SubmissionType ==
  ASSUME TypeInv, NEW s \in Submitters, Submission(s)
  PROVE  TypeInv'
<1> USE DEF TypeInv, TypeOK, BoardNamed, changeVars, configVars
<1>1. ASSUME NEW actor \in Users, SubmitRead(s, actor) PROVE TypeInv'
  <2> DEFINE after == [sub[s] EXCEPT !.pc = "read", !.actor = actor]
  <2>1. sub' = [sub EXCEPT ![s] = after]
    BY <1>1 DEF SubmitRead
  <2>2. after \in SubmitStates /\ after.pc = "read"
    BY DEF SubmitStates
  <2> HIDE DEF after
  <2> QED BY <1>1, <2>1, <2>2 DEF SubmitRead
<1>2. CASE SubmitReadTemplate(s)
  BY <1>2 DEF SubmitReadTemplate, SubmitStates
<1>3. CASE SubmitPreapprove(s)
  BY <1>3, NoSubmitType DEF SubmitPreapprove, Statuses, NoSubmit
<1>4. ASSUME NEW b \in Boards, NEW extras \in SUBSET Users, SubmitReadBoard(s, b, extras)
      PROVE  TypeInv'
  <2>1. [quorum |-> boards[b].quorum, threshold |-> boards[b].threshold] \in Rules
    BY <1>4 DEF Rules, BoardRows
  <2>2. boards[b].chair \in Users \cup {NoUser}
    BY <1>4 DEF BoardRows
  <2> DEFINE after == [sub[s] EXCEPT !.pc = "board", !.board = b, !.extras = extras,
                         !.chair = boards[b].chair,
                         !.rules = [quorum |-> boards[b].quorum,
                                    threshold |-> boards[b].threshold]]
  <2>3. sub' = [sub EXCEPT ![s] = after]
    BY <1>4 DEF SubmitReadBoard
  <2>4. after \in SubmitStates /\ after.board \in Boards
    BY <2>1, <2>2 DEF SubmitStates
  <2> HIDE DEF after
  <2> QED BY <1>4, <2>3, <2>4 DEF SubmitReadBoard
<1>5. CASE SubmitReadMembers(s)
  <2> DEFINE row == boards[sub[s].board]
  <2>1. PICK members \in IF ctype = "emergency" THEN EcabRosters(row.members, sub[s].chair)
                                                ELSE {row.members} :
          LET cut == CutBallots(members, row.weight, sub[s].extras, raiser) IN
          /\ Standing(cut) # {}
          /\ sub' = [sub EXCEPT ![s] =
                       [@ EXCEPT !.pc = "cut", !.ballots = cut,
                                 !.rules.quorum = SnapshotQuorum(sub[s].rules.quorum, StandingRoster(cut))]]
    BY <1>5 DEF SubmitReadMembers
  <2> DEFINE cut == CutBallots(members, row.weight, sub[s].extras, raiser)
             q   == SnapshotQuorum(sub[s].rules.quorum, StandingRoster(cut))
  <2>2. row \in BoardRows
    BY <1>5 DEF SubmitReadMembers, SubmitStates
  <2>3. members \in SUBSET Users
    BY <2>1, <2>2 DEF EcabRosters, BoardRows
  <2>4. cut \in Ballots
    BY <2>2, <2>3, CutBallotsType DEF BoardRows, SubmitStates
  <2>5. q \in Quorums
    BY <2>4, StandingRosterNat, SnapshotQuorumType DEF SubmitStates, Rules
  <2> HIDE DEF cut, q
  <2> DEFINE after == [sub[s] EXCEPT !.pc = "cut", !.ballots = cut, !.rules.quorum = q]
  <2>6. sub' = [sub EXCEPT ![s] = after]
    BY <2>1 DEF cut, q
  <2>7. after \in SubmitStates /\ after.pc = "cut"
    BY <2>4, <2>5 DEF SubmitStates, Rules
  <2> HIDE DEF after
  <2> QED BY <1>5, <2>6, <2>7 DEF SubmitReadMembers
<1>6. CASE SubmitCommit(s)
  BY <1>6, NoSubmitType, InsertBallotsType DEF SubmitCommit, SubmitStates, Statuses, NoSubmit
<1>7. CASE SubmitAbort(s)
  BY <1>7, NoSubmitType DEF SubmitAbort, NoSubmit
<1> QED BY <1>1, <1>2, <1>3, <1>4, <1>5, <1>6, <1>7 DEF Submission

LEMMA VoteType ==
  ASSUME TypeInv, NEW voter \in Users, NEW x \in CastValues, CastVote(voter, x)
  PROVE  TypeInv'
<1>1. ballots' \in Ballots
  BY DEF CastVote, TypeInv, TypeOK, Ballots, Votes
<1>2. status' \in Statuses
  BY ResolveVoteRange DEF CastVote, Statuses
<1> QED BY <1>1, <1>2 DEF CastVote, TypeInv, TypeOK, BoardNamed, configVars

LEMMA OperationType ==
  ASSUME TypeInv, NEW o \in Operators, Operation(o)
  PROVE  TypeInv'
<1> USE DEF TypeInv, TypeOK, BoardNamed, changeVars, configVars
<1>1. ASSUME NEW w \in OpStates, WillWrite(o, w) PROVE TypeInv'
  BY <1>1 DEF WillWrite
<1>2. CASE CancelRead(o) \/ ScheduleRead(o) \/ PirRead(o)
  BY <1>1, <1>2 DEF CancelRead, ScheduleRead, PirRead, OpStates, PirWrites
<1>3. CASE \E to \in {"implementing", "review", "closed"} : TransitionRead(o, to)
  BY <1>1, <1>3 DEF TransitionRead, OpStates
<1>4. CASE StatusWrite(o)
  BY <1>4 DEF StatusWrite, OpStates
<1>5. CASE PirWrite(o)
  BY <1>5 DEF PirWrite, OpStates, Statuses
<1>6. CASE OpAbort(o)
  BY <1>6 DEF OpAbort, OpStates
<1> QED BY <1>2, <1>3, <1>4, <1>5, <1>6 DEF Operation

LEMMA AdministrationType ==
  ASSUME TypeInv, Administration
  PROVE  TypeInv'
<1> USE DEF TypeInv, TypeOK, BoardNamed, changeVars, configVars
<1>1. ASSUME NEW b \in Boards, NEW config \in BoardConfigs, PutBoard(b, config) PROVE TypeInv'
  BY <1>1, BoardsSane DEF PutBoard
<1>2. ASSUME NEW actor \in Users, NEW t \in Templates, NEW type \in ChangeTypes,
             CreateTemplate(actor, t, type)
      PROVE  TypeInv'
  BY <1>2 DEF CreateTemplate, TemplateStates
<1>3. ASSUME NEW t \in Templates, DeleteTemplate(t) PROVE TypeInv'
  BY <1>3 DEF DeleteTemplate, TemplateStates
<1> QED BY <1>1, <1>2, <1>3 DEF Administration

LEMMA CreateType ==
  ASSUME TypeInv, NEW actor \in Users, NEW t \in Templates \cup {NoTemplate},
         NEW type \in ChangeTypes, CreateChange(actor, t, type)
  PROVE  TypeInv'
BY DEF TypeInv, TypeOK, BoardNamed, CreateChange, configVars, Statuses

LEMMA StepType == TypeInv /\ [Next]_vars => TypeInv'
<1> SUFFICES ASSUME TypeInv, [Next]_vars PROVE TypeInv'
  OBVIOUS
<1>1. CASE UNCHANGED vars
  BY <1>1 DEF TypeInv, TypeOK, BoardNamed, vars, changeVars, configVars
<1>2. CASE Next
  BY <1>2, CreateType, SubmissionType, VoteType, OperationType, AdministrationType DEF Next
<1> QED BY <1>1, <1>2

(* Every variable always holds a value its column and handler allow.       *)
THEOREM TypeCorrect == Spec => []TypeOK
<1>1. Spec => []TypeInv
  BY InitType, StepType, PTL DEF Spec
<1>2. TypeInv => TypeOK
  BY DEF TypeInv
<1> QED BY <1>1, <1>2, PTL

-----------------------------------------------------------------------------
(***************************************************************************)
(* The invariant behind the safety properties.  Each part says of the      *)
(* requests in flight what the property says of the row: what they have    *)
(* read commits them to a write that is still right when it comes, however *)
(* stale the rest of what they read is by then.                            *)
(***************************************************************************)
Unborn ==
  status = "absent" => /\ ballots.voters = {}
                       /\ \A s \in Submitters : sub[s].pc = "idle"
                       /\ \A s \in Submitters : sub[s].ballots.voters = {}
                       /\ \A o \in Operators : op[o] = "none"

Recused ==
  /\ raiser \notin ballots.voters
  /\ \A s \in Submitters : raiser \notin sub[s].ballots.voters

Earned ==
  /\ status \in ApprovedStatuses => everApproved
  /\ \A o \in Operators : op[o] \in ReleasedStatuses \cup PirWrites => everApproved

Reviewed ==
  /\ status = "closed" => pir
  /\ \A o \in Operators : op[o] = "closed" => pir

SafetyInv == TypeInv /\ Unborn /\ Recused /\ Earned /\ Reviewed

LEMMA ReleasedFromReleased ==
  ASSUME NEW from, NEW to \in {"implementing", "review", "closed"}, CanTransition(from, to)
  PROVE  from \in ReleasedStatuses
BY DEF CanTransition, Transitions, ReleasedStatuses

LEMMA NothingFromAbsent ==
  ASSUME NEW to, CanTransition("absent", to)
  PROVE  FALSE
BY DEF CanTransition, Transitions

LEMMA InitSafety == Init => SafetyInv
<1> SUFFICES ASSUME Init PROVE SafetyInv
  OBVIOUS
<1>1. Unborn /\ Recused
  BY DEF Init, Unborn, Recused, NoBallots, NoSubmit
<1>2. Earned /\ Reviewed
  BY DEF Init, Earned, Reviewed, ApprovedStatuses, ReleasedStatuses, PirWrites
<1> QED BY <1>1, <1>2, InitType DEF SafetyInv

(* Only createChange takes a change out of "absent", and nothing puts one  *)
(* back.                                                                   *)
LEMMA UnbornStep == SafetyInv /\ [Next]_vars => Unborn'
<1> SUFFICES ASSUME SafetyInv, [Next]_vars, status' = "absent" PROVE Unborn'
  BY DEF Unborn
<1> USE DEF SafetyInv, Unborn, changeVars, configVars
<1>1. ASSUME NEW actor \in Users, NEW t \in Templates \cup {NoTemplate},
             NEW type \in ChangeTypes, CreateChange(actor, t, type)
      PROVE  FALSE
  BY <1>1 DEF CreateChange
<1>2. ASSUME NEW s \in Submitters, Submission(s) PROVE Unborn'
  BY <1>2 DEF Submission, SubmitRead, SubmitReadTemplate, SubmitPreapprove, SubmitReadBoard,
              SubmitReadMembers, SubmitCommit, SubmitAbort
<1>3. ASSUME NEW voter \in Users, NEW x \in CastValues, CastVote(voter, x) PROVE FALSE
  BY <1>3, ResolveVoteRange DEF CastVote
<1>4. ASSUME NEW o \in Operators, Operation(o) PROVE FALSE
  <2>1. CASE CancelRead(o) \/ ScheduleRead(o) \/ PirRead(o)
    BY <2>1, NothingFromAbsent DEF CancelRead, ScheduleRead, PirRead, WillWrite
  <2>2. ASSUME NEW to \in {"implementing", "review", "closed"}, TransitionRead(o, to)
        PROVE  FALSE
    BY <2>2, NothingFromAbsent DEF TransitionRead, WillWrite
  <2>3. CASE StatusWrite(o)
    BY <2>3 DEF StatusWrite, Statuses
  <2>4. CASE PirWrite(o)
    BY <2>4 DEF PirWrite, PirWrites
  <2>5. CASE OpAbort(o)
    BY <2>5 DEF OpAbort
  <2> QED BY <1>4, <2>1, <2>2, <2>3, <2>4, <2>5 DEF Operation
<1>5. CASE Administration
  BY <1>5 DEF Administration, PutBoard, CreateTemplate, DeleteTemplate
<1>6. CASE UNCHANGED vars
  BY <1>6 DEF vars
<1> QED BY <1>1, <1>2, <1>3, <1>4, <1>5, <1>6 DEF Next

(* The raiser is fixed when the change is born, before any ballot exists,  *)
(* and every roster is cut without them.                                   *)
LEMMA RecusedStep == SafetyInv /\ [Next]_vars => Recused'
<1> SUFFICES ASSUME SafetyInv, [Next]_vars PROVE Recused'
  OBVIOUS
<1> USE DEF SafetyInv, Recused, changeVars, configVars
<1>1. ASSUME NEW actor \in Users, NEW t \in Templates \cup {NoTemplate},
             NEW type \in ChangeTypes, CreateChange(actor, t, type)
      PROVE  Recused'
  BY <1>1 DEF CreateChange, Unborn
<1>2. ASSUME NEW s \in Submitters, Submission(s) PROVE Recused'
  <2> USE DEF TypeInv, TypeOK, NoSubmit, NoBallots
  <2>1. ASSUME NEW actor \in Users, SubmitRead(s, actor) PROVE Recused'
    BY <2>1 DEF SubmitRead, SubmitStates
  <2>2. CASE SubmitReadTemplate(s)
    BY <2>2 DEF SubmitReadTemplate, SubmitStates
  <2>3. CASE SubmitPreapprove(s) \/ SubmitAbort(s)
    BY <2>3 DEF SubmitPreapprove, SubmitAbort
  <2>4. ASSUME NEW b \in Boards, NEW extras \in SUBSET Users, SubmitReadBoard(s, b, extras)
        PROVE  Recused'
    BY <2>4 DEF SubmitReadBoard, SubmitStates
  <2>5. CASE SubmitReadMembers(s)
    <3>1. raiser \notin sub'[s].ballots.voters
      BY <2>5 DEF SubmitReadMembers, CutBallots, SubmitStates
    <3>2. \A r \in Submitters \ {s} : sub'[r] = sub[r]
      BY <2>5 DEF SubmitReadMembers
    <3> QED BY <2>5, <3>1, <3>2 DEF SubmitReadMembers
  <2>6. CASE SubmitCommit(s)
    BY <2>6 DEF SubmitCommit, InsertBallots
  <2> QED BY <1>2, <2>1, <2>2, <2>3, <2>4, <2>5, <2>6 DEF Submission
<1>3. ASSUME NEW voter \in Users, NEW x \in CastValues, CastVote(voter, x) PROVE Recused'
  BY <1>3 DEF CastVote, TypeInv, TypeOK, Ballots
<1>4. ASSUME NEW o \in Operators, Operation(o) PROVE Recused'
  BY <1>4 DEF Operation, CancelRead, ScheduleRead, PirRead, TransitionRead, WillWrite,
              StatusWrite, PirWrite, OpAbort
<1>5. CASE Administration
  BY <1>5 DEF Administration, PutBoard, CreateTemplate, DeleteTemplate
<1>6. CASE UNCHANGED vars
  BY <1>6 DEF vars
<1> QED BY <1>1, <1>2, <1>3, <1>4, <1>5, <1>6 DEF Next

(* No step loses an approval or a review on record.                        *)
LEMMA HistoryGrows ==
  ASSUME SafetyInv, [Next]_vars
  PROVE  (everApproved => everApproved') /\ (pir => pir')
<1> DEFINE Grows == (everApproved => everApproved') /\ (pir => pir')
<1> USE DEF changeVars, configVars
<1>0. everApproved \in BOOLEAN /\ pir \in BOOLEAN
  BY DEF SafetyInv, TypeInv, TypeOK
<1>1. ASSUME NEW s \in Submitters, Submission(s) PROVE Grows
  <2>1. CASE SubmitPreapprove(s)
    BY <2>1 DEF SubmitPreapprove
  <2>2. CASE ~SubmitPreapprove(s)
    <3>1. UNCHANGED <<everApproved, pir>>
      BY <1>1, <2>2 DEF Submission, SubmitRead, SubmitReadTemplate, SubmitReadBoard,
                        SubmitReadMembers, SubmitCommit, SubmitAbort
    <3> QED BY <3>1
  <2> QED BY <2>1, <2>2
<1>2. ASSUME NEW o \in Operators, Operation(o) PROVE Grows
  BY <1>2 DEF Operation, CancelRead, ScheduleRead, PirRead, TransitionRead, WillWrite,
              StatusWrite, PirWrite, OpAbort
<1>3. CASE Administration
  BY <1>3 DEF Administration, PutBoard, CreateTemplate, DeleteTemplate
<1>4. ASSUME NEW actor \in Users, NEW t \in Templates \cup {NoTemplate},
             NEW type \in ChangeTypes, CreateChange(actor, t, type)
      PROVE  Grows
  BY <1>4 DEF CreateChange
<1>5. ASSUME NEW voter \in Users, NEW x \in CastValues, CastVote(voter, x) PROVE Grows
  BY <1>0, <1>5 DEF CastVote
<1>6. CASE UNCHANGED vars
  BY <1>6 DEF vars
<1>7. Next \/ UNCHANGED vars
  OBVIOUS
<1>8. CASE Next
  BY <1>1, <1>2, <1>3, <1>4, <1>5, <1>8 DEF Next
<1> QED BY <1>6, <1>7, <1>8

(* Work begins from an approved status only: a request that will write a   *)
(* work status has read an approved one, and approvals stay on record.     *)
LEMMA EarnedStep == SafetyInv /\ [Next]_vars => Earned'
<1> SUFFICES ASSUME SafetyInv, [Next]_vars PROVE Earned'
  OBVIOUS
<1> USE DEF SafetyInv, Earned, changeVars, configVars
<1>0. everApproved => everApproved'
  BY HistoryGrows
<1>1. ASSUME NEW actor \in Users, NEW t \in Templates \cup {NoTemplate},
             NEW type \in ChangeTypes, CreateChange(actor, t, type)
      PROVE  Earned'
  BY <1>1 DEF CreateChange, ApprovedStatuses, ReleasedStatuses
<1>2. ASSUME NEW s \in Submitters, Submission(s) PROVE Earned'
  BY <1>2 DEF Submission, SubmitRead, SubmitReadTemplate, SubmitPreapprove, SubmitReadBoard,
              SubmitReadMembers, SubmitCommit, SubmitAbort, ApprovedStatuses, ReleasedStatuses
<1>3. ASSUME NEW voter \in Users, NEW x \in CastValues, CastVote(voter, x) PROVE Earned'
  <2>1. status' = "approved" => everApproved'
    BY <1>3 DEF CastVote
  <2>2. status' \in {"approved", "rejected", "cab_review"}
    BY <1>3, ResolveVoteRange DEF CastVote
  <2>3. op' = op
    BY <1>3 DEF CastVote
  <2> QED BY <1>0, <2>1, <2>2, <2>3 DEF ApprovedStatuses, ReleasedStatuses
<1>4. ASSUME NEW o \in Operators, Operation(o) PROVE Earned'
  <2> USE DEF TypeInv, TypeOK
  <2>0. ASSUME NEW w \in OpStates, WillWrite(o, w),
               w \in ReleasedStatuses \cup PirWrites => everApproved
        PROVE  Earned'
    BY <2>0 DEF WillWrite
  <2>1. CASE CancelRead(o)
    BY <2>0, <2>1 DEF CancelRead, OpStates, ReleasedStatuses, PirWrites
  <2>2. CASE ScheduleRead(o)
    BY <2>0, <2>2 DEF ScheduleRead, OpStates, ApprovedStatuses
  <2>3. CASE PirRead(o)
    BY <2>0, <2>3 DEF PirRead, OpStates, PirWrites, ApprovedStatuses, ReleasedStatuses
  <2>4. ASSUME NEW to \in {"implementing", "review", "closed"}, TransitionRead(o, to)
        PROVE  Earned'
    BY <2>0, <2>4, ReleasedFromReleased DEF TransitionRead, OpStates, ApprovedStatuses
  <2>5. CASE StatusWrite(o)
    BY <2>5 DEF StatusWrite, OpStates, ApprovedStatuses, ReleasedStatuses, PirWrites
  <2>6. CASE PirWrite(o)
    BY <2>6 DEF PirWrite, ApprovedStatuses, ReleasedStatuses, PirWrites
  <2>7. CASE OpAbort(o)
    BY <2>7 DEF OpAbort, ReleasedStatuses, PirWrites
  <2> QED BY <1>4, <2>1, <2>2, <2>3, <2>4, <2>5, <2>6, <2>7 DEF Operation
<1>5. CASE Administration
  BY <1>5 DEF Administration, PutBoard, CreateTemplate, DeleteTemplate
<1>6. CASE UNCHANGED vars
  BY <1>6 DEF vars
<1> QED BY <1>1, <1>2, <1>3, <1>4, <1>5, <1>6 DEF Next

(* A request that will close the change has seen its review on record, or  *)
(* records it with the same write; a review is amended and never removed.  *)
LEMMA ReviewedStep == SafetyInv /\ [Next]_vars => Reviewed'
<1> SUFFICES ASSUME SafetyInv, [Next]_vars PROVE Reviewed'
  OBVIOUS
<1> USE DEF SafetyInv, Reviewed, changeVars, configVars
<1>0. pir => pir'
  BY HistoryGrows
<1>1. ASSUME NEW actor \in Users, NEW t \in Templates \cup {NoTemplate},
             NEW type \in ChangeTypes, CreateChange(actor, t, type)
      PROVE  Reviewed'
  BY <1>1 DEF CreateChange
<1>2. ASSUME NEW s \in Submitters, Submission(s) PROVE Reviewed'
  BY <1>2 DEF Submission, SubmitRead, SubmitReadTemplate, SubmitPreapprove, SubmitReadBoard,
              SubmitReadMembers, SubmitCommit, SubmitAbort
<1>3. ASSUME NEW voter \in Users, NEW x \in CastValues, CastVote(voter, x) PROVE Reviewed'
  <2>1. status' \in {"approved", "rejected", "cab_review"}
    BY <1>3, ResolveVoteRange DEF CastVote
  <2>2. op' = op
    BY <1>3 DEF CastVote
  <2> QED BY <1>0, <2>1, <2>2
<1>4. ASSUME NEW o \in Operators, Operation(o) PROVE Reviewed'
  <2> USE DEF TypeInv, TypeOK
  <2>0. ASSUME NEW w \in OpStates, WillWrite(o, w), w = "closed" => pir PROVE Reviewed'
    BY <2>0 DEF WillWrite
  <2>1. CASE CancelRead(o)
    BY <2>0, <2>1 DEF CancelRead, OpStates
  <2>2. CASE ScheduleRead(o)
    BY <2>0, <2>2 DEF ScheduleRead, OpStates
  <2>3. CASE PirRead(o)
    BY <2>0, <2>3 DEF PirRead, OpStates, PirWrites
  <2>4. ASSUME NEW to \in {"implementing", "review", "closed"}, TransitionRead(o, to)
        PROVE  Reviewed'
    <3>1. to = "closed" => status = "review"
      BY <2>4 DEF TransitionRead, CanTransition, Transitions
    <3> QED BY <2>0, <2>4, <3>1 DEF TransitionRead, RequiresPir, OpStates
  <2>5. CASE StatusWrite(o)
    BY <2>5 DEF StatusWrite
  <2>6. CASE PirWrite(o)
    BY <2>6 DEF PirWrite
  <2>7. CASE OpAbort(o)
    BY <2>7 DEF OpAbort
  <2> QED BY <1>4, <2>1, <2>2, <2>3, <2>4, <2>5, <2>6, <2>7 DEF Operation
<1>5. CASE Administration
  BY <1>5 DEF Administration, PutBoard, CreateTemplate, DeleteTemplate
<1>6. CASE UNCHANGED vars
  BY <1>6 DEF vars
<1> QED BY <1>1, <1>2, <1>3, <1>4, <1>5, <1>6 DEF Next

LEMMA Safety == Spec => []SafetyInv
<1>1. SafetyInv /\ [Next]_vars => SafetyInv'
  BY StepType, UnbornStep, RecusedStep, EarnedStep, ReviewedStep DEF SafetyInv
<1> QED BY <1>1, InitSafety, PTL DEF Spec

(* The raiser of a change never has a ballot on it (recuseRaiser), however *)
(* many submissions overlap and whatever boards are edited meanwhile.      *)
THEOREM RaiserNeverVotes == Spec => []RaiserRecused
<1>1. SafetyInv => RaiserRecused
  BY DEF SafetyInv, Recused, RaiserRecused
<1> QED BY <1>1, Safety, PTL

(* No number of overlapping cancel, schedule, transition and review        *)
(* requests brings a change into the work phases that no vote and no       *)
(* pre-approval ever approved.                                             *)
THEOREM WorkIsApproved == Spec => []NoWorkWithoutApproval
<1>1. SafetyInv => NoWorkWithoutApproval
  BY DEF SafetyInv, Earned, NoWorkWithoutApproval, ApprovedStatuses
<1> QED BY <1>1, Safety, PTL

(* A closed change has a post-implementation review on record, although    *)
(* recordPir and transitionChange both close from a stale read.            *)
THEOREM ClosedIsReviewed == Spec => []ClosedHasPir
<1>1. SafetyInv => ClosedHasPir
  BY DEF SafetyInv, Reviewed, ClosedHasPir
<1> QED BY <1>1, Safety, PTL

-----------------------------------------------------------------------------
(* A submission adds rows and leaves the ones it meets alone.              *)
LEMMA InsertKeepsCast ==
  ASSUME NEW old \in Ballots, NEW new \in Ballots, NEW v \in HasCast(old)
  PROVE  LET ins == InsertBallots(old, new) IN
         v \in HasCast(ins) /\ ins.weight[v] = old.weight[v]
BY DEF InsertBallots, HasCast, Ballots

(* A voter may change their own ballot, not withdraw it.                   *)
LEMMA CastKeepsCast ==
  ASSUME TypeInv, NEW voter \in Users, NEW x \in CastValues, CastVote(voter, x),
         NEW v \in HasCast(ballots)
  PROVE  v \in HasCast(ballots') /\ ballots'.weight[v] = ballots.weight[v]
<1>1. /\ ballots'.voters = ballots.voters /\ ballots'.weight = ballots.weight
      /\ \A u \in Users : ballots'.vote[u] = IF u = voter THEN x ELSE ballots.vote[u]
  BY DEF TypeInv, TypeOK, CastVote, Ballots
<1>2. v \in Users
  BY DEF TypeInv, TypeOK, HasCast, Ballots
<1> QED BY <1>1, <1>2 DEF HasCast, CastValues

(* No number of overlapping submissions takes a ballot away that was cast, *)
(* or changes what it weighs.                                              *)
THEOREM BallotsSurvive == Spec => CastBallotsSurvive
<1> DEFINE Kept == \A v \in HasCast(ballots) : v \in HasCast(ballots') /\
                                               ballots'.weight[v] = ballots.weight[v]
<1>1. TypeInv /\ [Next]_vars => [Kept]_ballots
  <2> SUFFICES ASSUME TypeInv, [Next]_vars PROVE Kept \/ UNCHANGED ballots
    OBVIOUS
  <2>1. ASSUME NEW s \in Submitters, Submission(s) PROVE Kept \/ UNCHANGED ballots
    <3>1. CASE SubmitCommit(s)
      BY <3>1, InsertKeepsCast DEF SubmitCommit, TypeInv, TypeOK, SubmitStates
    <3>2. CASE ~SubmitCommit(s)
      BY <2>1, <3>2 DEF Submission, SubmitRead, SubmitReadTemplate, SubmitPreapprove,
                        SubmitReadBoard, SubmitReadMembers, SubmitAbort, changeVars
    <3> QED BY <3>1, <3>2
  <2>2. ASSUME NEW o \in Operators, Operation(o) PROVE UNCHANGED ballots
    BY <2>2 DEF Operation, CancelRead, ScheduleRead, PirRead, TransitionRead, WillWrite,
                StatusWrite, PirWrite, OpAbort, changeVars
  <2>3. CASE Administration \/ UNCHANGED vars
    BY <2>3 DEF Administration, PutBoard, CreateTemplate, DeleteTemplate, vars, changeVars
  <2>4. ASSUME NEW actor \in Users, NEW t \in Templates \cup {NoTemplate},
               NEW type \in ChangeTypes, CreateChange(actor, t, type)
        PROVE  UNCHANGED ballots
    BY <2>4 DEF CreateChange
  <2>5. ASSUME NEW voter \in Users, NEW x \in CastValues, CastVote(voter, x) PROVE Kept
    BY <2>5, CastKeepsCast
  <2> QED BY <2>1, <2>2, <2>3, <2>4, <2>5 DEF Next
<1>2. Spec => []TypeInv
  BY InitType, StepType, PTL DEF Spec
<1> QED BY <1>1, <1>2, PTL DEF Spec, CastBallotsSurvive
=============================================================================
