------------------------ MODULE ChangeVerdict_proofs ------------------------
(***************************************************************************)
(* What ChangeManagement guarantees while submissions of one change do not *)
(* overlap: a vote that can be decided and is decided by its ballots, and  *)
(* the promise of CabVerdict; and what the deadline sweeper adds to it.    *)
(***************************************************************************)
EXTENDS ChangeManagement_proofs, CabDeadlineSweeper

SingleSubmission == \A s, t \in Submitters : s = t

-----------------------------------------------------------------------------
(***************************************************************************)
(* The ballots of a new vote.                                              *)
(***************************************************************************)
Fresh(b) == b.vote = NoBallots.vote /\ b.adHoc \subseteq b.voters /\ Standing(b) # {}

LEMMA NobodyHasCast ==
  ASSUME NEW b \in Ballots, b.vote = NoBallots.vote
  PROVE  /\ HasCast(b) = {}
         /\ Voting(b, "approve") = {}
         /\ Voting(b, "reject") = {}
BY DEF HasCast, Voting, NoBallots, Ballots

(* A vote opens undecided: nobody has voted and the quorum is not zero.    *)
LEMMA FreshUndecided ==
  ASSUME NEW b \in Ballots, b.vote = NoBallots.vote, NEW r \in Rules
  PROVE  ResolveVote(b, r) = "cab_review"
<1>1. Approve(b) = 0 /\ Reject(b) = 0
  BY NobodyHasCast, WeightOfEmpty DEF Approve, Reject
<1>2. StandingCast(b) = 0
  <2>1. HasCast(b) \cap Standing(b) = {}
    BY NobodyHasCast
  <2> QED BY <2>1, WeightOfEmpty DEF StandingCast
<1>3. ~QuorumMet(b, r)
  BY <1>2 DEF QuorumMet, Rules, Quorums
<1>4. ~(Approve(b) + Reject(b) > 0)
  BY <1>1
<1> QED BY <1>3, <1>4 DEF ResolveVote, Passes

LEMMA CutBallotsFresh ==
  ASSUME NEW members, NEW weight, NEW extras, NEW who
  PROVE  LET cut == CutBallots(members, weight, extras, who)
         IN  cut.vote = NoBallots.vote /\ cut.adHoc \subseteq cut.voters
BY DEF CutBallots, NoBallots

(* Inserted where there is no row yet, the rows are as they were cut.      *)
LEMMA InsertFirst ==
  ASSUME NEW b \in Ballots, Fresh(b)
  PROVE  LET new == InsertBallots(NoBallots, b) IN
         /\ new.voters = b.voters /\ Fresh(new)
         /\ StandingRoster(new) = StandingRoster(b)
<1> DEFINE new == InsertBallots(NoBallots, b)
<1>1. new.voters = b.voters /\ new.adHoc = b.adHoc
  BY DEF InsertBallots, NoBallots, Fresh
<1>2. new.vote = NoBallots.vote
  BY DEF InsertBallots, NoBallots, Fresh
<1>3. Standing(new) = Standing(b)
  BY <1>1 DEF Standing
<1>4. \A u \in Standing(b) : new.weight[u] = b.weight[u]
  BY DEF InsertBallots, NoBallots, Standing, Ballots
<1>5. Units(Standing(new), new.weight) = Units(Standing(b), b.weight)
  BY <1>3, <1>4 DEF Units
<1>6. StandingRoster(new) = StandingRoster(b)
  BY <1>5 DEF StandingRoster, WeightOf
<1> QED BY <1>1, <1>2, <1>3, <1>6 DEF Fresh

-----------------------------------------------------------------------------
(***************************************************************************)
(* The invariant.                                                          *)
(***************************************************************************)

(* As long as the change is a draft, or a submission of it is under way,   *)
(* no vote has been opened and the most a request can do is cancel it.     *)
UnopenedIf(early) ==
  early => /\ ballots = NoBallots
           /\ status \in {"absent", "draft", "cancelled"}
           /\ \A o \in Operators : op[o] \in {"none", "cancelled"}
Unopened ==
  /\ UnopenedIf(status \in {"absent", "draft"})
  /\ \A s \in Submitters : UnopenedIf(sub[s].pc # "idle")

(* A roster that has been cut can be met by its quorum.                    *)
CutSound ==
  \A s \in Submitters : sub[s].pc = "cut" =>
    /\ Fresh(sub[s].ballots)
    /\ sub[s].rules.quorum <= StandingRoster(sub[s].ballots)

(* Standard changes skip the vote and no other change does.                *)
Classified ==
  /\ ctype = "standard" => /\ ballots = NoBallots
                           /\ \A s \in Submitters : sub[s].pc \notin {"board", "cut"}
  /\ ctype # "standard" => \A s \in Submitters : sub[s].pc # "preapproved"
  /\ status = "absent" => ctype = "normal"

(* The status agrees with the ballots, and so does every status that a     *)
(* request still has to write.                                             *)
Backed == \/ ctype = "standard"
          \/ ballots.voters # {} /\ ResolveVote(ballots, rules) = "approved"
Decided ==
  /\ status = "cab_review" => ballots.voters # {} /\ ResolveVote(ballots, rules) = "cab_review"
  /\ status \in ApprovedStatuses => Backed
  /\ \A o \in Operators : op[o] \in ReleasedStatuses \cup PirWrites => Backed

VoteInv ==
  SafetyInv /\ Unopened /\ CutSound /\ Classified /\ QuorumReachable /\ Decided

LEMMA InitVote == Init => VoteInv
<1> SUFFICES ASSUME Init PROVE VoteInv
  OBVIOUS
<1> USE DEF Init
<1>1. Unopened /\ CutSound
  BY DEF Unopened, UnopenedIf, CutSound, NoSubmit
<1>2. Classified /\ QuorumReachable
  BY DEF Classified, QuorumReachable, NoSubmit, NoBallots
<1>3. Decided
  BY DEF Decided, ApprovedStatuses, ReleasedStatuses, PirWrites
<1> QED BY <1>1, <1>2, <1>3, InitSafety DEF VoteInv

VoteParts == Unopened /\ CutSound /\ Classified /\ QuorumReachable /\ Decided

LEMMA CreateVote ==
  ASSUME VoteInv, NEW actor \in Users, NEW t \in Templates \cup {NoTemplate},
         NEW type \in ChangeTypes, CreateChange(actor, t, type)
  PROVE  VoteParts'
<1> USE DEF CreateChange, VoteInv, SafetyInv
<1>1. status = "absent" /\ status' = "draft" /\ UNCHANGED <<ballots, rules, sub, op>>
  OBVIOUS
<1>2. /\ \A s \in Submitters : sub[s].pc = "idle"
      /\ \A o \in Operators : op[o] = "none"
  BY <1>1 DEF Unborn
<1>3. ballots = NoBallots
  BY <1>1 DEF Unopened, UnopenedIf
<1>4. Unopened' /\ CutSound'
  BY <1>1, <1>2, <1>3 DEF Unopened, UnopenedIf, CutSound
<1>5. Classified' /\ QuorumReachable'
  BY <1>1, <1>2, <1>3 DEF Classified, QuorumReachable
<1>6. Decided'
  BY <1>1, <1>2 DEF Decided, ApprovedStatuses, ReleasedStatuses, PirWrites
<1> QED BY <1>4, <1>5, <1>6 DEF VoteParts

(* submitForCab refuses a cut without a standing member and clamps the     *)
(* quorum to what is left, so the cut can always decide.                   *)
LEMMA CutIsSound ==
  ASSUME TypeInv, NEW s \in Submitters, SubmitReadMembers(s)
  PROVE  /\ sub'[s].pc = "cut" /\ Fresh(sub'[s].ballots)
         /\ sub'[s].rules.quorum <= StandingRoster(sub'[s].ballots)
<1> USE DEF TypeInv, TypeOK, BoardNamed
<1> DEFINE row == boards[sub[s].board]
<1>1. PICK members \in IF ctype = "emergency" THEN EcabRosters(row.members, sub[s].chair)
                                              ELSE {row.members} :
        LET cut == CutBallots(members, row.weight, sub[s].extras, raiser) IN
        /\ Standing(cut) # {}
        /\ sub' = [sub EXCEPT ![s] =
                     [@ EXCEPT !.pc = "cut", !.ballots = cut,
                               !.rules.quorum = SnapshotQuorum(sub[s].rules.quorum, StandingRoster(cut))]]
  BY DEF SubmitReadMembers
<1> DEFINE cut == CutBallots(members, row.weight, sub[s].extras, raiser)
           q   == SnapshotQuorum(sub[s].rules.quorum, StandingRoster(cut))
<1>2. row \in BoardRows
  BY DEF SubmitReadMembers, SubmitStates
<1>3. members \in SUBSET Users
  BY <1>1, <1>2 DEF EcabRosters, BoardRows
<1>4. cut \in Ballots
  BY <1>2, <1>3, CutBallotsType DEF BoardRows, SubmitStates
<1>5. Fresh(cut)
  BY <1>1, CutBallotsFresh DEF Fresh
<1>6. StandingRoster(cut) \in Nat /\ StandingRoster(cut) > 0
  <2>1. Standing(cut) \in SUBSET Users /\ cut.weight \in [Users -> Weights]
    BY <1>4 DEF Ballots, Standing
  <2> QED BY <1>4, <1>5, <2>1, StandingRosterNat, WeightOfPositive DEF StandingRoster, Fresh
<1>7. q <= StandingRoster(cut)
  BY <1>6, SnapshotQuorumReachable DEF SubmitStates, Rules
<1>8. sub'[s] = [sub[s] EXCEPT !.pc = "cut", !.ballots = cut, !.rules.quorum = q]
  BY <1>1
<1> HIDE DEF cut, q
<1>9. sub'[s].pc = "cut" /\ sub'[s].ballots = cut /\ sub'[s].rules.quorum = q
  BY <1>8 DEF SubmitStates, Rules
<1> QED BY <1>5, <1>7, <1>9

(* The vote opens with the ballots and the quorum that were cut, undecided. *)
LEMMA CommitVote ==
  ASSUME SingleSubmission, VoteInv, NEW s \in Submitters, SubmitCommit(s)
  PROVE  VoteParts'
<1> USE DEF VoteInv, SafetyInv, TypeInv, TypeOK
<1> DEFINE cut == sub[s].ballots
<1>0. \A r \in Submitters : r = s
  BY DEF SingleSubmission
<1>1. /\ status' = "cab_review" /\ sub'[s].pc = "idle"
      /\ ballots' = InsertBallots(ballots, cut) /\ rules' = sub[s].rules
      /\ UNCHANGED <<ctype, op>>
  BY DEF SubmitCommit, NoSubmit
<1>2. ballots = NoBallots /\ \A o \in Operators : op[o] \in {"none", "cancelled"}
  BY DEF SubmitCommit, Unopened, UnopenedIf
<1>3. ctype # "standard"
  BY DEF SubmitCommit, Classified
<1>4. Fresh(cut) /\ sub[s].rules.quorum <= StandingRoster(cut)
  BY DEF SubmitCommit, CutSound
<1>5. cut \in Ballots /\ sub[s].rules \in Rules
  BY DEF SubmitStates
<1>6. /\ ballots'.voters # {} /\ Fresh(ballots')
      /\ rules'.quorum <= StandingRoster(ballots')
  BY <1>1, <1>2, <1>4, <1>5, InsertFirst DEF Fresh, Standing
<1>7. ballots' \in Ballots
  BY <1>1, <1>5, InsertBallotsType
<1>8. ResolveVote(ballots', rules') = "cab_review"
  BY <1>1, <1>5, <1>6, <1>7, FreshUndecided DEF Fresh
<1>9. Unopened' /\ CutSound'
  BY <1>0, <1>1 DEF Unopened, UnopenedIf, CutSound
<1>10. Classified' /\ QuorumReachable'
  BY <1>0, <1>1, <1>3, <1>6 DEF Classified, QuorumReachable
<1>11. Decided'
  BY <1>1, <1>2, <1>6, <1>8 DEF Decided, ApprovedStatuses, ReleasedStatuses, PirWrites
<1> QED BY <1>9, <1>10, <1>11 DEF VoteParts

LEMMA SubmissionVote ==
  ASSUME SingleSubmission, VoteInv, NEW s \in Submitters, Submission(s)
  PROVE  VoteParts'
<1> USE DEF VoteInv, SafetyInv, TypeInv, TypeOK
<1>0. \A r \in Submitters : r = s
  BY DEF SingleSubmission
<1>1. ASSUME UNCHANGED <<status, ctype, ballots, rules, op>>,
             UnopenedIf(sub'[s].pc # "idle"),
             sub'[s].pc = "cut" =>
               /\ Fresh(sub'[s].ballots)
               /\ sub'[s].rules.quorum <= StandingRoster(sub'[s].ballots),
             sub'[s].pc \in {"board", "cut"} => ctype # "standard",
             sub'[s].pc = "preapproved" => ctype = "standard"
      PROVE  VoteParts'
  <2>1. Unopened' /\ CutSound'
    BY <1>0, <1>1 DEF Unopened, UnopenedIf, CutSound
  <2>2. Classified' /\ QuorumReachable' /\ Decided'
    BY <1>0, <1>1 DEF Classified, QuorumReachable, Decided, Backed
  <2> QED BY <2>1, <2>2 DEF VoteParts
<1>2. ASSUME NEW actor \in Users, SubmitRead(s, actor) PROVE VoteParts'
  <2>1. sub'[s].pc = "read" /\ UNCHANGED <<status, ctype, ballots, rules, op>>
    BY <1>2 DEF SubmitRead, SubmitStates, changeVars
  <2>2. UnopenedIf(TRUE)
    BY <1>2 DEF SubmitRead, Unopened, UnopenedIf
  <2> QED BY <1>1, <2>1, <2>2 DEF UnopenedIf
<1>3. CASE SubmitReadTemplate(s)
  <2>1. sub'[s].pc = "preapproved" /\ UNCHANGED <<status, ctype, ballots, rules, op>>
    BY <1>3 DEF SubmitReadTemplate, SubmitStates, changeVars
  <2>2. UnopenedIf(TRUE) /\ ctype = "standard"
    BY <1>3 DEF SubmitReadTemplate, RequiresCab, Unopened, UnopenedIf
  <2> QED BY <1>1, <2>1, <2>2 DEF UnopenedIf
<1>4. CASE SubmitPreapprove(s)
  <2>1. /\ status' = "approved" /\ sub'[s].pc = "idle"
        /\ UNCHANGED <<ctype, ballots, rules, op>>
    BY <1>4 DEF SubmitPreapprove, NoSubmit
  <2>2. ctype = "standard" /\ ballots = NoBallots /\ UnopenedIf(TRUE)
    BY <1>4 DEF SubmitPreapprove, Classified, Unopened, UnopenedIf
  <2>3. Unopened' /\ CutSound'
    BY <1>0, <2>1 DEF Unopened, UnopenedIf, CutSound
  <2>4. Classified' /\ QuorumReachable' /\ Decided'
    BY <1>0, <2>1, <2>2 DEF Classified, QuorumReachable, Decided, Backed
  <2> QED BY <2>3, <2>4 DEF VoteParts
<1>5. ASSUME NEW b \in Boards, NEW extras \in SUBSET Users, SubmitReadBoard(s, b, extras)
      PROVE  VoteParts'
  <2>1. sub'[s].pc = "board" /\ UNCHANGED <<status, ctype, ballots, rules, op>>
    BY <1>5 DEF SubmitReadBoard, SubmitStates, changeVars
  <2>2. UnopenedIf(TRUE) /\ ctype # "standard"
    BY <1>5 DEF SubmitReadBoard, RequiresCab, Unopened, UnopenedIf
  <2> QED BY <1>1, <2>1, <2>2 DEF UnopenedIf
<1>6. CASE SubmitReadMembers(s)
  <2>1. UNCHANGED <<status, ctype, ballots, rules, op>>
    BY <1>6 DEF SubmitReadMembers, changeVars
  <2>2. UnopenedIf(TRUE) /\ ctype # "standard"
    BY <1>6 DEF SubmitReadMembers, Classified, Unopened, UnopenedIf
  <2>3. /\ sub'[s].pc = "cut" /\ Fresh(sub'[s].ballots)
        /\ sub'[s].rules.quorum <= StandingRoster(sub'[s].ballots)
    BY <1>6, CutIsSound
  <2> QED BY <1>1, <2>1, <2>2, <2>3 DEF UnopenedIf
<1>7. CASE SubmitCommit(s)
  BY <1>7, CommitVote DEF SingleSubmission
<1>8. CASE SubmitAbort(s)
  <2>1. sub'[s].pc = "idle" /\ UNCHANGED <<status, ctype, ballots, rules, op>>
    BY <1>8 DEF SubmitAbort, NoSubmit, changeVars
  <2> QED BY <1>1, <2>1 DEF UnopenedIf
<1> QED BY <1>2, <1>3, <1>4, <1>5, <1>6, <1>7, <1>8 DEF Submission

(* A ballot is cast only while the ballots leave the vote open, and moves  *)
(* the status to what the ballots then say; nobody's weight changes.       *)
LEMMA CastVoteVote ==
  ASSUME VoteInv, NEW voter \in Users, NEW x \in CastValues, CastVote(voter, x)
  PROVE  VoteParts'
<1> USE DEF VoteInv
<1>1. voter \in ballots.voters /\ status = "cab_review"
  BY DEF CastVote, VoteEligible
<1>2. /\ ballots'.voters = ballots.voters /\ ballots'.adHoc = ballots.adHoc
      /\ ballots'.weight = ballots.weight /\ UNCHANGED <<ctype, rules, sub, op>>
      /\ status' = ResolveVote(ballots', rules)
  BY DEF CastVote, SafetyInv, TypeInv, TypeOK, Ballots
<1>3. status' \in {"approved", "rejected", "cab_review"}
  BY <1>2, ResolveVoteRange
<1>4. ballots # NoBallots
  BY <1>1 DEF NoBallots
<1>5. \A s \in Submitters : sub[s].pc = "idle"
  BY <1>1 DEF Unopened, UnopenedIf
<1>6. Unopened' /\ CutSound'
  BY <1>2, <1>3, <1>5 DEF Unopened, UnopenedIf, CutSound
<1>7. Classified' /\ QuorumReachable'
  <2>1. StandingRoster(ballots') = StandingRoster(ballots)
    BY <1>2 DEF StandingRoster, Standing
  <2> QED BY <1>1, <1>2, <1>3, <1>4, <2>1 DEF Classified, QuorumReachable
<1>8. Decided'
  <2>1. ResolveVote(ballots, rules) = "cab_review" /\ ctype # "standard"
    BY <1>1, <1>4 DEF Decided, Classified
  <2>2. \A o \in Operators : op[o] \notin ReleasedStatuses \cup PirWrites
    BY <2>1 DEF Decided, Backed
  <2> QED BY <1>1, <1>2, <1>3, <2>2 DEF Decided, Backed, ApprovedStatuses, ReleasedStatuses
<1> QED BY <1>6, <1>7, <1>8 DEF VoteParts

(* A request writes a status the ballots still back, however long ago it   *)
(* read the one it started from.                                           *)
LEMMA OperationVote ==
  ASSUME VoteInv, NEW o \in Operators, Operation(o)
  PROVE  VoteParts'
<1> USE DEF VoteInv, SafetyInv, TypeInv, TypeOK, changeVars, configVars
<1>0. UNCHANGED <<ctype, ballots, rules, sub>>
  BY DEF Operation, CancelRead, ScheduleRead, PirRead, TransitionRead, WillWrite,
         StatusWrite, PirWrite, OpAbort
<1>1. CutSound' /\ QuorumReachable' /\ Backed' = Backed
  BY <1>0 DEF CutSound, QuorumReachable, Backed
<1>2. ASSUME NEW w \in OpStates, WillWrite(o, w),
             w \in ReleasedStatuses \cup PirWrites => status \in ApprovedStatuses
      PROVE  VoteParts'
  <2>1. UNCHANGED <<status, ctype, ballots, rules, sub>>
    BY <1>2 DEF WillWrite
  <2>2. \A p \in Operators : op'[p] = IF p = o THEN w ELSE op[p]
    BY <1>2 DEF WillWrite
  <2>3. status \in {"absent", "draft", "cancelled"} => w \in {"none", "cancelled"}
    BY <1>2 DEF OpStates, ApprovedStatuses, ReleasedStatuses, PirWrites
  <2>4. Unopened'
    BY <2>1, <2>2, <2>3 DEF Unopened, UnopenedIf
  <2>5. Classified'
    BY <2>1 DEF Classified
  <2>6. Decided'
    BY <1>1, <1>2, <2>1, <2>2 DEF Decided
  <2> QED BY <1>1, <2>4, <2>5, <2>6 DEF VoteParts
<1>3. CASE CancelRead(o)
  BY <1>2, <1>3 DEF CancelRead, OpStates, ReleasedStatuses, PirWrites
<1>4. CASE ScheduleRead(o)
  BY <1>2, <1>4 DEF ScheduleRead, OpStates, ApprovedStatuses
<1>5. CASE PirRead(o)
  BY <1>2, <1>5 DEF PirRead, OpStates, PirWrites, ApprovedStatuses, ReleasedStatuses
<1>6. ASSUME NEW to \in {"implementing", "review", "closed"}, TransitionRead(o, to)
      PROVE  VoteParts'
  BY <1>2, <1>6, ReleasedFromReleased DEF TransitionRead, OpStates, ApprovedStatuses
<1>7. ASSUME op' = [op EXCEPT ![o] = "none"],
             status' = status \/ (status' = "cancelled" /\ op[o] = "cancelled")
               \/ (status' \in ReleasedStatuses /\ op[o] \in ReleasedStatuses \cup PirWrites)
      PROVE  VoteParts'
  <2>1. \A p \in Operators : op'[p] = IF p = o THEN "none" ELSE op[p]
    BY <1>7
  <2>2. Unopened'
    BY <1>0, <1>7, <2>1 DEF Unopened, UnopenedIf, ReleasedStatuses, PirWrites
  <2>3. Classified'
    BY <1>0, <1>7 DEF Classified, ReleasedStatuses
  <2>4. Decided'
    BY <1>0, <1>1, <1>7, <2>1 DEF Decided, ApprovedStatuses, ReleasedStatuses, PirWrites
  <2> QED BY <1>1, <2>2, <2>3, <2>4 DEF VoteParts
<1>8. CASE StatusWrite(o)
  BY <1>7, <1>8 DEF StatusWrite, OpStates, PirWrites, Statuses, ReleasedStatuses
<1>9. CASE PirWrite(o)
  BY <1>7, <1>9 DEF PirWrite, ReleasedStatuses
<1>10. CASE OpAbort(o)
  BY <1>7, <1>10 DEF OpAbort
<1> QED BY <1>3, <1>4, <1>5, <1>6, <1>8, <1>9, <1>10 DEF Operation

LEMMA IdleVote ==
  ASSUME VoteInv, Administration \/ UNCHANGED vars
  PROVE  VoteParts'
<1>1. UNCHANGED <<status, ctype, ballots, rules, sub, op>>
  BY DEF Administration, PutBoard, CreateTemplate, DeleteTemplate, vars, changeVars
<1>2. Unopened' /\ CutSound' /\ Classified'
  BY <1>1 DEF VoteInv, Unopened, UnopenedIf, CutSound, Classified
<1>3. QuorumReachable' /\ Decided'
  BY <1>1 DEF VoteInv, QuorumReachable, Decided, Backed
<1> QED BY <1>2, <1>3 DEF VoteParts

LEMMA VoteStep == SingleSubmission => (VoteInv /\ [Next]_vars => VoteInv')
<1> SUFFICES ASSUME SingleSubmission, VoteInv, [Next]_vars PROVE VoteInv'
  OBVIOUS
<1>1. SafetyInv'
  BY StepType, UnbornStep, RecusedStep, EarnedStep, ReviewedStep DEF VoteInv, SafetyInv
<1>2. VoteParts'
  BY CreateVote, SubmissionVote, CastVoteVote, OperationVote, IdleVote DEF Next
<1> QED BY <1>1, <1>2 DEF VoteInv, VoteParts

-----------------------------------------------------------------------------
LEMMA VoteSound ==
  ASSUME SingleSubmission
  PROVE  Spec => []VoteInv
<1>1. VoteInv /\ [Next]_vars => VoteInv'
  BY VoteStep
<1> QED BY <1>1, InitVote, PTL DEF Spec

(* While submissions of a change do not overlap, the quorum snapshotted by *)
(* submitForCab can be met by the standing members who have a ballot, for  *)
(* every board, ECAB, recusal and edit of the board in between.            *)
THEOREM QuorumAlwaysReachable ==
  ASSUME SingleSubmission
  PROVE  Spec => []QuorumReachable
<1>1. VoteInv => QuorumReachable
  BY DEF VoteInv
<1> QED BY <1>1, VoteSound, PTL

(* ... a change is in cab_review only as long as its ballots leave the     *)
(* vote open: castVote never leaves a decided vote waiting.                *)
THEOREM OpenVotesAreUndecided ==
  ASSUME SingleSubmission
  PROVE  Spec => []OpenVoteUndecided
<1>1. VoteInv => OpenVoteUndecided
  BY DEF VoteInv, Decided, OpenVoteUndecided
<1> QED BY <1>1, VoteSound, PTL

(* ... and a change past approval is standard or has ballots that approve  *)
(* it, however many stale cancel, schedule, transition and review requests *)
(* overwrote its status.                                                   *)
THEOREM ApprovalsAreBacked ==
  ASSUME SingleSubmission
  PROVE  Spec => []ApprovalBackedByBallots
<1>1. VoteInv => ApprovalBackedByBallots
  BY DEF VoteInv, Decided, Backed, ApprovalBackedByBallots
<1> QED BY <1>1, VoteSound, PTL

-----------------------------------------------------------------------------
(***************************************************************************)
(* The promise of CabVerdict.                                              *)
(***************************************************************************)

(* CabVerdict extends CabVoting too: its copies of the rules are the same. *)
LEMMA SameRules ==
  /\ Verdict!Ballots = Ballots /\ Verdict!Rules = Rules
  /\ Verdict!NoBallots = NoBallots /\ Verdict!DefaultRules = DefaultRules
  /\ Verdict!CastValues = CastValues
BY DEF Verdict!Ballots, Ballots, Verdict!Rules, Rules, Verdict!NoBallots, NoBallots,
       Verdict!DefaultRules, DefaultRules, Verdict!CastValues, CastValues,
       Verdict!Weights, Weights, Verdict!Votes, Votes, Verdict!Quorums, Quorums,
       Verdict!Thresholds, Thresholds

LEMMA SameWeights ==
  ASSUME NEW S, NEW w
  PROVE  Verdict!WeightOf(S, w) = WeightOf(S, w)
<1>1. Verdict!Weights = Weights
  BY DEF Verdict!Weights, Weights
<1> QED BY <1>1 DEF Verdict!WeightOf, WeightOf, Verdict!Units, Units, Verdict!Cardinality, Cardinality

LEMMA SameTally ==
  ASSUME NEW b
  PROVE  /\ Verdict!Standing(b) = Standing(b)
         /\ Verdict!StandingRoster(b) = StandingRoster(b)
         /\ Verdict!StandingCast(b) = StandingCast(b)
         /\ Verdict!Approve(b) = Approve(b)
         /\ Verdict!Reject(b) = Reject(b)
         /\ Verdict!Pending(b) = Pending(b)
<1>1. Verdict!Standing(b) = Standing(b) /\ Verdict!HasCast(b) = HasCast(b)
  BY DEF Verdict!Standing, Standing, Verdict!HasCast, HasCast
<1>2. \A x : Verdict!Voting(b, x) = Voting(b, x)
  BY DEF Verdict!Voting, Voting
<1> QED BY <1>1, <1>2, SameWeights
        DEF Verdict!StandingRoster, StandingRoster, Verdict!StandingCast, StandingCast,
            Verdict!Approve, Approve, Verdict!Reject, Reject, Verdict!Pending, Pending

LEMMA SameResolve ==
  ASSUME NEW b, NEW r
  PROVE  Verdict!ResolveVote(b, r) = ResolveVote(b, r)
<1>1. \A a, j, t, all : Verdict!ThresholdPasses(a, j, t, all) = ThresholdPasses(a, j, t, all)
  BY DEF Verdict!ThresholdPasses, ThresholdPasses, Verdict!CeilThird, CeilThird
<1>2. /\ Verdict!QuorumMet(b, r) = QuorumMet(b, r)
      /\ Verdict!AllVoted(b) = AllVoted(b)
  BY SameTally DEF Verdict!QuorumMet, QuorumMet, Verdict!AllVoted, AllVoted
<1>3. Verdict!Passes(b, r) = Passes(b, r)
  BY <1>1, <1>2, SameTally DEF Verdict!Passes, Passes
<1>4. Verdict!CanStillPass(b, r) = CanStillPass(b, r)
  BY <1>1, SameTally DEF Verdict!CanStillPass, CanStillPass
<1> QED BY <1>2, <1>3, <1>4, SameTally DEF Verdict!ResolveVote, ResolveVote

LEMMA InitVerdict == Init => Verdict!Init
BY SameRules DEF Init, Verdict!Init, ApprovedStatuses, ReleasedStatuses

(* A step that leaves the vote alone withdraws or resumes the change: the  *)
(* invariant after it says that what is released is backed.                *)
LEMMA StatusVerdict ==
  ASSUME VoteInv', UNCHANGED <<ctype, ballots, rules>>
  PROVE  Verdict!Hold \/ Verdict!Release
<1>1. CASE status' \notin ApprovedStatuses
  BY <1>1 DEF Verdict!Hold, ApprovedStatuses, ReleasedStatuses
<1>2. CASE status' \in ApprovedStatuses
  <2>1. Backed
    BY <1>2 DEF VoteInv, Decided, Backed, ApprovedStatuses, ReleasedStatuses
  <2>2. ctype = "standard" \/ Verdict!Verdict = "approved"
    BY <2>1, SameResolve DEF Backed, Verdict!Verdict, Verdict!NotOpened
  <2> QED BY <1>2, <2>2 DEF Verdict!Release, ApprovedStatuses, ReleasedStatuses
<1> QED BY <1>1, <1>2

LEMMA CreateVerdict ==
  ASSUME VoteInv, VoteInv', NEW actor \in Users, NEW t \in Templates \cup {NoTemplate},
         NEW type \in ChangeTypes, CreateChange(actor, t, type)
  PROVE  Verdict!Next
<1>1. /\ status = "absent" /\ status' = "draft" /\ ctype = "normal" /\ ctype' = type
      /\ ballots = NoBallots /\ UNCHANGED <<ballots, rules>>
  BY DEF CreateChange, VoteInv, Classified, Unopened, UnopenedIf
<1>2. CASE type = "standard"
  <2>1. Verdict!Preapprove
    BY <1>1, <1>2 DEF Verdict!Preapprove, Verdict!NotOpened, NoBallots,
                      ApprovedStatuses, ReleasedStatuses
  <2> QED BY <2>1 DEF Verdict!Next
<1>3. CASE type # "standard"
  <2>1. Verdict!Hold
    BY <1>1, <1>3 DEF Verdict!Hold, ApprovedStatuses, ReleasedStatuses
  <2> QED BY <2>1 DEF Verdict!Next
<1> QED BY <1>2, <1>3

LEMMA CommitVerdict ==
  ASSUME VoteInv, VoteInv', NEW s \in Submitters, SubmitCommit(s)
  PROVE  Verdict!Open
<1> USE DEF VoteInv, SafetyInv, TypeInv, TypeOK
<1>1. /\ ballots = NoBallots /\ status \in {"absent", "draft", "cancelled"}
      /\ ctype # "standard" /\ Fresh(sub[s].ballots) /\ sub[s].ballots \in Ballots
  BY DEF SubmitCommit, Unopened, UnopenedIf, Classified, CutSound, SubmitStates
<1>2. status' = "cab_review" /\ UNCHANGED ctype
  BY DEF SubmitCommit
<1>3. ballots' \in Ballots /\ Fresh(ballots') /\ ballots'.voters # {}
  BY <1>1, InsertFirst DEF SubmitCommit, Fresh, Standing
<1>4. rules' \in Rules /\ rules'.quorum <= StandingRoster(ballots')
  BY <1>3 DEF QuorumReachable
<1>5. /\ ballots' \in {b \in Verdict!Ballots : /\ b.vote = Verdict!NoBallots.vote
                                              /\ b.adHoc \subseteq b.voters
                                              /\ Verdict!Standing(b) # {}}
      /\ rules' \in Verdict!Rules /\ rules'.quorum <= Verdict!StandingRoster(ballots')
  BY <1>3, <1>4, SameRules, SameTally DEF Fresh
<1>6. Verdict!NotOpened
  BY <1>1 DEF Verdict!NotOpened, NoBallots
<1> QED BY <1>1, <1>2, <1>5, <1>6 DEF Verdict!Open, ApprovedStatuses, ReleasedStatuses

LEMMA CastVerdict ==
  ASSUME VoteInv, NEW voter \in Users, NEW x \in CastValues, CastVote(voter, x)
  PROVE  Verdict!Cast(voter, x)
<1>1. voter \in ballots.voters /\ status = "cab_review"
  BY DEF CastVote, VoteEligible
<1>2. Verdict!Verdict = "cab_review"
  BY <1>1, SameResolve DEF VoteInv, Decided, Verdict!Verdict, Verdict!NotOpened
<1>3. (status' \in ApprovedStatuses) = (Verdict!ResolveVote(ballots', rules) = "approved")
  BY ResolveVoteRange, SameResolve DEF CastVote, ApprovedStatuses, ReleasedStatuses
<1> QED BY <1>1, <1>2, <1>3 DEF CastVote, Verdict!Cast

LEMMA VerdictStep ==
  ASSUME VoteInv, VoteInv', [Next]_vars
  PROVE  [Verdict!Next]_(Verdict!vars)
<1>1. ASSUME UNCHANGED <<ctype, ballots, rules>> PROVE Verdict!Next
  BY <1>1, StatusVerdict DEF Verdict!Next
<1>2. ASSUME NEW s \in Submitters, Submission(s) PROVE Verdict!Next
  <2>1. CASE SubmitCommit(s)
    BY <2>1, CommitVerdict DEF Verdict!Next
  <2>2. CASE ~SubmitCommit(s)
    BY <1>1, <1>2, <2>2
    DEF Submission, SubmitRead, SubmitReadTemplate, SubmitPreapprove, SubmitReadBoard,
        SubmitReadMembers, SubmitAbort, changeVars
  <2> QED BY <2>1, <2>2
<1>3. ASSUME NEW o \in Operators, Operation(o) PROVE Verdict!Next
  BY <1>1, <1>3 DEF Operation, CancelRead, ScheduleRead, PirRead, TransitionRead, WillWrite,
                    StatusWrite, PirWrite, OpAbort, changeVars
<1>4. CASE Administration \/ UNCHANGED vars
  BY <1>1, <1>4 DEF Administration, PutBoard, CreateTemplate, DeleteTemplate, vars, changeVars
<1>5. ASSUME NEW voter \in Users, NEW x \in CastValues, CastVote(voter, x) PROVE Verdict!Next
  BY <1>5, CastVerdict, SameRules DEF Verdict!Next
<1>6. Next \/ UNCHANGED vars
  OBVIOUS
<1>7. CASE Next
  BY <1>2, <1>3, <1>4, <1>5, <1>7, CreateVerdict DEF Next
<1> QED BY <1>4, <1>6, <1>7

(* While submissions of a change do not overlap, ChangeManagement keeps    *)
(* the promise of CabVerdict: one vote on a fixed roster under fixed       *)
(* rules, a final verdict, and release only behind approval.               *)
THEOREM ImplementsVerdict ==
  ASSUME SingleSubmission
  PROVE  Spec => VerdictSpec
<1>1. VoteInv /\ VoteInv' /\ [Next]_vars => [Verdict!Next]_(Verdict!vars)
  BY VerdictStep
<1> QED BY <1>1, VoteSound, InitVerdict, PTL DEF Spec, VerdictSpec, Verdict!Spec

-----------------------------------------------------------------------------
(***************************************************************************)
(* The deadline sweeper.                                                   *)
(***************************************************************************)
(* The marker is set once, so one tick at most is between the claim and    *)
(* the notice, and none is once the notice is out; a tick that dies in     *)
(* between leaves the marker.                                              *)
TickStates == [pc : {"idle", "selected", "overdue", "claimed"}, quorum : Nat \ {0}]
Claimed == {w \in Sweepers : sweep[w].pc = "claimed"}

ClaimInv ==
  /\ sweep \in [Sweepers -> TickStates] /\ notices \in {0, 1} /\ marker \in BOOLEAN
  /\ ~marker => notices = 0 /\ Claimed = {}
  /\ Claimed # {} => notices = 0
  /\ \A v, w \in Claimed : v = w

(* The sweeper reads the change and never writes it; that its deadline     *)
(* passes is nothing the handlers rely on.                                 *)
LEMMA SweeperLeavesChange ==
  ASSUME [SysNext]_sysVars
  PROVE  [Next \/ DeadlinePasses]_vars
BY DEF SysNext, sysVars, Tick, SweepSelect, SweepJudge, SweepClaim, SweepPublish, SweepCrash

LEMMA DeadlineIsLeftAlone ==
  /\ SafetyInv /\ DeadlinePasses => SafetyInv'
  /\ VoteInv /\ DeadlinePasses => VoteInv'
<1>1. SafetyInv /\ DeadlinePasses => SafetyInv'
  BY DEF SafetyInv, DeadlinePasses, TypeInv, TypeOK, BoardNamed, Unborn, Recused, Earned, Reviewed, configVars
<1>2. VoteInv /\ DeadlinePasses => VoteInv'
  BY <1>1 DEF VoteInv, DeadlinePasses, Unopened, UnopenedIf, CutSound, Classified, QuorumReachable, Decided, Backed, configVars
<1> QED  BY <1>1, <1>2

LEMMA SysSafety == SafetyInv /\ [SysNext]_sysVars => SafetyInv'
<1>1. SafetyInv /\ [Next]_vars => SafetyInv'
  BY StepType, UnbornStep, RecusedStep, EarnedStep, ReviewedStep DEF SafetyInv
<1> QED  BY <1>1, SweeperLeavesChange, DeadlineIsLeftAlone

LEMMA SysVote == SingleSubmission => (VoteInv /\ [SysNext]_sysVars => VoteInv')
BY VoteStep, SweeperLeavesChange, DeadlineIsLeftAlone

(* A step of one tick.                                                     *)
LEMMA TickMoves ==
  ASSUME ClaimInv, NEW w \in Sweepers, NEW to \in TickStates, sweep' = [sweep EXCEPT ![w] = to]
  PROVE  /\ sweep' \in [Sweepers -> TickStates]
         /\ Claimed' = IF to.pc = "claimed" THEN Claimed \cup {w} ELSE Claimed \ {w}
BY DEF ClaimInv, Claimed

LEMMA SweepStep == SafetyInv /\ ClaimInv /\ [SysNext]_sysVars => ClaimInv'
<1> SUFFICES ASSUME SafetyInv, ClaimInv, [SysNext]_sysVars PROVE ClaimInv'
  OBVIOUS
<1>0. IdleTick \in TickStates /\ IdleTick.pc = "idle" /\ rules.quorum \in Nat \ {0}
  BY BoundsPositive DEF IdleTick, TickStates, SafetyInv, TypeInv, TypeOK, Rules, Quorums
<1>1. CASE UNCHANGED sweepVars
  BY <1>1 DEF ClaimInv, Claimed, sweepVars
<1>2. ASSUME NEW w \in Sweepers, NEW to \in TickStates, sweep' = [sweep EXCEPT ![w] = to],
             to.pc # "claimed", UNCHANGED <<marker, notices>>
      PROVE  ClaimInv'
  BY <1>2, TickMoves DEF ClaimInv
<1>3. ASSUME NEW w \in Sweepers, SweepSelect(w) PROVE ClaimInv'
  <2> DEFINE to == [pc |-> "selected", quorum |-> rules.quorum]
  <2>1. to \in TickStates /\ to.pc = "selected"
    BY <1>0 DEF TickStates
  <2>2. sweep' = [sweep EXCEPT ![w] = to] /\ UNCHANGED <<marker, notices>>
    BY <1>3 DEF SweepSelect
  <2> HIDE DEF to
  <2> QED  BY <1>2, <2>1, <2>2
<1>4. ASSUME NEW w \in Sweepers, SweepJudge(w) PROVE ClaimInv'
  <2>1. PICK to \in TickStates : sweep' = [sweep EXCEPT ![w] = to] /\ to.pc # "claimed"
    <3>1. sweep[w] \in TickStates
      BY DEF ClaimInv
    <3>2. [sweep[w] EXCEPT !.pc = "overdue"] \in TickStates /\ [sweep[w] EXCEPT !.pc = "overdue"].pc = "overdue"
      BY <3>1 DEF TickStates
    <3> QED  BY <1>0, <1>4, <3>2 DEF SweepJudge
  <2> QED  BY <1>2, <1>4, <2>1 DEF SweepJudge
<1>5. ASSUME NEW w \in Sweepers, SweepClaim(w) PROVE ClaimInv'
  <2>1. CASE marker
    BY <1>0, <1>5, <2>1, TickMoves DEF SweepClaim, ClaimInv
  <2>2. CASE ~marker
    <3>1. PICK to \in TickStates : sweep' = [sweep EXCEPT ![w] = to] /\ to.pc = "claimed"
      <4>1. sweep[w] \in TickStates
        BY DEF ClaimInv
      <4>2. [sweep[w] EXCEPT !.pc = "claimed"] \in TickStates /\ [sweep[w] EXCEPT !.pc = "claimed"].pc = "claimed"
        BY <4>1 DEF TickStates
      <4> QED  BY <1>5, <2>2, <4>2 DEF SweepClaim
    <3> QED  BY <1>5, <2>2, <3>1, TickMoves DEF SweepClaim, ClaimInv
  <2> QED  BY <2>1, <2>2
<1>6. ASSUME NEW w \in Sweepers, SweepPublish(w) PROVE ClaimInv'
  <2>1. w \in Claimed
    BY <1>6 DEF SweepPublish, Claimed
  <2>2. notices = 0 /\ marker = TRUE /\ Claimed \ {w} = {}
    BY <2>1 DEF ClaimInv
  <2>3. notices' = 1 /\ marker' = TRUE /\ sweep' = [sweep EXCEPT ![w] = IdleTick]
    BY <1>6, <2>2 DEF SweepPublish
  <2>4. sweep' \in [Sweepers -> TickStates] /\ Claimed' = {}
    BY <1>0, <2>2, <2>3, TickMoves
  <2> QED  BY <2>3, <2>4 DEF ClaimInv
<1>7. ASSUME NEW w \in Sweepers, SweepCrash(w) PROVE ClaimInv'
  BY <1>0, <1>2, <1>7 DEF SweepCrash
<1>8. CASE (Next /\ UNCHANGED sweepVars) \/ DeadlinePasses \/ UNCHANGED sysVars
  BY <1>1, <1>8 DEF DeadlinePasses, sysVars
<1> QED  BY <1>3, <1>4, <1>5, <1>6, <1>7, <1>8 DEF SysNext, Tick

LEMMA SysInitOK == SysInit => VoteInv /\ SafetyInv /\ ClaimInv
<1>1. SysInit => ClaimInv
  <2> SUFFICES ASSUME SysInit PROVE ClaimInv
    OBVIOUS
  <2>1. IdleTick \in TickStates /\ IdleTick.pc = "idle"
    BY BoundsPositive DEF IdleTick, TickStates
  <2> QED  BY <2>1 DEF SysInit, ClaimInv, Claimed
<1> QED  BY <1>1, InitVote DEF SysInit, VoteInv

(* The chair hears of an overdue vote once at most, for any number of      *)
(* ticks, however they overlap and die (cab-deadline-sweeper.ts).          *)
THEOREM ChairIsToldOnce == SysSpec => []NotifiedAtMostOnce
<1>1. ClaimInv => NotifiedAtMostOnce
  BY DEF ClaimInv, NotifiedAtMostOnce
<1> QED  BY <1>1, SysInitOK, SysSafety, SweepStep, PTL DEF SysSpec

(* Beside the sweeper and the clock the handlers keep what they promise    *)
(* alone.                                                                  *)
THEOREM SweeperLeavesVotes ==
  ASSUME SingleSubmission
  PROVE  SysSpec => [](NoWorkWithoutApproval /\ OpenVoteUndecided /\ ApprovalBackedByBallots)
<1>1. VoteInv => NoWorkWithoutApproval /\ OpenVoteUndecided /\ ApprovalBackedByBallots
  BY DEF VoteInv, SafetyInv, Earned, Decided, Backed, NoWorkWithoutApproval, OpenVoteUndecided, ApprovalBackedByBallots, ApprovedStatuses
<1> QED  BY <1>1, SysInitOK, SysVote, PTL DEF SysSpec
=============================================================================
