----------------------------- MODULE CabVoting -----------------------------
(***************************************************************************)
(* The pure decision rules of the Change Advisory Board                    *)
(* (apps/api/src/modules/changes.ts): how a roster of weighted ballots is  *)
(* tallied and resolved, how a roster and a quorum are cut at submission,  *)
(* and who may do what to a change.                                        *)
(*                                                                         *)
(* The change_votes rows of a change are one record of four fields: the    *)
(* users who have a row, those whose row is ad hoc, the weight and the     *)
(* vote of each.  The last two are total functions on Users so that a user *)
(* without a row needs no special value; only entries of voters are read.  *)
(***************************************************************************)
EXTENDS Integers, FiniteSets

CONSTANTS
  Users,       \* user ids
  MaxWeight,   \* bound on a member's weight (the column is an unbounded int)
  MaxQuorum    \* bound on a board's quorum (the column is an unbounded int)

ASSUME UsersFinite == IsFiniteSet(Users)
ASSUME BoundsPositive == MaxWeight \in Nat \ {0} /\ MaxQuorum \in Nat \ {0}

Weights    == 1..MaxWeight
Quorums    == 1..MaxQuorum
CastValues == {"approve", "reject", "abstain"}
Votes      == CastValues \cup {"pending"}
Thresholds == {"majority", "two_thirds", "unanimous"}
ChangeTypes == {"standard", "normal", "emergency"}

Ballots == [voters : SUBSET Users, adHoc  : SUBSET Users,
            weight : [Users -> Weights], vote : [Users -> Votes]]
Rules   == [quorum : Quorums, threshold : Thresholds]

(* No rows yet, and what castVote reads in place of NULL rules.            *)
NoBallots == [voters |-> {}, adHoc |-> {}, weight |-> [u \in Users |-> 1],
              vote |-> [u \in Users |-> "pending"]]
DefaultRules == [quorum |-> 1, threshold |-> "majority"]

(***************************************************************************)
(* Tally.  A weight is counted as that many units, so that every sum of    *)
(* weights is the cardinality of a set.                                    *)
(***************************************************************************)
Units(S, weight)    == {u \in S \X Weights : u[2] <= weight[u[1]]}
WeightOf(S, weight) == Cardinality(Units(S, weight))

Voting(b, x) == {v \in b.voters : b.vote[v] = x}
Standing(b)  == b.voters \ b.adHoc
HasCast(b)   == {v \in b.voters : b.vote[v] # "pending"}

Approve(b)        == WeightOf(Voting(b, "approve"), b.weight)
Reject(b)         == WeightOf(Voting(b, "reject"), b.weight)
Pending(b)        == WeightOf(Voting(b, "pending"), b.weight)
StandingCast(b)   == WeightOf(HasCast(b) \cap Standing(b), b.weight)
StandingRoster(b) == WeightOf(Standing(b), b.weight)

(* The smallest integer not below n/3, for the two-thirds rule. *)
CeilThird(n) == (n + 2) \div 3

ThresholdPasses(a, r, threshold, allVoted) ==
  /\ a + r # 0
  /\ \/ threshold = "majority"   /\ a > r
     \/ threshold = "two_thirds" /\ a >= CeilThird(2 * (a + r))
     \/ threshold = "unanimous"  /\ r = 0 /\ allVoted

(***************************************************************************)
(* resolveVote: the three early returns, in the order of the code.         *)
(***************************************************************************)
QuorumMet(b, rules) == StandingCast(b) >= rules.quorum
AllVoted(b)         == Pending(b) = 0

Passes(b, rules) ==
  QuorumMet(b, rules) /\ ThresholdPasses(Approve(b), Reject(b), rules.threshold, AllVoted(b))

(* Mutant of CanStillPass: looks only at the ballots already cast. *)
PassesSoFar(b, rules) ==
  ThresholdPasses(Approve(b), Reject(b), rules.threshold, AllVoted(b))

CanStillPass(b, rules) ==
  ThresholdPasses(Approve(b) + Pending(b), Reject(b), rules.threshold, TRUE)

(* Mutant of ResolveVote: forgets the board that abstained to the last one. *)
ResolveVoteNoAbstain(b, rules) ==
  CASE Passes(b, rules) -> "approved"
    [] ~Passes(b, rules) /\ ~CanStillPass(b, rules) /\ Approve(b) + Reject(b) > 0 -> "rejected"
    [] OTHER -> "cab_review"

ResolveVote(b, rules) ==
  CASE Passes(b, rules) -> "approved"
    [] /\ ~Passes(b, rules)
       /\ \/ ~CanStillPass(b, rules) /\ Approve(b) + Reject(b) > 0
          \/ QuorumMet(b, rules) /\ AllVoted(b) /\ Approve(b) + Reject(b) = 0 -> "rejected"
    [] OTHER -> "cab_review"

(***************************************************************************)
(* What submitForCab snapshots.                                            *)
(***************************************************************************)
SmallerOf(m, n) == IF m <= n THEN m ELSE n

(* Mutant of SnapshotQuorum: the board's quorum as it is. *)
BoardQuorumUnclamped(boardQuorum, rosterWeight) == boardQuorum

(* The board's quorum is at least 1 by the column's CHECK and the route's  *)
(* schema, so the guard of snapshotQuorum against 0 never bites.           *)
SnapshotQuorum(boardQuorum, rosterWeight) ==
  IF rosterWeight = 0 THEN 1 ELSE SmallerOf(boardQuorum, rosterWeight)

(* The rosters an emergency change may be given: two members, the chair    *)
(* one of them when seated.  The rows come back in no fixed order, so the  *)
(* others are any.                                                         *)
EcabRosters(members, chair) ==
  IF Cardinality(members) <= 2 THEN {members}
  ELSE {S \in SUBSET members : Cardinality(S) = 2 /\ (chair \in members => chair \in S)}

(* Mutants of CutBallots: attached reviewers weigh nothing; the raiser is   *)
(* recused before reviewers are attached.                                  *)
CutBallotsWeightless(members, weight, extras, raiser) ==
  [voters |-> (members \cup extras) \ {raiser},
   adHoc  |-> (extras \ members) \ {raiser},
   weight |-> [u \in Users |-> IF u \in members THEN weight[u] ELSE 0],
   vote   |-> [u \in Users |-> "pending"]]
CutBallotsRecusedFirst(members, weight, extras, raiser) ==
  [voters |-> (members \ {raiser}) \cup extras,
   adHoc  |-> extras \ members,
   weight |-> [u \in Users |-> IF u \in members THEN weight[u] ELSE 1],
   vote   |-> [u \in Users |-> "pending"]]

(* The ballots of a new vote: the standing members, then the extra         *)
(* reviewers who do not already have a row (ad hoc, weight 1), then the    *)
(* raiser taken out.                                                       *)
CutBallots(members, weight, extras, raiser) ==
  [voters |-> (members \cup extras) \ {raiser},
   adHoc  |-> (extras \ members) \ {raiser},
   weight |-> [u \in Users |-> IF u \in members THEN weight[u] ELSE 1],
   vote   |-> [u \in Users |-> "pending"]]

(* Mutant of InsertBallots: ON CONFLICT ... DO UPDATE. *)
UpsertBallots(old, new) ==
  [voters |-> old.voters \cup new.voters,
   adHoc  |-> (old.adHoc \ new.voters) \cup new.adHoc,
   weight |-> [u \in Users |-> IF u \in new.voters THEN new.weight[u] ELSE old.weight[u]],
   vote   |-> [u \in Users |-> IF u \in new.voters THEN new.vote[u] ELSE old.vote[u]]]

(* INSERT ... ON CONFLICT (change_id, voter_id) DO NOTHING, for each row.  *)
InsertBallots(old, new) ==
  LET fresh == new.voters \ old.voters
  IN  [voters |-> old.voters \cup fresh,
       adHoc  |-> old.adHoc \cup (new.adHoc \cap fresh),
       weight |-> [u \in Users |-> IF u \in fresh THEN new.weight[u] ELSE old.weight[u]],
       vote   |-> [u \in Users |-> IF u \in fresh THEN new.vote[u] ELSE old.vote[u]]]

(***************************************************************************)
(* Who may act.                                                            *)
(***************************************************************************)
PreapprovalGranted(changeType, templateType) ==
  changeType # "standard" \/ templateType = "standard"

MayComposeRoster(actor, raiser, hasCabManage, isChair) ==
  actor # raiser /\ (hasCabManage \/ isChair)

(* Mutant of VoteEligible: a vote counts in whatever state the change is. *)
VoteEligibleAnyStatus(status, b, voter, raiser) == voter \in b.voters /\ voter # raiser

VoteEligible(status, b, voter, raiser) ==
  voter \in b.voters /\ voter # raiser /\ status = "cab_review"

(* isVoteOverdue, for a row whose deadline is the boolean passed. *)
IsVoteOverdue(status, passed, b, quorum) ==
  status = "cab_review" /\ passed /\ StandingCast(b) < quorum
=============================================================================
