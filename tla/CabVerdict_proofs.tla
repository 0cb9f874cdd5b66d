-------------------------- MODULE CabVerdict_proofs -------------------------
(***************************************************************************)
(* resolveVote decides neither too early nor too late, for every roster,   *)
(* every weight, every quorum the roster can meet and every threshold.     *)
(***************************************************************************)
EXTENDS CabVerdict, CabVoting_proofs

(* TypeOK, and the quorum of a vote can be met by the standing roster.     *)
VerdictInv ==
  /\ TypeOK
  /\ ~NotOpened => rules.quorum <= StandingRoster(ballots)

LEMMA InitInv == Init => VerdictInv
<1> SUFFICES ASSUME Init PROVE VerdictInv
  OBVIOUS
<1>1. DefaultRules \in Rules
  BY BoundsPositive DEF DefaultRules, Rules, Quorums, Thresholds
<1>2. NotOpened
  BY DEF Init, NotOpened, NoBallots
<1> QED BY <1>1, <1>2, NoBallotsType DEF Init, VerdictInv, TypeOK

LEMMA StepInv == VerdictInv /\ [Next]_vars => VerdictInv'
<1> SUFFICES ASSUME VerdictInv, [Next]_vars PROVE VerdictInv'
  OBVIOUS
<1> USE DEF VerdictInv, TypeOK
<1>1. CASE Preapprove \/ Hold \/ Release \/ UNCHANGED vars
  BY <1>1 DEF Preapprove, Hold, Release, vars, NotOpened
<1>2. CASE Open
  BY <1>2 DEF Open
<1>3. ASSUME NEW v \in Users, NEW x \in CastValues, Cast(v, x) PROVE VerdictInv'
  <2>1. /\ ballots' \in Ballots
        /\ ballots'.voters = ballots.voters /\ ballots'.adHoc = ballots.adHoc
        /\ ballots'.weight = ballots.weight
    BY <1>3 DEF Cast, Ballots, Votes
  <2>2. StandingRoster(ballots') = StandingRoster(ballots)
    BY <2>1 DEF StandingRoster, Standing
  <2> QED BY <1>3, <2>1, <2>2 DEF Cast, NotOpened
<1> QED BY <1>1, <1>2, <1>3 DEF Next

LEMMA Invariance == Spec => []VerdictInv
BY InitInv, StepInv, PTL DEF Spec

-----------------------------------------------------------------------------
(***************************************************************************)
(* The threshold as an inequality, and what it takes to reach it.          *)
(***************************************************************************)
LEMMA TwoThirds ==
  ASSUME NEW a \in Nat, NEW r \in Nat
  PROVE  a >= CeilThird(2 * (a + r)) <=> a >= 2 * r
BY DEF CeilThird

(* More approvals, fewer rejections and a complete vote never hurt.        *)
LEMMA ThresholdMonotone ==
  ASSUME NEW a \in Nat, NEW r \in Nat, NEW a2 \in Nat, NEW r2 \in Nat, NEW t, NEW all,
         a2 >= a, r2 <= r, ThresholdPasses(a, r, t, all)
  PROVE  ThresholdPasses(a2, r2, t, TRUE)
<1>1. /\ a >= CeilThird(2 * (a + r)) <=> a >= 2 * r
      /\ a2 >= CeilThird(2 * (a2 + r2)) <=> a2 >= 2 * r2
  BY TwoThirds
<1>2. a + r # 0
  BY DEF ThresholdPasses
<1>3. CASE t = "majority" /\ a > r
  BY <1>3 DEF ThresholdPasses
<1>4. CASE t = "two_thirds" /\ a >= 2 * r
  BY <1>1, <1>2, <1>4 DEF ThresholdPasses
<1>5. CASE t = "unanimous" /\ r = 0
  BY <1>2, <1>5 DEF ThresholdPasses
<1> QED BY <1>1, <1>3, <1>4, <1>5 DEF ThresholdPasses

(* A vote in which only approvals are cast passes, unless nobody votes.    *)
LEMMA ApprovalsPass ==
  ASSUME NEW a \in Nat, a > 0, NEW t \in Thresholds
  PROVE  ThresholdPasses(a, 0, t, TRUE)
BY TwoThirds DEF ThresholdPasses, Thresholds

LEMMA TallyNat ==
  ASSUME NEW b \in Ballots
  PROVE  Approve(b) \in Nat /\ Reject(b) \in Nat /\ Pending(b) \in Nat
<1>1. \A x : Voting(b, x) \in SUBSET Users
  BY DEF Voting, Ballots
<1> QED BY <1>1, WeightOfNat DEF Approve, Reject, Pending, Ballots

(* When everybody has voted the standing board has turned out.             *)
LEMMA AllVotedTurnsOut ==
  ASSUME NEW b \in Ballots, AllVoted(b)
  PROVE  Voting(b, "pending") = {} /\ StandingCast(b) = StandingRoster(b)
<1>1. Voting(b, "pending") \in SUBSET Users /\ b.weight \in [Users -> Weights]
  BY DEF Voting, Ballots
<1>2. Voting(b, "pending") = {}
  BY <1>1, WeightOfPositive DEF AllVoted, Pending
<1>3. HasCast(b) \cap Standing(b) = Standing(b)
  BY <1>2 DEF Voting, HasCast, Standing
<1> QED BY <1>2, <1>3 DEF StandingCast, StandingRoster

-----------------------------------------------------------------------------
(***************************************************************************)
(* Completing a vote.                                                      *)
(***************************************************************************)
LEMMA CompleteTally ==
  ASSUME NEW b \in Ballots, NEW f \in [Users -> CastValues]
  PROVE  LET c == Complete(b, f) IN
         /\ c \in Ballots /\ AllVoted(c)
         /\ StandingRoster(c) = StandingRoster(b)
         /\ Approve(c) <= Approve(b) + Pending(b)
         /\ Reject(b) <= Reject(c)
         /\ (\A u \in Users : f[u] = "approve") =>
              Approve(c) = Approve(b) + Pending(b) /\ Reject(c) = Reject(b)
<1> DEFINE c == Complete(b, f)
<1>1. /\ c.voters = b.voters /\ c.adHoc = b.adHoc /\ c.weight = b.weight
      /\ c.vote = [u \in Users |-> IF u \in Voting(b, "pending") THEN f[u] ELSE b.vote[u]]
      /\ c \in Ballots
  BY DEF Complete, Ballots, Votes
<1> HIDE DEF c
<1>2. /\ b.voters \in SUBSET Users /\ b.weight \in [Users -> Weights]
  BY DEF Ballots
<1>3. Voting(c, "pending") = {}
  BY <1>1, <1>2 DEF Voting, CastValues
<1>4. Pending(c) = 0
  BY <1>3, WeightOfEmpty DEF Pending
<1>5. StandingRoster(c) = StandingRoster(b)
  BY <1>1 DEF StandingRoster, Standing
<1> DEFINE yes == Voting(b, "approve")  open == Voting(b, "pending")
<1>6. yes \in SUBSET Users /\ open \in SUBSET Users /\ yes \cap open = {}
  BY <1>2 DEF Voting
<1>7. WeightOf(yes \cup open, b.weight) = Approve(b) + Pending(b)
  BY <1>2, <1>6, WeightOfDisjointUnion DEF Approve, Pending
<1>8. Voting(c, "approve") \in SUBSET (yes \cup open)
  BY <1>1, <1>2 DEF Voting
<1>9. Approve(c) <= Approve(b) + Pending(b)
  BY <1>1, <1>2, <1>6, <1>7, <1>8, WeightOfMonotone DEF Approve
<1>10. Voting(b, "reject") \in SUBSET Voting(c, "reject") /\ Voting(c, "reject") \in SUBSET Users
  BY <1>1, <1>2 DEF Voting
<1>11. Reject(b) <= Reject(c)
  BY <1>1, <1>2, <1>10, WeightOfMonotone DEF Reject
<1>12. ASSUME \A u \in Users : f[u] = "approve"
       PROVE  Approve(c) = Approve(b) + Pending(b) /\ Reject(c) = Reject(b)
  <2>1. Voting(c, "approve") = yes \cup open /\ Voting(c, "reject") = Voting(b, "reject")
    BY <1>1, <1>2, <1>12 DEF Voting
  <2> QED BY <1>1, <1>7, <2>1 DEF Approve, Reject
<1> QED BY <1>1, <1>4, <1>5, <1>9, <1>11, <1>12 DEF AllVoted, c

-----------------------------------------------------------------------------
(***************************************************************************)
(* The two promises.                                                       *)
(***************************************************************************)

(* A complete vote meets its quorum, so it passes or is rejected.          *)
LEMMA CompleteDecides ==
  ASSUME NEW b \in Ballots, NEW r \in Rules, r.quorum <= StandingRoster(b), AllVoted(b)
  PROVE  ResolveVote(b, r) # "cab_review"
<1>1. QuorumMet(b, r)
  BY AllVotedTurnsOut DEF QuorumMet
<1>2. CASE Approve(b) + Reject(b) = 0
  BY <1>1, <1>2 DEF ResolveVote, Passes, ThresholdPasses
<1>3. CASE Approve(b) + Reject(b) # 0
  <2>1. Approve(b) + Reject(b) > 0 /\ Approve(b) + Pending(b) = Approve(b)
    BY <1>3, TallyNat DEF AllVoted
  <2>2. CanStillPass(b, r) => Passes(b, r)
    BY <1>1, <2>1 DEF CanStillPass, Passes, ThresholdPasses
  <2> QED BY <2>1, <2>2 DEF ResolveVote
<1> QED BY <1>2, <1>3

(* A rejection is never premature: what has not passed and is rejected     *)
(* passes with no completion.                                              *)
LEMMA RejectionIsSound ==
  ASSUME NEW b \in Ballots, NEW r \in Rules, ~Passes(b, r), ResolveVote(b, r) = "rejected",
         NEW f \in [Users -> CastValues]
  PROVE  ~Passes(Complete(b, f), r)
<1> DEFINE c == Complete(b, f)
<1>1. /\ c \in Ballots
      /\ Approve(c) <= Approve(b) + Pending(b) /\ Reject(b) <= Reject(c)
  BY CompleteTally
<1>2. CASE ~CanStillPass(b, r)
  <2>1. /\ Approve(c) \in Nat /\ Reject(c) \in Nat
        /\ Approve(b) + Pending(b) \in Nat /\ Reject(b) \in Nat
    BY <1>1, TallyNat
  <2>2. Passes(c, r) => CanStillPass(b, r)
    BY <1>1, <2>1, ThresholdMonotone DEF Passes, CanStillPass
  <2> QED BY <1>2, <2>2
<1>3. CASE AllVoted(b)
  <2>1. Voting(b, "pending") = {}
    BY <1>3, AllVotedTurnsOut
  <2>2. c = b
    BY <2>1 DEF Complete, Ballots
  <2> QED BY <2>2
<1> QED BY <1>2, <1>3 DEF ResolveVote

(* Nor is it late: while the vote is left open, the pending voters could   *)
(* all approve, and it would pass.                                         *)
LEMMA OpenCanPass ==
  ASSUME NEW b \in Ballots, NEW r \in Rules, r.quorum <= StandingRoster(b),
         ResolveVote(b, r) = "cab_review"
  PROVE  \E f \in [Users -> CastValues] : Passes(Complete(b, f), r)
<1> DEFINE f == [u \in Users |-> "approve"]
           c == Complete(b, f)
<1>1. f \in [Users -> CastValues]
  BY DEF CastValues
<1>2. /\ c \in Ballots /\ AllVoted(c) /\ StandingRoster(c) = StandingRoster(b)
      /\ Approve(c) = Approve(b) + Pending(b) /\ Reject(c) = Reject(b)
  BY <1>1, CompleteTally
<1>3. QuorumMet(c, r)
  BY <1>2, AllVotedTurnsOut DEF QuorumMet
<1>4. ThresholdPasses(Approve(b) + Pending(b), Reject(b), r.threshold, TRUE)
  <2>1. CASE CanStillPass(b, r)
    BY <2>1 DEF CanStillPass
  <2>2. CASE ~(Approve(b) + Reject(b) > 0)
    <3>1. Approve(b) = 0 /\ Reject(b) = 0
      BY <2>2, TallyNat
    <3>2. Pending(b) # 0
      BY CompleteDecides DEF AllVoted
    <3>3. /\ Approve(b) + Pending(b) \in Nat /\ Approve(b) + Pending(b) > 0
          /\ r.threshold \in Thresholds
      BY <3>1, <3>2, TallyNat DEF Rules
    <3>4. ThresholdPasses(Approve(b) + Pending(b), 0, r.threshold, TRUE)
      BY <3>3, ApprovalsPass
    <3> QED BY <3>1, <3>4
  <2>3. CanStillPass(b, r) \/ ~(Approve(b) + Reject(b) > 0)
    BY DEF ResolveVote
  <2> QED BY <2>1, <2>2, <2>3
<1>5. Passes(c, r)
  BY <1>2, <1>3, <1>4 DEF Passes
<1> QED BY <1>1, <1>5

(* The early exits of resolveVote are exact.                               *)
THEOREM EarlyExitsAreExact == Spec => []RejectedIffHopeless
<1>1. VerdictInv => RejectedIffHopeless
  <2> SUFFICES ASSUME VerdictInv, ~NotOpened, ~Passes(ballots, rules)
               PROVE  Verdict = "rejected" <=>
                        \A f \in [Users -> CastValues] : ~Passes(Complete(ballots, f), rules)
    BY DEF RejectedIffHopeless
  <2>1. /\ ballots \in Ballots /\ rules \in Rules
        /\ rules.quorum <= StandingRoster(ballots)
        /\ Verdict = ResolveVote(ballots, rules)
    BY DEF VerdictInv, TypeOK, Verdict
  <2>2. ResolveVote(ballots, rules) \in {"rejected", "cab_review"}
    BY DEF ResolveVote
  <2> QED BY <2>1, <2>2, RejectionIsSound, OpenCanPass
<1> QED BY <1>1, Invariance, PTL

(* When everybody on the roster has voted the vote is over.                *)
THEOREM CompleteVotesEnd == Spec => []CompleteVoteDecides
<1>1. VerdictInv => CompleteVoteDecides
  BY CompleteDecides DEF VerdictInv, TypeOK, CompleteVoteDecides, Verdict
<1> QED BY <1>1, Invariance, PTL
=============================================================================
