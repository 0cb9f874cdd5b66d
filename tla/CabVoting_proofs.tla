-------------------------- MODULE CabVoting_proofs --------------------------
(***************************************************************************)
(* Facts about the operators of CabVoting, for every set of users, every   *)
(* weight and every quorum.                                                *)
(***************************************************************************)
EXTENDS CabVoting, FiniteSetTheorems, TLAPS

(* A weight is a natural number, grows with its set, and the weights of    *)
(* disjoint sets add up (tallyVotes sums the rows in any order).           *)
LEMMA UnitsFinite ==
  ASSUME NEW S \in SUBSET Users, NEW w \in [Users -> Weights]
  PROVE  IsFiniteSet(Units(S, w))
<1>1. IsFiniteSet(S)
  BY UsersFinite, FS_Subset
<1>2. IsFiniteSet(Weights)
  <2>1. 1 \in Int /\ MaxWeight \in Int
    BY BoundsPositive
  <2> QED BY <2>1, FS_Interval DEF Weights
<1>3. IsFiniteSet(S \X Weights)
  BY <1>1, <1>2, FS_Product
<1> QED BY <1>3, FS_Subset DEF Units

LEMMA WeightOfNat ==
  ASSUME NEW S \in SUBSET Users, NEW w \in [Users -> Weights]
  PROVE  WeightOf(S, w) \in Nat
BY UnitsFinite, FS_CardinalityType DEF WeightOf

LEMMA WeightOfEmpty ==
  ASSUME NEW w
  PROVE  WeightOf({}, w) = 0
<1>1. Units({}, w) = {}
  BY DEF Units
<1> QED BY <1>1, FS_EmptySet DEF WeightOf

LEMMA WeightOfMonotone ==
  ASSUME NEW S \in SUBSET Users, NEW T \in SUBSET S, NEW w \in [Users -> Weights]
  PROVE  WeightOf(T, w) <= WeightOf(S, w)
<1>1. Units(T, w) \in SUBSET Units(S, w)
  BY DEF Units
<1> QED BY <1>1, UnitsFinite, FS_Subset DEF WeightOf

LEMMA WeightOfDisjointUnion ==
  ASSUME NEW S \in SUBSET Users, NEW T \in SUBSET Users, S \cap T = {},
         NEW w \in [Users -> Weights]
  PROVE  WeightOf(S \cup T, w) = WeightOf(S, w) + WeightOf(T, w)
<1>1. Units(S \cup T, w) = Units(S, w) \cup Units(T, w)
  BY DEF Units
<1>2. Units(S, w) \cap Units(T, w) = {}
  BY DEF Units
<1>3. /\ Cardinality(Units(S, w)) \in Nat
      /\ Cardinality(Units(T, w)) \in Nat
  BY UnitsFinite, FS_CardinalityType
<1>4. Cardinality(Units(S, w) \cup Units(T, w))
        = Cardinality(Units(S, w)) + Cardinality(Units(T, w)) - 0
  BY <1>2, UnitsFinite, FS_Union, FS_EmptySet
<1>5. WeightOf(S \cup T, w) = Cardinality(Units(S, w) \cup Units(T, w))
  BY <1>1, Zenon DEF WeightOf
<1> QED BY <1>3, <1>4, <1>5 DEF WeightOf

(* Only nobody weighs nothing: a roster that has a member has a weight.    *)
LEMMA WeightOfPositive ==
  ASSUME NEW S \in SUBSET Users, S # {}, NEW w \in [Users -> Weights]
  PROVE  WeightOf(S, w) > 0
<1>1. PICK v \in S : TRUE
  OBVIOUS
<1>2. <<v, 1>> \in Units(S, w)
  BY <1>1, BoundsPositive DEF Units, Weights
<1>3. Cardinality(Units(S, w)) # 0
  BY <1>2, UnitsFinite, FS_EmptySet
<1> QED BY <1>3, WeightOfNat DEF WeightOf

(***************************************************************************)
(* What a submission snapshots (snapshotQuorum, and the roster it is cut   *)
(* against) is well-formed and can be met by the roster.                   *)
(***************************************************************************)
LEMMA SnapshotQuorumType ==
  ASSUME NEW q \in Quorums, NEW n \in Nat
  PROVE  SnapshotQuorum(q, n) \in Quorums
BY BoundsPositive DEF SnapshotQuorum, SmallerOf, Quorums

LEMMA SnapshotQuorumReachable ==
  ASSUME NEW q \in Quorums, NEW n \in Nat, n > 0
  PROVE  SnapshotQuorum(q, n) <= n
BY DEF SnapshotQuorum, SmallerOf, Quorums

LEMMA NoBallotsType == NoBallots \in Ballots
BY BoundsPositive DEF NoBallots, Ballots, Weights, Votes

LEMMA StandingRosterNat ==
  ASSUME NEW b \in Ballots
  PROVE  StandingRoster(b) \in Nat
<1>1. Standing(b) \in SUBSET Users /\ b.weight \in [Users -> Weights]
  BY DEF Ballots, Standing
<1> QED BY <1>1, WeightOfNat DEF StandingRoster

LEMMA CutBallotsType ==
  ASSUME NEW members \in SUBSET Users, NEW weight \in [Users -> Weights],
         NEW extras \in SUBSET Users, NEW raiser
  PROVE  CutBallots(members, weight, extras, raiser) \in Ballots
BY BoundsPositive DEF CutBallots, Ballots, Weights, Votes

LEMMA InsertBallotsType ==
  ASSUME NEW old \in Ballots, NEW new \in Ballots
  PROVE  InsertBallots(old, new) \in Ballots
BY DEF InsertBallots, Ballots

LEMMA ResolveVoteRange ==
  ASSUME NEW b, NEW rules
  PROVE  ResolveVote(b, rules) \in {"approved", "rejected", "cab_review"}
BY DEF ResolveVote
=============================================================================
