----------------------------- MODULE CabVerdict ----------------------------
(***************************************************************************)
(* What the Change Advisory Board promises about one change, without the   *)
(* requests and transactions that get it there:                            *)
(*                                                                         *)
(*   - the roster and the rules of a vote are fixed when the vote opens,   *)
(*     and the rules can be met by that roster;                            *)
(*   - a member may change their ballot until the ballots decide, and      *)
(*     nothing after that;                                                 *)
(*   - the change is released for work only behind an approving verdict or *)
(*     a standing pre-approval.                                            *)
(*                                                                         *)
(* ChangeManagement is shown to implement it while submissions of one      *)
(* change do not overlap.                                                  *)
(***************************************************************************)
EXTENDS CabVoting

VARIABLES
  ballots,      \* the change_votes rows
  rules,        \* quorum and threshold of the vote
  preapproved,  \* the change skips the vote
  released      \* the change may be worked on

vars == <<ballots, rules, preapproved, released>>

NotOpened == ballots.voters = {}
Verdict   == IF NotOpened THEN "none" ELSE ResolveVote(ballots, rules)

Init ==
  /\ ballots = NoBallots
  /\ rules = DefaultRules
  /\ preapproved = FALSE
  /\ released = FALSE

(* The change turns out to be of a pre-approved class, before any vote.    *)
Preapprove ==
  /\ NotOpened /\ ~released
  /\ preapproved' = TRUE
  /\ UNCHANGED <<ballots, rules, released>>

(* The vote opens on ballots nobody has cast, with rules they can meet.    *)
Open ==
  /\ NotOpened /\ ~preapproved
  /\ ballots' \in {b \in Ballots : /\ b.vote = NoBallots.vote
                                   /\ b.adHoc \subseteq b.voters
                                   /\ Standing(b) # {}}
  /\ rules' \in Rules
  /\ rules'.quorum <= StandingRoster(ballots')
  /\ UNCHANGED <<preapproved, released>>

(* A ballot is cast or changed while the vote is undecided; an approving   *)
(* verdict releases the change.                                            *)
Cast(v, x) ==
  /\ Verdict = "cab_review" /\ v \in ballots.voters
  /\ ballots' = [ballots EXCEPT !.vote[v] = x]
  /\ released' = (ResolveVote(ballots', rules) = "approved")
  /\ UNCHANGED <<rules, preapproved>>

(* The change is withdrawn, or resumed by a request that overlapped the    *)
(* withdrawal; it can be resumed only if it was ever cleared.              *)
Hold    == released' = FALSE /\ UNCHANGED <<ballots, rules, preapproved>>
Release == /\ preapproved \/ Verdict = "approved"
           /\ released' = TRUE
           /\ UNCHANGED <<ballots, rules, preapproved>>

Next == \/ Preapprove
        \/ Open
        \/ \E v \in Users, x \in CastValues : Cast(v, x)
        \/ Hold
        \/ Release

Spec == Init /\ [][Next]_vars

-----------------------------------------------------------------------------
TypeOK ==
  /\ ballots \in Ballots
  /\ rules \in Rules
  /\ preapproved \in BOOLEAN
  /\ released \in BOOLEAN

(* The ballots as they would stand once every pending voter had voted as f *)
(* says.                                                                   *)
Complete(b, f) ==
  [b EXCEPT !.vote = [u \in Users |->
                        IF u \in Voting(b, "pending") THEN f[u] ELSE b.vote[u]]]

(* The early exits of resolveVote are exact: a vote that does not pass is  *)
(* rejected when no way of casting the pending ballots would pass it, and  *)
(* only then.  In particular a vote is never left open with nothing to     *)
(* wait for, and no rejection denies a pending majority its say.           *)
RejectedIffHopeless ==
  ~NotOpened /\ ~Passes(ballots, rules) =>
    (Verdict = "rejected" <=>
       \A f \in [Users -> CastValues] : ~Passes(Complete(ballots, f), rules))

(* When everybody on the roster has voted the vote is over.                *)
CompleteVoteDecides == ~NotOpened /\ AllVoted(ballots) => Verdict # "cab_review"
=============================================================================
