----------------------------- MODULE Committees -----------------------------
(***************************************************************************)
(* How operators are admitted and how the committee of a settlement is     *)
(* drawn from those who are active (network/committee-selection.ts).  The  *)
(* classes are functions of what their caller hands them; the registry of  *)
(* operators, the votes and the days are the caller's, and are modelled as *)
(* node-types.ts describes them.                                           *)
(*                                                                         *)
(* An operator's score for an offer is a hash: any order of the operators. *)
(***************************************************************************)
EXTENDS Naturals, FiniteSets

CONSTANTS
   Operator,
   Founder,         \* the operators there are from the start
   Offer,
   Score,           \* [Offer \X Operator -> Nat]: calculateRankingScore
   CommitteeSize,   \* K
   MinSignatures,   \* 80: checkpoints an active operator has signed
   InactiveDays,    \* 7
   SponsorDays,     \* 30
   VotingDays,      \* 14
   MaxDay           \* bound

Decision == {"none", "yes", "no"}

\* signed stops counting at MinSignatures; requested is 0 without a request.
Entry == [status : {"none", "candidate", "active"}, signed : 0..MinSignatures,
          lastActive : 0..MaxDay, requested : 0..MaxDay,
          sponsor : Decision, votes : [Operator -> Decision]]

ASSUME CommitteeAssumption ==
   /\ IsFiniteSet(Operator) /\ Founder \subseteq Operator
   /\ Score \in [Offer \X Operator -> Nat]
   /\ \A f \in Offer, o, p \in Operator : Score[f, o] = Score[f, p] => o = p
   /\ {CommitteeSize, MinSignatures, InactiveDays, SponsorDays, VotingDays, MaxDay} \subseteq Nat

VARIABLES
   registry,   \* [Operator -> Entry]
   day

committeeVars == <<registry, day>>

NoVotes == [o \in Operator |-> "none"]

CommitteeInit ==
   /\ registry = [o \in Operator |->
         [status |-> IF o \in Founder THEN "active" ELSE "none", requested |-> 0,
          signed |-> IF o \in Founder THEN MinSignatures ELSE 0, lastActive |-> 0,
          sponsor |-> "none", votes |-> NoVotes]]
   /\ day = 0

CommitteeTypeOK == registry \in [Operator -> Entry] /\ day \in 0..MaxDay
-----------------------------------------------------------------------------
\* The count is of all the checkpoints an operator has signed.
IsOperatorActive(o) ==
   /\ registry[o].status = "active"
   /\ registry[o].signed >= MinSignatures
   /\ day - registry[o].lastActive <= InactiveDays

Active == {o \in Operator : IsOperatorActive(o)}

(* The score picks a seat by its remainder (a seeded bug). *)
SeatByRemainder(offer, ops, o) == (Score[offer, o] % Cardinality(ops)) + 1

Rank(offer, ops, o) == Cardinality({p \in ops : Score[offer, p] < Score[offer, o]}) + 1

\* With fewer operators than seats it throws: there is no committee.
SelectCommittee(offer, ops) ==
   IF Cardinality(ops) < CommitteeSize THEN {}
   ELSE {o \in ops : Rank(offer, ops, o) <= CommitteeSize}

\* uptime, response rate and latency are in the evidence of a request.
ValidateCandidateEligibility(evidence) == evidence

RequestAdmission(o, evidence) ==
   /\ registry[o].status = "none"
   /\ ValidateCandidateEligibility(evidence)
   /\ registry' = [registry EXCEPT ![o].status = "candidate", ![o].requested = day]
   /\ UNCHANGED day

IsSponsorWindowOpen(o) == day < registry[o].requested + SponsorDays

(* The sponsor's decision does not close the vote (a seeded bug). *)
VotingOpenAnyway(o) ==
   /\ day >= registry[o].requested + SponsorDays
   /\ day < registry[o].requested + SponsorDays + VotingDays

IsVotingWindowOpen(o) ==
   /\ registry[o].sponsor = "none"
   /\ day >= registry[o].requested + SponsorDays
   /\ day < registry[o].requested + SponsorDays + VotingDays

SponsorDecides(o, decision) ==
   /\ registry[o].status = "candidate" /\ registry[o].sponsor = "none"
   /\ IsSponsorWindowOpen(o)
   /\ registry' = [registry EXCEPT
         ![o].sponsor = decision,
         ![o].status = IF decision = "yes" THEN "active" ELSE @]
   /\ UNCHANGED day

Vote(o, voter, vote) ==
   /\ registry[o].status = "candidate" /\ voter \in Active
   /\ IsVotingWindowOpen(o)
   /\ registry[o].votes[voter] = "none"
   /\ registry' = [registry EXCEPT ![o].votes[voter] = vote]
   /\ UNCHANGED day

Voters(o, vote) == {v \in Operator : registry[o].votes[v] = vote}

\* The votes for, whoever cast them, against the number of operators active
\* now; without a vote for it is 0 of however many.
CalculateVoteResult(yes, total) == yes > 0 /\ 3 * yes >= 2 * total

\* The count asks for no window: it may be made as soon as there are votes.
AdmitByVote(o) ==
   /\ registry[o].status = "candidate"
   /\ CalculateVoteResult(Cardinality(Voters(o, "yes")), Cardinality(Active))
   /\ registry' = [registry EXCEPT ![o].status = "active"]
   /\ UNCHANGED day

SignCheckpoint(o) ==
   /\ registry[o].status = "active"
   /\ registry' = [registry EXCEPT
         ![o].signed = IF @ < MinSignatures THEN @ + 1 ELSE @, ![o].lastActive = day]
   /\ UNCHANGED day

NextDay == day < MaxDay /\ day' = day + 1 /\ UNCHANGED registry

CommitteeStep ==
   \/ \E o \in Operator :
         \/ \E evidence \in BOOLEAN : RequestAdmission(o, evidence)
         \/ \E decision \in {"yes", "no"} : SponsorDecides(o, decision)
         \/ \E voter \in Operator, vote \in {"yes", "no"} : Vote(o, voter, vote)
         \/ AdmitByVote(o)
         \/ SignCheckpoint(o)
   \/ NextDay

CommitteeSpec == CommitteeInit /\ [][CommitteeStep]_committeeVars
-----------------------------------------------------------------------------
(* Whoever comes or goes, the committee of an offer changes no more than it  *)
(* must: operators who become active bring nobody in but themselves, and     *)
(* those who fall inactive put nobody out but themselves (a committee there  *)
(* are too few operators for aside).  Operators are paid for the committees  *)
(* they are in, and every node has to draw the same one.                     *)
CommitteesAreStable ==
   [][Active' # Active =>
         \A offer \in Offer :
            LET old == SelectCommittee(offer, Active)
                new == SelectCommittee(offer, Active')
            IN  (old # {} /\ new # {}) =>
                  /\ Active \subseteq Active' => new \cap Active \subseteq old
                  /\ Active' \subseteq Active => old \cap Active' \subseteq new]_committeeVars

(* A candidate the sponsor has refused never becomes an operator, also not   *)
(* by the vote that opens when the sponsor's days are over.                  *)
RefusedStayOut ==
   \A o \in Operator : registry[o].sponsor = "no" => registry[o].status = "candidate"
=============================================================================
