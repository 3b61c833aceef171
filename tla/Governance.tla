------------------------------- MODULE Governance -------------------------------
(***************************************************************************)
(* contracts/Governance.sol: the members' governor and its timelock,       *)
(* composed with the reward programs that its batches create and bind      *)
(* (sdk/monetary-policy.mjs prepares them, anyone may propose any batch).  *)
(*                                                                         *)
(* A block is mined per unit of time, so the governor's clock (blocks) and *)
(* the timelock's (seconds) are one.  The set of members does not change.  *)
(***************************************************************************)
EXTENDS RewardMeters

CONSTANTS
  Members,
  VotingDelay, VotingPeriod,  \* 1 and 8 blocks in the code
  TimelockDelay,              \* 5 seconds in the code
  Ballots,                    \* of "for", "against" and "abstain"
  MaxProposals                \* bound: proposals made

ASSUME GovernanceAssumption ==
  VotingDelay \in Nat /\ VotingPeriod \in Nat /\ TimelockDelay \in Nat /\ MaxProposals \in Nat

VARIABLES proposals  \* sequence number |-> proposal

governedVars == <<vars, proposals>>

Proposed == DOMAIN proposals

-----------------------------------------------------------------------------
(* VaultGovernor and its timelock *)

NewProposal(batch, id, by) ==
  [batch |-> batch, expectedId |-> id, by |-> by, start |-> now + VotingDelay,
   votes |-> [m \in Members |-> "none"], canceled |-> FALSE, queued |-> FALSE, eta |-> 0,
   executed |-> FALSE]

Voters(p, choice) == {m \in Members : p.votes[m] = choice}

(* Half of the members must take part, abstentions included, and more of   *)
(* the votes be for it than against it.                                    *)
Passed(p) ==
  LET yes == Cardinality(Voters(p, "for"))
      no == Cardinality(Voters(p, "against"))
      abstained == Cardinality(Voters(p, "abstain"))
  IN 2 * (yes + abstained) >= Cardinality(Members) /\ yes > no

State(p) ==
  CASE p.executed                           -> "Executed"
    [] ~p.executed /\ p.canceled            -> "Canceled"
    [] ~p.executed /\ ~p.canceled /\ p.queued -> "Queued"
    [] OTHER -> IF p.start >= now THEN "Pending"
                ELSE IF p.start + VotingPeriod >= now THEN "Active"
                ELSE IF Passed(p) THEN "Succeeded" ELSE "Defeated"

(* Anyone may propose: the threshold is zero.  The SDK's offer names the   *)
(* program's next id; a batch made by hand may name any.  A batch may be   *)
(* proposed again: the governor's own id depends on the description too.   *)
Propose(a, batch, id) ==
  LET n == Cardinality(Proposed)
  IN /\ n < MaxProposals
     /\ proposals' = [k \in 1..(n + 1) |->
                       IF k \in Proposed THEN proposals[k] ELSE NewProposal(batch, id, a)]
     /\ UNCHANGED vars

CastVote(k, m, choice) ==
  /\ State(proposals[k]) = "Active"
  /\ proposals[k].votes[m] = "none"
  /\ proposals' = [proposals EXCEPT ![k].votes[m] = choice]
  /\ UNCHANGED vars

Queue(k) ==
  /\ State(proposals[k]) = "Succeeded"
  /\ proposals' = [proposals EXCEPT ![k].queued = TRUE, ![k].eta = now + TimelockDelay]
  /\ UNCHANGED vars

(* Only its author may cancel a proposal, and only before the vote. *)
Cancel(k, a) ==
  /\ State(proposals[k]) = "Pending"
  /\ a = proposals[k].by
  /\ proposals' = [proposals EXCEPT ![k].canceled = TRUE]
  /\ UNCHANGED vars

(* Anyone executes a batch whose delay has passed, all of it or nothing.   *)
Execute(k) ==
  LET p == proposals[k]
  IN /\ State(p) = "Queued"
     /\ now >= p.eta
     /\ RunBatch(p.batch, p.expectedId)
     /\ proposals' = [proposals EXCEPT ![k].executed = TRUE]

-----------------------------------------------------------------------------
GovernedInit == Init /\ proposals = [k \in 1..0 |-> 0]

Governor ==
  \/ \E a \in Accounts, b \in Batches, id \in AllIds : Propose(a, b, id)
  \/ \E k \in Proposed, m \in Members, choice \in Ballots :
       CastVote(k, m, choice)
  \/ \E k \in Proposed : Queue(k) \/ Execute(k)
  \/ \E k \in Proposed, a \in Accounts : Cancel(k, a)

GovernedNext == Governor \/ ((Market \/ Rewards) /\ UNCHANGED proposals)

GovernedSpec == GovernedInit /\ [][GovernedNext]_governedVars

-----------------------------------------------------------------------------
(* Properties *)

RunsAs(id, b) ==
  /\ id \in Ids
  /\ programs[id].meter = b.meter /\ programs[id].budget = b.budget
  /\ [start |-> programs[id].start, end |-> programs[id].end,
      deadline |-> programs[id].claimDeadline] = b.window
  /\ binding[id] = [pool |-> IF b.target = Hook THEN b.pool ELSE None,
                    metric |-> IF b.target = Hook THEN b.metric ELSE 0]
  /\ programPool[id] = IF b.target = LockMeter THEN b.pool ELSE None

(* What the members voted for is what runs: whatever the order in which    *)
(* queued batches are executed, every program comes from one executed      *)
(* batch, has its meter, window and budget, and is bound where that batch  *)
(* said.                                                                   *)
ProgramsAreAsVoted ==
  /\ \A id \in Ids : \E k \in Proposed : proposals[k].executed /\ proposals[k].expectedId = id
  /\ \A k \in Proposed : proposals[k].executed => RunsAs(proposals[k].expectedId, proposals[k].batch)
  /\ \A k, j \in Proposed :
       proposals[k].executed /\ proposals[j].executed
         => k = j \/ proposals[k].expectedId # proposals[j].expectedId
=============================================================================
