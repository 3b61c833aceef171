-------------------------- MODULE AllocationController --------------------------
(***************************************************************************)
(* contracts/VaultIntegration.sol, contract AllocationController, with the *)
(* additions of AllocationControllerV2 (contracts/monetary/FeeRouting.sol):*)
(* who shares the protocol's revenue, how the shares may change, and where *)
(* each unit of revenue goes.                                              *)
(*                                                                         *)
(* An allocation is a function from beneficiaries to weights; a weight of  *)
(* zero is a beneficiary that is not listed.  The recipients are sorted    *)
(* and unique in the code, so the function loses nothing.  Every epoch has *)
(* an immutable split wallet of its own, which shares whatever it holds    *)
(* by that epoch's weights.                                                *)
(*                                                                         *)
(* Revenue comes in units of TotalWeight tokens, so that a split divides   *)
(* it without remainder: rounding inside Splits is not modelled.           *)
(***************************************************************************)
EXTENDS Integers, FiniteSets, FiniteSetsExt

CONSTANTS
  Beneficiaries, Pools,
  TotalWeight,   \* 10000 in the code
  MaxEpoch,      \* bound: allocations activated
  MaxProposals,  \* bound: proposals made
  MaxRevenue     \* bound: units of revenue the pools ever make

ASSUME AllocationAssumption ==
  /\ TotalWeight \in Nat \ {0}
  /\ MaxEpoch \in Nat \ {0} /\ MaxProposals \in Nat /\ MaxRevenue \in Nat

VARIABLES
  epoch, allocations,  \* the current epoch; allocations[e] for e in 1..epoch
  proposals,           \* proposals[id] for id in 1..count
  count,
  consent,             \* consent[id]: the beneficiaries whose consent is true
  officialPool,        \* the pools the coordinator configured
  signed,              \* history: <<epoch, proposal>> each has consented to, in that epoch
  accrued,             \* pool |-> aggregate fees lying in the Balancer vault
  creatorFees,         \* pool |-> at the fee controller, for the pool creator
  protocolFees,        \* pool |-> at the fee controller, for the protocol
  held,                \* balance of the AllocationController itself
  splits,              \* splits[e]: balance of the split wallet of epoch e
  received,            \* beneficiary |-> tokens distributed to it
  rights,              \* history: beneficiary |-> tokens it was promised at collection
  made                 \* revenue made so far

governanceVars == <<epoch, allocations, proposals, count, consent, signed>>
feeVars == <<officialPool, accrued, creatorFees, protocolFees, held, splits,
             received, rights, made>>
vars == <<governanceVars, feeVars>>

Weights == [Beneficiaries -> 0..TotalWeight]

(* _validate *)
Valid(w) == w \in Weights /\ MapThenSumSet(LAMBDA b : w[b], Beneficiaries) = TotalWeight

Current == allocations[epoch]

-----------------------------------------------------------------------------
(* Proposals, consent, activation *)

Propose(w) ==
  /\ count < MaxProposals
  /\ Valid(w)
  /\ count' = count + 1
  /\ proposals' = [id \in 1..count' |->
       IF id \in 1..count THEN proposals[id]
       ELSE [baseEpoch |-> epoch, weights |-> w, applied |-> FALSE]]
  /\ consent' = [id \in 1..count' |-> IF id \in 1..count THEN consent[id] ELSE {}]
  /\ UNCHANGED <<epoch, allocations, signed, feeVars>>

(* Mutant: the epoch the proposal was made in is not compared. *)
Pending_AnyEpoch(id) == ~proposals[id].applied

Pending(id) == ~proposals[id].applied /\ proposals[id].baseEpoch = epoch

(* Only a beneficiary that would lose weight has a consent to give, and it *)
(* may take it back while the proposal is pending.                         *)
SetConsent(id, b, approved) ==
  /\ id \in 1..count
  /\ Pending(id)
  /\ Current[b] > proposals[id].weights[b]
  /\ consent' = [consent EXCEPT ![id] = IF approved THEN @ \cup {b} ELSE @ \ {b}]
  /\ signed' = [signed EXCEPT ![b] =
                  IF approved THEN @ \cup {<<epoch, id>>} ELSE @ \ {<<epoch, id>>}]
  /\ UNCHANGED <<epoch, allocations, proposals, count, feeVars>>

Losers(id) == {b \in Beneficiaries : Current[b] > proposals[id].weights[b]}

(* Mutant: the proposal stays applicable. *)
ApplyAllocation_NotMarked(id) ==
  /\ id \in 1..count
  /\ Pending(id)
  /\ epoch < MaxEpoch
  /\ Losers(id) \subseteq consent[id]
  /\ epoch' = epoch + 1
  /\ allocations' = [e \in 1..epoch' |->
                      IF e \in 1..epoch THEN allocations[e] ELSE proposals[id].weights]
  /\ splits' = [e \in 1..epoch' |-> IF e \in 1..epoch THEN splits[e] ELSE 0]
  /\ UNCHANGED <<proposals, count, consent, signed, officialPool, accrued, creatorFees,
                 protocolFees, held, received, rights, made>>

ApplyAllocation(id) ==
  /\ id \in 1..count
  /\ Pending(id)
  /\ epoch < MaxEpoch
  /\ Losers(id) \subseteq consent[id]
  /\ proposals' = [proposals EXCEPT ![id] = [@ EXCEPT !.applied = TRUE]]
  /\ epoch' = epoch + 1
  /\ allocations' = [e \in 1..epoch' |->
                      IF e \in 1..epoch THEN allocations[e] ELSE proposals[id].weights]
  /\ splits' = [e \in 1..epoch' |-> IF e \in 1..epoch THEN splits[e] ELSE 0]
  /\ UNCHANGED <<count, consent, signed, officialPool, accrued, creatorFees,
                 protocolFees, held, received, rights, made>>

-----------------------------------------------------------------------------
(* Revenue *)

(* configurePool, called by the coordinator in the pool's creation. *)
ConfigurePool(p) ==
  /\ officialPool' = officialPool \cup {p}
  /\ UNCHANGED <<governanceVars, accrued, creatorFees, protocolFees, held, splits,
                 received, rights, made>>

(* Swaps charge the fee; Balancer accrues the aggregate part of it.  A     *)
(* pool is configured in the transaction that creates it, so before any.   *)
Swap(p) ==
  /\ p \in officialPool
  /\ made < MaxRevenue
  /\ made' = made + 1
  /\ accrued' = [accrued EXCEPT ![p] = @ + 1]
  /\ UNCHANGED <<governanceVars, officialPool, creatorFees, protocolFees, held, splits,
                 received, rights>>

(* ProtocolFeeController.collectAggregateFees: how the aggregate divides   *)
(* depends on percentages no property here tells apart.                    *)
Divided(p, creator, protocol) ==
  /\ creator + protocol = accrued[p]
  /\ accrued' = [accrued EXCEPT ![p] = 0]

CollectAggregateFees(p) ==
  \E c, d \in 0..accrued[p] :
    /\ Divided(p, c, d)
    /\ creatorFees' = [creatorFees EXCEPT ![p] = @ + c]
    /\ protocolFees' = [protocolFees EXCEPT ![p] = @ + d]
    /\ UNCHANGED <<governanceVars, officialPool, held, splits, received, rights, made>>

(* Anyone may make Balancer push the creator's fees to the pool creator.   *)
WithdrawPoolCreatorFees(p) ==
  /\ p \in officialPool
  /\ held' = held + creatorFees[p]
  /\ creatorFees' = [creatorFees EXCEPT ![p] = 0]
  /\ UNCHANGED <<governanceVars, officialPool, accrued, protocolFees, splits, received,
                 rights, made>>

(* n units reach the current split; its recipients are promised their      *)
(* shares of them.                                                         *)
ToCurrentSplit(n) ==
  /\ splits' = [splits EXCEPT ![epoch] = @ + n]
  /\ rights' = [b \in Beneficiaries |-> rights[b] + n * Current[b]]

Collect(p) ==
  /\ p \in officialPool
  /\ \E c, d \in 0..accrued[p] :
       /\ Divided(p, c, d)
       /\ creatorFees' = [creatorFees EXCEPT ![p] = 0]
       /\ protocolFees' = [protocolFees EXCEPT ![p] = @ + d]
       /\ ToCurrentSplit(creatorFees[p] + c)
  /\ UNCHANGED <<governanceVars, officialPool, held, received, made>>

(* Mutant: the protocol's fees stay at the fee controller. *)
CollectAll_CreatorOnly(p) == Collect(p)

(* AllocationControllerV2: the protocol's part goes the same way. *)
CollectAll(p) ==
  /\ p \in officialPool
  /\ \E c, d \in 0..accrued[p] :
       /\ Divided(p, c, d)
       /\ creatorFees' = [creatorFees EXCEPT ![p] = 0]
       /\ protocolFees' = [protocolFees EXCEPT ![p] = 0]
       /\ ToCurrentSplit(creatorFees[p] + c + protocolFees[p] + d)
  /\ UNCHANGED <<governanceVars, officialPool, held, received, made>>

Sweep ==
  /\ held > 0
  /\ held' = 0
  /\ ToCurrentSplit(held)
  /\ UNCHANGED <<governanceVars, officialPool, accrued, creatorFees, protocolFees,
                 received, made>>

(* Mutant: a split shares by the weights in force now. *)
Distribute_CurrentWeights(e) ==
  /\ e \in 1..epoch
  /\ splits[e] > 0
  /\ received' = [b \in Beneficiaries |-> received[b] + splits[e] * Current[b]]
  /\ splits' = [splits EXCEPT ![e] = 0]
  /\ UNCHANGED <<governanceVars, officialPool, accrued, creatorFees, protocolFees, held,
                 rights, made>>

Distribute(e) ==
  /\ e \in 1..epoch
  /\ splits[e] > 0
  /\ received' = [b \in Beneficiaries |-> received[b] + splits[e] * allocations[e][b]]
  /\ splits' = [splits EXCEPT ![e] = 0]
  /\ UNCHANGED <<governanceVars, officialPool, accrued, creatorFees, protocolFees, held,
                 rights, made>>

-----------------------------------------------------------------------------
Init ==
  /\ epoch = 1
  /\ \E w \in Weights : Valid(w) /\ allocations = [e \in 1..1 |-> w]
  /\ count = 0
  /\ proposals = [id \in 1..0 |-> 0]
  /\ consent = [id \in 1..0 |-> {}]
  /\ signed = [b \in Beneficiaries |-> {}]
  /\ officialPool = {}
  /\ accrued = [p \in Pools |-> 0]
  /\ creatorFees = [p \in Pools |-> 0]
  /\ protocolFees = [p \in Pools |-> 0]
  /\ held = 0
  /\ splits = [e \in 1..1 |-> 0]
  /\ received = [b \in Beneficiaries |-> 0]
  /\ rights = [b \in Beneficiaries |-> 0]
  /\ made = 0

GovernanceStep ==
  \/ \E w \in Weights : Propose(w)
  \/ \E id \in 1..count, b \in Beneficiaries, approved \in BOOLEAN : SetConsent(id, b, approved)
  \/ \E id \in 1..count : ApplyAllocation(id)

KeeperStep ==
  \/ \E p \in Pools : CollectAggregateFees(p) \/ WithdrawPoolCreatorFees(p)
  \/ \E p \in Pools : Collect(p) \/ CollectAll(p)
  \/ Sweep
  \/ \E e \in 1..epoch : Distribute(e)

RevenueStep ==
  \/ \E p \in Pools : ConfigurePool(p) \/ Swap(p)
  \/ KeeperStep

Next == GovernanceStep \/ RevenueStep

Spec == Init /\ [][Next]_vars

(* collectAll, sweep and distribute are open to everyone. *)
KeeperFairness ==
  /\ \A p \in Pools : WF_vars(CollectAll(p))
  /\ WF_vars(Sweep)
  /\ \A e \in 1..MaxEpoch : WF_vars(Distribute(e))

FairSpec == Spec /\ KeeperFairness

-----------------------------------------------------------------------------
(* Properties *)

Proposals == [baseEpoch : Nat, weights : Weights, applied : BOOLEAN]

(* The contract's mappings are total on the epochs and proposals made, and *)
(* every proposal is based on an epoch that existed when it was made.      *)
TypeOK ==
  /\ epoch \in Nat \ {0}
  /\ count \in Nat
  /\ allocations \in [1..epoch -> Weights]
  /\ proposals \in [1..count -> Proposals]
  /\ \A id \in 1..count : proposals[id].baseEpoch \in 1..epoch
  /\ consent \in [1..count -> SUBSET Beneficiaries]
  /\ signed \in [Beneficiaries -> SUBSET (Nat \X Nat)]
  /\ officialPool \subseteq Pools
  /\ accrued \in [Pools -> Nat]
  /\ creatorFees \in [Pools -> Nat]
  /\ protocolFees \in [Pools -> Nat]
  /\ held \in Nat /\ made \in Nat
  /\ splits \in [1..epoch -> Nat]
  /\ received \in [Beneficiaries -> Nat]
  /\ rights \in [Beneficiaries -> Nat]

(* Nobody's weight falls against their will: when an allocation takes      *)
(* effect, everyone who loses weight has consented to this very proposal,  *)
(* since the epoch it replaces began, and has not taken the consent back.  *)
(* A consent given against an earlier allocation is never used again.      *)
NoCutWithoutConsent ==
  [][epoch' # epoch =>
       \E id \in 1..count :
         /\ ~proposals[id].applied /\ proposals'[id].applied
         /\ allocations'[epoch'] = proposals[id].weights
         /\ \A b \in Beneficiaries :
              allocations'[epoch'][b] < allocations[epoch][b] => <<epoch, id>> \in signed[b]]_vars

(* The history of allocations is a chain: each epoch after the first comes *)
(* from exactly one applied proposal, made against the epoch before it,    *)
(* and no proposal is applied twice or over a newer allocation.            *)
EpochsFormAChain ==
  \A e \in 2..epoch :
    \E id \in 1..count :
      /\ proposals[id].applied
      /\ proposals[id].baseEpoch = e - 1
      /\ proposals[id].weights = allocations[e]
      /\ \A other \in 1..count :
           proposals[other].applied /\ proposals[other].baseEpoch = e - 1 => other = id

(* What lies in the splits for b, each epoch's shared by its own weights. *)
LyingFor(b) == SumFunction([e \in 1..epoch |-> splits[e] * allocations[e][b]])

(* Revenue belongs to those who were allocated it when it was collected:   *)
(* what a beneficiary has received, and what lies for it in the splits of  *)
(* all epochs, is what it was promised, however often the allocation       *)
(* changes between collection and distribution.                            *)
SharesAreKept ==
  \A b \in Beneficiaries : received[b] + LyingFor(b) = rights[b]

(* Nothing is stranded: whatever mix of pushes, collections and epoch      *)
(* changes happens, all revenue reaches the beneficiaries in the end.      *)
RevenueReachesBeneficiaries ==
  []<>(MapThenSumSet(LAMBDA b : received[b], Beneficiaries) = made * TotalWeight)
=============================================================================
