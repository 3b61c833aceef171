----------------------- MODULE AllocationControllerProofs -----------------------
(***************************************************************************)
(* Theorems about AllocationController and Pools for all beneficiaries,    *)
(* pools, statements, weights and bounds: types, the consent discipline,   *)
(* whose revenue lies where, and the finality of resolved pools.           *)
(***************************************************************************)
EXTENDS Pools, Sums, TLAPS

(* The part of TypeOK that the governance variables make up. *)
GovTypes ==
  /\ epoch \in Nat \ {0}
  /\ count \in Nat
  /\ allocations \in [1..epoch -> Weights]
  /\ proposals \in [1..count -> Proposals]
  /\ \A id \in 1..count : proposals[id].baseEpoch \in 1..epoch
  /\ consent \in [1..count -> SUBSET Beneficiaries]
  /\ signed \in [Beneficiaries -> SUBSET (Nat \X Nat)]

FeeTypes ==
  /\ officialPool \subseteq Pools
  /\ accrued \in [Pools -> Nat]
  /\ creatorFees \in [Pools -> Nat]
  /\ protocolFees \in [Pools -> Nat]
  /\ held \in Nat /\ made \in Nat
  /\ splits \in [1..epoch -> Nat]
  /\ received \in [Beneficiaries -> Nat]
  /\ rights \in [Beneficiaries -> Nat]

(* A standing consent on a pending proposal was given in the current epoch. *)
ConsentIsFresh ==
  \A id \in 1..count, b \in Beneficiaries :
    Pending(id) /\ b \in consent[id] => <<epoch, id>> \in signed[b]

(* An applied proposal made the epoch that follows the one it was based on. *)
AppliedMadeNext ==
  \A id \in 1..count :
    proposals[id].applied =>
      /\ proposals[id].baseEpoch < epoch
      /\ allocations[proposals[id].baseEpoch + 1] = proposals[id].weights

AppliedOnce ==
  \A id, other \in 1..count :
    /\ proposals[id].applied /\ proposals[other].applied
    /\ proposals[id].baseEpoch = proposals[other].baseEpoch
    => id = other

EveryEpochApplied ==
  \A e \in 2..epoch :
    \E id \in 1..count : proposals[id].applied /\ proposals[id].baseEpoch = e - 1

Chain == AppliedMadeNext /\ AppliedOnce /\ EveryEpochApplied

GovInv == GovTypes /\ ConsentIsFresh /\ Chain

IInv == GovInv /\ FeeTypes

-----------------------------------------------------------------------------
(* Governance steps *)

LEMMA ProposeKeeps ==
  ASSUME GovInv, NEW w \in Weights, Propose(w)
  PROVE  GovInv'
<1> DEFINE p == [baseEpoch |-> epoch, weights |-> w, applied |-> FALSE]
<1>1. count \in Nat /\ count' = count + 1 /\ epoch \in Nat \ {0}
  BY DEF GovInv, GovTypes, Propose
<1>2. p \in Proposals
  BY <1>1 DEF Proposals
<1>3. proposals' = [id \in 1..count' |-> IF id \in 1..count THEN proposals[id] ELSE p]
  BY DEF Propose
<1>4. consent' = [id \in 1..count' |-> IF id \in 1..count THEN consent[id] ELSE {}]
  BY DEF Propose
<1>5. UNCHANGED <<epoch, allocations, signed>>
  BY DEF Propose
<1>6. GovTypes'
  BY <1>1, <1>2, <1>3, <1>4, <1>5 DEF GovInv, GovTypes
<1>7. ConsentIsFresh'
  BY <1>1, <1>3, <1>4, <1>5 DEF GovInv, GovTypes, ConsentIsFresh, Pending
<1>8. \A id \in 1..count' : proposals'[id].applied =>
         id \in 1..count /\ proposals'[id] = proposals[id]
  BY <1>1, <1>3
<1>9. \A id \in 1..count : id \in 1..count' /\ proposals'[id] = proposals[id]
  BY <1>1, <1>3
<1>10. Chain'
  BY <1>5, <1>8, <1>9 DEF GovInv, Chain, AppliedMadeNext, AppliedOnce, EveryEpochApplied
<1> QED
  BY <1>6, <1>7, <1>10 DEF GovInv

LEMMA SetConsentKeeps ==
  ASSUME GovInv, NEW id \in 1..count, NEW b \in Beneficiaries, NEW approved \in BOOLEAN,
         SetConsent(id, b, approved)
  PROVE  GovInv'
<1>1. UNCHANGED <<epoch, allocations, proposals, count>>
  BY DEF SetConsent
<1>2. consent' = [consent EXCEPT ![id] = IF approved THEN @ \cup {b} ELSE @ \ {b}]
  BY DEF SetConsent
<1>3. signed' = [signed EXCEPT ![b] =
                  IF approved THEN @ \cup {<<epoch, id>>} ELSE @ \ {<<epoch, id>>}]
  BY DEF SetConsent
<1>4. <<epoch, id>> \in Nat \X Nat
  BY DEF GovInv, GovTypes
<1>5. GovTypes'
  BY <1>1, <1>2, <1>3, <1>4 DEF GovInv, GovTypes
<1>6. ConsentIsFresh'
  <2> SUFFICES ASSUME NEW other \in 1..count, NEW who \in Beneficiaries,
                      Pending(other), who \in consent'[other]
               PROVE  <<epoch, other>> \in signed'[who]
    BY <1>1 DEF ConsentIsFresh, Pending
  <2>1. other # id \/ who # b => who \in consent[other]
    BY <1>2 DEF GovInv, GovTypes
  <2>2. other # id \/ who # b => <<epoch, other>> \in signed[who]
    BY <2>1 DEF GovInv, ConsentIsFresh
  <2>3. other = id /\ who = b => approved
    BY <1>2 DEF GovInv, GovTypes
  <2>4. other # id => <<epoch, other>> # <<epoch, id>>
    OBVIOUS
  <2> QED
    BY <1>3, <2>2, <2>3, <2>4 DEF GovInv, GovTypes
<1>7. Chain'
  BY <1>1 DEF GovInv, Chain, AppliedMadeNext, AppliedOnce, EveryEpochApplied
<1> QED
  BY <1>5, <1>6, <1>7 DEF GovInv

(* Every proposal still pending was based on the epoch that ends, so the   *)
(* new epoch starts with none.                                             *)
LEMMA ApplyKeeps ==
  ASSUME GovInv, NEW id \in 1..count, ApplyAllocation(id)
  PROVE  GovInv'
<1>1. /\ epoch \in Nat \ {0} /\ epoch' = epoch + 1
      /\ count \in Nat /\ count' = count
      /\ UNCHANGED <<consent, signed>>
  BY DEF GovInv, GovTypes, ApplyAllocation
<1>2. ~proposals[id].applied /\ proposals[id].baseEpoch = epoch
  BY DEF ApplyAllocation, Pending
<1>3. proposals' = [proposals EXCEPT ![id] = [@ EXCEPT !.applied = TRUE]]
  BY DEF ApplyAllocation
<1>4. allocations' = [e \in 1..epoch' |->
                       IF e \in 1..epoch THEN allocations[e] ELSE proposals[id].weights]
  BY DEF ApplyAllocation
<1>5. proposals \in [1..count -> Proposals]
  BY DEF GovInv, GovTypes
<1>6. \A k \in 1..count :
        /\ proposals'[k].baseEpoch = proposals[k].baseEpoch
        /\ proposals'[k].weights = proposals[k].weights
        /\ proposals'[k].applied <=> proposals[k].applied \/ k = id
  BY <1>3, <1>5 DEF Proposals
<1>7. \A k \in 1..count : proposals[k].baseEpoch \in 1..epoch
  BY DEF GovInv, GovTypes
<1>8. GovTypes'
  <2>1. proposals[id].weights \in Weights
    BY <1>5 DEF Proposals
  <2>2. allocations' \in [1..epoch' -> Weights]
    BY <1>1, <1>4, <2>1 DEF GovInv, GovTypes
  <2>3. proposals' \in [1..count -> Proposals]
    BY <1>3, <1>5 DEF Proposals
  <2>4. \A k \in 1..count : proposals'[k].baseEpoch \in 1..epoch'
    BY <1>1, <1>6, <1>7
  <2> QED
    BY <1>1, <2>2, <2>3, <2>4 DEF GovInv, GovTypes
<1>9. ConsentIsFresh'
  <2>1. \A k \in 1..count : proposals'[k].baseEpoch # epoch'
    BY <1>1, <1>6, <1>7
  <2> QED
    BY <1>1, <2>1 DEF ConsentIsFresh, Pending
<1>10. AppliedMadeNext'
  <2> SUFFICES ASSUME NEW k \in 1..count, proposals'[k].applied
               PROVE  /\ proposals'[k].baseEpoch < epoch'
                      /\ allocations'[proposals'[k].baseEpoch + 1] = proposals'[k].weights
    BY <1>1 DEF AppliedMadeNext
  <2>1. CASE k = id
    BY <2>1, <1>1, <1>2, <1>4, <1>6
  <2>2. CASE k # id
    <3>1. proposals[k].baseEpoch < epoch
          /\ allocations[proposals[k].baseEpoch + 1] = proposals[k].weights
      BY <2>2, <1>6 DEF GovInv, Chain, AppliedMadeNext
    <3> QED
      BY <3>1, <1>1, <1>4, <1>6, <1>7
  <2> QED
    BY <2>1, <2>2
<1>11. AppliedOnce'
  <2>1. \A k \in 1..count : proposals[k].applied => proposals[k].baseEpoch < epoch
    BY DEF GovInv, Chain, AppliedMadeNext
  <2>2. \A k \in 1..count : proposals[k].applied => proposals[k].baseEpoch # proposals[id].baseEpoch
    BY <2>1, <1>1, <1>2, <1>7
  <2> QED
    BY <1>1, <1>6, <2>2 DEF GovInv, Chain, AppliedOnce
<1>12. EveryEpochApplied'
  <2> SUFFICES ASSUME NEW e \in 2..epoch'
               PROVE  \E k \in 1..count : proposals'[k].applied /\ proposals'[k].baseEpoch = e - 1
    BY <1>1 DEF EveryEpochApplied
  <2>1. CASE e \in 2..epoch
    BY <2>1, <1>6 DEF GovInv, Chain, EveryEpochApplied
  <2>2. CASE e = epoch + 1
    <3>1. proposals'[id].applied /\ proposals'[id].baseEpoch = e - 1
      BY <2>2, <1>1, <1>2, <1>6
    <3> QED
      BY <3>1
  <2> QED
    BY <2>1, <2>2, <1>1
<1> QED
  BY <1>8, <1>9, <1>10, <1>11, <1>12 DEF GovInv, Chain

LEMMA GovUnchanged == GovInv /\ UNCHANGED governanceVars => GovInv'
BY DEF GovInv, GovTypes, ConsentIsFresh, Pending, Chain, AppliedMadeNext, AppliedOnce,
       EveryEpochApplied, governanceVars

-----------------------------------------------------------------------------
(* Revenue steps leave governance alone and keep the types of balances.    *)

LEMMA FeesUnderGovernance ==
  ASSUME GovTypes, FeeTypes, GovernanceStep
  PROVE  FeeTypes'
<1>1. CASE UNCHANGED <<feeVars, epoch>>
  BY <1>1 DEF FeeTypes, feeVars
<1>2. ASSUME NEW id \in 1..count, ApplyAllocation(id)
      PROVE  FeeTypes'
  <2>1. epoch \in Nat \ {0} /\ epoch' = epoch + 1
    BY <1>2 DEF GovTypes, ApplyAllocation
  <2>2. splits' \in [1..epoch' -> Nat]
    BY <1>2, <2>1 DEF FeeTypes, ApplyAllocation
  <2>3. UNCHANGED <<officialPool, accrued, creatorFees, protocolFees, held, received, rights, made>>
    BY <1>2 DEF ApplyAllocation
  <2> QED
    BY <2>2, <2>3 DEF FeeTypes
<1>3. \/ UNCHANGED <<feeVars, epoch>>
      \/ \E id \in 1..count : ApplyAllocation(id)
  BY DEF GovernanceStep, Propose, SetConsent
<1> QED
  BY <1>1, <1>2, <1>3

LEMMA NatSum == \A x, y, z \in Nat : x + y * z \in Nat
<1>1. \A y, z \in Nat : y * z \in Nat
  OBVIOUS
<1> QED
  BY <1>1

LEMMA PromiseTypes ==
  ASSUME GovTypes, FeeTypes, NEW n \in Nat, ToCurrentSplit(n)
  PROVE  splits' \in [1..epoch -> Nat] /\ rights' \in [Beneficiaries -> Nat]
<1>1. \A b \in Beneficiaries : Current[b] \in Nat
  BY AllocationAssumption DEF GovTypes, Weights, Current, AllocationAssumption
<1>2. \A b \in Beneficiaries : rights[b] + n * Current[b] \in Nat
  <2>1. \A b \in Beneficiaries : rights[b] \in Nat
    BY DEF FeeTypes
  <2> QED
    BY <1>1, <2>1, NatSum
<1>3. rights' \in [Beneficiaries -> Nat]
  BY <1>2 DEF ToCurrentSplit
<1>4. splits' \in [1..epoch -> Nat]
  BY DEF ToCurrentSplit, FeeTypes, GovTypes
<1> QED
  BY <1>3, <1>4

LEMMA RevenueTypes ==
  ASSUME GovTypes, FeeTypes, RevenueStep
  PROVE  FeeTypes' /\ UNCHANGED governanceVars
<1> USE DEF FeeTypes
<1>1. ASSUME NEW p \in Pools, ConfigurePool(p) PROVE FeeTypes' /\ UNCHANGED governanceVars
  BY <1>1 DEF ConfigurePool, governanceVars
<1>2. ASSUME NEW p \in Pools, Swap(p) PROVE FeeTypes' /\ UNCHANGED governanceVars
  BY <1>2 DEF Swap, governanceVars
<1>3. ASSUME NEW p \in Pools, CollectAggregateFees(p)
      PROVE  FeeTypes' /\ UNCHANGED governanceVars
  BY <1>3 DEF CollectAggregateFees, Divided, governanceVars
<1>4. ASSUME NEW p \in Pools, WithdrawPoolCreatorFees(p)
      PROVE  FeeTypes' /\ UNCHANGED governanceVars
  BY <1>4 DEF WithdrawPoolCreatorFees, governanceVars
<1>5. ASSUME NEW p \in Pools, Collect(p) PROVE FeeTypes' /\ UNCHANGED governanceVars
  <2>1. PICK c \in 0..accrued[p], d \in 0..accrued[p] :
          /\ Divided(p, c, d)
          /\ creatorFees' = [creatorFees EXCEPT ![p] = 0]
          /\ protocolFees' = [protocolFees EXCEPT ![p] = @ + d]
          /\ ToCurrentSplit(creatorFees[p] + c)
    BY <1>5 DEF Collect
  <2>2. creatorFees[p] + c \in Nat
    OBVIOUS
  <2>3. splits' \in [1..epoch -> Nat] /\ rights' \in [Beneficiaries -> Nat]
    BY <2>1, <2>2, PromiseTypes
  <2>4. UNCHANGED <<governanceVars, officialPool, held, received, made>>
    BY <1>5 DEF Collect
  <2> QED
    BY <2>1, <2>3, <2>4 DEF Divided, governanceVars
<1>6. ASSUME NEW p \in Pools, CollectAll(p) PROVE FeeTypes' /\ UNCHANGED governanceVars
  <2>1. PICK c \in 0..accrued[p], d \in 0..accrued[p] :
          /\ Divided(p, c, d)
          /\ creatorFees' = [creatorFees EXCEPT ![p] = 0]
          /\ protocolFees' = [protocolFees EXCEPT ![p] = 0]
          /\ ToCurrentSplit(creatorFees[p] + c + protocolFees[p] + d)
    BY <1>6 DEF CollectAll
  <2>2. creatorFees[p] + c + protocolFees[p] + d \in Nat
    OBVIOUS
  <2>3. splits' \in [1..epoch -> Nat] /\ rights' \in [Beneficiaries -> Nat]
    BY <2>1, <2>2, PromiseTypes
  <2>4. UNCHANGED <<governanceVars, officialPool, held, received, made>>
    BY <1>6 DEF CollectAll
  <2> QED
    BY <2>1, <2>3, <2>4 DEF Divided, governanceVars
<1>7. ASSUME Sweep PROVE FeeTypes' /\ UNCHANGED governanceVars
  <2>1. splits' \in [1..epoch -> Nat] /\ rights' \in [Beneficiaries -> Nat]
    BY <1>7, PromiseTypes DEF Sweep
  <2> QED
    BY <1>7, <2>1 DEF Sweep, governanceVars
<1>8. ASSUME NEW e \in 1..epoch, Distribute(e) PROVE FeeTypes' /\ UNCHANGED governanceVars
  <2>1. \A b \in Beneficiaries : allocations[e][b] \in Nat
    BY AllocationAssumption DEF GovTypes, Weights, AllocationAssumption
  <2>2. \A b \in Beneficiaries : received[b] + splits[e] * allocations[e][b] \in Nat
    <3>1. splits[e] \in Nat /\ \A b \in Beneficiaries : received[b] \in Nat
      OBVIOUS
    <3> QED
      BY <2>1, <3>1, NatSum
  <2>3. received' \in [Beneficiaries -> Nat]
    BY <1>8, <2>2 DEF Distribute
  <2> QED
    BY <1>8, <2>3 DEF Distribute, governanceVars
<1> QED
  BY <1>1, <1>2, <1>3, <1>4, <1>5, <1>6, <1>7, <1>8 DEF RevenueStep, KeeperStep

-----------------------------------------------------------------------------
LEMMA StartHolds == Init => IInv
<1> SUFFICES ASSUME Init PROVE IInv
  OBVIOUS
<1>1. GovTypes
  BY DEF Init, GovTypes, Valid
<1>2. FeeTypes
  BY DEF Init, FeeTypes
<1>3. ConsentIsFresh /\ Chain
  BY DEF Init, ConsentIsFresh, Chain, AppliedMadeNext, AppliedOnce, EveryEpochApplied
<1> QED
  BY <1>1, <1>2, <1>3 DEF IInv, GovInv

LEMMA StepKeeps == IInv /\ [Next]_vars => IInv'
<1> SUFFICES ASSUME IInv, [Next]_vars PROVE IInv'
  OBVIOUS
<1>0. GovInv /\ GovTypes /\ FeeTypes
  BY DEF IInv, GovInv
<1>1. CASE GovernanceStep
  <2>1. FeeTypes'
    BY <1>0, <1>1, FeesUnderGovernance
  <2>2. GovInv'
    BY <1>0, <1>1, ProposeKeeps, SetConsentKeeps, ApplyKeeps DEF GovernanceStep
  <2> QED
    BY <2>1, <2>2 DEF IInv
<1>2. CASE RevenueStep
  BY <1>0, <1>2, RevenueTypes, GovUnchanged DEF IInv
<1>3. CASE UNCHANGED vars
  <2>1. UNCHANGED governanceVars /\ UNCHANGED feeVars /\ UNCHANGED epoch
    BY <1>3 DEF vars, governanceVars
  <2>2. FeeTypes'
    BY <1>0, <2>1 DEF FeeTypes, feeVars
  <2> QED
    BY <1>0, <2>1, <2>2, GovUnchanged DEF IInv
<1> QED
  BY <1>1, <1>2, <1>3 DEF Next

THEOREM Invariance == Spec => []IInv
BY StartHolds, StepKeeps, PTL DEF Spec

(* The contract's mappings keep their types and refer to existing epochs.  *)
THEOREM TypeCorrect == Spec => []TypeOK
<1>1. IInv => TypeOK
  BY DEF IInv, GovInv, GovTypes, FeeTypes, TypeOK
<1> QED
  BY <1>1, Invariance, PTL

(* Epochs are a chain of applied proposals.                                *)
THEOREM EpochsAreAChain == Spec => []EpochsFormAChain
<1>1. IInv => EpochsFormAChain
  <2> SUFFICES ASSUME IInv, NEW e \in 2..epoch
               PROVE  \E id \in 1..count :
                        /\ proposals[id].applied
                        /\ proposals[id].baseEpoch = e - 1
                        /\ proposals[id].weights = allocations[e]
                        /\ \A other \in 1..count :
                             proposals[other].applied /\ proposals[other].baseEpoch = e - 1 => other = id
    BY DEF EpochsFormAChain
  <2>1. PICK id \in 1..count : proposals[id].applied /\ proposals[id].baseEpoch = e - 1
    BY DEF IInv, GovInv, Chain, EveryEpochApplied
  <2>2. allocations[proposals[id].baseEpoch + 1] = proposals[id].weights
    BY <2>1 DEF IInv, GovInv, Chain, AppliedMadeNext
  <2>3. proposals[id].baseEpoch + 1 = e
    BY <2>1
  <2>4. \A other \in 1..count :
          proposals[other].applied /\ proposals[other].baseEpoch = e - 1 => other = id
    BY <2>1 DEF IInv, GovInv, Chain, AppliedOnce
  <2> QED
    BY <2>1, <2>2, <2>3, <2>4
<1> QED
  BY <1>1, Invariance, PTL

(* A step that ends an epoch applies a pending proposal, and everyone it   *)
(* cuts has signed that proposal in the epoch that ends.                   *)
LEMMA ApplyIsConsented ==
  ASSUME IInv, NEW id \in 1..count, ApplyAllocation(id)
  PROVE  /\ ~proposals[id].applied /\ proposals'[id].applied
         /\ allocations'[epoch'] = proposals[id].weights
         /\ \A b \in Beneficiaries :
              allocations'[epoch'][b] < allocations[epoch][b] => <<epoch, id>> \in signed[b]
<1>1. epoch \in Nat \ {0} /\ proposals \in [1..count -> Proposals]
      /\ allocations \in [1..epoch -> Weights]
  BY DEF IInv, GovInv, GovTypes
<1>2. ~proposals[id].applied /\ proposals'[id].applied
  BY <1>1 DEF ApplyAllocation, Pending, Proposals
<1>3. allocations'[epoch'] = proposals[id].weights
  BY <1>1 DEF ApplyAllocation
<1>4. ASSUME NEW b \in Beneficiaries, allocations'[epoch'][b] < allocations[epoch][b]
      PROVE  <<epoch, id>> \in signed[b]
  <2>1. proposals[id].weights \in Weights /\ allocations[epoch] \in Weights
    BY <1>1 DEF Proposals
  <2>2. proposals[id].weights[b] \in Int /\ allocations[epoch][b] \in Int
    BY <2>1, AllocationAssumption DEF Weights, AllocationAssumption
  <2>3. b \in Losers(id)
    BY <1>3, <1>4, <2>2 DEF Losers, Current
  <2>4. b \in consent[id] /\ Pending(id)
    BY <2>3 DEF ApplyAllocation
  <2> QED
    BY <2>4 DEF IInv, GovInv, ConsentIsFresh
<1> QED
  BY <1>2, <1>3, <1>4

(* Nobody's weight falls without a standing consent of their own.          *)
THEOREM CutsNeedConsent == Spec => NoCutWithoutConsent
<1>1. IInv /\ [Next]_vars =>
        [epoch' # epoch =>
          \E id \in 1..count :
            /\ ~proposals[id].applied /\ proposals'[id].applied
            /\ allocations'[epoch'] = proposals[id].weights
            /\ \A b \in Beneficiaries :
                 allocations'[epoch'][b] < allocations[epoch][b] => <<epoch, id>> \in signed[b]]_vars
  <2> SUFFICES ASSUME IInv, [Next]_vars, epoch' # epoch
               PROVE  \E id \in 1..count : ApplyAllocation(id)
    BY ApplyIsConsented
  <2>1. CASE GovernanceStep
    BY <2>1 DEF GovernanceStep, Propose, SetConsent
  <2>2. CASE RevenueStep
    BY <2>2, RevenueTypes DEF IInv, GovInv, governanceVars
  <2>3. CASE UNCHANGED vars
    BY <2>3 DEF vars, governanceVars
  <2> QED
    BY <2>1, <2>2, <2>3 DEF Next
<1> QED
  BY <1>1, Invariance, PTL DEF Spec, NoCutWithoutConsent

-----------------------------------------------------------------------------
(* What was promised is received or lies in the split that was promised.   *)

(* What n splits that hold s give one beneficiary whose weights are w. *)
SharedBy(s, w, n) == SumFunction([e \in 1..n |-> s[e] * w[e]])

WeightsOf(b) == [e \in 1..epoch |-> allocations[e][b]]

LEMMA Products == \A m, n \in Nat : m * n \in Nat
OBVIOUS

LEMMA SharedIsSum ==
  ASSUME NEW n \in Nat, NEW s \in [1..n -> Nat], NEW w \in [1..n -> Nat]
  PROVE  LET f == [e \in 1..n |-> s[e] * w[e]] IN
         /\ SharedBy(s, w, n) = SumFunctionOnSet(f, 1..n)
         /\ SharedBy(s, w, n) \in Nat
         /\ \A e \in 1..n : f[e] \in Nat
<1> DEFINE f == [e \in 1..n |-> s[e] * w[e]]
<1>1. \A e \in 1..n : s[e] \in Nat /\ w[e] \in Nat
  OBVIOUS
<1>2. f \in [1..n -> Nat]
  BY <1>1, Products
<1>3. SharedBy(s, w, n) = SumFunction(f)
  BY DEF SharedBy
<1>4. IsFiniteSet(1..n)
  BY FS_Interval
<1> HIDE DEF f
<1>5. SumFunction(f) = SumFunctionOnSet(f, 1..n) /\ \A e \in 1..n : f[e] \in Nat
  BY <1>2, SumOfFunction
<1>6. SumFunctionOnSet(f, 1..n) \in Nat
  BY <1>4, <1>5, SumIsNat
<1> QED
  BY <1>3, <1>5, <1>6 DEF f

(* A step that touches one split changes what lies by that much.           *)
LEMMA OneSplitChanges ==
  ASSUME NEW n \in Nat, NEW s \in [1..n -> Nat], NEW t \in [1..n -> Nat], NEW w \in [1..n -> Nat],
         NEW e \in 1..n, \A k \in (1..n) \ {e} : t[k] = s[k]
  PROVE  SharedBy(t, w, n) = SharedBy(s, w, n) + t[e] * w[e] - s[e] * w[e]
<1> DEFINE f == [k \in 1..n |-> s[k] * w[k]]
           g == [k \in 1..n |-> t[k] * w[k]]
<1>1. /\ SharedBy(s, w, n) = SumFunctionOnSet(f, 1..n)
      /\ \A k \in 1..n : f[k] \in Nat
  BY SharedIsSum
<1>2. /\ SharedBy(t, w, n) = SumFunctionOnSet(g, 1..n)
      /\ \A k \in 1..n : g[k] \in Nat
  BY SharedIsSum
<1>3. \A k \in (1..n) \ {e} : f[k] = g[k]
  OBVIOUS
<1>4. f[e] = s[e] * w[e] /\ g[e] = t[e] * w[e]
  OBVIOUS
<1>5. IsFiniteSet(1..n)
  BY FS_Interval
<1> HIDE DEF f, g
<1>6. \A k \in 1..n : f[k] \in Int /\ g[k] \in Int
  BY <1>1, <1>2
<1>7. SumFunctionOnSet(g, 1..n) = SumFunctionOnSet(f, 1..n) + g[e] - f[e]
  <2> DEFINE R == 1..n
  <2>1. /\ IsFiniteSet(R) /\ e \in R
        /\ \A k \in R : f[k] \in Int /\ g[k] \in Int
        /\ \A k \in R \ {e} : f[k] = g[k]
    BY <1>3, <1>5, <1>6
  <2> HIDE DEF R
  <2>2. SumFunctionOnSet(g, R) = SumFunctionOnSet(f, R) + g[e] - f[e]
    BY ZenonT(40), <2>1, SumChange
  <2> QED
    BY <2>2 DEF R
<1> QED
  BY <1>1, <1>2, <1>4, <1>7

(* A new epoch starts with an empty split. *)
OneMoreEpoch(n, s, w, m, t, x) ==
  /\ n \in Nat /\ m \in Nat /\ m = n + 1
  /\ s \in [1..n -> Nat] /\ t \in [1..m -> Nat]
  /\ w \in [1..n -> Nat] /\ x \in [1..m -> Nat]
  /\ \A k \in 1..n : t[k] = s[k] /\ x[k] = w[k]
  /\ t[m] = 0

LEMMA EmptySplitAddsNothing ==
  ASSUME NEW n, NEW m, NEW s, NEW t, NEW w, NEW x, OneMoreEpoch(n, s, w, m, t, x)
  PROVE  SharedBy(t, x, m) = SharedBy(s, w, n)
<1> USE DEF OneMoreEpoch
<1> DEFINE f == [k \in 1..n |-> s[k] * w[k]]
           g == [k \in 1..m |-> t[k] * x[k]]
<1>1. SharedBy(s, w, n) = SumFunctionOnSet(f, 1..n) /\ SharedBy(s, w, n) \in Nat
  BY SharedIsSum
<1>2. /\ SharedBy(t, x, m) = SumFunctionOnSet(g, 1..m)
      /\ \A k \in 1..m : g[k] \in Nat
  BY SharedIsSum
<1>3. \A k \in 1..n : g[k] = f[k]
  OBVIOUS
<1>4. g[m] = 0
  <2>1. g[m] = 0 * x[m] /\ x[m] \in Nat
    OBVIOUS
  <2> HIDE DEF g
  <2> QED
    BY <2>1
<1>5. m \notin 1..n /\ 1..m = (1..n) \cup {m}
  OBVIOUS
<1>6. IsFiniteSet(1..n)
  BY FS_Interval
<1> HIDE DEF f, g
<1>7. SumFunctionOnSet(g, 1..n) = SumFunctionOnSet(f, 1..n)
  <2> DEFINE R == 1..n
  <2>1. IsFiniteSet(R) /\ \A k \in R : g[k] = f[k]
    BY <1>3, <1>6
  <2> HIDE DEF R
  <2>2. SumFunctionOnSet(g, R) = SumFunctionOnSet(f, R)
    BY <2>1, SumAgrees
  <2> QED
    BY <2>2 DEF R
<1>8. \A k \in (1..n) \cup {m} : g[k] \in Int
  BY <1>2, <1>5
<1>9. SumFunctionOnSet(g, (1..n) \cup {m}) = SumFunctionOnSet(g, 1..n) + g[m]
  BY ZenonT(40), <1>5, <1>6, <1>8, SumWith
<1>10. SumFunctionOnSet(g, 1..m) = SumFunctionOnSet(g, (1..n) \cup {m})
  BY <1>5, Zenon
<1>11. SumFunctionOnSet(f, 1..n) + 0 = SumFunctionOnSet(f, 1..n)
  BY <1>1
<1> QED
  BY <1>1, <1>2, <1>4, <1>7, <1>9, <1>10, <1>11, Zenon

LEMMA WeightsAreNat == IInv => \A b \in Beneficiaries : WeightsOf(b) \in [1..epoch -> Nat]
BY AllocationAssumption DEF IInv, GovInv, GovTypes, Weights, WeightsOf, AllocationAssumption

LEMMA WeightsThen == GovTypes' => \A b \in Beneficiaries : WeightsOf(b)' \in [1..epoch' -> Nat]
<1> SUFFICES ASSUME GovTypes', NEW b \in Beneficiaries
             PROVE  WeightsOf(b)' \in [1..epoch' -> Nat]
  OBVIOUS
<1>1. \A e \in 1..epoch' : allocations'[e] \in [Beneficiaries -> 0..TotalWeight]
  BY DEF GovTypes, Weights
<1>2. \A e \in 1..epoch' : allocations'[e][b] \in 0..TotalWeight
  BY <1>1
<1> QED
  BY <1>2, AllocationAssumption DEF WeightsOf, AllocationAssumption

LEMMA LyingIsShared == \A b \in Beneficiaries : LyingFor(b) = SharedBy(splits, WeightsOf(b), epoch)
<1> SUFFICES ASSUME NEW b \in Beneficiaries
             PROVE  LyingFor(b) = SharedBy(splits, WeightsOf(b), epoch)
  OBVIOUS
<1>1. [e \in 1..epoch |-> splits[e] * allocations[e][b]] =
      [e \in 1..epoch |-> splits[e] * WeightsOf(b)[e]]
  BY DEF WeightsOf
<1> QED
  BY <1>1 DEF LyingFor, SharedBy

LEMMA LyingThen ==
  \A b \in Beneficiaries : LyingFor(b)' = SharedBy(splits', WeightsOf(b)', epoch')
<1> SUFFICES ASSUME NEW b \in Beneficiaries
             PROVE  LyingFor(b)' = SharedBy(splits', WeightsOf(b)', epoch')
  OBVIOUS
<1>1. [e \in 1..epoch' |-> splits'[e] * allocations'[e][b]] =
      [e \in 1..epoch' |-> splits'[e] * WeightsOf(b)'[e]]
  BY DEF WeightsOf
<1> QED
  BY <1>1 DEF LyingFor, SharedBy

(* The facts every step needs about the split of epoch e and beneficiary b. *)
LEMMA OneSplitOf ==
  ASSUME IInv, splits' \in [1..epoch -> Nat], UNCHANGED governanceVars, NEW e \in 1..epoch,
         NEW b \in Beneficiaries, \A k \in (1..epoch) \ {e} : splits'[k] = splits[k]
  PROVE  /\ LyingFor(b)' = LyingFor(b) + splits'[e] * allocations[e][b] - splits[e] * allocations[e][b]
         /\ LyingFor(b) \in Nat /\ splits[e] \in Nat /\ splits'[e] \in Nat
         /\ allocations[e][b] \in Nat /\ rights[b] \in Nat /\ received[b] \in Nat
<1> DEFINE w == WeightsOf(b)
<1>1. /\ epoch \in Nat /\ splits \in [1..epoch -> Nat] /\ w \in [1..epoch -> Nat]
      /\ rights[b] \in Nat /\ received[b] \in Nat
  BY WeightsAreNat DEF IInv, GovInv, GovTypes, FeeTypes
<1>2. w' = w /\ epoch' = epoch /\ w[e] = allocations[e][b]
  BY DEF governanceVars, WeightsOf
<1>3. /\ LyingFor(b) = SharedBy(splits, w, epoch)
      /\ LyingFor(b)' = SharedBy(splits', w, epoch)
  BY <1>2, LyingIsShared, LyingThen
<1> HIDE DEF w
<1>4. SharedBy(splits', w, epoch) = SharedBy(splits, w, epoch) + splits'[e] * w[e] - splits[e] * w[e]
  BY <1>1, OneSplitChanges
<1>5. SharedBy(splits, w, epoch) \in Nat
  BY <1>1, SharedIsSum
<1>6. w[e] \in Nat /\ splits[e] \in Nat /\ splits'[e] \in Nat
  BY <1>1
<1> QED
  BY <1>1, <1>2, <1>3, <1>4, <1>5, <1>6

LEMMA PromiseIsKept ==
  ASSUME IInv, SharesAreKept, NEW n \in Nat, ToCurrentSplit(n), UNCHANGED <<governanceVars, received>>
  PROVE  SharesAreKept'
<1> SUFFICES ASSUME NEW b \in Beneficiaries
             PROVE  received'[b] + LyingFor(b)' = rights'[b]
  BY DEF SharesAreKept
<1> DEFINE a == allocations[epoch][b]
<1>1. epoch \in 1..epoch /\ GovTypes /\ FeeTypes
  BY DEF IInv, GovInv, GovTypes
<1>2. splits' \in [1..epoch -> Nat]
  BY <1>1, PromiseTypes
<1>3. /\ \A k \in (1..epoch) \ {epoch} : splits'[k] = splits[k]
      /\ splits'[epoch] = splits[epoch] + n
      /\ rights'[b] = rights[b] + n * a
  BY <1>1 DEF ToCurrentSplit, FeeTypes, Current
<1>4. /\ LyingFor(b)' = LyingFor(b) + splits'[epoch] * a - splits[epoch] * a
      /\ LyingFor(b) \in Nat /\ splits[epoch] \in Nat /\ a \in Nat /\ rights[b] \in Nat
      /\ received[b] \in Nat
  BY <1>1, <1>2, <1>3, OneSplitOf
<1> HIDE DEF a
<1>5. \A x, y, z \in Nat : (x + y) * z = x * z + y * z /\ x * z \in Nat /\ y * z \in Nat
  OBVIOUS
<1>6. LyingFor(b)' = LyingFor(b) + n * a
  BY <1>3, <1>4, <1>5
<1>7. received'[b] = received[b] /\ received[b] + LyingFor(b) = rights[b] /\ n * a \in Nat
  BY <1>4, <1>5 DEF SharesAreKept
<1> QED
  BY <1>3, <1>4, <1>6, <1>7

LEMMA DistributionIsKept ==
  ASSUME IInv, SharesAreKept, NEW e \in 1..epoch, Distribute(e)
  PROVE  SharesAreKept'
<1> SUFFICES ASSUME NEW b \in Beneficiaries
             PROVE  received'[b] + LyingFor(b)' = rights'[b]
  BY DEF SharesAreKept
<1> DEFINE a == allocations[e][b]
<1>1. splits \in [1..epoch -> Nat] /\ received \in [Beneficiaries -> Nat]
  BY DEF IInv, FeeTypes
<1>2. /\ splits' \in [1..epoch -> Nat]
      /\ \A k \in (1..epoch) \ {e} : splits'[k] = splits[k]
      /\ splits'[e] = 0
      /\ received'[b] = received[b] + splits[e] * a
      /\ rights' = rights
      /\ UNCHANGED governanceVars
  BY <1>1 DEF Distribute
<1>3. /\ LyingFor(b)' = LyingFor(b) + splits'[e] * a - splits[e] * a
      /\ LyingFor(b) \in Nat /\ splits[e] \in Nat /\ a \in Nat /\ rights[b] \in Nat
      /\ received[b] \in Nat
  BY <1>2, OneSplitOf
<1> HIDE DEF a
<1>4. splits[e] * a \in Nat /\ 0 * a = 0
  BY <1>3, Products
<1>5. received[b] + LyingFor(b) = rights[b]
  BY DEF SharesAreKept
<1> QED
  BY <1>2, <1>3, <1>4, <1>5

LEMMA SharesUntouched ==
  ASSUME SharesAreKept, UNCHANGED <<epoch, allocations, splits, received, rights>>
  PROVE  SharesAreKept'
BY DEF SharesAreKept, LyingFor

LEMMA NewEpochIsKept ==
  ASSUME IInv, SharesAreKept, NEW id \in 1..count, ApplyAllocation(id), IInv'
  PROVE  SharesAreKept'
<1> SUFFICES ASSUME NEW b \in Beneficiaries
             PROVE  received'[b] + LyingFor(b)' = rights'[b]
  BY DEF SharesAreKept
<1> DEFINE w == WeightsOf(b)
<1>1. /\ epoch \in Nat \ {0} /\ epoch' = epoch + 1 /\ received' = received /\ rights' = rights
      /\ splits \in [1..epoch -> Nat] /\ w \in [1..epoch -> Nat]
  BY WeightsAreNat DEF IInv, GovInv, GovTypes, FeeTypes, ApplyAllocation
<1>2. splits' \in [1..(epoch + 1) -> Nat] /\ w' \in [1..(epoch + 1) -> Nat]
  BY <1>1, WeightsThen DEF IInv, GovInv, FeeTypes
<1>3. /\ \A k \in 1..epoch : splits'[k] = splits[k] /\ (w')[k] = w[k]
      /\ splits'[epoch + 1] = 0
  BY <1>1 DEF ApplyAllocation, WeightsOf
<1>4. /\ LyingFor(b) = SharedBy(splits, w, epoch)
      /\ LyingFor(b)' = SharedBy(splits', w', epoch + 1)
  BY <1>1, LyingIsShared, LyingThen
<1> HIDE DEF w
<1>5. PICK x : x = w'
  OBVIOUS
<1>6. PICK n, m, s, t, v : n = epoch /\ m = epoch + 1 /\ s = splits /\ t = splits' /\ v = w
  OBVIOUS
<1>7. OneMoreEpoch(n, s, v, m, t, x)
  BY <1>1, <1>2, <1>3, <1>5, <1>6 DEF OneMoreEpoch
<1>8. SharedBy(t, x, m) = SharedBy(s, v, n)
  BY <1>7, EmptySplitAddsNothing
<1> QED
  BY <1>1, <1>4, <1>5, <1>6, <1>8 DEF SharesAreKept

Kept == IInv /\ SharesAreKept

LEMMA KeptStart == Init => SharesAreKept
<1> SUFFICES ASSUME Init, NEW b \in Beneficiaries
             PROVE  received[b] + LyingFor(b) = rights[b]
  BY DEF SharesAreKept
<1> DEFINE f == [e \in 1..1 |-> splits[e] * allocations[e][b]]
<1>1. IInv
  BY StartHolds
<1>2. epoch = 1 /\ splits[1] = 0 /\ received[b] = 0 /\ rights[b] = 0
  BY DEF Init
<1>3. allocations[1][b] \in Nat
  BY <1>1, <1>2, WeightsAreNat DEF WeightsOf
<1>4. \A e \in 1..1 : f[e] = 0
  <2>1. f[1] = splits[1] * allocations[1][b]
    OBVIOUS
  <2>2. \A e \in 1..1 : e = 1
    OBVIOUS
  <2> HIDE DEF f
  <2> QED
    BY <1>2, <1>3, <2>1, <2>2
<1>5. LyingFor(b) = SumFunction(f) /\ f \in [1..1 -> {0}]
  BY <1>2, <1>4 DEF LyingFor
<1> DEFINE S == 1..1
<1>6. IsFiniteSet(S)
  <2>1. S = {1}
    OBVIOUS
  <2> QED
    BY <2>1, FS_Singleton
<1>7. (\A e \in S : f[e] = 0) /\ f \in [S -> {0}]
  BY <1>4, <1>5
<1> HIDE DEF f, S
<1>8. SumFunction(f) = SumFunctionOnSet(f, S)
  BY <1>7, SumOfFunction
<1>9. SumFunctionOnSet(f, S) = 0
  BY <1>6, <1>7, SumOfZeros
<1> QED
  BY <1>2, <1>5, <1>8, <1>9

LEMMA KeptStep == Kept /\ [Next]_vars => SharesAreKept'
<1> SUFFICES ASSUME IInv, SharesAreKept, [Next]_vars PROVE SharesAreKept'
  BY DEF Kept
<1>0. IInv' /\ FeeTypes
  BY StepKeeps DEF IInv
<1>1. CASE GovernanceStep
  <2>1. \/ UNCHANGED <<epoch, allocations, splits, received, rights>>
        \/ \E id \in 1..count : ApplyAllocation(id)
    BY <1>1 DEF GovernanceStep, Propose, SetConsent, feeVars
  <2> QED
    BY <1>0, <2>1, SharesUntouched, NewEpochIsKept
<1>2. ASSUME NEW p \in Pools,
             ConfigurePool(p) \/ Swap(p) \/ CollectAggregateFees(p) \/ WithdrawPoolCreatorFees(p)
      PROVE  SharesAreKept'
  <2>1. UNCHANGED <<epoch, allocations, splits, received, rights>>
    BY <1>2 DEF ConfigurePool, Swap, CollectAggregateFees, WithdrawPoolCreatorFees, governanceVars
  <2> QED
    BY <2>1, SharesUntouched
<1>3. ASSUME NEW p \in Pools, Collect(p) PROVE SharesAreKept'
  <2>1. PICK c \in 0..accrued[p], d \in 0..accrued[p] : ToCurrentSplit(creatorFees[p] + c)
    BY <1>3 DEF Collect
  <2>2. creatorFees[p] + c \in Nat
    BY <1>0 DEF FeeTypes
  <2>3. UNCHANGED <<governanceVars, received>>
    BY <1>3 DEF Collect
  <2> QED
    BY <2>1, <2>2, <2>3, PromiseIsKept
<1>4. ASSUME NEW p \in Pools, CollectAll(p) PROVE SharesAreKept'
  <2>1. PICK c \in 0..accrued[p], d \in 0..accrued[p] :
          ToCurrentSplit(creatorFees[p] + c + protocolFees[p] + d)
    BY <1>4 DEF CollectAll
  <2>2. creatorFees[p] + c + protocolFees[p] + d \in Nat
    BY <1>0 DEF FeeTypes
  <2>3. UNCHANGED <<governanceVars, received>>
    BY <1>4 DEF CollectAll
  <2> QED
    BY <2>1, <2>2, <2>3, PromiseIsKept
<1>5. ASSUME Sweep PROVE SharesAreKept'
  <2>1. held \in Nat /\ ToCurrentSplit(held) /\ UNCHANGED <<governanceVars, received>>
    BY <1>0, <1>5 DEF Sweep, FeeTypes
  <2> QED
    BY <2>1, PromiseIsKept
<1>6. ASSUME UNCHANGED vars PROVE SharesAreKept'
  BY <1>6, SharesUntouched DEF vars, governanceVars, feeVars
<1> QED
  BY <1>1, <1>2, <1>3, <1>4, <1>5, <1>6, DistributionIsKept DEF Next, RevenueStep, KeeperStep

(* Revenue belongs to those it was allocated to when it was collected.     *)
THEOREM SharesKept == Spec => []SharesAreKept
<1>1. Init => Kept
  BY StartHolds, KeptStart DEF Kept
<1>2. Kept /\ [Next]_vars => Kept'
  BY KeptStep, StepKeeps DEF Kept
<1>3. Kept => SharesAreKept
  BY DEF Kept
<1> QED
  BY <1>1, <1>2, <1>3, PTL DEF Spec

-----------------------------------------------------------------------------
(* Pools uses the controller as its specification allows. *)

LEMMA PoolsStepIsStep == [PoolsNext]_<<vars, marketVars>> => [Next]_vars
<1> SUFFICES ASSUME [PoolsNext]_<<vars, marketVars>> PROVE [Next]_vars
  OBVIOUS
<1>1. ASSUME NEW p \in Pools, NEW st \in Statements, Create(p, st) PROVE Next
  BY <1>1 DEF Create, Next, RevenueStep
<1>2. ASSUME NEW p \in Pools, NEW token \in Statements, NEW hook \in Statements,
             CreateForeign(p, token, hook)
      PROVE  UNCHANGED vars
  BY <1>2 DEF CreateForeign, vars
<1>3. ASSUME NEW p \in Pools, Trade(p) PROVE [Next]_vars
  BY <1>3 DEF Trade, Next, RevenueStep, vars
<1>4. ASSUME NEW p \in Pools, Initialize(p) \/ AddLiquidity(p) \/ RemoveLiquidity(p)
      PROVE  UNCHANGED vars
  BY <1>4 DEF Initialize, AddLiquidity, RemoveLiquidity, vars
<1>5. ASSUME NEW st \in Statements, Resolve(st) PROVE UNCHANGED vars
  BY <1>5 DEF Resolve, vars
<1>6. CASE MarketStep
  BY <1>1, <1>2, <1>3, <1>4, <1>5, <1>6 DEF MarketStep
<1>7. CASE GovernanceStep \/ KeeperStep
  BY <1>7 DEF Next, RevenueStep
<1> QED
  BY <1>6, <1>7 DEF PoolsNext

(* With pools created, opened, traded in and resolved around it, the       *)
(* controller still behaves as its own specification says.                 *)
THEOREM PoolsUseTheController == PoolsSpec => Spec
BY PoolsStepIsStep, PTL DEF PoolsSpec, PoolsInit, Spec

(* So in the composed system too, nobody's weight falls without consent.   *)
THEOREM CutsNeedConsentWithPools == PoolsSpec => NoCutWithoutConsent
BY PoolsUseTheController, CutsNeedConsent, PTL

(* And revenue still belongs to those it was allocated to.                 *)
THEOREM SharesKeptWithPools == PoolsSpec => []SharesAreKept
BY PoolsUseTheController, SharesKept, PTL

-----------------------------------------------------------------------------
(* A pool that a hook took in trades the token of that hook's statement.   *)

HooksFit ==
  /\ tokensOf \in [Pools -> Statements \cup {None}]
  /\ hookOf \in [Pools -> Statements \cup {None}]
  /\ statementOf \in [Pools -> Statements \cup {None}]
  /\ \A p \in Pools : statementOf[p] = tokensOf[p] /\ hookOf[p] = tokensOf[p]

LEMMA RegistrationFits ==
  ASSUME HooksFit, NEW p \in Pools, NEW token \in Statements, NEW hook \in Statements,
         RegisterPool(p, token, hook)
  PROVE  HooksFit'
<1>1. hook = token
  BY DEF RegisterPool, Accepts
<1>2. /\ tokensOf' = [tokensOf EXCEPT ![p] = token]
      /\ hookOf' = [hookOf EXCEPT ![p] = token]
      /\ statementOf' = [statementOf EXCEPT ![p] = token]
  BY <1>1 DEF RegisterPool
<1> QED
  BY <1>2 DEF HooksFit

LEMMA HooksStayFit == HooksFit /\ [PoolsNext]_<<vars, marketVars>> => HooksFit'
<1> SUFFICES ASSUME HooksFit, [PoolsNext]_<<vars, marketVars>> PROVE HooksFit'
  OBVIOUS
<1>1. ASSUME NEW p \in Pools, NEW st \in Statements, Create(p, st) PROVE HooksFit'
  BY <1>1, RegistrationFits DEF Create
<1>2. ASSUME NEW p \in Pools, NEW token \in Statements, NEW hook \in Statements,
             CreateForeign(p, token, hook)
      PROVE  HooksFit'
  BY <1>2, RegistrationFits DEF CreateForeign
<1>3. ASSUME NEW p \in Pools,
             Initialize(p) \/ AddLiquidity(p) \/ RemoveLiquidity(p) \/ Trade(p)
      PROVE  UNCHANGED <<tokensOf, hookOf, statementOf>>
  BY <1>3 DEF Initialize, AddLiquidity, RemoveLiquidity, Trade
<1>4. ASSUME NEW st \in Statements, Resolve(st) PROVE UNCHANGED <<tokensOf, hookOf, statementOf>>
  BY <1>4 DEF Resolve, poolVars
<1>5. ASSUME UNCHANGED <<tokensOf, hookOf, statementOf>> PROVE HooksFit'
  BY <1>5 DEF HooksFit
<1>6. CASE MarketStep
  BY <1>1, <1>2, <1>3, <1>4, <1>5, <1>6 DEF MarketStep
<1>7. CASE UNCHANGED marketVars
  BY <1>5, <1>7 DEF marketVars, poolVars
<1> QED
  BY <1>6, <1>7 DEF PoolsNext

OnlyExits(p) ==
  /\ liquidity'[p] <= liquidity[p]
  /\ initialized'[p] = initialized[p]
  /\ trades'[p] = trades[p]

Measured ==
  /\ liquidity \in [Pools -> Int] /\ initialized \in [Pools -> BOOLEAN] /\ trades \in [Pools -> Int]

LEMMA StaysMeasured == Measured /\ [PoolsNext]_<<vars, marketVars>> => Measured'
<1> SUFFICES ASSUME Measured, [PoolsNext]_<<vars, marketVars>> PROVE Measured'
  OBVIOUS
<1>1. ASSUME NEW p \in Pools, Initialize(p) PROVE Measured'
  BY <1>1 DEF Initialize, Measured
<1>2. ASSUME NEW p \in Pools, AddLiquidity(p) PROVE Measured'
  BY <1>2 DEF AddLiquidity, Measured
<1>3. ASSUME NEW p \in Pools, RemoveLiquidity(p) PROVE Measured'
  BY <1>3 DEF RemoveLiquidity, Measured
<1>4. ASSUME NEW p \in Pools, Trade(p) PROVE Measured'
  BY <1>4 DEF Trade, Measured
<1>5. ASSUME UNCHANGED <<liquidity, initialized, trades>> PROVE Measured'
  BY <1>5 DEF Measured
<1>6. ASSUME NEW p \in Pools, NEW st \in Statements, Create(p, st) PROVE Measured'
  BY <1>5, <1>6 DEF Create, RegisterPool
<1>7. ASSUME NEW p \in Pools, NEW token \in Statements, NEW hook \in Statements,
             CreateForeign(p, token, hook)
      PROVE  Measured'
  BY <1>5, <1>7 DEF CreateForeign, RegisterPool
<1>8. ASSUME NEW st \in Statements, Resolve(st) PROVE Measured'
  BY <1>5, <1>8 DEF Resolve, poolVars
<1>9. CASE MarketStep
  BY <1>1, <1>2, <1>3, <1>4, <1>6, <1>7, <1>8, <1>9 DEF MarketStep
<1>10. CASE UNCHANGED marketVars
  BY <1>5, <1>10 DEF marketVars, poolVars
<1> QED
  BY <1>9, <1>10 DEF PoolsNext

LEMMA ResolvedPoolsStep ==
  ASSUME HooksFit, Measured, [PoolsNext]_<<vars, marketVars>>,
         NEW p \in Pools, statementOf[p] # None, tokensOf[p] \in resolved
  PROVE  OnlyExits(p)
<1> USE DEF OnlyExits
<1>1. hookOf[p] \in resolved /\ statementOf[p] \in resolved
  BY DEF HooksFit
<1>2. liquidity[p] \in Int
  BY DEF Measured
<1>3. ASSUME UNCHANGED <<liquidity, initialized, trades>> PROVE OnlyExits(p)
  BY <1>2, <1>3
<1>4. ASSUME NEW q \in Pools, NEW st \in Statements, Create(q, st) PROVE OnlyExits(p)
  BY <1>3, <1>4 DEF Create, RegisterPool
<1>5. ASSUME NEW q \in Pools, NEW token \in Statements, NEW hook \in Statements,
             CreateForeign(q, token, hook)
      PROVE  OnlyExits(p)
  BY <1>3, <1>5 DEF CreateForeign, RegisterPool
<1>6. ASSUME NEW q \in Pools, Initialize(q) PROVE OnlyExits(p)
  <2>1. q # p
    BY <1>1, <1>6 DEF Initialize
  <2>2. liquidity'[p] = liquidity[p]
    BY <1>6, <2>1 DEF Initialize, Measured
  <2>3. initialized'[p] = initialized[p]
    BY <1>6, <2>1 DEF Initialize, Measured
  <2>4. trades' = trades
    BY <1>6 DEF Initialize
  <2> QED
    BY <1>2, <2>2, <2>3, <2>4
<1>7. ASSUME NEW q \in Pools, AddLiquidity(q) PROVE OnlyExits(p)
  BY <1>1, <1>2, <1>7 DEF AddLiquidity, Enterable, Measured
<1>8. ASSUME NEW q \in Pools, RemoveLiquidity(q) PROVE OnlyExits(p)
  BY <1>2, <1>8 DEF RemoveLiquidity, Measured
<1>9. ASSUME NEW q \in Pools, Trade(q) PROVE OnlyExits(p)
  BY <1>1, <1>2, <1>9 DEF Trade, Enterable, Measured
<1>10. ASSUME NEW st \in Statements, Resolve(st) PROVE OnlyExits(p)
  BY <1>3, <1>10 DEF Resolve, poolVars
<1>11. CASE MarketStep
  BY <1>4, <1>5, <1>6, <1>7, <1>8, <1>9, <1>10, <1>11 DEF MarketStep
<1>12. CASE UNCHANGED marketVars
  BY <1>3, <1>12 DEF marketVars, poolVars
<1> QED
  BY <1>11, <1>12 DEF PoolsNext

(* No pool that a hook took in is opened, grows or trades after the        *)
(* resolution of its statement, whoever made it and whenever.              *)
THEOREM Finality == PoolsSpec => ResolvedPoolsOnlyExit
<1>1. PoolsInit => HooksFit /\ Measured
  BY DEF PoolsInit, HooksFit, Measured
<1>2. HooksFit /\ Measured /\ [PoolsNext]_<<vars, marketVars>> =>
        [\A p \in Pools :
           statementOf[p] # None /\ tokensOf[p] \in resolved =>
             /\ liquidity'[p] <= liquidity[p]
             /\ initialized'[p] = initialized[p]
             /\ trades'[p] = trades[p]]_<<vars, marketVars>>
  BY ResolvedPoolsStep DEF OnlyExits
<1> QED
  BY <1>1, <1>2, HooksStayFit, StaysMeasured, PTL DEF PoolsSpec, ResolvedPoolsOnlyExit
=============================================================================
