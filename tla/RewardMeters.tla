------------------------------ MODULE RewardMeters ------------------------------
(***************************************************************************)
(* contracts/monetary/RewardMeters.sol: the two meters that record weights *)
(* in RewardBudget, composed with it.  IncentiveFinalityHook weighs swaps  *)
(* inside the Balancer callback and stops them when the statement is       *)
(* resolved; BptLockMeter weighs pool tokens locked until the program      *)
(* ends.  Governance may here run any batch at any time; module Governance *)
(* says how it comes to that.  Everything else is open to anyone.          *)
(*                                                                         *)
(* The hook's running totals totalTVolume and totalExactInTFees, which     *)
(* nothing reads, are left out.                                            *)
(***************************************************************************)
EXTENDS RewardBudget

CONSTANTS
  Hook, LockMeter,  \* the two meters
  Pools,            \* pools of the hook's statement
  Slots,            \* 1..8 in the code
  None,
  Batches,          \* what governance may vote for
  MaxBpt            \* bound: pool tokens of a pool in existence

(* A batch mints, creates a program and may bind it (target: the meter     *)
(* that is told to, None if none is).                                      *)
BatchShape ==
  [meter : Meters, window : Windows, budget : Budgets, minted : Mints,
   target : {Hook, LockMeter, None}, pool : Pools, metric : 0..1]

ASSUME MetersAssumption ==
  /\ {Hook, LockMeter} \subseteq Meters
  /\ Slots \subseteq Nat
  /\ None \notin Pools \cup Meters /\ Hook # LockMeter /\ LockMeter \notin Accounts
  /\ Batches \subseteq BatchShape

VARIABLES
  resolved,     \* the statement has an outcome
  registered,   \* Hook.registeredPool
  official,     \* AllocationController.officialPool
  binding,      \* Hook.programBinding[id]
  slots,        \* Hook.poolProgramSlots[pool]: 0 or a program id
  programPool,  \* LockMeter.programPool[id]
  deposits,     \* LockMeter.deposits[id][account]
  bpt           \* pool |-> pool token balances

meterVars == <<resolved, registered, official, binding, slots, programPool, deposits, bpt>>

AllIds == 1..MaxPrograms
vars == <<budgetVars, meterVars>>

BptHolders == Accounts \cup {LockMeter}

-----------------------------------------------------------------------------
(* The statement and its pools *)

Resolve ==
  /\ resolved' = TRUE
  /\ UNCHANGED <<budgetVars, registered, official, binding, slots, programPool, deposits, bpt>>

(* The coordinator's pools are official; anyone may also register a pool   *)
(* with the hook at Balancer's factory.                                    *)
OnRegister(pool, byCoordinator) ==
  /\ ~resolved
  /\ pool \notin registered
  /\ registered' = registered \cup {pool}
  /\ official' = IF byCoordinator THEN official \cup {pool} ELSE official
  /\ UNCHANGED <<budgetVars, resolved, binding, slots, programPool, deposits, bpt>>

AddLiquidity(pool, a) ==
  /\ pool \in registered /\ ~resolved
  /\ MapThenSumSet(LAMBDA h : bpt[pool][h], BptHolders) < MaxBpt
  /\ bpt' = [bpt EXCEPT ![pool][a] = @ + 1]
  /\ UNCHANGED <<budgetVars, resolved, registered, official, binding, slots, programPool, deposits>>

(* Exits have no hook: they go on after the resolution. *)
RemoveLiquidity(pool, a) ==
  /\ bpt[pool][a] > 0
  /\ bpt' = [bpt EXCEPT ![pool][a] = @ - 1]
  /\ UNCHANGED <<budgetVars, resolved, registered, official, binding, slots, programPool, deposits>>

-----------------------------------------------------------------------------
(* IncentiveFinalityHook *)

(* seen: the programs as the call reads them, which may be those an earlier *)
(* call of the same batch left.                                            *)
Bindable(seen, meter, id) ==
  id \in DOMAIN seen /\ seen[id].meter = meter /\ now < seen[id].start /\ ~seen[id].closed

(* Mutant: a program's slot is free as soon as the program has started. *)
FreeSlot_Started(seen, pool, i) == slots[pool][i] # 0 => seen[slots[pool][i]].start <= now

FreeSlot(seen, pool, i) == slots[pool][i] # 0 => seen[slots[pool][i]].end <= now

ConfigureSwaps(seen, id, pool, metric) ==
  /\ pool \in registered \cap official
  /\ Bindable(seen, Hook, id)
  /\ binding[id].pool = None
  /\ \E i \in Slots :
       /\ FreeSlot(seen, pool, i)
       /\ \A j \in Slots : j < i => ~FreeSlot(seen, pool, j)
       /\ slots' = [slots EXCEPT ![pool][i] = id]
  /\ binding' = [binding EXCEPT ![id] = [pool |-> pool, metric |-> metric]]
  /\ UNCHANGED <<resolved, registered, official, programPool, deposits, bpt>>

(* The programs of the pool that measure now, and what they add: the T leg *)
(* of the swap, or the fee it paid in T if it has one.                     *)
Measuring(pool) == {id \in {slots[pool][i] : i \in Slots} \ {0} : InWindow(id)}

MeasureOf(id, volume, fee) == IF binding[id].metric = 0 THEN volume ELSE fee

(* A swap through another router than the trusted one is not eligible.     *)
Measured(pool, volume, fee, eligible) ==
  [id \in {k \in Measuring(pool) : eligible /\ MeasureOf(k, volume, fee) > 0} |->
     MeasureOf(id, volume, fee)]

Swap(pool, a, volume, fee, eligible) ==
  LET added == Measured(pool, volume, fee, eligible)
  IN /\ pool \in registered /\ ~resolved
     /\ IF DOMAIN added = {} THEN UNCHANGED budgetVars ELSE RecordWeights(Hook, a, added)
     /\ UNCHANGED meterVars

-----------------------------------------------------------------------------
(* BptLockMeter *)

ConfigureLock(seen, id, pool) ==
  /\ pool \in official
  /\ Bindable(seen, LockMeter, id)
  /\ programPool[id] = None
  /\ programPool' = [programPool EXCEPT ![id] = pool]
  /\ UNCHANGED <<resolved, registered, official, binding, slots, deposits, bpt>>

Stake(id, a, n) ==
  LET pool == programPool[id]
  IN /\ id \in Ids /\ pool # None
     /\ InWindow(id)
     /\ bpt[pool][a] >= n
     /\ bpt' = [bpt EXCEPT ![pool][a] = @ - n, ![pool][LockMeter] = @ + n]
     /\ deposits' = [deposits EXCEPT ![id][a] = @ + n]
     /\ RecordWeights(LockMeter, a, [x \in {id} |-> n * (programs[id].end - now)])
     /\ UNCHANGED <<resolved, registered, official, binding, slots, programPool>>

Withdrawable(id, a) ==
  /\ id \in Ids
  /\ now >= programs[id].end
  /\ deposits[id][a] > 0
  /\ bpt[programPool[id]][LockMeter] >= deposits[id][a]

ToStaker(id, a) ==
  bpt' = [bpt EXCEPT ![programPool[id]][LockMeter] = @ - deposits[id][a],
                     ![programPool[id]][a] = @ + deposits[id][a]]

(* Mutant: the deposit is paid out but not cleared. *)
Withdraw_Kept(id, a) ==
  /\ Withdrawable(id, a)
  /\ ToStaker(id, a)
  /\ UNCHANGED <<budgetVars, resolved, registered, official, binding, slots, programPool, deposits>>

Withdraw(id, a) ==
  /\ Withdrawable(id, a)
  /\ deposits' = [deposits EXCEPT ![id][a] = 0]
  /\ ToStaker(id, a)
  /\ UNCHANGED <<budgetVars, resolved, registered, official, binding, slots, programPool>>

-----------------------------------------------------------------------------
(* The batch's last call: the meter binds the program of the expected id.  *)
Configure(b, id) ==
  \/ b.target = Hook /\ ConfigureSwaps(programs', id, b.pool, b.metric)
  \/ b.target = LockMeter /\ ConfigureLock(programs', id, b.pool)
  \/ b.target = None /\ UNCHANGED meterVars

(* All of a batch happens, or nothing.                                     *)
RunBatch(b, id) ==
  /\ CreateProgram(id, b.meter, b.window, b.budget, b.minted)
  /\ Configure(b, id)

-----------------------------------------------------------------------------
MetersInit ==
  /\ resolved = FALSE
  /\ registered = {} /\ official = {}
  /\ binding = [id \in AllIds |-> [pool |-> None, metric |-> 0]]
  /\ slots = [pool \in Pools |-> [i \in Slots |-> 0]]
  /\ programPool = [id \in AllIds |-> None]
  /\ deposits = [id \in AllIds |-> [a \in Accounts |-> 0]]
  /\ bpt = [pool \in Pools |-> [h \in BptHolders |-> 0]]

Market ==
  \/ Resolve
  \/ \E pool \in Pools, byCoordinator \in BOOLEAN : OnRegister(pool, byCoordinator)
  \/ \E pool \in Pools, a \in Accounts : AddLiquidity(pool, a) \/ RemoveLiquidity(pool, a)
  \/ \E pool \in Pools, a \in Accounts, fee \in 0..1, eligible \in BOOLEAN :
       Swap(pool, a, 1, fee, eligible)
  \/ \E id \in AllIds, a \in Accounts, n \in 1..MaxBpt : Stake(id, a, n)
  \/ \E id \in AllIds, a \in Accounts : Withdraw(id, a)

(* What anyone may do at RewardBudget. *)
Rewards ==
  /\ \/ \E n \in Mints : Fund(n)
     \/ \E id \in Ids, a \in Accounts : Claim(id, a)
     \/ \E id \in Ids : Close(id)
     \/ Tick
  /\ UNCHANGED meterVars

Init == BudgetInit /\ MetersInit

Next ==
  \/ \E b \in Batches, id \in AllIds : RunBatch(b, id)
  \/ Market
  \/ Rewards

Spec == Init /\ [][Next]_vars

(* Anyone may close an expired program, and blocks keep coming. *)
FairSpec ==
  /\ Spec
  /\ WF_vars(Tick /\ UNCHANGED meterVars)
  /\ WF_vars((\E id \in Ids : Close(id)) /\ UNCHANGED meterVars)

-----------------------------------------------------------------------------
(* Properties *)

(* Metering never stands in the way of trading: while the statement is     *)
(* open, no combination of bound, expired or foreign programs makes the    *)
(* hook's recordWeight calls, and with them the swap, revert.              *)
MeteringNeverBlocksSwaps ==
  \A pool \in registered, fee \in 0..1 :
    ~resolved /\ (\A id \in Ids : programs[id].totalWeight < MaxWeight)
      => Recordable(Hook, Measured(pool, 1, fee, TRUE))

(* A program that is bound to a pool's swaps is measured until it ends:    *)
(* the reuse of slots never evicts a running one or one yet to start.      *)
RunningProgramsKeepTheirSlot ==
  \A id \in Ids :
    binding[id].pool # None /\ now < programs[id].end
      => Cardinality({i \in Slots : slots[binding[id].pool][i] = id}) = 1

(* The two sides of a slot: whoever holds one is measured to the end, and  *)
(* who is measured never stops the pool.                                   *)
MetersServeThePool == MeteringNeverBlocksSwaps /\ RunningProgramsKeepTheirSlot

(* What earns is locked: until a lock program ends, the accounts with      *)
(* weight in it are those with pool tokens in it, and nobody has more      *)
(* weight than the tokens still locked could have earned.                  *)
WeightIsLocked ==
  \A id \in Ids, a \in Accounts :
    programPool[id] # None /\ now < programs[id].end =>
      /\ weights[id][a] > 0 <=> deposits[id][a] > 0
      /\ weights[id][a] <= deposits[id][a] * (programs[id].end - programs[id].start)

(* Everyone may take their pool tokens back once the program has ended, in *)
(* any order, whatever else is staked and whether or not the statement was *)
(* resolved meanwhile.                                                     *)
StakersCanLeave ==
  \A id \in Ids, a \in Accounts :
    deposits[id][a] > 0 /\ now >= programs[id].end => Withdrawable(id, a)

(* The two sides of a lock program, over every order of deposits, the end  *)
(* of the program, resolution and withdrawals: no weight without a lock,   *)
(* and no lock without a way out.                                          *)
LocksAreFair == WeightIsLocked /\ StakersCanLeave
=============================================================================
