--------------------------------- MODULE Pools ---------------------------------
(***************************************************************************)
(* contracts/VaultIntegration.sol, contracts PoolCoordinator (with         *)
(* contracts/monetary/PoolCoordinatorV2.sol) and FinalityHook: how pools   *)
(* of a statement's tokens come to be, and what the hook lets Balancer do  *)
(* with them before and after the statement is resolved.  Composed with    *)
(* the AllocationController that the fees of official pools reach.         *)
(*                                                                         *)
(* Liquidity is in units; rates, weights and fee percentages are left out. *)
(***************************************************************************)
EXTENDS AllocationController

CONSTANTS
  Statements,
  None,
  MaxLiquidity, \* bound: units of liquidity in a pool
  MaxTrades     \* bound: swaps in a pool

ASSUME PoolsAssumption == None \notin Statements /\ MaxLiquidity \in Nat /\ MaxTrades \in Nat

VARIABLES
  resolved,     \* the statements with an outcome
  hooks,        \* the statements the coordinator has made a hook for
  tokensOf,     \* pool |-> the statement its outcome token belongs to, None before its creation
  hookOf,       \* pool |-> the statement its hook is bound to
  statementOf,  \* FinalityHook.statementOf, of the pool's hook
  initialized, liquidity,
  trades        \* history: pool |-> swaps done in it

poolVars == <<hooks, tokensOf, hookOf, statementOf, initialized, liquidity, trades>>
marketVars == <<resolved, poolVars>>

-----------------------------------------------------------------------------
(* Creation *)

(* Mutant: any statement's token will do. *)
Accepts_AnyToken(hook, token) == token \notin resolved

(* onRegister: the hook of a statement takes pools of its own open token.  *)
Accepts(hook, token) == token = hook /\ token \notin resolved

(* Balancer's Vault registers a pool with its hook's consent or not at all. *)
RegisterPool(p, token, hook) ==
  /\ tokensOf[p] = None
  /\ Accepts(hook, token)
  /\ tokensOf' = [tokensOf EXCEPT ![p] = token]
  /\ hookOf' = [hookOf EXCEPT ![p] = hook]
  /\ statementOf' = [statementOf EXCEPT ![p] = token]
  /\ UNCHANGED <<resolved, initialized, liquidity, trades>>

(* PoolCoordinator.create: the statement's one hook, the pool, its fees.   *)
Create(p, s) ==
  /\ s \notin resolved
  /\ RegisterPool(p, s, s)
  /\ hooks' = hooks \cup {s}
  /\ ConfigurePool(p)

(* The factory is open to everyone, with any token and any existing hook.  *)
CreateForeign(p, token, hook) ==
  /\ hook \in hooks
  /\ RegisterPool(p, token, hook)
  /\ UNCHANGED <<hooks, governanceVars, feeVars>>

-----------------------------------------------------------------------------
(* What Balancer's Vault asks the hook about *)

(* The callback does not name the pool, so it asks for the hook's statement. *)
Initialize(p) ==
  /\ tokensOf[p] # None /\ ~initialized[p]
  /\ hookOf[p] \notin resolved
  /\ initialized' = [initialized EXCEPT ![p] = TRUE]
  /\ liquidity' = [liquidity EXCEPT ![p] = 1]
  /\ UNCHANGED <<resolved, hooks, tokensOf, hookOf, statementOf, trades, governanceVars, feeVars>>

Enterable(p) == statementOf[p] # None /\ statementOf[p] \notin resolved

AddLiquidity(p) ==
  /\ initialized[p] /\ liquidity[p] < MaxLiquidity
  /\ Enterable(p)
  /\ liquidity' = [liquidity EXCEPT ![p] = @ + 1]
  /\ UNCHANGED <<resolved, hooks, tokensOf, hookOf, statementOf, initialized, trades, governanceVars, feeVars>>

(* No hook stands in the way of an exit. *)
RemoveLiquidity(p) ==
  /\ liquidity[p] > 0
  /\ liquidity' = [liquidity EXCEPT ![p] = @ - 1]
  /\ UNCHANGED <<resolved, hooks, tokensOf, hookOf, statementOf, initialized, trades, governanceVars, feeVars>>

(* The fees of a pool that is not official are its own creator's.          *)
Trade(p) ==
  /\ liquidity[p] > 0 /\ trades[p] < MaxTrades
  /\ Enterable(p)
  /\ IF p \in officialPool THEN Swap(p) ELSE UNCHANGED <<governanceVars, feeVars>>
  /\ trades' = [trades EXCEPT ![p] = @ + 1]
  /\ UNCHANGED <<resolved, hooks, tokensOf, hookOf, statementOf, initialized, liquidity>>

Resolve(s) ==
  /\ resolved' = resolved \cup {s}
  /\ UNCHANGED <<poolVars, governanceVars, feeVars>>

-----------------------------------------------------------------------------
PoolsInit ==
  /\ Init
  /\ resolved = {} /\ hooks = {}
  /\ tokensOf = [p \in Pools |-> None]
  /\ hookOf = [p \in Pools |-> None]
  /\ statementOf = [p \in Pools |-> None]
  /\ initialized = [p \in Pools |-> FALSE]
  /\ liquidity = [p \in Pools |-> 0]
  /\ trades = [p \in Pools |-> 0]

MarketStep ==
  \/ \E p \in Pools, s \in Statements : Create(p, s)
  \/ \E p \in Pools, token, hook \in Statements : CreateForeign(p, token, hook)
  \/ \E p \in Pools : Initialize(p) \/ AddLiquidity(p) \/ RemoveLiquidity(p) \/ Trade(p)
  \/ \E s \in Statements : Resolve(s)

PoolsNext == MarketStep \/ ((GovernanceStep \/ KeeperStep) /\ UNCHANGED marketVars)

PoolsSpec == PoolsInit /\ [][PoolsNext]_<<vars, marketVars>>

FairPoolsSpec == PoolsSpec /\ KeeperFairness

-----------------------------------------------------------------------------
(* Properties *)

(* Finality: once a statement is resolved, no pool of its tokens that the  *)
(* hooks took in, the coordinator's or anyone's, is opened, grows or       *)
(* trades; only exits are left.                                            *)
ResolvedPoolsOnlyExit ==
  [][\A p \in Pools :
       statementOf[p] # None /\ tokensOf[p] \in resolved =>
         /\ liquidity'[p] <= liquidity[p]
         /\ initialized'[p] = initialized[p]
         /\ trades'[p] = trades[p]]_<<vars, marketVars>>
=============================================================================
