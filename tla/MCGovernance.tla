---------------------------- MODULE MCGovernance ----------------------------
(***************************************************************************)
(* A small instance of Governance: two members, two proposals that may     *)
(* name the same or different programs.  Times leave room for a vote, the  *)
(* timelock and the start of the program.                                  *)
(***************************************************************************)
EXTENDS Governance, TLC

Soon == [start |-> 4, end |-> 5, deadline |-> 6]
Later == [start |-> 5, end |-> 6, deadline |-> 7]
WindowSet == {Soon, Later}
BudgetSet == {3}
MintSet == {3}
OneSlot == {1}

CONSTANT p1
Batch(meter, window, minted, target, metric) ==
  [meter |-> meter, window |-> window, budget |-> 3, minted |-> minted,
   target |-> target, pool |-> p1, metric |-> metric]

(* A program that is bound to the pool's swaps, one that is bound to its   *)
(* tokens and one that is not bound.                                       *)
BatchSet == {Batch(Hook, Soon, 3, Hook, 0), Batch(LockMeter, Soon, 3, LockMeter, 0),
             Batch(Hook, Later, 3, None, 0)}
Symmetry == Permutations(Members)
=============================================================================
