--------------------------- MODULE MCRewardMeters ---------------------------
(***************************************************************************)
(* A small instance of RewardMeters: two programs, two accounts, both      *)
(* meters over one budget.  A budget of 3 over weights 1 and 2 makes exact *)
(* shares, shares rounded down and dust.                                   *)
(***************************************************************************)
EXTENDS RewardMeters, TLC

(* One window ends when another starts; the third contains both. *)
First == [start |-> 1, end |-> 2, deadline |-> 3]
Second == [start |-> 2, end |-> 3, deadline |-> 4]
Both == [start |-> 1, end |-> 3, deadline |-> 4]
WindowSet == {First, Second, Both}
BudgetSet == {3}
MintSet == {0, 3}
OneSlot == {1}

CONSTANT p1
Batch(meter, window, minted, target, metric) ==
  [meter |-> meter, window |-> window, budget |-> 3, minted |-> minted,
   target |-> target, pool |-> p1, metric |-> metric]

(* Programs of both meters, a program bound at the wrong one, one that     *)
(* counts on tokens the contract has, and one that is not bound.           *)
BatchSet == {Batch(Hook, First, 3, Hook, 0), Batch(Hook, Second, 3, Hook, 0),
             Batch(Hook, Both, 3, Hook, 1), Batch(LockMeter, Both, 3, LockMeter, 0),
             Batch(LockMeter, First, 3, Hook, 0), Batch(Hook, Second, 0, None, 0)}
Symmetry == Permutations(Accounts)
=============================================================================
