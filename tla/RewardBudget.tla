------------------------------ MODULE RewardBudget ------------------------------
(***************************************************************************)
(* contracts/monetary/RewardBudget.sol: finite reward programs, each with  *)
(* a budget reserved out of the contract's token balance, weights recorded *)
(* by one meter during its window, pro rata claims after it, and a         *)
(* remainder returned when the claims close.                               *)
(*                                                                         *)
(* Arithmetic is checked: a subtraction that would underflow reverts, so   *)
(* it is a guard here.  Program ids start at 1 (0 in the code).            *)
(***************************************************************************)
EXTENDS Integers, FiniteSets, FiniteSetsExt

CONSTANTS
  Accounts, Meters,
  Windows,      \* records [start, end, deadline] that governance may vote for
  Budgets,      \* budgets that governance may vote for
  Mints,        \* what may be minted, or sent, to the contract at once
  MaxTime,      \* bound: last block timestamp
  MaxPrograms,  \* bound: programs created
  MaxWeight,    \* bound: total weight of a program
  MaxFunds      \* bound: tokens sent to the contract by anyone

ASSUME RewardAssumption ==
  /\ Windows \subseteq [start : Nat, end : Nat, deadline : Nat]
  /\ IsFiniteSet(Accounts)
  /\ Budgets \subseteq Nat /\ Mints \subseteq Nat
  /\ MaxTime \in Nat /\ MaxPrograms \in Nat /\ MaxWeight \in Nat /\ MaxFunds \in Nat

VARIABLES
  now,
  count, programs,  \* programs[id] for id in 1..count
  reserved,
  weights,          \* weights[id][account]
  claimed,          \* claimed[id]: the accounts that have claimed
  balance,          \* token balance of the contract
  funded,           \* bound: tokens sent by anyone
  award             \* history: award[id][account], what a claim paid

budgetVars == <<now, count, programs, reserved, weights, claimed, balance, funded, award>>

Ids == 1..count

-----------------------------------------------------------------------------
(* Anyone may send tokens to the contract. *)
Fund(n) ==
  /\ funded + n <= MaxFunds
  /\ funded' = funded + n
  /\ balance' = balance + n
  /\ UNCHANGED <<now, count, programs, reserved, weights, claimed, award>>

NewProgram(meter, w, budget) ==
  [meter |-> meter, start |-> w.start, end |-> w.end, claimDeadline |-> w.deadline,
   budget |-> budget, paid |-> 0, reclaimed |-> 0, totalWeight |-> 0, closed |-> FALSE]

(* Mutant: tokens reserved for other programs count as funds. *)
Unreserved_WholeBalance(held, budget) == held >= budget

Unreserved(held, budget) == held >= reserved /\ held - reserved >= budget

(* Mutant: the program takes the next id, whichever was expected. *)
NextId_Any(expectedId) == TRUE

NextId(expectedId) == expectedId = count + 1

(* One governance batch: minted tokens go to the contract, then            *)
(* createProgram; if any call fails, all are undone.                       *)
CreateProgram(expectedId, meter, w, budget, minted) ==
  /\ count < MaxPrograms
  /\ NextId(expectedId)
  /\ w.start > now /\ w.end > w.start /\ w.deadline > w.end
  /\ budget > 0
  /\ Unreserved(balance + minted, budget)
  /\ count' = count + 1
  /\ programs' = [id \in 1..count' |->
                   IF id \in Ids THEN programs[id] ELSE NewProgram(meter, w, budget)]
  /\ weights' = [id \in 1..count' |->
                  IF id \in Ids THEN weights[id] ELSE [a \in Accounts |-> 0]]
  /\ award' = [id \in 1..count' |->
                IF id \in Ids THEN award[id] ELSE [a \in Accounts |-> 0]]
  /\ claimed' = [id \in 1..count' |-> IF id \in Ids THEN claimed[id] ELSE {}]
  /\ reserved' = reserved + budget
  /\ balance' = balance + minted
  /\ UNCHANGED <<now, funded>>

(* Mutant: the last moment of the window is the first of the claims. *)
InWindow_EndIncluded(id) ==
  /\ now >= programs[id].start /\ now <= programs[id].end
  /\ ~programs[id].closed

InWindow(id) ==
  /\ now >= programs[id].start /\ now < programs[id].end
  /\ ~programs[id].closed

(* A meter's transaction calls recordWeight for one or several programs;   *)
(* added is the weight for each.  No call reverts if all are recordable.   *)
Recordable(meter, added) ==
  /\ DOMAIN added \subseteq Ids
  /\ \A id \in DOMAIN added : programs[id].meter = meter /\ InWindow(id) /\ added[id] > 0
  /\ \A id \in DOMAIN added : programs[id].totalWeight + added[id] <= MaxWeight

RecordWeights(meter, account, added) ==
  /\ Recordable(meter, added)
  /\ weights' = [id \in Ids |->
                  IF id \in DOMAIN added
                  THEN [weights[id] EXCEPT ![account] = @ + added[id]] ELSE weights[id]]
  /\ programs' = [id \in Ids |->
                   IF id \in DOMAIN added
                   THEN [programs[id] EXCEPT !.totalWeight = @ + added[id]] ELSE programs[id]]
  /\ UNCHANGED <<now, count, reserved, claimed, balance, funded, award>>

Claimable(id, a) ==
  LET p == programs[id]
  IN IF p.closed \/ a \in claimed[id] \/ now < p.end \/ now >= p.claimDeadline \/ p.totalWeight = 0
     THEN 0
     ELSE (p.budget * weights[id][a]) \div p.totalWeight

(* Mutant: a claim leaves the reservation as it was. *)
Claim_StillReserved(id, a) ==
  LET amount == Claimable(id, a)
  IN /\ id \in Ids
     /\ amount > 0 /\ amount <= reserved /\ amount <= balance
     /\ claimed' = [claimed EXCEPT ![id] = @ \cup {a}]
     /\ programs' = [programs EXCEPT ![id].paid = @ + amount]
     /\ balance' = balance - amount
     /\ award' = [award EXCEPT ![id][a] = @ + amount]
     /\ UNCHANGED <<now, count, weights, reserved, funded>>

Claim(id, a) ==
  LET amount == Claimable(id, a)
  IN /\ id \in Ids
     /\ amount > 0 /\ amount <= reserved /\ amount <= balance
     /\ claimed' = [claimed EXCEPT ![id] = @ \cup {a}]
     /\ programs' = [programs EXCEPT ![id].paid = @ + amount]
     /\ reserved' = reserved - amount
     /\ balance' = balance - amount
     /\ award' = [award EXCEPT ![id][a] = @ + amount]
     /\ UNCHANGED <<now, count, weights, funded>>

(* Mutant: the whole budget is returned. *)
Remainder_Budget(p) == p.budget

Remainder(p) == p.budget - p.paid

Close(id) ==
  LET p == programs[id]
      r == Remainder(p)
  IN /\ id \in Ids
     /\ ~p.closed /\ now >= p.claimDeadline
     /\ p.paid <= p.budget /\ r <= reserved /\ r <= balance
     /\ programs' = [programs EXCEPT ![id] = [@ EXCEPT !.closed = TRUE, !.reclaimed = r]]
     /\ reserved' = reserved - r
     /\ balance' = balance - r
     /\ UNCHANGED <<now, count, weights, claimed, funded, award>>

Tick ==
  /\ now < MaxTime
  /\ now' = now + 1
  /\ UNCHANGED <<count, programs, reserved, weights, claimed, balance, funded, award>>

-----------------------------------------------------------------------------
BudgetInit ==
  /\ now = 0
  /\ count = 0
  /\ programs = [id \in 1..0 |-> 0]
  /\ weights = [id \in 1..0 |-> 0]
  /\ award = [id \in 1..0 |-> 0]
  /\ claimed = [id \in 1..0 |-> {}]
  /\ reserved = 0 /\ balance = 0 /\ funded = 0

BudgetNext ==
  \/ \E n \in Mints : Fund(n)
  \/ \E expectedId \in 1..MaxPrograms, m \in Meters, w \in Windows, b \in Budgets, n \in Mints :
       CreateProgram(expectedId, m, w, b, n)
  \/ \E m \in Meters, a \in Accounts, ids \in SUBSET Ids :
       ids # {} /\ \E added \in [ids -> Nat \ {0}] : RecordWeights(m, a, added)
  \/ \E id \in Ids, a \in Accounts : Claim(id, a)
  \/ \E id \in Ids : Close(id)
  \/ Tick

BudgetSpec == BudgetInit /\ [][BudgetNext]_budgetVars

-----------------------------------------------------------------------------
(* Properties *)

Programs ==
  [meter : Meters, start : Nat, end : Nat, claimDeadline : Nat, budget : Nat, paid : Nat,
   reclaimed : Nat, totalWeight : Nat, closed : BOOLEAN]

(* No total underflows, and every mapping is total on the programs. *)
TypeOK ==
  /\ now \in Nat /\ count \in Nat /\ reserved \in Nat /\ balance \in Nat /\ funded \in Nat
  /\ programs \in [1..count -> Programs]
  /\ weights \in [1..count -> [Accounts -> Nat]]
  /\ award \in [1..count -> [Accounts -> Nat]]
  /\ claimed \in [1..count -> SUBSET Accounts]

(* What is reserved is there: no sequence of programs, claims and closings *)
(* lets the contract promise tokens it does not hold.                      *)
Funded == reserved <= balance

(* An award is the account's exact share, rounded down, of the budget by   *)
(* the final weights: whatever else is recorded, claimed or closed before  *)
(* or after, no claim is paid by weights that change afterwards and no     *)
(* account is paid twice.                                                  *)
AwardsAreProRata ==
  \A id \in Ids, a \in Accounts :
    award[id][a] =
      IF a \in claimed[id]
      THEN (programs[id].budget * weights[id][a]) \div programs[id].totalWeight
      ELSE 0

Owed(id) == IF programs[id].closed THEN 0 ELSE programs[id].budget - programs[id].paid

(* The reservation is exactly what open programs still owe, so one         *)
(* program's claims and remainder never come out of another's budget.      *)
ReservedIsOwed ==
  /\ reserved = SumFunction([id \in Ids |-> Owed(id)])
  /\ \A id \in Ids : programs[id].paid = SumFunction(award[id])
  /\ \A id \in Ids : programs[id].paid + programs[id].reclaimed <= programs[id].budget

(* Earned rewards are payable and expired programs closable: no order of   *)
(* other claims and closings makes the checked arithmetic revert.          *)
NothingReverts ==
  \A id \in Ids :
    /\ \A a \in Accounts : Claimable(id, a) > 0 =>
         Claimable(id, a) <= reserved /\ Claimable(id, a) <= balance
    /\ ~programs[id].closed =>
         /\ programs[id].paid <= programs[id].budget
         /\ Remainder(programs[id]) <= reserved
         /\ Remainder(programs[id]) <= balance

(* Every program ends: its budget is paid or returned, and nothing stays   *)
(* reserved for it.                                                        *)
ReservationsEnd ==
  []<>(reserved = 0 /\ \A id \in Ids : programs[id].closed)
=============================================================================
