--------------------------- MODULE CollateralLedger ---------------------------
(***************************************************************************)
(* What a complete-set market promises, without saying who holds what:     *)
(* every question has its collateral and two kinds of outstanding claims.  *)
(* Claims are issued in pairs against collateral, pairs are bought back,   *)
(* and once the question is answered the winning claims, and only they,    *)
(* draw on the collateral of their own question.                           *)
(*                                                                         *)
(* CompleteSets, where balances are spread over users, the router and the  *)
(* wrapper factory and all collateral lies in one CTF account, is shown to *)
(* implement it.                                                           *)
(***************************************************************************)
EXTENDS Integers

CONSTANTS
  Markets,  \* the questions
  Moves     \* what one step can move

VARIABLES
  answer,  \* question |-> 0 (not answered), 1 (YES) or 2 (NO)
  locked,  \* question |-> collateral paid in for it and not yet paid out
  issued   \* question |-> outstanding claims of the sides 1 (YES) and 2 (NO)

ledgerVars == <<answer, locked, issued>>

LedgerInit ==
  /\ answer = [q \in Markets |-> 0]
  /\ locked = [q \in Markets |-> 0]
  /\ issued = [q \in Markets |-> [s \in 1..2 |-> 0]]

Decide(q, outcome) ==
  /\ answer[q] = 0
  /\ answer' = [answer EXCEPT ![q] = outcome]
  /\ UNCHANGED <<locked, issued>>

(* Complete sets are sold before and after the answer. *)
IssuePairs(q, n) ==
  /\ locked' = [locked EXCEPT ![q] = @ + n]
  /\ issued' = [issued EXCEPT ![q] = [s \in 1..2 |-> @[s] + n]]
  /\ UNCHANGED answer

BuyBackPairs(q, n) ==
  /\ \A s \in 1..2 : n <= issued[q][s]
  /\ locked' = [locked EXCEPT ![q] = @ - n]
  /\ issued' = [issued EXCEPT ![q] = [s \in 1..2 |-> @[s] - n]]
  /\ UNCHANGED answer

(* Claims of either side are given up; those of the winning side are paid. *)
PayClaims(q, given) ==
  /\ answer[q] # 0
  /\ \A s \in 1..2 : given[s] <= issued[q][s]
  /\ locked' = [locked EXCEPT ![q] = @ - given[answer[q]]]
  /\ issued' = [issued EXCEPT ![q] = [s \in 1..2 |-> @[s] - given[s]]]
  /\ UNCHANGED answer

LedgerNext ==
  \E q \in Markets :
    \/ \E outcome \in 1..2 : Decide(q, outcome)
    \/ \E n \in Moves : IssuePairs(q, n)
    \/ \E n \in Moves : BuyBackPairs(q, n)
    \/ \E given \in [1..2 -> Moves] : PayClaims(q, given)

LedgerSpec == LedgerInit /\ [][LedgerNext]_ledgerVars

-----------------------------------------------------------------------------
LedgerTypeOK ==
  /\ answer \in [Markets -> 0..2]
  /\ locked \in [Markets -> Nat]
  /\ issued \in [Markets -> [1..2 -> Nat]]

(* The collateral of a question is exactly what its holders can still      *)
(* draw: one unit per pair while it is open, one unit per winning claim    *)
(* once it is answered.  Nobody is paid twice, nothing is left over, and   *)
(* one question's claims never eat into another's collateral.              *)
Covered ==
  \A q \in Markets :
    \A s \in 1..2 : answer[q] \in {0, s} => locked[q] = issued[q][s]
=============================================================================
