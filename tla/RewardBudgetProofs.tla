--------------------------- MODULE RewardBudgetProofs ---------------------------
(***************************************************************************)
(* Theorems about RewardBudget, the meters that record in it and the       *)
(* governance that creates its programs, for all accounts, meters, pools,  *)
(* slots, windows, budgets, weights, batches and members.                  *)
(***************************************************************************)
EXTENDS Governance, Sums, FiniteSetTheorems, TLAPS

(* Nothing was claimed of a program whose window has not ended, and what   *)
(* was claimed had weights to divide by.                                   *)
ClaimsAfterEnd ==
  \A id \in Ids, a \in Accounts :
    a \in claimed[id] => programs[id].end <= now /\ programs[id].totalWeight # 0

IInv == TypeOK /\ Funded /\ ClaimsAfterEnd /\ AwardsAreProRata

LEMMA StartHolds == BudgetInit => IInv
BY DEF BudgetInit, IInv, TypeOK, Funded, ClaimsAfterEnd, AwardsAreProRata, Ids

LEMMA FundKeeps ==
  ASSUME IInv, NEW n \in Nat, Fund(n)
  PROVE  IInv'
BY SMTT(30) DEF IInv, TypeOK, Funded, ClaimsAfterEnd, AwardsAreProRata, Ids, Fund

LEMMA TickKeeps ==
  ASSUME IInv, Tick
  PROVE  IInv'
<1>1. now' \in Nat /\ now <= now'
  BY DEF IInv, TypeOK, Tick
<1>2. UNCHANGED <<count, programs, reserved, weights, claimed, balance, funded, award>>
  BY DEF Tick
<1>3. TypeOK' /\ Funded'
  BY <1>1, <1>2 DEF IInv, TypeOK, Funded
<1>4. ClaimsAfterEnd'
  <2> SUFFICES ASSUME NEW id \in Ids, NEW a \in Accounts, a \in claimed[id]
               PROVE  programs[id].end <= now' /\ programs[id].totalWeight # 0
    BY <1>2 DEF ClaimsAfterEnd, Ids
  <2>1. programs[id].end <= now /\ programs[id].totalWeight # 0
    BY DEF IInv, ClaimsAfterEnd
  <2>2. programs[id].end \in Nat /\ now \in Nat
    BY DEF IInv, TypeOK, Ids, Programs
  <2> QED
    BY <1>1, <2>1, <2>2
<1>5. AwardsAreProRata'
  BY <1>2 DEF IInv, AwardsAreProRata, Ids
<1> QED
  BY <1>3, <1>4, <1>5 DEF IInv

LEMMA CreateKeeps ==
  ASSUME IInv, NEW e \in Nat, NEW m \in Meters, NEW w \in Windows, NEW b \in Budgets,
         NEW n \in Nat, CreateProgram(e, m, w, b, n)
  PROVE  IInv'
<1> DEFINE p == NewProgram(m, w, b)
           none == [a \in Accounts |-> 0]
<1>1. count \in Nat /\ count' = count + 1
  BY DEF IInv, TypeOK, CreateProgram
<1>2. w \in [start : Nat, end : Nat, deadline : Nat] /\ b \in Nat
  BY RewardAssumption DEF RewardAssumption
<1>3. p \in Programs
  BY <1>2 DEF NewProgram, Programs
<1>4. none \in [Accounts -> Nat]
  OBVIOUS
<1>5. /\ programs' = [id \in 1..count' |-> IF id \in 1..count THEN programs[id] ELSE p]
      /\ weights' = [id \in 1..count' |-> IF id \in 1..count THEN weights[id] ELSE none]
      /\ award' = [id \in 1..count' |-> IF id \in 1..count THEN award[id] ELSE none]
      /\ claimed' = [id \in 1..count' |-> IF id \in 1..count THEN claimed[id] ELSE {}]
  BY DEF CreateProgram, Ids
<1>6. reserved' = reserved + b /\ balance' = balance + n /\ UNCHANGED <<now, funded>>
  BY DEF CreateProgram
<1> HIDE DEF p, none
<1>7. programs' \in [1..count' -> Programs]
  BY <1>1, <1>3, <1>5 DEF IInv, TypeOK
<1>8. weights' \in [1..count' -> [Accounts -> Nat]] /\ award' \in [1..count' -> [Accounts -> Nat]]
  BY <1>1, <1>4, <1>5 DEF IInv, TypeOK
<1>9. claimed' \in [1..count' -> SUBSET Accounts]
  BY <1>1, <1>5 DEF IInv, TypeOK
<1>10. TypeOK'
  BY SMTT(30), <1>1, <1>2, <1>6, <1>7, <1>8, <1>9 DEF IInv, TypeOK
<1>11. Funded'
  BY <1>2, <1>6 DEF IInv, TypeOK, Funded, CreateProgram, Unreserved
<1>12. \A id \in 1..count' :
         \/ /\ id \in 1..count
            /\ programs'[id] = programs[id] /\ weights'[id] = weights[id]
            /\ award'[id] = award[id] /\ claimed'[id] = claimed[id]
         \/ /\ claimed'[id] = {} /\ award'[id] = none
  BY <1>1, <1>5
<1>13. ClaimsAfterEnd'
  BY <1>6, <1>12 DEF IInv, ClaimsAfterEnd, Ids
<1>14. AwardsAreProRata'
  BY <1>12 DEF IInv, AwardsAreProRata, Ids, none
<1> QED
  BY <1>10, <1>11, <1>13, <1>14 DEF IInv

(* Weights are recorded before the end of the window, claims are made      *)
(* after it: a program whose weights change has no claims yet.             *)
LEMMA RecordKeeps ==
  ASSUME IInv, NEW m \in Meters, NEW acct \in Accounts, NEW ids \in SUBSET Ids,
         NEW added \in [ids -> Nat \ {0}], RecordWeights(m, acct, added)
  PROVE  IInv'
<1>1. count \in Nat /\ DOMAIN added = ids /\ ids \subseteq 1..count
  BY DEF IInv, TypeOK, Ids
<1>2. \A id \in ids : added[id] \in Nat
  OBVIOUS
<1>3. UNCHANGED <<now, count, reserved, claimed, balance, funded, award>>
  BY DEF RecordWeights
<1>4. /\ weights' = [id \in 1..count |->
           IF id \in ids THEN [weights[id] EXCEPT ![acct] = @ + added[id]] ELSE weights[id]]
      /\ programs' = [id \in 1..count |->
           IF id \in ids
           THEN [programs[id] EXCEPT !.totalWeight = @ + added[id]] ELSE programs[id]]
  BY <1>1 DEF RecordWeights, Ids
<1>5. \A id \in ids : now < programs[id].end
  BY <1>1 DEF RecordWeights, Recordable, InWindow
<1>6. weights \in [1..count -> [Accounts -> Nat]] /\ programs \in [1..count -> Programs]
  BY DEF IInv, TypeOK
<1>7. weights' \in [1..count -> [Accounts -> Nat]]
  BY <1>2, <1>4, <1>6
<1>8. programs' \in [1..count -> Programs]
  <2>1. \A id \in ids : [programs[id] EXCEPT !.totalWeight = @ + added[id]] \in Programs
    <3> SUFFICES ASSUME NEW id \in ids
                 PROVE  [programs[id] EXCEPT !.totalWeight = @ + added[id]] \in Programs
      OBVIOUS
    <3>1. programs[id] \in Programs
      BY <1>1, <1>6
    <3>2. programs[id].totalWeight + added[id] \in Nat
      BY <1>2, <3>1 DEF Programs
    <3> QED
      BY <3>1, <3>2 DEF Programs
  <2> QED
    BY <1>4, <1>6, <2>1
<1>9. TypeOK'
  BY <1>3, <1>7, <1>8 DEF IInv, TypeOK
<1>10. Funded'
  BY <1>3 DEF IInv, Funded
<1>11. \A id \in ids : claimed[id] = {}
  <2> SUFFICES ASSUME NEW id \in ids, NEW a \in Accounts, a \in claimed[id] PROVE FALSE
    BY <1>1 DEF IInv, TypeOK
  <2>1. programs[id].end <= now
    BY <1>1 DEF IInv, ClaimsAfterEnd, Ids
  <2>2. programs[id].end \in Nat /\ now \in Nat
    BY <1>1, <1>6 DEF IInv, TypeOK, Programs
  <2> QED
    BY <1>5, <2>1, <2>2
<1>12. \A id \in 1..count : id \notin ids =>
         programs'[id] = programs[id] /\ weights'[id] = weights[id]
  BY <1>4
<1>13. ClaimsAfterEnd'
  BY <1>3, <1>11, <1>12 DEF IInv, ClaimsAfterEnd, Ids
<1>14. AwardsAreProRata'
  BY <1>1, <1>3, <1>11, <1>12 DEF IInv, AwardsAreProRata, Ids
<1> QED
  BY <1>9, <1>10, <1>13, <1>14 DEF IInv

LEMMA ClaimKeeps ==
  ASSUME IInv, NEW id \in Ids, NEW a \in Accounts, Claim(id, a)
  PROVE  IInv'
<1> DEFINE amount == Claimable(id, a)
<1>1. amount > 0 /\ amount <= reserved /\ amount <= balance
  BY DEF Claim
<1>2. /\ claimed' = [claimed EXCEPT ![id] = @ \cup {a}]
      /\ programs' = [programs EXCEPT ![id].paid = @ + amount]
      /\ reserved' = reserved - amount
      /\ balance' = balance - amount
      /\ award' = [award EXCEPT ![id][a] = @ + amount]
      /\ UNCHANGED <<now, count, weights, funded>>
  BY DEF Claim
<1>3. /\ a \notin claimed[id] /\ ~(now < programs[id].end) /\ programs[id].totalWeight # 0
      /\ amount = (programs[id].budget * weights[id][a]) \div programs[id].totalWeight
  BY <1>1 DEF Claimable
<1>4. /\ count \in Nat /\ id \in 1..count /\ now \in Nat
      /\ programs \in [1..count -> Programs] /\ weights \in [1..count -> [Accounts -> Nat]]
      /\ award \in [1..count -> [Accounts -> Nat]] /\ claimed \in [1..count -> SUBSET Accounts]
      /\ reserved \in Nat /\ balance \in Nat
  BY DEF IInv, TypeOK, Ids
<1>5. /\ programs[id].budget \in Nat /\ programs[id].totalWeight \in Nat /\ programs[id].end \in Nat
      /\ programs[id].paid \in Nat /\ weights[id][a] \in Nat
  BY <1>4 DEF Programs
<1>6. programs[id].budget * weights[id][a] \in Nat
  BY <1>5
<1>7. amount \in Int
  BY <1>3, <1>5, <1>6
<1>8. amount \in Nat
  BY <1>1, <1>7
<1> HIDE DEF amount
<1>9. programs' \in [1..count -> Programs]
  <2>1. programs[id] \in Programs /\ programs[id].paid + amount \in Nat
    BY SMTT(30), <1>4, <1>5, <1>8
  <2>2. [programs[id] EXCEPT !.paid = @ + amount] \in Programs
    BY <2>1 DEF Programs
  <2> QED
    BY <1>2, <1>4, <2>2
<1>10. award' \in [1..count -> [Accounts -> Nat]] /\ claimed' \in [1..count -> SUBSET Accounts]
  <2>1. award[id] \in [Accounts -> Nat] /\ claimed[id] \in SUBSET Accounts
    BY <1>4
  <2>2. award[id][a] + amount \in Nat
    BY <2>1, <1>8
  <2>3. [award[id] EXCEPT ![a] = @ + amount] \in [Accounts -> Nat]
    BY <2>1, <2>2
  <2>4. award' \in [1..count -> [Accounts -> Nat]]
    BY <1>2, <1>4, <2>3
  <2>5. claimed[id] \cup {a} \in SUBSET Accounts
    BY <2>1
  <2>6. claimed' \in [1..count -> SUBSET Accounts]
    BY <1>2, <1>4, <2>5
  <2> QED
    BY <2>4, <2>6
<1>11. TypeOK'
  <2>1. reserved' \in Nat /\ balance' \in Nat
    BY <1>1, <1>2, <1>4, <1>8
  <2>2. now' = now /\ count' = count /\ weights' = weights /\ funded' = funded
    BY <1>2
  <2> QED
    BY <1>9, <1>10, <2>1, <2>2 DEF IInv, TypeOK
<1>12. Funded'
  BY <1>1, <1>2, <1>4, <1>8 DEF IInv, Funded
<1>13. \A k \in 1..count : /\ programs'[k].end = programs[k].end
                           /\ programs'[k].budget = programs[k].budget
                           /\ programs'[k].totalWeight = programs[k].totalWeight
  BY <1>2, <1>4 DEF Programs
<1>14. \A k \in 1..count, b \in Accounts : b \in claimed'[k] <=> b \in claimed[k] \/ (k = id /\ b = a)
  BY <1>2, <1>4
<1>15. \A k \in 1..count, b \in Accounts :
         award'[k][b] = IF k = id /\ b = a THEN award[k][b] + amount ELSE award[k][b]
  <2> SUFFICES ASSUME NEW k \in 1..count, NEW b \in Accounts
               PROVE  award'[k][b] = IF k = id /\ b = a THEN award[k][b] + amount ELSE award[k][b]
    OBVIOUS
  <2>1. award[k] \in [Accounts -> Nat]
    BY <1>4
  <2>2. CASE k = id
    <3>1. award'[k] = [award[k] EXCEPT ![a] = @ + amount]
      BY <2>2, <1>2, <1>4
    <3> QED
      BY <2>1, <2>2, <3>1
  <2>3. CASE k # id
    <3>1. award'[k] = award[k]
      BY <2>3, <1>2, <1>4
    <3> QED
      BY <2>3, <3>1
  <2> QED
    BY <2>2, <2>3
<1>16. ClaimsAfterEnd'
  <2> SUFFICES ASSUME NEW k \in 1..count, NEW b \in Accounts, b \in claimed'[k]
               PROVE  programs[k].end <= now /\ programs[k].totalWeight # 0
    BY <1>2, <1>13 DEF ClaimsAfterEnd, Ids
  <2>1. CASE k = id /\ b = a
    BY <2>1, <1>3, <1>4, <1>5
  <2>2. CASE b \in claimed[k]
    BY <2>2 DEF IInv, ClaimsAfterEnd, Ids
  <2> QED
    BY <2>1, <2>2, <1>14
<1>17. AwardsAreProRata'
  <2> SUFFICES ASSUME NEW k \in 1..count, NEW b \in Accounts
               PROVE  award'[k][b] =
                        IF b \in claimed'[k]
                        THEN (programs[k].budget * weights[k][b]) \div programs[k].totalWeight
                        ELSE 0
    BY <1>2, <1>13 DEF AwardsAreProRata, Ids
  <2>1. award[k][b] = IF b \in claimed[k]
                      THEN (programs[k].budget * weights[k][b]) \div programs[k].totalWeight
                      ELSE 0
    BY DEF IInv, AwardsAreProRata, Ids
  <2>2. CASE k = id /\ b = a
    BY <2>1, <2>2, <1>3, <1>8, <1>14, <1>15
  <2>3. CASE ~(k = id /\ b = a)
    BY <2>1, <2>3, <1>14, <1>15
  <2> QED
    BY <2>2, <2>3
<1> QED
  BY <1>11, <1>12, <1>16, <1>17 DEF IInv

LEMMA CloseKeeps ==
  ASSUME IInv, NEW id \in Ids, Close(id)
  PROVE  IInv'
<1> DEFINE r == Remainder(programs[id])
<1>1. /\ r <= reserved /\ r <= balance /\ programs[id].paid <= programs[id].budget
      /\ programs' = [programs EXCEPT ![id] = [@ EXCEPT !.closed = TRUE, !.reclaimed = r]]
      /\ reserved' = reserved - r
      /\ balance' = balance - r
      /\ UNCHANGED <<now, count, weights, claimed, funded, award>>
  BY DEF Close
<1>2. programs \in [1..count -> Programs] /\ id \in 1..count /\ reserved \in Nat /\ balance \in Nat
  BY DEF IInv, TypeOK, Ids
<1>3. programs[id].budget \in Nat /\ programs[id].paid \in Nat
  BY <1>2 DEF Programs
<1>4. r \in Nat
  BY <1>1, <1>3 DEF Remainder
<1> HIDE DEF r
<1>5. programs' \in [1..count -> Programs]
  BY <1>1, <1>2, <1>4 DEF Programs
<1>6. TypeOK'
  BY <1>1, <1>2, <1>4, <1>5 DEF IInv, TypeOK
<1>7. Funded'
  BY <1>1, <1>2, <1>4 DEF IInv, Funded
<1>8. \A k \in 1..count : /\ programs'[k].end = programs[k].end
                          /\ programs'[k].budget = programs[k].budget
                          /\ programs'[k].totalWeight = programs[k].totalWeight
  BY <1>1, <1>2 DEF Programs
<1>9. ClaimsAfterEnd'
  BY <1>1, <1>8 DEF IInv, ClaimsAfterEnd, Ids
<1>10. AwardsAreProRata'
  BY <1>1, <1>8 DEF IInv, AwardsAreProRata, Ids
<1> QED
  BY <1>6, <1>7, <1>9, <1>10 DEF IInv

LEMMA StepKeeps == IInv /\ [BudgetNext]_budgetVars => IInv'
<1> SUFFICES ASSUME IInv, [BudgetNext]_budgetVars PROVE IInv'
  OBVIOUS
<1>1. ASSUME NEW n \in Mints, Fund(n) PROVE IInv'
  BY <1>1, FundKeeps, RewardAssumption DEF RewardAssumption
<1>2. ASSUME NEW e \in 1..MaxPrograms, NEW m \in Meters, NEW w \in Windows, NEW b \in Budgets,
             NEW n \in Mints, CreateProgram(e, m, w, b, n)
      PROVE  IInv'
  BY <1>2, CreateKeeps, RewardAssumption DEF RewardAssumption
<1>3. ASSUME NEW m \in Meters, NEW a \in Accounts, NEW ids \in SUBSET Ids,
             NEW added \in [ids -> Nat \ {0}], RecordWeights(m, a, added)
      PROVE  IInv'
  BY <1>3, RecordKeeps
<1>4. ASSUME NEW id \in Ids, NEW a \in Accounts, Claim(id, a) PROVE IInv'
  BY <1>4, ClaimKeeps
<1>5. ASSUME NEW id \in Ids, Close(id) PROVE IInv'
  BY <1>5, CloseKeeps
<1>6. ASSUME Tick PROVE IInv'
  BY <1>6, TickKeeps
<1>7. CASE UNCHANGED budgetVars
  BY <1>7 DEF budgetVars, IInv, TypeOK, Funded, ClaimsAfterEnd, AwardsAreProRata, Ids
<1> QED
  BY <1>1, <1>2, <1>3, <1>4, <1>5, <1>6, <1>7 DEF BudgetNext

THEOREM Invariance == BudgetSpec => []IInv
BY StartHolds, StepKeeps, PTL DEF BudgetSpec

(* The programs, weights, awards and totals keep their types.              *)
THEOREM TypeCorrect == BudgetSpec => []TypeOK
<1>1. IInv => TypeOK
  BY DEF IInv
<1> QED
  BY <1>1, Invariance, PTL

(* The contract always holds what it has reserved.                         *)
THEOREM AlwaysFunded == BudgetSpec => []Funded
<1>1. IInv => Funded
  BY DEF IInv
<1> QED
  BY <1>1, Invariance, PTL

(* Every award ever paid is the pro rata share by the final weights.       *)
THEOREM AwardsStand == BudgetSpec => []AwardsAreProRata
<1>1. IInv => AwardsAreProRata
  BY DEF IInv
<1> QED
  BY <1>1, Invariance, PTL

-----------------------------------------------------------------------------
(* The books: what is reserved, paid and recorded in total is the sum of   *)
(* what it is made of, and an open program has not been given back.        *)
Books ==
  /\ ReservedIsOwed
  /\ \A id \in Ids : programs[id].totalWeight = SumFunction(weights[id])
  /\ \A id \in Ids : ~programs[id].closed => programs[id].reclaimed = 0

LEMMA IdsAreFinite ==
  ASSUME TypeOK
  PROVE  IsFiniteSet(Ids) /\ count \in Nat
BY FS_Interval DEF TypeOK, Ids

LEMMA OwedIsInt ==
  ASSUME TypeOK, NEW id \in Ids
  PROVE  Owed(id) \in Int
<1>1. programs[id] \in Programs
  BY DEF TypeOK, Ids
<1> QED
  BY <1>1 DEF Owed, Programs

LEMMA OwedOfIds == SumFunction([id \in Ids |-> Owed(id)]) = SumFunctionOnSet([id \in Ids |-> Owed(id)], Ids)
<1> DEFINE f == [id \in Ids |-> Owed(id)]
<1>1. f \in [Ids -> {Owed(id) : id \in Ids}]
  OBVIOUS
<1> HIDE DEF f
<1>2. SumFunction(f) = SumFunctionOnSet(f, Ids)
  BY <1>1, SumOfFunction
<1> QED
  BY <1>2 DEF f

LEMMA SumsOfAccounts ==
  ASSUME NEW f \in [Accounts -> Nat]
  PROVE  SumFunction(f) = SumFunctionOnSet(f, Accounts)
BY SumOfFunction

LEMMA BooksStart == BudgetInit => Books
<1> SUFFICES ASSUME BudgetInit PROVE Books
  OBVIOUS
<1>1. Ids = {} /\ reserved = 0
  BY DEF BudgetInit, Ids
<1>2. SumFunctionOnSet([id \in Ids |-> Owed(id)], Ids) = 0
  <2> DEFINE f == [id \in Ids |-> Owed(id)]
  <2> HIDE DEF f
  <2>1. SumFunctionOnSet(f, {}) = 0
    BY SumOfNothing
  <2> QED BY <1>1, <2>1 DEF f
<1> QED
  BY <1>1, <1>2, OwedOfIds DEF Books, ReservedIsOwed

(* Steps that leave the programs' money alone. *)
LEMMA BooksStay ==
  ASSUME Books, UNCHANGED <<count, programs, reserved, weights, award>>
  PROVE  Books'
BY DEF Books, ReservedIsOwed, Owed, Ids

LEMMA RecordBooks ==
  ASSUME IInv, IInv', Books, NEW m \in Meters, NEW acct \in Accounts, NEW ids \in SUBSET Ids,
         NEW added \in [ids -> Nat \ {0}], RecordWeights(m, acct, added)
  PROVE  Books'
<1>1. /\ UNCHANGED <<now, count, reserved, claimed, balance, funded, award>>
      /\ Ids' = Ids /\ DOMAIN added = ids
      /\ weights' = [id \in Ids |->
           IF id \in ids THEN [weights[id] EXCEPT ![acct] = @ + added[id]] ELSE weights[id]]
      /\ programs' = [id \in Ids |->
           IF id \in ids
           THEN [programs[id] EXCEPT !.totalWeight = @ + added[id]] ELSE programs[id]]
  BY DEF RecordWeights, Ids
<1>2. \A id \in Ids : programs[id] \in Programs /\ weights[id] \in [Accounts -> Nat]
  BY DEF IInv, TypeOK, Ids
<1>3. \A id \in Ids :
        /\ programs'[id].closed = programs[id].closed /\ programs'[id].budget = programs[id].budget
        /\ programs'[id].paid = programs[id].paid
        /\ programs'[id].reclaimed = programs[id].reclaimed
        /\ programs'[id].totalWeight =
             IF id \in ids THEN programs[id].totalWeight + added[id] ELSE programs[id].totalWeight
  BY <1>1, <1>2 DEF Programs
<1>4. ReservedIsOwed'
  <2>1. [id \in Ids |-> Owed(id)]' = [id \in Ids |-> Owed(id)]
    BY <1>1, <1>3 DEF Owed
  <2>2. reserved' = SumFunction([id \in Ids |-> Owed(id)]')
    BY <1>1, <2>1 DEF Books, ReservedIsOwed
  <2> QED
    BY <1>1, <1>3, <2>2 DEF Books, ReservedIsOwed
<1>5. \A id \in Ids : programs'[id].totalWeight = SumFunction(weights'[id])
  <2> SUFFICES ASSUME NEW id \in Ids
               PROVE  programs'[id].totalWeight = SumFunction(weights'[id])
    OBVIOUS
  <2>1. programs[id].totalWeight = SumFunction(weights[id])
    BY DEF Books
  <2>2. CASE id \notin ids
    BY <2>1, <2>2, <1>1, <1>3
  <2>3. CASE id \in ids
    <3> DEFINE f == weights[id]
               g == [f EXCEPT ![acct] = @ + added[id]]
    <3>1. weights'[id] = g /\ added[id] \in Nat
      BY <1>1, <2>3
    <3>2. f \in [Accounts -> Nat] /\ g \in [Accounts -> Nat]
      BY <1>2, <3>1
    <3>3. g[acct] = f[acct] + added[id] /\ \A a \in Accounts \ {acct} : f[a] = g[a]
      BY <3>2
    <3>4. f[acct] \in Nat
      BY <3>2
    <3> HIDE DEF f, g
    <3>5. SumFunctionOnSet(g, Accounts) = SumFunctionOnSet(f, Accounts) + g[acct] - f[acct]
      BY <3>2, <3>3, SumChange, RewardAssumption DEF RewardAssumption
    <3>6. SumFunctionOnSet(f, Accounts) \in Nat
      BY <3>2, SumIsNat, RewardAssumption DEF RewardAssumption
    <3>7. SumFunctionOnSet(g, Accounts) = SumFunctionOnSet(f, Accounts) + added[id]
      BY <3>1, <3>3, <3>4, <3>5, <3>6
    <3>8. SumFunction(f) = SumFunctionOnSet(f, Accounts) /\ SumFunction(g) = SumFunctionOnSet(g, Accounts)
      BY <3>2, SumsOfAccounts
    <3>9. programs[id].totalWeight = SumFunction(f)
      BY <2>1 DEF f
    <3> QED
      BY <1>3, <2>3, <3>1, <3>7, <3>8, <3>9
  <2> QED
    BY <2>2, <2>3
<1> QED
  BY <1>1, <1>3, <1>4, <1>5 DEF Books

(* What is owed in all changes by what one program's debt changes.         *)
LEMMA OneDebtChanges ==
  ASSUME IInv, IInv', Books, NEW id \in Ids, count' = count,
         \A k \in Ids \ {id} : programs'[k] = programs[k],
         reserved' = reserved + Owed(id)' - Owed(id)
  PROVE  reserved' = SumFunction([k \in Ids |-> Owed(k)])'
<1> DEFINE f == [k \in Ids |-> Owed(k)]
<1>1. Ids' = Ids
  BY DEF Ids
<1>2. \A k \in Ids : Owed(k) \in Int
  BY OwedIsInt DEF IInv
<1>3. \A k \in Ids : Owed(k)' \in Int
  <2> SUFFICES ASSUME NEW k \in Ids PROVE Owed(k)' \in Int
    OBVIOUS
  <2>1. programs'[k] \in Programs
    BY <1>1 DEF IInv, TypeOK, Ids
  <2> QED
    BY <2>1 DEF Owed, Programs
<1>4. \A k \in Ids \ {id} : Owed(k)' = Owed(k)
  BY DEF Owed
<1>5. (f[id])' = Owed(id)' /\ f[id] = Owed(id) /\ \A k \in Ids : f[k] = Owed(k) /\ (f')[k] = Owed(k)'
  BY <1>1
<1>6. IsFiniteSet(Ids)
  BY IdsAreFinite DEF IInv
<1>7. SumFunctionOnSet(f', Ids) = SumFunctionOnSet(f, Ids) + Owed(id)' - Owed(id)
  <2>1. (f')[id] = Owed(id)'
    BY <1>5
  <2> HIDE DEF f
  <2> QED BY <1>2, <1>3, <1>4, <1>5, <1>6, <2>1, SumChange
<1>8. reserved = SumFunctionOnSet(f, Ids)
  BY OwedOfIds DEF Books, ReservedIsOwed
<1>9. SumFunction(f') = SumFunctionOnSet(f', Ids)
  <2>1. f' \in [Ids -> Int]
    BY <1>1, <1>3
  <2> HIDE DEF f
  <2> QED BY <2>1, SumOfFunction
<1> QED
  BY <1>7, <1>8, <1>9

LEMMA ClaimBooks ==
  ASSUME IInv, IInv', Books, NEW id \in Ids, NEW a \in Accounts, Claim(id, a)
  PROVE  Books'
<1> DEFINE amount == Claimable(id, a)
<1>1. /\ amount > 0
      /\ programs' = [programs EXCEPT ![id].paid = @ + amount]
      /\ reserved' = reserved - amount
      /\ award' = [award EXCEPT ![id][a] = @ + amount]
      /\ UNCHANGED <<now, count, weights, funded>>
  BY DEF Claim
<1>2. ~programs[id].closed /\ programs[id].totalWeight # 0
  BY <1>1 DEF Claimable
<1>3. /\ Ids' = Ids /\ id \in 1..count
      /\ \A k \in Ids : /\ programs[k] \in Programs /\ weights[k] \in [Accounts -> Nat]
                        /\ award[k] \in [Accounts -> Nat] /\ award'[k] \in [Accounts -> Nat]
                        /\ programs'[k] \in Programs
      /\ programs \in [Ids -> Programs] /\ award \in [Ids -> [Accounts -> Nat]]
  BY <1>1 DEF IInv, TypeOK, Ids
<1> HIDE DEF amount
<1>4. /\ \A k \in Ids \ {id} : programs'[k] = programs[k] /\ award'[k] = award[k]
      /\ programs'[id] = [programs[id] EXCEPT !.paid = @ + amount]
      /\ award'[id] = [award[id] EXCEPT ![a] = @ + amount]
  BY <1>1, <1>3
<1>5. /\ programs'[id].paid = programs[id].paid + amount
      /\ programs'[id].closed = programs[id].closed /\ programs'[id].budget = programs[id].budget
      /\ programs'[id].reclaimed = programs[id].reclaimed
      /\ programs'[id].totalWeight = programs[id].totalWeight
  BY <1>3, <1>4 DEF Programs
<1>6. /\ programs[id].paid \in Nat /\ programs[id].budget \in Nat
      /\ programs[id].totalWeight \in Nat
  BY <1>3 DEF Programs
<1>7. /\ award'[id][a] = award[id][a] + amount /\ award[id][a] \in Nat
      /\ \A b \in Accounts \ {a} : award'[id][b] = award[id][b]
  BY <1>3, <1>4
<1>8. amount \in Int
  <2>1. programs[id].budget * weights[id][a] \in Nat
    BY <1>3, <1>6
  <2> QED
    BY <1>2, <1>6, <2>1 DEF amount, Claimable
<1>9. reserved' = SumFunction([k \in Ids |-> Owed(k)])'
  <2>1. Owed(id)' = Owed(id) - amount /\ Owed(id) \in Int
    BY <1>2, <1>5, <1>6, <1>8 DEF Owed
  <2>2. reserved \in Int
    BY DEF IInv, TypeOK
  <2>3. reserved' = reserved + Owed(id)' - Owed(id)
    BY <1>1, <1>8, <2>1, <2>2
  <2> QED
    BY <1>1, <1>4, <2>3, OneDebtChanges
<1>10. \A k \in Ids : programs'[k].paid = SumFunction(award'[k])
  <2>1. programs'[id].paid = SumFunction(award'[id])
    <3> DEFINE f == award[id]
               g == award'[id]
    <3>1. /\ f \in [Accounts -> Nat] /\ g \in [Accounts -> Nat]
          /\ \A b \in Accounts \ {a} : f[b] = g[b]
          /\ g[a] = f[a] + amount /\ f[a] \in Nat
      BY <1>3, <1>7
    <3>2. programs[id].paid = SumFunction(f)
      BY DEF Books, ReservedIsOwed
    <3> HIDE DEF f, g
    <3>3. SumFunctionOnSet(g, Accounts) = SumFunctionOnSet(f, Accounts) + g[a] - f[a]
      BY <3>1, SumChange, RewardAssumption DEF RewardAssumption
    <3>4. SumFunctionOnSet(f, Accounts) \in Nat
      BY <3>1, SumIsNat, RewardAssumption DEF RewardAssumption
    <3>5. SumFunctionOnSet(g, Accounts) = SumFunctionOnSet(f, Accounts) + amount
      BY <1>8, <3>1, <3>3, <3>4
    <3>6. SumFunction(g) = programs[id].paid + amount
      BY <3>1, <3>2, <3>5, SumsOfAccounts
    <3> QED
      BY <1>5, <3>6 DEF g
  <2> QED
    BY <2>1, <1>4 DEF Books, ReservedIsOwed
<1>11. programs'[id].paid <= programs[id].budget
  <2> DEFINE share == award'[id]
             parts == weights[id]
             whole == programs[id].budget
             all == programs[id].totalWeight
  <2>1. \A b \in Accounts : share[b] \in Nat /\ parts[b] \in Nat
    BY <1>3
  <2>2. \A b \in Accounts : share[b] = 0 \/ share[b] = (whole * parts[b]) \div all
    BY <1>1, <1>3, <1>5 DEF IInv, AwardsAreProRata
  <2>3. all = SumFunctionOnSet(parts, Accounts)
    BY <1>3, SumsOfAccounts DEF Books
  <2>4. programs'[id].paid = SumFunctionOnSet(share, Accounts)
    BY <1>3, <1>10, SumsOfAccounts
  <2>5. all \in Nat \ {0} /\ whole \in Nat
    BY <1>2, <1>6
  <2>6. IsFiniteSet(Accounts)
    BY RewardAssumption DEF RewardAssumption
  <2> HIDE DEF share, parts, whole, all
  <2>7. SumFunctionOnSet(share, Accounts) <= whole
    BY <2>1, <2>2, <2>3, <2>5, <2>6, FloorShares
  <2> QED
    BY <2>4, <2>7 DEF whole
<1>12. \A k \in Ids : programs'[k].paid + programs'[k].reclaimed <= programs'[k].budget
  <2>1. programs[id].reclaimed = 0
    BY <1>2 DEF Books
  <2>2. programs'[id].paid + programs'[id].reclaimed <= programs'[id].budget
    BY <1>5, <1>6, <1>8, <1>11, <2>1
  <2> QED
    BY <2>2, <1>4 DEF Books, ReservedIsOwed
<1>13. \A k \in Ids : /\ programs'[k].totalWeight = SumFunction(weights'[k])
                      /\ ~programs'[k].closed => programs'[k].reclaimed = 0
  BY <1>1, <1>4, <1>5 DEF Books
<1>14. ReservedIsOwed'
  <2>1. Ids' = Ids
    BY <1>3
  <2> QED BY <2>1, <1>9, <1>10, <1>12 DEF ReservedIsOwed
<1>15. (\A k \in Ids : programs[k].totalWeight = SumFunction(weights[k]))'
  BY <1>3, <1>13
<1>16. (\A k \in Ids : ~programs[k].closed => programs[k].reclaimed = 0)'
  BY <1>3, <1>13
<1> QED
  BY <1>14, <1>15, <1>16 DEF Books

LEMMA CloseBooks ==
  ASSUME IInv, IInv', Books, NEW id \in Ids, Close(id)
  PROVE  Books'
<1> DEFINE r == Remainder(programs[id])
<1>1. /\ ~programs[id].closed
      /\ programs' = [programs EXCEPT ![id] = [@ EXCEPT !.closed = TRUE, !.reclaimed = r]]
      /\ reserved' = reserved - r
      /\ UNCHANGED <<now, count, weights, claimed, funded, award>>
  BY DEF Close
<1>2. Ids' = Ids /\ programs \in [Ids -> Programs] /\ programs[id] \in Programs
  BY <1>1 DEF IInv, TypeOK, Ids
<1> HIDE DEF r
<1>3. /\ \A k \in Ids \ {id} : programs'[k] = programs[k]
      /\ programs'[id] = [programs[id] EXCEPT !.closed = TRUE, !.reclaimed = r]
  BY <1>1, <1>2
<1>4. /\ programs'[id].closed /\ programs'[id].reclaimed = r
      /\ programs'[id].paid = programs[id].paid /\ programs'[id].budget = programs[id].budget
      /\ programs'[id].totalWeight = programs[id].totalWeight
  BY <1>2, <1>3 DEF Programs
<1>5. programs[id].paid \in Nat /\ programs[id].budget \in Nat /\ r = programs[id].budget - programs[id].paid
  BY <1>2 DEF Programs, r, Remainder
<1>6. reserved' = SumFunction([k \in Ids |-> Owed(k)])'
  <2>1. Owed(id)' = 0 /\ Owed(id) = r /\ r \in Int
    BY <1>1, <1>4, <1>5 DEF Owed
  <2>2. reserved \in Int
    BY DEF IInv, TypeOK
  <2>3. reserved' = reserved + Owed(id)' - Owed(id)
    BY <1>1, <2>1, <2>2
  <2> QED
    BY <1>1, <1>3, <2>3, OneDebtChanges
<1>7. \A k \in Ids : /\ programs'[k].paid = SumFunction(award'[k])
                     /\ programs'[k].paid + programs'[k].reclaimed <= programs'[k].budget
  BY <1>1, <1>3, <1>4, <1>5 DEF Books, ReservedIsOwed
<1>8. \A k \in Ids : /\ programs'[k].totalWeight = SumFunction(weights'[k])
                     /\ ~programs'[k].closed => programs'[k].reclaimed = 0
  BY <1>1, <1>3, <1>4 DEF Books
<1>9. ReservedIsOwed'
  <2>1. Ids' = Ids
    BY <1>2
  <2> QED BY <2>1, <1>6, <1>7 DEF ReservedIsOwed
<1>10. (\A k \in Ids : programs[k].totalWeight = SumFunction(weights[k]))'
  BY <1>2, <1>8
<1>11. (\A k \in Ids : ~programs[k].closed => programs[k].reclaimed = 0)'
  BY <1>2, <1>8
<1> QED
  BY <1>9, <1>10, <1>11 DEF Books

LEMMA CreateBooks ==
  ASSUME IInv, IInv', Books, NEW e \in Nat, NEW m \in Meters, NEW w \in Windows, NEW b \in Budgets,
         NEW n \in Nat, CreateProgram(e, m, w, b, n)
  PROVE  Books'
<1> DEFINE p == NewProgram(m, w, b)
           none == [a \in Accounts |-> 0]
<1>0. PICK new \in Nat : new = count + 1
  BY DEF IInv, TypeOK
<1>1. count \in Nat /\ count' = new /\ Ids' = Ids \cup {new} /\ new \notin Ids
  BY <1>0 DEF IInv, TypeOK, CreateProgram, Ids
<1>2. /\ \A id \in Ids : /\ programs'[id] = programs[id] /\ weights'[id] = weights[id]
                         /\ award'[id] = award[id]
      /\ programs'[new] = p /\ weights'[new] = none /\ award'[new] = none
      /\ reserved' = reserved + b
  BY <1>0, <1>1 DEF CreateProgram, Ids
<1>3. /\ p.budget = b /\ p.paid = 0 /\ p.reclaimed = 0 /\ p.totalWeight = 0 /\ p.closed = FALSE
      /\ b \in Nat
  BY RewardAssumption DEF RewardAssumption, NewProgram
<1>4. SumFunction(none) = 0
  <2>1. none \in [Accounts -> Nat] /\ \A a \in Accounts : none[a] = 0
    OBVIOUS
  <2> HIDE DEF none
  <2> QED BY <2>1, SumsOfAccounts, SumOfZeros, RewardAssumption DEF RewardAssumption
<1> HIDE DEF p, none
<1>5. reserved' = SumFunction([k \in Ids |-> Owed(k)])'
  <2> DEFINE f == [k \in Ids |-> Owed(k)]
  <2>1. /\ \A k \in Ids : f[k] = Owed(k) /\ (f')[k] = Owed(k) /\ Owed(k) \in Int
        /\ (f')[new] = b
    <3>1. \A k \in Ids : Owed(k)' = Owed(k) /\ Owed(k) \in Int
      BY <1>2, OwedIsInt DEF Owed, IInv
    <3>2. programs'[new].closed = FALSE /\ programs'[new].budget = b /\ programs'[new].paid = 0
      BY <1>2, <1>3
    <3>3. Owed(new)' = b
      BY <3>2, <1>3 DEF Owed
    <3> QED
      BY <1>1, <3>1, <3>3
  <2>2. f' \in [Ids' -> Int]
    BY <1>1, <1>3, <2>1
  <2>3. SumFunction(f') = SumFunctionOnSet(f', Ids')
    <3> HIDE DEF f
    <3> QED BY <2>2, SumOfFunction
  <2>4. reserved = SumFunctionOnSet(f, Ids)
    BY OwedOfIds DEF Books, ReservedIsOwed
  <2>5. IsFiniteSet(Ids)
    BY IdsAreFinite DEF IInv
  <2> HIDE DEF f
  <2>6. SumFunctionOnSet(f', Ids \cup {new}) = SumFunctionOnSet(f', Ids) + b
    BY <1>1, <1>3, <2>1, <2>5, SumWith
  <2>7. SumFunctionOnSet(f', Ids) = SumFunctionOnSet(f, Ids)
    BY <2>1, <2>5, SumAgrees
  <2>8. SumFunction(f') = reserved + b
    BY <1>1, <2>3, <2>4, <2>6, <2>7
  <2> QED
    BY <1>2, <2>8 DEF f
<1>6. \A k \in Ids' : /\ programs'[k].paid = SumFunction(award'[k])
                      /\ programs'[k].paid + programs'[k].reclaimed <= programs'[k].budget
                      /\ programs'[k].totalWeight = SumFunction(weights'[k])
                      /\ ~programs'[k].closed => programs'[k].reclaimed = 0
  <2>1. ASSUME NEW k \in Ids
        PROVE  /\ programs'[k].paid = SumFunction(award'[k])
               /\ programs'[k].paid + programs'[k].reclaimed <= programs'[k].budget
               /\ programs'[k].totalWeight = SumFunction(weights'[k])
               /\ ~programs'[k].closed => programs'[k].reclaimed = 0
    BY <1>2 DEF Books, ReservedIsOwed
  <2>2. /\ programs'[new].paid = SumFunction(award'[new])
        /\ programs'[new].paid + programs'[new].reclaimed <= programs'[new].budget
        /\ programs'[new].totalWeight = SumFunction(weights'[new])
        /\ ~programs'[new].closed => programs'[new].reclaimed = 0
    BY <1>2, <1>3, <1>4
  <2> QED
    BY <1>1, <2>1, <2>2
<1>7. (\A k \in Ids : programs[k].paid = SumFunction(award[k]))'
  BY <1>6
<1>8. (\A k \in Ids : programs[k].paid + programs[k].reclaimed <= programs[k].budget)'
  BY <1>6
<1>9. (\A k \in Ids : programs[k].totalWeight = SumFunction(weights[k]))'
  BY <1>6
<1>10. (\A k \in Ids : ~programs[k].closed => programs[k].reclaimed = 0)'
  BY <1>6
<1>11. ReservedIsOwed'
  BY <1>5, <1>7, <1>8 DEF ReservedIsOwed
<1> QED
  BY <1>9, <1>10, <1>11 DEF Books

LEMMA BooksKeep == IInv /\ IInv' /\ Books /\ [BudgetNext]_budgetVars => Books'
<1> SUFFICES ASSUME IInv, IInv', Books, [BudgetNext]_budgetVars PROVE Books'
  OBVIOUS
<1>1. ASSUME NEW n \in Mints, Fund(n) PROVE Books'
  BY <1>1, BooksStay DEF Fund
<1>2. ASSUME NEW e \in 1..MaxPrograms, NEW m \in Meters, NEW w \in Windows, NEW b \in Budgets,
             NEW n \in Mints, CreateProgram(e, m, w, b, n)
      PROVE  Books'
  BY <1>2, CreateBooks, RewardAssumption DEF RewardAssumption
<1>3. ASSUME NEW m \in Meters, NEW a \in Accounts, NEW ids \in SUBSET Ids,
             NEW added \in [ids -> Nat \ {0}], RecordWeights(m, a, added)
      PROVE  Books'
  BY <1>3, RecordBooks
<1>4. ASSUME NEW id \in Ids, NEW a \in Accounts, Claim(id, a) PROVE Books'
  BY <1>4, ClaimBooks
<1>5. ASSUME NEW id \in Ids, Close(id) PROVE Books'
  BY <1>5, CloseBooks
<1>6. ASSUME Tick PROVE Books'
  BY <1>6, BooksStay DEF Tick
<1>7. CASE UNCHANGED budgetVars
  BY <1>7, BooksStay DEF budgetVars
<1> QED
  BY <1>1, <1>2, <1>3, <1>4, <1>5, <1>6, <1>7 DEF BudgetNext

(* What is reserved is exactly what the open programs owe, what a program  *)
(* has paid is the sum of its awards, and it never pays more than its      *)
(* budget, remainder included (RewardBudget.sol, claim and close).         *)
THEOREM ReservationsMatch == BudgetSpec => []ReservedIsOwed
<1>1. Books => ReservedIsOwed
  BY DEF Books
<1> QED
  BY <1>1, BooksStart, BooksKeep, Invariance, PTL DEF BudgetSpec

LEMMA DebtsAreReserved ==
  ASSUME IInv, Books, NEW id \in Ids
  PROVE  Owed(id) \in Nat /\ Owed(id) <= reserved /\ reserved <= balance
         /\ reserved \in Nat /\ balance \in Nat
<1>1. \A k \in Ids : Owed(k) \in Nat
  <2> SUFFICES ASSUME NEW k \in Ids PROVE Owed(k) \in Nat
    OBVIOUS
  <2>1. programs[k] \in Programs
    BY DEF IInv, TypeOK, Ids
  <2>2. programs[k].paid + programs[k].reclaimed <= programs[k].budget
    BY DEF Books, ReservedIsOwed
  <2> QED
    BY <2>1, <2>2 DEF Owed, Programs
<1> DEFINE f == [k \in Ids |-> Owed(k)]
<1>2. reserved = SumFunctionOnSet(f, Ids)
  BY OwedOfIds DEF Books, ReservedIsOwed
<1>3. f[id] = Owed(id) /\ \A k \in Ids : f[k] \in Nat
  BY <1>1
<1>4. IsFiniteSet(Ids)
  BY IdsAreFinite DEF IInv
<1> HIDE DEF f
<1>5. f[id] <= SumFunctionOnSet(f, Ids)
  BY <1>3, <1>4, SumCovers
<1> QED
  BY <1>1, <1>2, <1>3, <1>5 DEF IInv, TypeOK, Funded

(* A claim not yet made fits in what the program has not yet paid.         *)
LEMMA ClaimIsOwed ==
  ASSUME IInv, Books, NEW id \in Ids, NEW a \in Accounts, Claimable(id, a) > 0
  PROVE  Claimable(id, a) <= Owed(id)
<1> DEFINE amount == Claimable(id, a)
           p == programs[id]
           parts == weights[id]
           f == award[id]
           g == [f EXCEPT ![a] = amount]
<1>1. /\ ~p.closed /\ a \notin claimed[id] /\ p.totalWeight # 0
      /\ amount = (p.budget * parts[a]) \div p.totalWeight
  BY DEF Claimable
<1>2. p \in Programs /\ parts \in [Accounts -> Nat] /\ f \in [Accounts -> Nat]
  BY DEF IInv, TypeOK, Ids
<1>3. p.budget \in Nat /\ p.totalWeight \in Nat \ {0} /\ p.paid \in Nat
  BY <1>1, <1>2 DEF Programs
<1>4. amount \in Nat
  <2>1. parts[a] \in Nat
    BY <1>2
  <2> HIDE DEF amount, p, parts
  <2> QED BY <1>1, <1>3, <2>1, FloorShare
<1>5. /\ f[a] = 0
      /\ \A b \in Accounts : f[b] = 0 \/ f[b] = (p.budget * parts[b]) \div p.totalWeight
  BY <1>1 DEF IInv, AwardsAreProRata
<1>6. p.totalWeight = SumFunctionOnSet(parts, Accounts) /\ p.paid = SumFunctionOnSet(f, Accounts)
  BY <1>2, SumsOfAccounts DEF Books, ReservedIsOwed
<1> HIDE DEF amount, p, parts, f
<1>7. g \in [Accounts -> Nat] /\ g[a] = amount /\ \A b \in Accounts \ {a} : f[b] = g[b]
  BY <1>2, <1>4
<1>8. \A b \in Accounts : g[b] = 0 \/ g[b] = (p.budget * parts[b]) \div p.totalWeight
  BY <1>1, <1>5, <1>7
<1> HIDE DEF g
<1>9. SumFunctionOnSet(g, Accounts) <= p.budget
  <2>1. \A b \in Accounts : g[b] \in Nat /\ parts[b] \in Nat
    BY <1>2, <1>7
  <2>2. IsFiniteSet(Accounts)
    BY RewardAssumption DEF RewardAssumption
  <2> QED
    BY <1>3, <1>6, <1>8, <2>1, <2>2, FloorShares
<1>10. SumFunctionOnSet(g, Accounts) = SumFunctionOnSet(f, Accounts) + g[a] - f[a]
  BY <1>2, <1>7, SumChange, RewardAssumption DEF RewardAssumption
<1>11. p.paid + amount <= p.budget
  BY <1>3, <1>4, <1>5, <1>6, <1>7, <1>9, <1>10
<1>12. Owed(id) = p.budget - p.paid
  BY <1>1 DEF Owed, p
<1> QED
  BY <1>3, <1>4, <1>11, <1>12 DEF amount

(* No order of claims and closings makes the checked arithmetic of a later *)
(* claim or closing revert (RewardBudget.sol, claim and close).            *)
THEOREM ArithmeticNeverReverts == BudgetSpec => []NothingReverts
<1>1. IInv /\ Books => NothingReverts
  <2> SUFFICES ASSUME IInv, Books, NEW id \in Ids
               PROVE  /\ \A a \in Accounts : Claimable(id, a) > 0 =>
                           Claimable(id, a) <= reserved /\ Claimable(id, a) <= balance
                      /\ ~programs[id].closed =>
                           /\ programs[id].paid <= programs[id].budget
                           /\ Remainder(programs[id]) <= reserved
                           /\ Remainder(programs[id]) <= balance
    BY DEF NothingReverts
  <2>1. Owed(id) \in Nat /\ Owed(id) <= reserved /\ reserved <= balance
        /\ reserved \in Nat /\ balance \in Nat
    BY DebtsAreReserved
  <2>2. ASSUME NEW a \in Accounts, Claimable(id, a) > 0
        PROVE  Claimable(id, a) <= reserved /\ Claimable(id, a) <= balance
    <3>1. Claimable(id, a) <= Owed(id)
      BY <2>2, ClaimIsOwed
    <3>2. Claimable(id, a) \in Int
      <4>1. programs[id] \in Programs /\ weights[id] \in [Accounts -> Nat]
        BY DEF IInv, TypeOK, Ids
      <4>2. programs[id].budget \in Nat /\ programs[id].totalWeight \in Nat /\ weights[id][a] \in Nat
        BY <4>1 DEF Programs
      <4>3. programs[id].budget * weights[id][a] \in Nat
        BY <4>2
      <4> QED
        BY <4>2, <4>3 DEF Claimable
    <3> QED
      BY <2>1, <3>1, <3>2
  <2>3. ASSUME ~programs[id].closed
        PROVE  /\ programs[id].paid <= programs[id].budget
               /\ Remainder(programs[id]) <= reserved /\ Remainder(programs[id]) <= balance
    <3>1. programs[id] \in Programs
      BY DEF IInv, TypeOK, Ids
    <3>2. Owed(id) = Remainder(programs[id])
      BY <2>3 DEF Owed, Remainder
    <3> QED
      BY <2>1, <3>1, <3>2 DEF Remainder, Programs
  <2> QED
    BY <2>2, <2>3
<1>2. BudgetSpec => []Books
  BY BooksStart, BooksKeep, Invariance, PTL DEF BudgetSpec
<1> QED
  BY <1>1, <1>2, Invariance, PTL

-----------------------------------------------------------------------------
(* The meters and the governor use the budget as BudgetSpec allows.        *)

LEMMA SwapIsBudgetStep ==
  ASSUME IInv, NEW pool \in Pools, NEW a \in Accounts, NEW fee \in 0..1, NEW eligible \in BOOLEAN,
         Swap(pool, a, 1, fee, eligible)
  PROVE  [BudgetNext]_budgetVars
<1> DEFINE added == Measured(pool, 1, fee, eligible)
<1>1. CASE DOMAIN added = {}
  BY <1>1 DEF Swap
<1>2. CASE DOMAIN added # {}
  <2>1. RecordWeights(Hook, a, added)
    BY <1>2 DEF Swap
  <2>2. DOMAIN added \in SUBSET Ids
    BY <2>1 DEF RecordWeights, Recordable
  <2>3. added \in [DOMAIN added -> Nat \ {0}]
    BY DEF Measured, MeasureOf
  <2>4. Hook \in Meters
    BY MetersAssumption DEF MetersAssumption
  <2> HIDE DEF added
  <2> QED
    BY <1>2, <2>1, <2>2, <2>3, <2>4 DEF BudgetNext
<1> QED
  BY <1>1, <1>2

LEMMA StakeIsBudgetStep ==
  ASSUME IInv, NEW id \in AllIds, NEW a \in Accounts, NEW n \in 1..MaxBpt, Stake(id, a, n)
  PROVE  BudgetNext
<1> DEFINE w == n * (programs[id].end - now)
           added == [x \in {id} |-> w]
<1>1. id \in Ids /\ InWindow(id) /\ RecordWeights(LockMeter, a, added)
  BY DEF Stake
<1>2. programs[id].end \in Nat /\ now \in Nat /\ now < programs[id].end
  BY <1>1 DEF IInv, TypeOK, Ids, Programs, InWindow
<1>3. programs[id].end - now \in Nat \ {0} /\ n \in Nat \ {0}
  BY <1>2
<1>4. w \in Nat \ {0}
  <2>1. \A i, j \in Nat \ {0} : i * j \in Nat \ {0}
    OBVIOUS
  <2> QED
    BY <1>3, <2>1
<1> HIDE DEF w
<1>5. added \in [{id} -> Nat \ {0}] /\ {id} \in SUBSET Ids /\ {id} # {}
  BY <1>1, <1>4
<1>6. LockMeter \in Meters
  BY MetersAssumption DEF MetersAssumption
<1> HIDE DEF added
<1> QED
  BY <1>1, <1>5, <1>6 DEF BudgetNext

LEMMA BatchIsBudgetStep ==
  ASSUME NEW b \in Batches, NEW id \in AllIds, RunBatch(b, id)
  PROVE  BudgetNext
<1>1. CreateProgram(id, b.meter, b.window, b.budget, b.minted)
  BY DEF RunBatch
<1>2. b \in BatchShape
  BY MetersAssumption DEF MetersAssumption
<1>3. b.meter \in Meters /\ b.window \in Windows /\ b.budget \in Budgets /\ b.minted \in Mints
  BY <1>2 DEF BatchShape
<1> QED
  BY <1>1, <1>3 DEF BudgetNext, AllIds

LEMMA NextIsBudgetStep == IInv /\ [Next]_vars => [BudgetNext]_budgetVars
<1> SUFFICES ASSUME IInv, [Next]_vars PROVE [BudgetNext]_budgetVars
  OBVIOUS
<1>1. ASSUME NEW b \in Batches, NEW id \in AllIds, RunBatch(b, id) PROVE BudgetNext
  BY <1>1, BatchIsBudgetStep
<1>2. CASE Market
  <2>1. ASSUME NEW pool \in Pools, NEW a \in Accounts, NEW fee \in 0..1, NEW eligible \in BOOLEAN,
               Swap(pool, a, 1, fee, eligible)
        PROVE  [BudgetNext]_budgetVars
    BY <2>1, SwapIsBudgetStep
  <2>2. ASSUME NEW id \in AllIds, NEW a \in Accounts, NEW n \in 1..MaxBpt, Stake(id, a, n)
        PROVE  BudgetNext
    BY <2>2, StakeIsBudgetStep
  <2>3. ASSUME NEW id \in AllIds, NEW a \in Accounts, Withdraw(id, a) PROVE UNCHANGED budgetVars
    BY <2>3 DEF Withdraw
  <2>4. CASE Resolve \/ \E pool \in Pools, c \in BOOLEAN : OnRegister(pool, c)
    BY <2>4 DEF Resolve, OnRegister
  <2>5. ASSUME NEW pool \in Pools, NEW a \in Accounts, AddLiquidity(pool, a) \/ RemoveLiquidity(pool, a)
        PROVE  UNCHANGED budgetVars
    BY <2>5 DEF AddLiquidity, RemoveLiquidity
  <2> QED
    BY <1>2, <2>1, <2>2, <2>3, <2>4, <2>5 DEF Market
<1>3. CASE Rewards
  BY <1>3 DEF Rewards, BudgetNext
<1>4. CASE UNCHANGED vars
  BY <1>4 DEF vars
<1> QED
  BY <1>1, <1>2, <1>3, <1>4 DEF Next

-----------------------------------------------------------------------------
(* Only batches that may be voted for are executed.                        *)

ProposalShape ==
  [batch : Batches, expectedId : AllIds, by : Accounts, start : Nat,
   votes : [Members -> {"none"} \cup Ballots], canceled : BOOLEAN, queued : BOOLEAN, eta : Nat,
   executed : BOOLEAN]

ProposalsTyped == proposals \in [Proposed -> ProposalShape]

LEMMA NewProposalTyped ==
  ASSUME now \in Nat, NEW b \in Batches, NEW id \in AllIds, NEW a \in Accounts
  PROVE  NewProposal(b, id, a) \in ProposalShape
<1>1. now + VotingDelay \in Nat
  BY GovernanceAssumption DEF GovernanceAssumption
<1> QED
  BY <1>1 DEF NewProposal, ProposalShape

LEMMA ProposeKeeps ==
  ASSUME now \in Nat, ProposalsTyped, NEW a \in Accounts, NEW b \in Batches, NEW id \in AllIds,
         Propose(a, b, id)
  PROVE  ProposalsTyped'
<1> DEFINE p == NewProposal(b, id, a)
           D == 1..(Cardinality(Proposed) + 1)
<1>1. proposals' = [k \in D |-> IF k \in Proposed THEN proposals[k] ELSE p]
  BY DEF Propose
<1>2. p \in ProposalShape
  BY NewProposalTyped
<1> HIDE DEF p, D
<1> QED
  BY <1>1, <1>2 DEF ProposalsTyped, Proposed

LEMMA CastVoteKeeps ==
  ASSUME ProposalsTyped, NEW k \in Proposed, NEW m \in Members, NEW choice \in Ballots,
         CastVote(k, m, choice)
  PROVE  ProposalsTyped'
<1> DEFINE v == [proposals[k].votes EXCEPT ![m] = choice]
           q == [proposals[k] EXCEPT !.votes = v]
<1>1. proposals' = [proposals EXCEPT ![k] = q]
  BY DEF CastVote
<1>2. proposals[k] \in ProposalShape
  BY DEF ProposalsTyped
<1>3. v \in [Members -> {"none"} \cup Ballots]
  BY <1>2 DEF ProposalShape
<1> HIDE DEF v
<1>4. q \in ProposalShape
  BY <1>2, <1>3 DEF ProposalShape
<1> HIDE DEF q
<1> QED
  BY <1>1, <1>4 DEF ProposalsTyped, Proposed

LEMMA QueueKeeps ==
  ASSUME now \in Nat, ProposalsTyped, NEW k \in Proposed, Queue(k)
  PROVE  ProposalsTyped'
<1> DEFINE e == now + TimelockDelay
           q == [proposals[k] EXCEPT !.queued = TRUE, !.eta = e]
<1>1. proposals' = [proposals EXCEPT ![k] = q]
  BY DEF Queue, ProposalsTyped
<1>2. proposals[k] \in ProposalShape
  BY DEF ProposalsTyped
<1>3. e \in Nat
  BY GovernanceAssumption DEF GovernanceAssumption
<1> HIDE DEF e
<1>4. q \in ProposalShape
  BY <1>2, <1>3 DEF ProposalShape
<1> HIDE DEF q
<1> QED
  BY <1>1, <1>4 DEF ProposalsTyped, Proposed

LEMMA FlagKeeps ==
  ASSUME ProposalsTyped, NEW k \in Proposed,
         \/ proposals' = [proposals EXCEPT ![k].canceled = TRUE]
         \/ proposals' = [proposals EXCEPT ![k].executed = TRUE]
  PROVE  ProposalsTyped'
<1>1. proposals[k] \in ProposalShape
  BY DEF ProposalsTyped
<1>2. /\ [proposals[k] EXCEPT !.canceled = TRUE] \in ProposalShape
      /\ [proposals[k] EXCEPT !.executed = TRUE] \in ProposalShape
  BY <1>1 DEF ProposalShape
<1> QED
  BY <1>2 DEF ProposalsTyped, Proposed

LEMMA GovernedIsNext ==
  ProposalsTyped /\ [GovernedNext]_governedVars => [Next]_vars
<1> SUFFICES ASSUME ProposalsTyped, [GovernedNext]_governedVars PROVE [Next]_vars
  OBVIOUS
<1>1. ASSUME NEW k \in Proposed, Execute(k) PROVE Next
  <2>1. proposals[k].batch \in Batches /\ proposals[k].expectedId \in AllIds
    BY DEF ProposalsTyped, ProposalShape
  <2>2. RunBatch(proposals[k].batch, proposals[k].expectedId)
    BY <1>1 DEF Execute
  <2> QED
    BY <2>1, <2>2 DEF Next
<1>2. CASE Governor
  <2>1. ASSUME NEW a \in Accounts, NEW b \in Batches, NEW id \in AllIds, Propose(a, b, id)
        PROVE  UNCHANGED vars
    BY <2>1 DEF Propose
  <2>2. ASSUME NEW k \in Proposed, NEW m \in Members, NEW choice \in Ballots, CastVote(k, m, choice)
        PROVE  UNCHANGED vars
    BY <2>2 DEF CastVote
  <2>3. ASSUME NEW k \in Proposed, NEW a \in Accounts, Queue(k) \/ Cancel(k, a) PROVE UNCHANGED vars
    BY <2>3 DEF Queue, Cancel
  <2>4. ASSUME NEW k \in Proposed, Queue(k) PROVE UNCHANGED vars
    BY <2>4 DEF Queue
  <2> QED
    BY <1>1, <1>2, <2>1, <2>2, <2>3, <2>4 DEF Governor
<1>3. CASE (Market \/ Rewards) /\ UNCHANGED proposals
  BY <1>3 DEF Next
<1>4. CASE UNCHANGED governedVars
  BY <1>4 DEF governedVars
<1> QED
  BY <1>2, <1>3, <1>4 DEF GovernedNext

LEMMA ProposalsKeep ==
  IInv /\ ProposalsTyped /\ [GovernedNext]_governedVars => ProposalsTyped'
<1> SUFFICES ASSUME IInv, ProposalsTyped, [GovernedNext]_governedVars PROVE ProposalsTyped'
  OBVIOUS
<1>1. now \in Nat
  BY DEF IInv, TypeOK
<1>2. ASSUME NEW k \in Proposed, Execute(k) PROVE ProposalsTyped'
  BY <1>2, FlagKeeps DEF Execute
<1>3. ASSUME NEW k \in Proposed, NEW a \in Accounts, Cancel(k, a) PROVE ProposalsTyped'
  BY <1>3, FlagKeeps DEF Cancel
<1>4. CASE Governor
  BY <1>1, <1>2, <1>3, <1>4, ProposeKeeps, CastVoteKeeps, QueueKeeps DEF Governor
<1>5. CASE UNCHANGED proposals
  BY <1>5 DEF ProposalsTyped, Proposed
<1> QED
  BY <1>4, <1>5 DEF GovernedNext, governedVars

LEMMA GovernedStepKeeps ==
  IInv /\ ProposalsTyped /\ [GovernedNext]_governedVars
    => IInv' /\ ProposalsTyped' /\ [BudgetNext]_budgetVars
BY GovernedIsNext, NextIsBudgetStep, StepKeeps, ProposalsKeep

LEMMA GovernedStartHolds == GovernedInit => IInv /\ ProposalsTyped /\ BudgetInit
BY StartHolds DEF GovernedInit, Init, ProposalsTyped, Proposed

(* Whatever the members vote for and in whatever order it is executed, and *)
(* whatever the meters record, the composed system is a behaviour of the   *)
(* reward budget.                                                          *)
THEOREM GovernedImplementsBudget == GovernedSpec => BudgetSpec
<1>1. GovernedSpec => [](IInv /\ ProposalsTyped)
  BY GovernedStartHolds, GovernedStepKeeps, PTL DEF GovernedSpec
<1> QED
  BY <1>1, GovernedStartHolds, GovernedStepKeeps, PTL DEF GovernedSpec, BudgetSpec

(* So every award of a voted program is its exact pro rata share.          *)
THEOREM GovernedAwardsStand == GovernedSpec => []AwardsAreProRata
BY GovernedImplementsBudget, AwardsStand, PTL

(* Voted programs share the contract's balance without touching each       *)
(* other's budgets.                                                        *)
THEOREM GovernedReservationsMatch == GovernedSpec => []ReservedIsOwed
BY GovernedImplementsBudget, ReservationsMatch, PTL

-----------------------------------------------------------------------------
(* What is executed is what was voted.  Programs come from batches alone,  *)
(* and no later step changes what a batch said of its program; the next    *)
(* id is bound nowhere until its own batch binds it.                       *)

Unbound == [pool |-> None, metric |-> 0]

Bindings ==
  /\ binding \in [AllIds -> [pool : Pools \cup {None}, metric : 0..1]]
  /\ programPool \in [AllIds -> Pools \cup {None}]
  /\ \A id \in AllIds : id \notin Ids => binding[id] = Unbound /\ programPool[id] = None

Numbered == \E n \in Nat : Proposed = 1..n

TermsKept(id) ==
  /\ programs'[id].meter = programs[id].meter
  /\ programs'[id].budget = programs[id].budget
  /\ programs'[id].start = programs[id].start
  /\ programs'[id].end = programs[id].end
  /\ programs'[id].claimDeadline = programs[id].claimDeadline

(* No batch is executed but those in done; proposals keep what they say.   *)
Agenda(done) ==
  /\ Proposed \subseteq Proposed'
  /\ \A k \in Proposed : /\ proposals'[k].batch = proposals[k].batch
                         /\ proposals'[k].expectedId = proposals[k].expectedId
                         /\ proposals'[k].executed <=> proposals[k].executed \/ k \in done
  /\ \A k \in Proposed' : k \notin Proposed => ~proposals'[k].executed

LEMMA RecordKeepsTerms ==
  ASSUME IInv, NEW m, NEW a, NEW added, RecordWeights(m, a, added)
  PROVE  count' = count /\ \A id \in Ids : TermsKept(id)
<1>1. \A id \in Ids : programs[id] \in Programs
  BY DEF IInv, TypeOK, Ids
<1> QED
  BY <1>1 DEF RecordWeights, TermsKept, Programs

LEMMA ClaimKeepsTerms ==
  ASSUME IInv, NEW i \in Ids, NEW a \in Accounts, Claim(i, a)
  PROVE  count' = count /\ \A id \in Ids : TermsKept(id)
<1> DEFINE q == [programs[i] EXCEPT !.paid = @ + Claimable(i, a)]
<1>1. programs \in [Ids -> Programs]
  BY DEF IInv, TypeOK, Ids
<1>2. programs' = [programs EXCEPT ![i] = q] /\ count' = count
  BY DEF Claim
<1>3. /\ q.meter = programs[i].meter /\ q.budget = programs[i].budget
      /\ q.start = programs[i].start /\ q.end = programs[i].end
      /\ q.claimDeadline = programs[i].claimDeadline
  BY <1>1 DEF Programs
<1> HIDE DEF q
<1> QED
  BY <1>1, <1>2, <1>3 DEF TermsKept

LEMMA CloseKeepsTerms ==
  ASSUME IInv, NEW i \in Ids, Close(i)
  PROVE  count' = count /\ \A id \in Ids : TermsKept(id)
<1> DEFINE r == Remainder(programs[i])
           q == [programs[i] EXCEPT !.closed = TRUE, !.reclaimed = r]
<1>1. programs \in [Ids -> Programs]
  BY DEF IInv, TypeOK, Ids
<1>2. programs' = [programs EXCEPT ![i] = q] /\ count' = count
  BY DEF Close
<1> HIDE DEF r
<1>3. /\ q.meter = programs[i].meter /\ q.budget = programs[i].budget
      /\ q.start = programs[i].start /\ q.end = programs[i].end
      /\ q.claimDeadline = programs[i].claimDeadline
  BY <1>1 DEF Programs
<1> HIDE DEF q
<1> QED
  BY <1>1, <1>2, <1>3 DEF TermsKept

Quiet ==
  /\ count' = count /\ \A id \in Ids : TermsKept(id)
  /\ binding' = binding /\ programPool' = programPool

LEMMA MarketIsQuiet ==
  ASSUME IInv, Market
  PROVE  Quiet
<1>1. ASSUME NEW pool \in Pools, NEW a \in Accounts, NEW fee \in 0..1, NEW eligible \in BOOLEAN,
             Swap(pool, a, 1, fee, eligible)
      PROVE  Quiet
  <2>1. UNCHANGED meterVars
    BY <1>1 DEF Swap
  <2>2. CASE UNCHANGED budgetVars
    BY <2>1, <2>2 DEF Quiet, budgetVars, meterVars, TermsKept
  <2>3. ASSUME NEW added, RecordWeights(Hook, a, added)
        PROVE  Quiet
    BY <2>1, <2>3, RecordKeepsTerms DEF Quiet, meterVars
  <2> QED
    BY <1>1, <2>2, <2>3 DEF Swap
<1>2. ASSUME NEW id \in AllIds, NEW a \in Accounts, NEW n \in 1..MaxBpt, Stake(id, a, n)
      PROVE  Quiet
  <2>1. RecordWeights(LockMeter, a, [x \in {id} |-> n * (programs[id].end - now)])
    BY <1>2 DEF Stake
  <2>2. count' = count /\ \A i \in Ids : TermsKept(i)
    BY <2>1, RecordKeepsTerms
  <2> QED
    BY <1>2, <2>2 DEF Quiet, Stake
<1>3. ASSUME NEW id \in AllIds, NEW a \in Accounts, Withdraw(id, a) PROVE Quiet
  BY <1>3 DEF Withdraw, Quiet, budgetVars, TermsKept
<1>4. CASE Resolve \/ \E pool \in Pools, c \in BOOLEAN : OnRegister(pool, c)
  BY <1>4 DEF Resolve, OnRegister, Quiet, budgetVars, TermsKept
<1>5. ASSUME NEW pool \in Pools, NEW a \in Accounts, AddLiquidity(pool, a) \/ RemoveLiquidity(pool, a)
      PROVE  Quiet
  BY <1>5 DEF AddLiquidity, RemoveLiquidity, Quiet, budgetVars, TermsKept
<1> QED
  BY <1>1, <1>2, <1>3, <1>4, <1>5 DEF Market

LEMMA RewardsAreQuiet ==
  ASSUME IInv, Rewards
  PROVE  Quiet
<1>1. binding' = binding /\ programPool' = programPool
  BY DEF Rewards, meterVars
<1>2. ASSUME NEW id \in Ids, NEW a \in Accounts, Claim(id, a) PROVE Quiet
  BY <1>1, <1>2, ClaimKeepsTerms DEF Quiet
<1>3. ASSUME NEW id \in Ids, Close(id) PROVE Quiet
  BY <1>1, <1>3, CloseKeepsTerms DEF Quiet
<1>4. CASE Tick \/ \E n \in Mints : Fund(n)
  BY <1>1, <1>4 DEF Quiet, Tick, Fund, TermsKept
<1> QED
  BY <1>2, <1>3, <1>4 DEF Rewards

(* A batch adds the next program and binds it where the batch said.        *)
LEMMA BatchCreates ==
  ASSUME IInv, NEW b \in Batches, NEW id \in AllIds, RunBatch(b, id)
  PROVE  /\ id = count + 1 /\ count' = count + 1
         /\ \A i \in Ids : programs'[i] = programs[i]
         /\ programs'[id] = NewProgram(b.meter, b.window, b.budget)
<1> DEFINE p == NewProgram(b.meter, b.window, b.budget)
<1>1. /\ id = count + 1 /\ count' = count + 1
      /\ programs' = [i \in 1..count' |-> IF i \in Ids THEN programs[i] ELSE p]
  BY DEF RunBatch, CreateProgram, NextId
<1>2. count \in Nat
  BY DEF IInv, TypeOK
<1> HIDE DEF p
<1>3. Ids \subseteq 1..count' /\ id \in 1..count' /\ id \notin Ids
  BY <1>1, <1>2 DEF Ids
<1>4. \A i \in Ids : programs'[i] = programs[i]
  BY <1>1, <1>3
<1>5. programs'[id] = p
  BY <1>1, <1>3
<1> QED
  BY <1>1, <1>4, <1>5 DEF p

LEMMA BatchBinds ==
  ASSUME Bindings, NEW b \in Batches, NEW id \in AllIds, id \notin Ids, RunBatch(b, id)
  PROVE  /\ binding' \in [AllIds -> [pool : Pools \cup {None}, metric : 0..1]]
         /\ programPool' \in [AllIds -> Pools \cup {None}]
         /\ \A i \in AllIds : i # id => binding'[i] = binding[i] /\ programPool'[i] = programPool[i]
         /\ binding'[id] = [pool |-> IF b.target = Hook THEN b.pool ELSE None,
                            metric |-> IF b.target = Hook THEN b.metric ELSE 0]
         /\ programPool'[id] = IF b.target = LockMeter THEN b.pool ELSE None
<1>1. b.pool \in Pools /\ b.metric \in 0..1 /\ Hook # None /\ LockMeter # None /\ Hook # LockMeter
  BY MetersAssumption DEF MetersAssumption, BatchShape
<1>2. binding[id] = Unbound /\ programPool[id] = None
  BY DEF Bindings
<1>3. CASE b.target = Hook /\ ConfigureSwaps(programs', id, b.pool, b.metric)
  <2>1. /\ binding' = [binding EXCEPT ![id] = [pool |-> b.pool, metric |-> b.metric]]
        /\ programPool' = programPool
    BY <1>3 DEF ConfigureSwaps
  <2>2. b.target # LockMeter
    BY <1>1, <1>3
  <2>3. [pool |-> b.pool, metric |-> b.metric] \in [pool : Pools \cup {None}, metric : 0..1]
    BY <1>1
  <2>4. binding' \in [AllIds -> [pool : Pools \cup {None}, metric : 0..1]]
    BY <2>1, <2>3 DEF Bindings
  <2>5. binding'[id] = [pool |-> b.pool, metric |-> b.metric]
    BY <2>1 DEF Bindings
  <2> QED
    BY <1>2, <1>3, <2>1, <2>2, <2>4, <2>5 DEF Bindings
<1>4. CASE b.target = LockMeter /\ ConfigureLock(programs', id, b.pool)
  <2>1. /\ programPool' = [programPool EXCEPT ![id] = b.pool]
        /\ binding' = binding
    BY <1>4 DEF ConfigureLock
  <2> QED
    BY <1>1, <1>2, <1>4, <2>1 DEF Bindings, Unbound
<1>5. CASE b.target = None /\ UNCHANGED meterVars
  BY <1>1, <1>2, <1>5 DEF Bindings, Unbound, meterVars
<1> QED
  BY <1>3, <1>4, <1>5 DEF RunBatch, Configure

LEMMA ProposeIsNoDecision ==
  ASSUME ProposalsTyped, Numbered, NEW a \in Accounts, NEW b \in Batches, NEW id \in AllIds,
         Propose(a, b, id)
  PROVE  Agenda({}) /\ Numbered'
<1> DEFINE p == NewProposal(b, id, a)
<1>1. PICK n \in Nat : Proposed = 1..n
  BY DEF Numbered
<1>2. Cardinality(Proposed) = n
  BY <1>1, FS_Interval
<1>3. proposals' = [k \in 1..(n + 1) |-> IF k \in Proposed THEN proposals[k] ELSE p]
  BY <1>2 DEF Propose
<1>4. ~p.executed
  BY DEF NewProposal
<1> HIDE DEF p
<1>5. Proposed' = 1..(n + 1) /\ Proposed \subseteq Proposed' /\ n + 1 \in Nat
  BY <1>1, <1>3 DEF Proposed
<1>6. \A k \in Proposed : proposals'[k] = proposals[k]
  BY <1>3, <1>5
<1>7. \A k \in Proposed' : k \notin Proposed => proposals'[k] = p
  BY <1>3, <1>5
<1> QED
  BY <1>4, <1>5, <1>6, <1>7 DEF Agenda, Numbered

(* A step that changes other fields of one proposal.                       *)
LEMMA OneProposalChanges ==
  ASSUME ProposalsTyped, Numbered, NEW k \in Proposed, NEW q, NEW done \in SUBSET {k},
         proposals' = [proposals EXCEPT ![k] = q],
         q.batch = proposals[k].batch, q.expectedId = proposals[k].expectedId,
         q.executed <=> proposals[k].executed \/ k \in done
  PROVE  Agenda(done) /\ Numbered'
<1>1. Proposed' = Proposed
  BY DEF Proposed, ProposalsTyped
<1>2. proposals'[k] = q /\ \A j \in Proposed : j # k => proposals'[j] = proposals[j] /\ j \notin done
  BY DEF Proposed, ProposalsTyped
<1> QED
  BY <1>1, <1>2 DEF Agenda, Numbered

LEMMA OneProposalStays ==
  ASSUME ProposalsTyped, Numbered, NEW k \in Proposed, NEW q,
         proposals' = [proposals EXCEPT ![k] = q],
         q.batch = proposals[k].batch, q.expectedId = proposals[k].expectedId,
         q.executed = proposals[k].executed
  PROVE  Agenda({}) /\ Numbered'
<1>1. {} \in SUBSET {k} /\ (q.executed <=> proposals[k].executed \/ k \in {})
  OBVIOUS
<1> HIDE DEF Agenda, Numbered
<1> QED
  BY <1>1, OneProposalChanges

LEMMA OthersDecideNothing ==
  ASSUME ProposalsTyped, Numbered, NEW k \in Proposed,
         \/ \E m \in Members, choice \in Ballots : CastVote(k, m, choice)
         \/ Queue(k)
         \/ \E a \in Accounts : Cancel(k, a)
  PROVE  Agenda({}) /\ Numbered'
<1>1. proposals[k] \in ProposalShape
  BY DEF ProposalsTyped
<1>2. ASSUME NEW m \in Members, NEW choice \in Ballots, CastVote(k, m, choice)
      PROVE  Agenda({}) /\ Numbered'
  <2> DEFINE v == [proposals[k].votes EXCEPT ![m] = choice]
             q == [proposals[k] EXCEPT !.votes = v]
  <2>1. proposals' = [proposals EXCEPT ![k] = q]
    BY <1>2 DEF CastVote
  <2> HIDE DEF v
  <2>2. /\ q.batch = proposals[k].batch /\ q.expectedId = proposals[k].expectedId
        /\ q.executed = proposals[k].executed
    BY <1>1 DEF ProposalShape
  <2> HIDE DEF q
  <2> QED
    BY <2>1, <2>2, OneProposalStays
<1>3. ASSUME Queue(k)
      PROVE  Agenda({}) /\ Numbered'
  <2> DEFINE e == now + TimelockDelay
             q == [proposals[k] EXCEPT !.queued = TRUE, !.eta = e]
  <2>1. proposals' = [proposals EXCEPT ![k] = q]
    BY <1>3 DEF Queue, ProposalsTyped
  <2> HIDE DEF e
  <2>2. /\ q.batch = proposals[k].batch /\ q.expectedId = proposals[k].expectedId
        /\ q.executed = proposals[k].executed
    BY <1>1 DEF ProposalShape
  <2> HIDE DEF q
  <2> QED
    BY <2>1, <2>2, OneProposalStays
<1>4. ASSUME NEW a \in Accounts, Cancel(k, a)
      PROVE  Agenda({}) /\ Numbered'
  <2> DEFINE q == [proposals[k] EXCEPT !.canceled = TRUE]
  <2>1. proposals' = [proposals EXCEPT ![k] = q]
    BY <1>4 DEF Cancel
  <2>2. /\ q.batch = proposals[k].batch /\ q.expectedId = proposals[k].expectedId
        /\ q.executed = proposals[k].executed
    BY <1>1 DEF ProposalShape
  <2> HIDE DEF q
  <2> QED
    BY <2>1, <2>2, OneProposalStays
<1> QED
  BY <1>2, <1>3, <1>4

LEMMA ExecuteDecidesOne ==
  ASSUME ProposalsTyped, Numbered, NEW k \in Proposed, Execute(k)
  PROVE  Agenda({k}) /\ Numbered' /\ ~proposals[k].executed
<1> DEFINE q == [proposals[k] EXCEPT !.executed = TRUE]
<1>1. proposals[k] \in ProposalShape
  BY DEF ProposalsTyped
<1>2. proposals' = [proposals EXCEPT ![k] = q]
  BY DEF Execute
<1>3. ~proposals[k].executed
  BY <1>1 DEF Execute, State, ProposalShape
<1>4. /\ q.batch = proposals[k].batch /\ q.expectedId = proposals[k].expectedId
      /\ q.executed = TRUE
  BY <1>1 DEF ProposalShape
<1> HIDE DEF q
<1> QED
  BY <1>2, <1>3, <1>4, OneProposalChanges

-----------------------------------------------------------------------------
VotedInv == ProgramsAreAsVoted /\ Bindings /\ Numbered

LEMMA QuietKeepsVoted ==
  ASSUME IInv, ProposalsTyped, VotedInv, Quiet, Agenda({}), Numbered'
  PROVE  VotedInv'
<1>1. Ids' = Ids
  BY DEF Quiet, Ids
<1>2. Bindings'
  BY <1>1 DEF VotedInv, Bindings, Quiet
<1>3. \A k \in Proposed' : proposals'[k].executed =>
        /\ k \in Proposed /\ proposals[k].executed
        /\ proposals'[k].batch = proposals[k].batch
        /\ proposals'[k].expectedId = proposals[k].expectedId
  BY DEF Agenda
<1>4. \A id \in Ids' : \E k \in Proposed' : proposals'[k].executed /\ proposals'[k].expectedId = id
  BY <1>1 DEF VotedInv, ProgramsAreAsVoted, Agenda
<1>5. ASSUME NEW id \in Ids, NEW b, RunsAs(id, b)
      PROVE  RunsAs(id, b)'
  BY <1>1, <1>5 DEF RunsAs, Quiet, TermsKept
<1>6. ASSUME NEW k \in Proposed', proposals'[k].executed
      PROVE  RunsAs(proposals[k].expectedId, proposals[k].batch)'
  <2> DEFINE id == proposals[k].expectedId
             b == proposals[k].batch
  <2>1. RunsAs(id, b)
    BY <1>3, <1>6 DEF VotedInv, ProgramsAreAsVoted
  <2> QED
    BY <1>3, <1>5, <1>6, <2>1 DEF RunsAs
<1> QED
  BY <1>2, <1>3, <1>4, <1>6 DEF VotedInv, ProgramsAreAsVoted

LEMMA ExecuteKeepsVoted ==
  ASSUME IInv, ProposalsTyped, VotedInv, NEW k \in Proposed, Execute(k)
  PROVE  VotedInv'
<1>1. PICK b \in Batches, id \in AllIds :
        /\ b = proposals[k].batch /\ id = proposals[k].expectedId
        /\ RunBatch(b, id)
  <2>1. proposals[k].batch \in Batches /\ proposals[k].expectedId \in AllIds
    BY DEF ProposalsTyped, ProposalShape
  <2> QED
    BY <2>1 DEF Execute
<1>2. /\ id = count + 1 /\ count' = count + 1
      /\ \A i \in Ids : programs'[i] = programs[i]
      /\ programs'[id] = NewProgram(b.meter, b.window, b.budget)
  BY <1>1, BatchCreates
<1>3. count \in Nat
  BY DEF IInv, TypeOK
<1>4. Ids' = Ids \cup {id} /\ id \notin Ids
  BY <1>2, <1>3 DEF Ids
<1>5. /\ binding' \in [AllIds -> [pool : Pools \cup {None}, metric : 0..1]]
      /\ programPool' \in [AllIds -> Pools \cup {None}]
      /\ \A i \in AllIds : i # id => binding'[i] = binding[i] /\ programPool'[i] = programPool[i]
      /\ binding'[id] = [pool |-> IF b.target = Hook THEN b.pool ELSE None,
                         metric |-> IF b.target = Hook THEN b.metric ELSE 0]
      /\ programPool'[id] = IF b.target = LockMeter THEN b.pool ELSE None
  BY <1>1, <1>4, BatchBinds DEF VotedInv
<1>6. Bindings'
  BY <1>4, <1>5 DEF VotedInv, Bindings
<1>7. Agenda({k}) /\ Numbered' /\ ~proposals[k].executed
  BY ExecuteDecidesOne DEF VotedInv
<1>8. \A j \in Proposed' : proposals'[j].executed =>
        /\ j \in Proposed
        /\ j # k => proposals[j].executed
        /\ proposals'[j].batch = proposals[j].batch
        /\ proposals'[j].expectedId = proposals[j].expectedId
  BY <1>7 DEF Agenda
<1>9. k \in Proposed' /\ proposals'[k].executed /\ proposals'[k].expectedId = id
      /\ proposals'[k].batch = b
  BY <1>1, <1>7 DEF Agenda
<1>10. \A i \in Ids' : \E j \in Proposed' : proposals'[j].executed /\ proposals'[j].expectedId = i
  <2>1. \A i \in Ids : \E j \in Proposed : proposals[j].executed /\ proposals[j].expectedId = i
    BY DEF VotedInv, ProgramsAreAsVoted
  <2> QED
    BY <1>4, <1>7, <1>9, <2>1 DEF Agenda
<1>11. \A j \in Proposed : proposals[j].executed => proposals[j].expectedId \in Ids
  BY DEF VotedInv, ProgramsAreAsVoted, RunsAs
<1>12. \A j \in Proposed' : proposals'[j].executed /\ j # k
         => proposals'[j].expectedId \in Ids /\ proposals'[j].expectedId # id
  BY <1>4, <1>8, <1>11
<1>13. \A i, j \in Proposed' :
         proposals'[i].executed /\ proposals'[j].executed
           => i = j \/ proposals'[i].expectedId # proposals'[j].expectedId
  <2>1. \A i, j \in Proposed :
          proposals[i].executed /\ proposals[j].executed
            => i = j \/ proposals[i].expectedId # proposals[j].expectedId
    BY DEF VotedInv, ProgramsAreAsVoted
  <2> QED
    BY <1>8, <1>9, <1>12, <2>1
<1>14. ASSUME NEW j \in Proposed', proposals'[j].executed
       PROVE  RunsAs(proposals[j].expectedId, proposals[j].batch)'
  <2>1. CASE j = k
    <3>1. id \in Ids'
      BY <1>4
    <3>2. /\ programs'[id].meter = b.meter /\ programs'[id].budget = b.budget
          /\ programs'[id].start = b.window.start /\ programs'[id].end = b.window.end
          /\ programs'[id].claimDeadline = b.window.deadline
      BY <1>2 DEF NewProgram
    <3>3. b.window = [start |-> b.window.start, end |-> b.window.end, deadline |-> b.window.deadline]
      BY MetersAssumption, RewardAssumption DEF MetersAssumption, RewardAssumption, BatchShape
    <3> QED
      BY <1>5, <1>9, <2>1, <3>1, <3>2, <3>3 DEF RunsAs
  <2>2. CASE j # k
    <3> DEFINE i == proposals[j].expectedId
               c == proposals[j].batch
    <3>1. RunsAs(i, c)
      BY <1>8, <1>14, <2>2 DEF VotedInv, ProgramsAreAsVoted
    <3>2. i \in Ids /\ i # id /\ i \in AllIds
      <4>1. i \in AllIds
        BY <1>8, <1>14 DEF ProposalsTyped, ProposalShape
      <4> QED
        BY <1>4, <3>1, <4>1 DEF RunsAs
    <3>3. programs'[i] = programs[i] /\ binding'[i] = binding[i] /\ programPool'[i] = programPool[i]
      BY <1>2, <1>5, <3>2
    <3>4. proposals'[j].expectedId = i /\ proposals'[j].batch = c /\ i \in Ids'
      BY <1>4, <1>8, <1>14, <3>2
    <3> QED
      BY <3>1, <3>3, <3>4 DEF RunsAs
  <2> QED
    BY <2>1, <2>2
<1> QED
  BY <1>6, <1>7, <1>10, <1>13, <1>14 DEF VotedInv, ProgramsAreAsVoted

LEMMA GovernedKeepsVoted ==
  IInv /\ ProposalsTyped /\ VotedInv /\ [GovernedNext]_governedVars => VotedInv'
<1> SUFFICES ASSUME IInv, ProposalsTyped, VotedInv, [GovernedNext]_governedVars PROVE VotedInv'
  OBVIOUS
<1>1. ASSUME UNCHANGED vars PROVE Quiet
  BY <1>1 DEF vars, budgetVars, meterVars, Quiet, TermsKept
<1>2. ASSUME UNCHANGED proposals PROVE Agenda({}) /\ Numbered'
  BY <1>2 DEF Agenda, Proposed, VotedInv, Numbered
<1>3. ASSUME NEW a \in Accounts, NEW b \in Batches, NEW id \in AllIds, Propose(a, b, id)
      PROVE  VotedInv'
  <2>1. Agenda({}) /\ Numbered'
    BY <1>3, ProposeIsNoDecision DEF VotedInv
  <2>2. Quiet
    BY <1>1, <1>3 DEF Propose
  <2> QED
    BY <2>1, <2>2, QuietKeepsVoted
<1>4. ASSUME NEW k \in Proposed,
             \/ \E m \in Members, choice \in Ballots : CastVote(k, m, choice)
             \/ Queue(k)
             \/ \E a \in Accounts : Cancel(k, a)
      PROVE  VotedInv'
  <2>1. Agenda({}) /\ Numbered'
    BY <1>4, OthersDecideNothing DEF VotedInv
  <2>2. Quiet
    BY <1>1, <1>4 DEF CastVote, Queue, Cancel
  <2> QED
    BY <2>1, <2>2, QuietKeepsVoted
<1>5. ASSUME NEW k \in Proposed, Execute(k) PROVE VotedInv'
  BY <1>5, ExecuteKeepsVoted
<1>6. CASE Governor
  BY <1>3, <1>4, <1>5, <1>6 DEF Governor
<1>7. CASE (Market \/ Rewards) /\ UNCHANGED proposals
  BY <1>2, <1>7, MarketIsQuiet, RewardsAreQuiet, QuietKeepsVoted
<1>8. CASE UNCHANGED governedVars
  BY <1>1, <1>2, <1>8, QuietKeepsVoted DEF governedVars
<1> QED
  BY <1>6, <1>7, <1>8 DEF GovernedNext

LEMMA VotedStarts == GovernedInit => VotedInv
<1> SUFFICES ASSUME GovernedInit PROVE VotedInv
  OBVIOUS
<1>1. Ids = {} /\ Proposed = 1..0
  BY DEF GovernedInit, Init, BudgetInit, Ids, Proposed
<1>2. ProgramsAreAsVoted
  BY <1>1 DEF ProgramsAreAsVoted
<1>3. Bindings
  BY <1>1 DEF Bindings, GovernedInit, Init, MetersInit, Unbound
<1>4. Numbered
  BY <1>1 DEF Numbered
<1> QED
  BY <1>2, <1>3, <1>4 DEF VotedInv

(* What the members voted for is what runs, for every number of members,   *)
(* proposals and programs and whatever the order of execution.             *)
THEOREM VotesAreFollowed == GovernedSpec => []ProgramsAreAsVoted
<1>1. GovernedInit => IInv /\ ProposalsTyped /\ VotedInv
  BY GovernedStartHolds, VotedStarts
<1>2. (IInv /\ ProposalsTyped /\ VotedInv) /\ [GovernedNext]_governedVars
        => (IInv /\ ProposalsTyped /\ VotedInv)'
  BY GovernedStepKeeps, GovernedKeepsVoted
<1>3. VotedInv => ProgramsAreAsVoted
  BY DEF VotedInv
<1> QED
  BY <1>1, <1>2, <1>3, PTL DEF GovernedSpec

-----------------------------------------------------------------------------
(* The meters: a bound program holds exactly one slot of its pool until it *)
(* ends, and the lock meter holds what was deposited with it.              *)

MeterTypes ==
  /\ count <= MaxPrograms
  /\ registered \subseteq Pools /\ official \subseteq Pools
  /\ slots \in [Pools -> [Slots -> Nat]]
  /\ deposits \in [AllIds -> [Accounts -> Nat]]
  /\ bpt \in [Pools -> [BptHolders -> Nat]]

SlotsFit ==
  \A pool \in Pools, i \in Slots : slots[pool][i] # 0 =>
    /\ slots[pool][i] \in Ids
    /\ binding[slots[pool][i]].pool = pool
    /\ programs[slots[pool][i]].meter = Hook
    /\ \A j \in Slots : slots[pool][j] = slots[pool][i] => j = i

SlotsHold ==
  \A id \in Ids : binding[id].pool # None /\ now < programs[id].end =>
    \E i \in Slots : slots[binding[id].pool][i] = id

SlotsInv == SlotsFit /\ SlotsHold

LockedByMeter ==
  \A id \in Ids : programPool[id] # None => programs[id].meter = LockMeter

DepositsAreBound ==
  \A id \in AllIds, a \in Accounts : deposits[id][a] > 0 => id \in Ids /\ programPool[id] # None

(* What the accounts have deposited for programs of the pool. *)
Locks == AllIds \X Accounts
LockOf(pool) == [x \in Locks |-> IF programPool[x[1]] = pool THEN deposits[x[1]][x[2]] ELSE 0]

LocksAreBacked == \A pool \in Pools : bpt[pool][LockMeter] = SumFunctionOnSet(LockOf(pool), Locks)

LocksInv == LockedByMeter /\ DepositsAreBound /\ WeightIsLocked /\ LocksAreBacked

MetersInv == IInv /\ Bindings /\ MeterTypes /\ SlotsInv /\ LocksInv

-----------------------------------------------------------------------------
LEMMA LocksAreFinite == IsFiniteSet(Locks)
<1>1. IsFiniteSet(AllIds)
  BY FS_Interval, RewardAssumption DEF AllIds, RewardAssumption
<1>2. IsFiniteSet(Accounts)
  BY RewardAssumption DEF RewardAssumption
<1> QED
  BY <1>1, <1>2, FS_Product DEF Locks

LEMMA LockOfTypes ==
  ASSUME MeterTypes, NEW pool
  PROVE  \A x \in Locks : LockOf(pool)[x] \in Nat
<1> SUFFICES ASSUME NEW x \in Locks PROVE LockOf(pool)[x] \in Nat
  OBVIOUS
<1>1. x[1] \in AllIds /\ x[2] \in Accounts
  BY DEF Locks
<1>2. deposits[x[1]][x[2]] \in Nat
  BY <1>1 DEF MeterTypes
<1> QED
  BY <1>2 DEF LockOf

LEMMA MetersStart == Init => MetersInv
<1> SUFFICES ASSUME Init PROVE MetersInv
  OBVIOUS
<1>1. IInv
  BY StartHolds DEF Init
<1>2. count = 0 /\ Ids = {}
  BY DEF Init, BudgetInit, Ids
<1>3. Bindings
  BY <1>2 DEF Init, MetersInit, Bindings, Unbound
<1>4. MeterTypes
  BY <1>2, RewardAssumption DEF Init, MetersInit, MeterTypes, RewardAssumption
<1>5. SlotsInv
  BY <1>2 DEF Init, MetersInit, SlotsInv, SlotsFit, SlotsHold
<1>6. LockedByMeter /\ WeightIsLocked
  BY <1>2 DEF LockedByMeter, WeightIsLocked
<1>7. DepositsAreBound
  BY DEF DepositsAreBound, Init, MetersInit
<1>8. LocksAreBacked
  <2> SUFFICES ASSUME NEW pool \in Pools
               PROVE  bpt[pool][LockMeter] = SumFunctionOnSet(LockOf(pool), Locks)
    BY DEF LocksAreBacked
  <2>1. \A x \in Locks : LockOf(pool)[x] = 0
    BY DEF LockOf, Init, MetersInit, Locks
  <2>2. SumFunctionOnSet(LockOf(pool), Locks) = 0
    BY <2>1, LocksAreFinite, SumOfZeros
  <2>3. bpt[pool][LockMeter] = 0
    BY DEF Init, MetersInit, BptHolders
  <2> QED
    BY <2>2, <2>3
<1> QED
  BY <1>1, <1>3, <1>4, <1>5, <1>6, <1>7, <1>8 DEF MetersInv, LocksInv

-----------------------------------------------------------------------------
(* Steps that create no program. *)

LEMMA QuietIds == Quiet => Ids' = Ids
BY DEF Quiet, Ids

LEMMA QuietBindings ==
  ASSUME Bindings, Quiet
  PROVE  Bindings'
BY QuietIds DEF Bindings, Quiet

LEMMA QuietSlots ==
  ASSUME IInv, Bindings, SlotsInv, Quiet, slots' = slots, now' \in Nat, now <= now'
  PROVE  SlotsInv'
<1>1. /\ Ids' = Ids /\ binding' = binding
      /\ \A id \in Ids : /\ programs'[id].meter = programs[id].meter
                         /\ programs'[id].end = programs[id].end
  BY QuietIds DEF Quiet, TermsKept
<1>2. SlotsFit'
  BY <1>1 DEF SlotsInv, SlotsFit
<1>3. SlotsHold'
  <2> SUFFICES ASSUME NEW id \in Ids, binding[id].pool # None, now' < programs'[id].end
               PROVE  \E i \in Slots : slots[binding[id].pool][i] = id
    BY <1>1 DEF SlotsHold
  <2>1. programs[id].end \in Nat /\ now \in Nat
    BY DEF IInv, TypeOK, Ids, Programs
  <2>2. now < programs[id].end
    BY <1>1, <2>1
  <2> QED
    BY <2>2 DEF SlotsInv, SlotsHold
<1> QED
  BY <1>2, <1>3 DEF SlotsInv

(* Steps that leave deposits and the lock meter's pool tokens alone. *)
LEMMA LocksStay ==
  ASSUME MetersInv, Quiet, MeterTypes', deposits' = deposits, now' \in Nat, now <= now',
         \A pool \in Pools : bpt'[pool][LockMeter] = bpt[pool][LockMeter],
         \A id \in Ids : programPool[id] # None => weights'[id] = weights[id]
  PROVE  LocksInv'
<1>1. /\ Ids' = Ids /\ programPool' = programPool
      /\ \A id \in Ids : /\ programs'[id].meter = programs[id].meter
                         /\ programs'[id].start = programs[id].start
                         /\ programs'[id].end = programs[id].end
  BY QuietIds DEF Quiet, TermsKept
<1>2. LockedByMeter' /\ DepositsAreBound'
  BY <1>1 DEF MetersInv, LocksInv, LockedByMeter, DepositsAreBound
<1>3. WeightIsLocked'
  <2> SUFFICES ASSUME NEW id \in Ids, NEW a \in Accounts,
                      programPool[id] # None, now' < programs'[id].end
               PROVE  /\ weights'[id][a] > 0 <=> deposits[id][a] > 0
                      /\ weights'[id][a] <= deposits[id][a] * (programs'[id].end - programs'[id].start)
    BY <1>1 DEF WeightIsLocked
  <2>1. programs[id].end \in Nat /\ now \in Nat
    BY DEF MetersInv, IInv, TypeOK, Ids, Programs
  <2>2. now < programs[id].end
    BY <1>1, <2>1
  <2>3. /\ weights[id][a] > 0 <=> deposits[id][a] > 0
        /\ weights[id][a] <= deposits[id][a] * (programs[id].end - programs[id].start)
    BY <2>2 DEF MetersInv, LocksInv, WeightIsLocked
  <2> QED
    BY <1>1, <2>3
<1>4. LocksAreBacked'
  <2> SUFFICES ASSUME NEW pool \in Pools
               PROVE  bpt'[pool][LockMeter] = SumFunctionOnSet(LockOf(pool), Locks)'
    BY DEF LocksAreBacked
  <2>1. LockOf(pool)' = LockOf(pool) /\ Locks' = Locks
    BY <1>1 DEF LockOf, Locks, AllIds
  <2> QED
    BY <2>1 DEF MetersInv, LocksInv, LocksAreBacked
<1> QED
  BY <1>2, <1>3, <1>4 DEF LocksInv

LEMMA QuietTypes ==
  ASSUME MeterTypes, count' = count, UNCHANGED meterVars
  PROVE  MeterTypes'
BY DEF MeterTypes, meterVars, AllIds

(* Trading is measured for programs of the hook only. *)
LEMMA SwapKeeps ==
  ASSUME MetersInv, NEW pool \in Pools, NEW a \in Accounts, NEW fee \in 0..1,
         NEW eligible \in BOOLEAN, Swap(pool, a, 1, fee, eligible), Quiet
  PROVE  Bindings' /\ MeterTypes' /\ SlotsInv' /\ LocksInv'
<1>1. UNCHANGED meterVars /\ now' = now /\ now \in Nat
  BY DEF Swap, RecordWeights, budgetVars, MetersInv, IInv, TypeOK
<1>2. MeterTypes'
  BY <1>1, QuietTypes DEF MetersInv, Quiet
<1>3. \A id \in Ids : programPool[id] # None => weights'[id] = weights[id]
  <2> SUFFICES ASSUME NEW id \in Ids, programPool[id] # None PROVE weights'[id] = weights[id]
    OBVIOUS
  <2> DEFINE added == Measured(pool, 1, fee, eligible)
  <2>1. programs[id].meter # Hook
    BY MetersAssumption DEF MetersInv, LocksInv, LockedByMeter, MetersAssumption
  <2>2. CASE DOMAIN added = {}
    BY <2>2 DEF Swap, budgetVars
  <2>3. CASE RecordWeights(Hook, a, added)
    <3> HIDE DEF added
    <3>1. id \notin DOMAIN added
      BY <2>1, <2>3 DEF RecordWeights, Recordable
    <3> QED
      BY <2>3, <3>1 DEF RecordWeights
  <2> QED
    BY <2>2, <2>3 DEF Swap
<1>4. SlotsInv'
  BY <1>1, QuietSlots DEF MetersInv, meterVars
<1>5. LocksInv'
  BY <1>1, <1>2, <1>3, LocksStay DEF meterVars
<1> QED
  BY <1>2, <1>4, <1>5, QuietBindings DEF MetersInv

LEMMA RewardsKeep ==
  ASSUME MetersInv, Rewards, Quiet
  PROVE  Bindings' /\ MeterTypes' /\ SlotsInv' /\ LocksInv'
<1>1. UNCHANGED meterVars
  BY DEF Rewards
<1>0. now \in Nat
  BY DEF MetersInv, IInv, TypeOK
<1>2. weights' = weights /\ now' \in Nat /\ now <= now'
  <2>1. weights' = weights
    BY DEF Rewards, Fund, Claim, Close, Tick
  <2>2. now' = now \/ now' = now + 1
    BY DEF Rewards, Fund, Claim, Close, Tick
  <2> QED
    BY <1>0, <2>1, <2>2
<1>3. MeterTypes'
  BY <1>1, QuietTypes DEF MetersInv, Quiet
<1>4. SlotsInv'
  BY <1>1, <1>2, QuietSlots DEF MetersInv, meterVars
<1>5. LocksInv'
  BY <1>1, <1>2, <1>3, LocksStay DEF meterVars
<1> QED
  BY <1>3, <1>4, <1>5, QuietBindings DEF MetersInv

(* Users come and go; what the lock meter holds is not theirs to take. *)
LEMMA ExitKeeps ==
  ASSUME MetersInv, Quiet, UNCHANGED budgetVars, UNCHANGED <<binding, slots, programPool, deposits>>,
         registered' \subseteq Pools, official' \subseteq Pools,
         bpt' \in [Pools -> [BptHolders -> Nat]],
         \A pool \in Pools : bpt'[pool][LockMeter] = bpt[pool][LockMeter]
  PROVE  Bindings' /\ MeterTypes' /\ SlotsInv' /\ LocksInv'
<1>1. weights' = weights /\ now' = now /\ now \in Nat /\ count' = count
  BY DEF budgetVars, MetersInv, IInv, TypeOK
<1>2. MeterTypes'
  BY <1>1 DEF MetersInv, MeterTypes, AllIds, BptHolders
<1>3. SlotsInv'
  BY <1>1, QuietSlots DEF MetersInv
<1>4. LocksInv'
  BY <1>1, <1>2, LocksStay
<1> QED
  BY <1>2, <1>3, <1>4, QuietBindings DEF MetersInv

LEMMA NotTheMeter ==
  ASSUME MeterTypes, NEW pool \in Pools, NEW a \in Accounts, NEW n \in Nat,
         bpt' = [bpt EXCEPT ![pool][a] = n]
  PROVE  /\ bpt' \in [Pools -> [BptHolders -> Nat]]
         /\ \A p \in Pools : bpt'[p][LockMeter] = bpt[p][LockMeter]
<1>1. a # LockMeter /\ LockMeter \in BptHolders /\ a \in BptHolders
  BY MetersAssumption DEF MetersAssumption, BptHolders
<1>2. bpt \in [Pools -> [BptHolders -> Nat]]
  BY DEF MeterTypes
<1> QED
  BY <1>1, <1>2

(* Depositing and withdrawing move as many pool tokens as the deposit      *)
(* changes by.                                                             *)
LEMMA LockChanges ==
  ASSUME MeterTypes, MeterTypes', LocksAreBacked, programPool' = programPool,
         NEW id \in AllIds, NEW a \in Accounts, programPool[id] \in Pools,
         \A i \in AllIds, b \in Accounts : i # id \/ b # a => deposits'[i][b] = deposits[i][b],
         \A p \in Pools \ {programPool[id]} : bpt'[p][LockMeter] = bpt[p][LockMeter],
         bpt'[programPool[id]][LockMeter] =
           bpt[programPool[id]][LockMeter] + deposits'[id][a] - deposits[id][a]
  PROVE  LocksAreBacked'
<1> SUFFICES ASSUME NEW pool \in Pools
             PROVE  bpt'[pool][LockMeter] = SumFunctionOnSet(LockOf(pool)', Locks)
  BY DEF LocksAreBacked, Locks, AllIds
<1> DEFINE x == <<id, a>>
<1>1. x \in Locks /\ x[1] = id /\ x[2] = a
  BY DEF Locks
<1>2. \A y \in Locks : y # x => deposits'[y[1]][y[2]] = deposits[y[1]][y[2]]
  BY DEF Locks
<1>3. PICK f, g : f = LockOf(pool) /\ g = LockOf(pool)'
  OBVIOUS
<1>4. \A y \in Locks : f[y] \in Int
  BY <1>3, LockOfTypes
<1>5. \A y \in Locks : g[y] \in Int
  <2> SUFFICES ASSUME NEW y \in Locks PROVE g[y] \in Int
    OBVIOUS
  <2>1. y[1] \in AllIds /\ y[2] \in Accounts /\ Locks' = Locks /\ AllIds' = AllIds
    BY DEF Locks, AllIds
  <2>2. deposits'[y[1]][y[2]] \in Nat
    BY <2>1 DEF MeterTypes
  <2> QED
    BY <1>3, <2>1, <2>2 DEF LockOf
<1>6. \A y \in Locks \ {x} : f[y] = g[y]
  <2> SUFFICES ASSUME NEW y \in Locks, y # x PROVE f[y] = g[y]
    OBVIOUS
  <2>1. Locks' = Locks
    BY DEF Locks, AllIds
  <2> QED
    BY <1>2, <1>3, <2>1 DEF LockOf
<1>7. /\ f[x] = IF programPool[id] = pool THEN deposits[id][a] ELSE 0
      /\ g[x] = IF programPool[id] = pool THEN deposits'[id][a] ELSE 0
  <2>1. Locks' = Locks
    BY DEF Locks, AllIds
  <2> QED
    BY <1>1, <1>3, <2>1 DEF LockOf
<1> HIDE DEF x
<1>8. SumFunctionOnSet(g, Locks) = SumFunctionOnSet(f, Locks) + g[x] - f[x]
  BY <1>1, <1>4, <1>5, <1>6, LocksAreFinite, SumChange
<1>9. bpt[pool][LockMeter] = SumFunctionOnSet(f, Locks) /\ bpt[pool][LockMeter] \in Nat
  BY <1>3 DEF LocksAreBacked, MeterTypes, BptHolders
<1>10. deposits[id][a] \in Nat
  BY DEF MeterTypes
<1>11. deposits'[id][a] \in Nat
  <2>1. AllIds' = AllIds
    BY DEF AllIds
  <2> QED
    BY <2>1 DEF MeterTypes
<1>12. CASE programPool[id] = pool
  BY <1>3, <1>7, <1>8, <1>9, <1>10, <1>11, <1>12
<1>13. CASE programPool[id] # pool
  BY <1>3, <1>7, <1>8, <1>9, <1>13
<1> QED
  BY <1>12, <1>13

LEMMA StakeKeeps ==
  ASSUME MetersInv, NEW id \in AllIds, NEW a \in Accounts, NEW n \in 1..MaxBpt, Stake(id, a, n), Quiet
  PROVE  Bindings' /\ MeterTypes' /\ SlotsInv' /\ LocksInv'
<1> DEFINE pool == programPool[id]
           left == programs[id].end - now
           whole == programs[id].end - programs[id].start
           added == [x \in {id} |-> n * left]
<1>1. /\ id \in Ids /\ pool # None /\ InWindow(id) /\ bpt[pool][a] >= n
      /\ bpt' = [bpt EXCEPT ![pool][a] = @ - n, ![pool][LockMeter] = @ + n]
      /\ deposits' = [deposits EXCEPT ![id][a] = @ + n]
      /\ RecordWeights(LockMeter, a, added)
      /\ UNCHANGED <<resolved, registered, official, binding, slots, programPool>>
  BY DEF Stake
<1>2. pool \in Pools
  BY <1>1 DEF MetersInv, Bindings
<1>3. n \in Nat \ {0}
  OBVIOUS
<1>4. /\ programs[id].end \in Nat /\ programs[id].start \in Nat /\ now \in Nat
      /\ now >= programs[id].start /\ now < programs[id].end
      /\ weights \in [Ids -> [Accounts -> Nat]]
  BY <1>1 DEF MetersInv, IInv, TypeOK, Ids, Programs, InWindow
<1>5. left \in Nat \ {0} /\ whole \in Nat /\ left <= whole
  BY <1>4
<1>6. a # LockMeter /\ a \in BptHolders /\ LockMeter \in BptHolders
  BY MetersAssumption DEF MetersAssumption, BptHolders
<1>7. /\ deposits \in [AllIds -> [Accounts -> Nat]] /\ bpt \in [Pools -> [BptHolders -> Nat]]
      /\ count <= MaxPrograms /\ registered \subseteq Pools /\ official \subseteq Pools
      /\ slots \in [Pools -> [Slots -> Nat]]
  BY DEF MetersInv, MeterTypes
<1>8. /\ count' = count /\ now' = now /\ Ids' = Ids
      /\ \A i \in Ids : i # id => weights'[i] = weights[i]
      /\ weights'[id] = [weights[id] EXCEPT ![a] = @ + n * left]
  <2>1. DOMAIN added = {id} /\ added[id] = n * left
    OBVIOUS
  <2>2. RecordWeights(LockMeter, a, added)
    BY <1>1
  <2> HIDE DEF added, left
  <2> QED
    BY <1>1, <2>1, <2>2 DEF RecordWeights, Ids
<1> HIDE DEF left, whole, added
<1>9. deposits' \in [AllIds -> [Accounts -> Nat]] /\ bpt' \in [Pools -> [BptHolders -> Nat]]
  <2>1. bpt[pool][a] - n \in Nat /\ bpt[pool][LockMeter] + n \in Nat /\ deposits[id][a] + n \in Nat
    BY <1>1, <1>2, <1>3, <1>6, <1>7
  <2> HIDE DEF pool
  <2> QED
    BY <1>1, <1>2, <1>6, <1>7, <2>1
<1>10. MeterTypes'
  BY <1>1, <1>7, <1>8, <1>9 DEF MeterTypes, AllIds, BptHolders
<1>11. SlotsInv'
  BY <1>1, <1>4, <1>8, QuietSlots DEF MetersInv
<1>12. /\ deposits'[id][a] = deposits[id][a] + n
       /\ \A i \in AllIds, b \in Accounts : i # id \/ b # a => deposits'[i][b] = deposits[i][b]
  BY <1>1, <1>7
<1>13. LockedByMeter' /\ DepositsAreBound'
  <2>1. LockedByMeter'
    BY <1>1, <1>8 DEF MetersInv, LocksInv, LockedByMeter, Quiet, TermsKept
  <2>2. DepositsAreBound'
    <3> SUFFICES ASSUME NEW i \in AllIds, NEW b \in Accounts, deposits'[i][b] > 0
                 PROVE  i \in Ids /\ programPool[i] # None
      BY <1>1, <1>8 DEF DepositsAreBound, AllIds
    <3> QED
      BY <1>1, <1>12 DEF MetersInv, LocksInv, DepositsAreBound
  <2> QED
    BY <2>1, <2>2
<1>14. WeightIsLocked'
  <2> SUFFICES ASSUME NEW i \in Ids, NEW b \in Accounts, programPool[i] # None, now < programs'[i].end
               PROVE  /\ weights'[i][b] > 0 <=> deposits'[i][b] > 0
                      /\ weights'[i][b] <= deposits'[i][b] * (programs'[i].end - programs'[i].start)
    BY <1>1, <1>8 DEF WeightIsLocked
  <2>1. programs'[i].end = programs[i].end /\ programs'[i].start = programs[i].start
    BY DEF Quiet, TermsKept
  <2>2. /\ weights[i][b] > 0 <=> deposits[i][b] > 0
        /\ weights[i][b] <= deposits[i][b] * (programs[i].end - programs[i].start)
    BY <2>1 DEF MetersInv, LocksInv, WeightIsLocked
  <2>3. CASE i # id \/ b # a
    <3>1. i \in AllIds
      BY <1>7, RewardAssumption DEF Ids, AllIds, MetersInv, IInv, TypeOK, RewardAssumption
    <3>2. weights'[i][b] = weights[i][b]
      BY <1>4, <1>8, <2>3
    <3> QED
      BY <1>12, <2>1, <2>2, <2>3, <3>1, <3>2
  <2>4. CASE i = id /\ b = a
    <3> DEFINE d == deposits[id][a]
               w == weights[id][a]
    <3>1. d \in Nat /\ w \in Nat
      BY <1>1, <1>4, <1>7
    <3>2. weights'[i][b] = w + n * left /\ deposits'[i][b] = d + n
      BY <1>1, <1>4, <1>8, <1>12, <2>4
    <3>3. w <= d * whole
      BY <2>2, <2>4 DEF whole
    <3> HIDE DEF d, w
    <3>4. \A x, y, z \in Nat : (x + y) * z = x * z + y * z /\ x * z \in Nat
      OBVIOUS
    <3>5. n * left <= n * whole /\ n * left \in Nat \ {0}
      <4>1. \A x, y, z \in Nat : y <= z => x * y <= x * z
        OBVIOUS
      <4>2. \A x, y \in Nat \ {0} : x * y \in Nat \ {0}
        OBVIOUS
      <4> QED
        BY <1>3, <1>5, <4>1, <4>2
    <3>6. (d + n) * whole = d * whole + n * whole /\ d * whole \in Nat /\ n * whole \in Nat
      BY <1>3, <1>5, <3>1, <3>4
    <3>7. w + n * left <= (d + n) * whole
      BY <3>1, <3>3, <3>5, <3>6
    <3>8. w + n * left > 0 /\ d + n > 0
      BY <1>3, <3>1, <3>5
    <3> QED
      BY <2>1, <2>4, <3>2, <3>7, <3>8 DEF whole
  <2> QED
    BY <2>3, <2>4
<1>15. LocksAreBacked'
  <2>1. /\ bpt'[pool][LockMeter] = bpt[pool][LockMeter] + n
        /\ \A p \in Pools \ {pool} : bpt'[p][LockMeter] = bpt[p][LockMeter]
        /\ bpt[pool][LockMeter] \in Nat /\ deposits[id][a] \in Nat
    BY <1>1, <1>2, <1>6, <1>7
  <2>2. bpt'[pool][LockMeter] = bpt[pool][LockMeter] + deposits'[id][a] - deposits[id][a]
    BY <1>3, <1>12, <2>1
  <2> QED
    BY <1>1, <1>2, <1>10, <1>12, <2>1, <2>2, LockChanges DEF MetersInv, LocksInv
<1> QED
  BY <1>10, <1>11, <1>13, <1>14, <1>15, QuietBindings DEF MetersInv, LocksInv

LEMMA WithdrawKeeps ==
  ASSUME MetersInv, NEW id \in AllIds, NEW a \in Accounts, Withdraw(id, a), Quiet
  PROVE  Bindings' /\ MeterTypes' /\ SlotsInv' /\ LocksInv'
<1> DEFINE pool == programPool[id]
           n == deposits[id][a]
<1>1. /\ id \in Ids /\ now >= programs[id].end /\ n > 0 /\ bpt[pool][LockMeter] >= n
      /\ bpt' = [bpt EXCEPT ![pool][LockMeter] = @ - n, ![pool][a] = @ + n]
      /\ deposits' = [deposits EXCEPT ![id][a] = 0]
      /\ UNCHANGED <<budgetVars, resolved, registered, official, binding, slots, programPool>>
  BY DEF Withdraw, Withdrawable, ToStaker
<1>2. pool # None /\ pool \in Pools
  BY <1>1 DEF MetersInv, LocksInv, DepositsAreBound, Bindings
<1>3. a # LockMeter /\ a \in BptHolders /\ LockMeter \in BptHolders
  BY MetersAssumption DEF MetersAssumption, BptHolders
<1>4. /\ deposits \in [AllIds -> [Accounts -> Nat]] /\ bpt \in [Pools -> [BptHolders -> Nat]]
      /\ count <= MaxPrograms /\ registered \subseteq Pools /\ official \subseteq Pools
      /\ slots \in [Pools -> [Slots -> Nat]]
  BY DEF MetersInv, MeterTypes
<1>5. /\ count' = count /\ now' = now /\ Ids' = Ids /\ weights' = weights /\ programs' = programs
      /\ now \in Nat /\ programs[id].end \in Nat
  BY <1>1 DEF budgetVars, Ids, MetersInv, IInv, TypeOK, Programs
<1>6. n \in Nat
  BY <1>4
<1>7. bpt' \in [Pools -> [BptHolders -> Nat]]
  <2>1. bpt[pool][LockMeter] - n \in Nat /\ bpt[pool][a] + n \in Nat
    BY <1>1, <1>2, <1>3, <1>4, <1>6
  <2> HIDE DEF pool, n
  <2> QED
    BY <1>1, <1>2, <1>3, <1>4, <2>1
<1>8. deposits' \in [AllIds -> [Accounts -> Nat]]
  BY <1>1, <1>4
<1>9. MeterTypes'
  BY <1>1, <1>4, <1>5, <1>7, <1>8 DEF MeterTypes, AllIds, BptHolders
<1>10. SlotsInv'
  BY <1>1, <1>5, QuietSlots DEF MetersInv
<1>11. /\ deposits'[id][a] = 0
       /\ \A i \in AllIds, b \in Accounts : i # id \/ b # a => deposits'[i][b] = deposits[i][b]
  BY <1>1, <1>4
<1>12. LockedByMeter' /\ DepositsAreBound'
  <2>1. LockedByMeter'
    BY <1>1, <1>5 DEF MetersInv, LocksInv, LockedByMeter
  <2>2. DepositsAreBound'
    <3> SUFFICES ASSUME NEW i \in AllIds, NEW b \in Accounts, deposits'[i][b] > 0
                 PROVE  i \in Ids /\ programPool[i] # None
      BY <1>1, <1>5 DEF DepositsAreBound, AllIds
    <3> QED
      BY <1>1, <1>11 DEF MetersInv, LocksInv, DepositsAreBound
  <2> QED
    BY <2>1, <2>2
<1>13. WeightIsLocked'
  <2> SUFFICES ASSUME NEW i \in Ids, NEW b \in Accounts, programPool[i] # None, now < programs[i].end
               PROVE  /\ weights[i][b] > 0 <=> deposits'[i][b] > 0
                      /\ weights[i][b] <= deposits'[i][b] * (programs[i].end - programs[i].start)
    BY <1>1, <1>5 DEF WeightIsLocked
  <2>1. i # id
    BY <1>1, <1>5
  <2>2. i \in AllIds
    BY SMTT(30), <1>4, RewardAssumption DEF Ids, AllIds, MetersInv, IInv, TypeOK, RewardAssumption
  <2> QED
    BY <1>11, <2>1, <2>2 DEF MetersInv, LocksInv, WeightIsLocked
<1>14. LocksAreBacked'
  <2>1. /\ bpt'[pool][LockMeter] = bpt[pool][LockMeter] - n
        /\ \A p \in Pools \ {pool} : bpt'[p][LockMeter] = bpt[p][LockMeter]
        /\ bpt[pool][LockMeter] \in Nat
    BY <1>1, <1>2, <1>3, <1>4
  <2>2. bpt'[pool][LockMeter] = bpt[pool][LockMeter] + deposits'[id][a] - deposits[id][a]
    BY <1>6, <1>11, <2>1
  <2> QED
    BY <1>1, <1>2, <1>9, <1>11, <2>1, <2>2, LockChanges DEF MetersInv, LocksInv
<1> QED
  BY <1>9, <1>10, <1>12, <1>13, <1>14, QuietBindings DEF MetersInv, LocksInv

-----------------------------------------------------------------------------
(* A batch adds a program with no weights, no deposits and, if its target  *)
(* is the hook, the first free slot of the pool.                           *)

LEMMA ConfigureTouches ==
  ASSUME NEW b \in Batches, NEW id \in AllIds, RunBatch(b, id)
  PROVE  /\ UNCHANGED <<registered, official, deposits, bpt, now>>
         /\ b.target # Hook => slots' = slots
         /\ b.target = Hook =>
              \E i \in Slots : /\ FreeSlot(programs', b.pool, i)
                               /\ slots' = [slots EXCEPT ![b.pool][i] = id]
         /\ b.target = LockMeter => programs'[id].meter = LockMeter
         /\ b.target = Hook => programs'[id].meter = Hook
<1>1. b.target = Hook => b.target # LockMeter /\ b.target # None
  BY MetersAssumption DEF MetersAssumption
<1>2. LockMeter # None
  BY MetersAssumption DEF MetersAssumption
<1>3. now' = now
  BY DEF RunBatch, CreateProgram
<1>4. CASE b.target = Hook /\ ConfigureSwaps(programs', id, b.pool, b.metric)
  BY <1>1, <1>3, <1>4 DEF ConfigureSwaps, Bindable
<1>5. CASE b.target = LockMeter /\ ConfigureLock(programs', id, b.pool)
  BY <1>1, <1>3, <1>5 DEF ConfigureLock, Bindable
<1>6. CASE b.target = None /\ UNCHANGED meterVars
  BY <1>1, <1>2, <1>3, <1>6 DEF meterVars
<1> QED
  BY <1>4, <1>5, <1>6 DEF RunBatch, Configure

LEMMA BatchSlots ==
  ASSUME MetersInv, NEW b \in Batches, NEW id \in AllIds, RunBatch(b, id)
  PROVE  SlotsInv'
<1>1. /\ id = count + 1 /\ count' = count + 1
      /\ \A i \in Ids : programs'[i] = programs[i]
  BY BatchCreates DEF MetersInv
<1>2. Ids' = Ids \cup {id} /\ id \notin Ids /\ id # 0
  BY <1>1 DEF MetersInv, IInv, TypeOK, Ids
<1>3. /\ b.pool \in Pools /\ now' = now
      /\ Hook # None /\ Hook # LockMeter /\ None \notin Pools
  BY MetersAssumption, ConfigureTouches DEF MetersAssumption, BatchShape
<1>4. /\ \A i \in AllIds : i # id => binding'[i] = binding[i]
      /\ binding'[id] = [pool |-> IF b.target = Hook THEN b.pool ELSE None,
                         metric |-> IF b.target = Hook THEN b.metric ELSE 0]
  BY <1>2, BatchBinds DEF MetersInv
<1>5. \A i \in Ids : i \in AllIds /\ i # id /\ binding'[i] = binding[i] /\ programs[i].end \in Nat
  <2>1. \A i \in Ids : i \in AllIds
    BY RewardAssumption DEF Ids, AllIds, MetersInv, MeterTypes, IInv, TypeOK, RewardAssumption
  <2>2. \A i \in Ids : programs[i].end \in Nat
    BY DEF Ids, MetersInv, IInv, TypeOK, Programs
  <2> QED
    BY <1>2, <1>4, <2>1, <2>2
<1>6. slots \in [Pools -> [Slots -> Nat]] /\ now \in Nat
  BY DEF MetersInv, MeterTypes, IInv, TypeOK
<1>7. \A pool \in Pools, i \in Slots : slots[pool][i] # id
  BY <1>2 DEF MetersInv, SlotsInv, SlotsFit
<1>8. CASE b.target # Hook
  <2>1. slots' = slots /\ binding'[id].pool = None
    BY <1>4, <1>8, ConfigureTouches
  <2>2. SlotsFit'
    BY <1>1, <1>2, <1>5, <2>1 DEF MetersInv, SlotsInv, SlotsFit
  <2>3. SlotsHold'
    BY <1>1, <1>2, <1>3, <1>5, <2>1 DEF MetersInv, SlotsInv, SlotsHold
  <2> QED
    BY <2>2, <2>3 DEF SlotsInv
<1>9. CASE b.target = Hook
  <2>1. PICK s \in Slots : /\ FreeSlot(programs', b.pool, s)
                           /\ slots' = [slots EXCEPT ![b.pool][s] = id]
    BY <1>9, ConfigureTouches
  <2>2. /\ slots'[b.pool][s] = id
        /\ \A pool \in Pools, i \in Slots : pool # b.pool \/ i # s => slots'[pool][i] = slots[pool][i]
    BY <1>3, <1>6, <2>1
  <2>3. programs'[id].meter = Hook /\ binding'[id].pool = b.pool
    BY <1>4, <1>9, ConfigureTouches
  <2>4. SlotsFit'
    <3> SUFFICES ASSUME NEW pool \in Pools, NEW i \in Slots, slots'[pool][i] # 0
                 PROVE  /\ slots'[pool][i] \in Ids'
                        /\ binding'[slots'[pool][i]].pool = pool
                        /\ programs'[slots'[pool][i]].meter = Hook
                        /\ \A j \in Slots : slots'[pool][j] = slots'[pool][i] => j = i
      BY DEF SlotsFit
    <3>1. CASE pool = b.pool /\ i = s
      BY <1>2, <1>7, <2>2, <2>3, <3>1
    <3>2. CASE pool # b.pool \/ i # s
      <4>1. /\ slots[pool][i] \in Ids /\ binding[slots[pool][i]].pool = pool
            /\ programs[slots[pool][i]].meter = Hook
            /\ \A j \in Slots : slots[pool][j] = slots[pool][i] => j = i
        BY <2>2, <3>2 DEF MetersInv, SlotsInv, SlotsFit
      <4>2. \A j \in Slots : slots'[pool][j] = slots'[pool][i] => j = i
        BY <1>2, <2>2, <3>2, <4>1
      <4> QED
        BY <1>1, <1>2, <1>5, <2>2, <3>2, <4>1, <4>2
    <3> QED
      BY <3>1, <3>2
  <2>5. SlotsHold'
    <3> SUFFICES ASSUME NEW k \in Ids', binding'[k].pool # None, now < programs'[k].end
                 PROVE  \E i \in Slots : slots'[binding'[k].pool][i] = k
      BY <1>3 DEF SlotsHold
    <3>1. CASE k = id
      BY <2>2, <2>3, <3>1
    <3>2. CASE k \in Ids
      <4> DEFINE pool == binding[k].pool
      <4>1. pool \in Pools
        BY <1>5, <3>2 DEF MetersInv, Bindings
      <4>2. PICK i \in Slots : slots[pool][i] = k
        BY <1>1, <1>5, <3>2 DEF MetersInv, SlotsInv, SlotsHold
      <4>3. k # 0
        BY <3>2 DEF Ids
      <4>4. ~(pool = b.pool /\ i = s)
        BY <1>1, <1>5, <1>6, <2>1, <3>2, <4>2, <4>3 DEF FreeSlot
      <4>5. slots'[pool][i] = k
        BY <2>2, <4>1, <4>2, <4>4
      <4> QED
        BY <1>5, <3>2, <4>5
    <3> QED
      BY <1>2, <3>1, <3>2
  <2> QED
    BY <2>4, <2>5 DEF SlotsInv
<1> QED
  BY <1>8, <1>9

LEMMA BatchLocks ==
  ASSUME MetersInv, NEW b \in Batches, NEW id \in AllIds, RunBatch(b, id)
  PROVE  Bindings' /\ MeterTypes' /\ LocksInv'
<1>1. /\ id = count + 1 /\ count' = count + 1
      /\ \A i \in Ids : programs'[i] = programs[i]
  BY BatchCreates DEF MetersInv
<1>2. Ids' = Ids \cup {id} /\ id \notin Ids
  BY <1>1 DEF MetersInv, IInv, TypeOK, Ids
<1>3. /\ UNCHANGED <<registered, official, deposits, bpt, now>>
      /\ b.pool \in Pools /\ b.target = LockMeter => programs'[id].meter = LockMeter
  BY MetersAssumption, ConfigureTouches DEF MetersAssumption, BatchShape
<1>4. /\ binding' \in [AllIds -> [pool : Pools \cup {None}, metric : 0..1]]
      /\ programPool' \in [AllIds -> Pools \cup {None}]
      /\ \A i \in AllIds : i # id => binding'[i] = binding[i] /\ programPool'[i] = programPool[i]
      /\ programPool'[id] = IF b.target = LockMeter THEN b.pool ELSE None
  BY <1>2, BatchBinds DEF MetersInv
<1>5. \A i \in Ids : i \in AllIds
  BY RewardAssumption DEF Ids, AllIds, MetersInv, MeterTypes, IInv, TypeOK, RewardAssumption
<1>6. Bindings'
  BY <1>2, <1>4 DEF MetersInv, Bindings, AllIds
<1>7. MeterTypes'
  <2>1. slots' \in [Pools -> [Slots -> Nat]]
    <3>1. slots \in [Pools -> [Slots -> Nat]] /\ id \in Nat
      BY DEF MetersInv, MeterTypes, AllIds
    <3>2. slots' = slots \/ \E i \in Slots : slots' = [slots EXCEPT ![b.pool][i] = id]
      BY ConfigureTouches
    <3>3. ASSUME NEW i \in Slots, slots' = [slots EXCEPT ![b.pool][i] = id]
          PROVE  slots' \in [Pools -> [Slots -> Nat]]
      BY <3>1, <3>3
    <3> QED
      BY <3>1, <3>2, <3>3
  <2>2. count' <= MaxPrograms
    BY <1>1, RewardAssumption DEF AllIds, RewardAssumption
  <2> QED
    BY <1>3, <2>1, <2>2 DEF MetersInv, MeterTypes, AllIds, BptHolders
<1>8. LockedByMeter'
  BY <1>1, <1>2, <1>3, <1>4, <1>5 DEF MetersInv, LocksInv, LockedByMeter
<1>9. \A a \in Accounts : deposits[id][a] = 0
  <2> SUFFICES ASSUME NEW a \in Accounts PROVE deposits[id][a] = 0
    OBVIOUS
  <2>1. deposits[id][a] \in Nat
    BY DEF MetersInv, MeterTypes
  <2> QED
    BY <1>2, <2>1 DEF MetersInv, LocksInv, DepositsAreBound
<1>10. DepositsAreBound'
  BY <1>2, <1>3, <1>4, <1>5 DEF MetersInv, LocksInv, DepositsAreBound, AllIds
<1>11. /\ \A i \in Ids : weights'[i] = weights[i]
       /\ \A a \in Accounts : weights'[id][a] = 0
  BY <1>1, <1>2 DEF RunBatch, CreateProgram, Ids
<1>12. WeightIsLocked'
  <2> SUFFICES ASSUME NEW k \in Ids', NEW a \in Accounts, programPool'[k] # None, now < programs'[k].end
               PROVE  /\ weights'[k][a] > 0 <=> deposits[k][a] > 0
                      /\ weights'[k][a] <= deposits[k][a] * (programs'[k].end - programs'[k].start)
    BY <1>3 DEF WeightIsLocked
  <2>1. CASE k = id
    <3>1. programs'[id].end - programs'[id].start \in Int
      <4>1. programs'[id] = NewProgram(b.meter, b.window, b.budget)
        BY BatchCreates DEF MetersInv
      <4>2. b.window \in [start : Nat, end : Nat, deadline : Nat]
        BY MetersAssumption, RewardAssumption DEF MetersAssumption, RewardAssumption, BatchShape
      <4> QED
        BY <4>1, <4>2 DEF NewProgram
    <3>2. deposits[k][a] * (programs'[k].end - programs'[k].start) = 0
      <4>1. \A x \in Int : 0 * x = 0
        OBVIOUS
      <4> QED
        BY <1>9, <2>1, <3>1, <4>1
    <3> QED
      BY <1>9, <1>11, <2>1, <3>2
  <2>2. CASE k \in Ids
    BY <1>1, <1>2, <1>4, <1>5, <1>11, <2>2 DEF MetersInv, LocksInv, WeightIsLocked
  <2> QED
    BY <1>2, <2>1, <2>2
<1>13. LocksAreBacked'
  <2> SUFFICES ASSUME NEW pool \in Pools
               PROVE  bpt[pool][LockMeter] = SumFunctionOnSet(LockOf(pool)', Locks)
    BY <1>3 DEF LocksAreBacked, Locks, AllIds
  <2>1. LockOf(pool)' = LockOf(pool)
    <3>1. \A x \in Locks : (IF programPool'[x[1]] = pool THEN deposits[x[1]][x[2]] ELSE 0)
                          = (IF programPool[x[1]] = pool THEN deposits[x[1]][x[2]] ELSE 0)
      BY <1>4, <1>9 DEF Locks
    <3> QED
      BY <1>3, <3>1 DEF LockOf, Locks, AllIds
  <2> QED
    BY <2>1 DEF MetersInv, LocksInv, LocksAreBacked
<1> QED
  BY <1>6, <1>7, <1>8, <1>10, <1>12, <1>13 DEF LocksInv

LEMMA MarketKeeps ==
  ASSUME MetersInv, Market, Quiet
  PROVE  Bindings' /\ MeterTypes' /\ SlotsInv' /\ LocksInv'
<1>0. /\ registered \subseteq Pools /\ official \subseteq Pools
      /\ bpt \in [Pools -> [BptHolders -> Nat]]
  BY DEF MetersInv, MeterTypes
<1>1. CASE Resolve \/ \E pool \in Pools, c \in BOOLEAN : OnRegister(pool, c)
  <2>1. /\ UNCHANGED budgetVars /\ UNCHANGED <<binding, slots, programPool, deposits, bpt>>
        /\ registered' \subseteq Pools /\ official' \subseteq Pools
    BY <1>0, <1>1 DEF Resolve, OnRegister
  <2> QED
    BY <1>0, <2>1, ExitKeeps
<1>2. ASSUME NEW pool \in Pools, NEW a \in Accounts, AddLiquidity(pool, a) \/ RemoveLiquidity(pool, a)
      PROVE  Bindings' /\ MeterTypes' /\ SlotsInv' /\ LocksInv'
  <2>1. UNCHANGED budgetVars /\ UNCHANGED <<binding, slots, programPool, deposits, registered, official>>
    BY <1>2 DEF AddLiquidity, RemoveLiquidity
  <2>2. bpt[pool][a] \in Nat
    BY <1>0 DEF BptHolders
  <2>3. PICK n \in Nat : bpt' = [bpt EXCEPT ![pool][a] = n]
    BY <1>2, <2>2 DEF AddLiquidity, RemoveLiquidity
  <2>4. /\ bpt' \in [Pools -> [BptHolders -> Nat]]
        /\ \A p \in Pools : bpt'[p][LockMeter] = bpt[p][LockMeter]
    BY <2>3, NotTheMeter DEF MetersInv
  <2> QED
    BY <1>0, <2>1, <2>4, ExitKeeps
<1> QED
  BY <1>1, <1>2, SwapKeeps, StakeKeeps, WithdrawKeeps DEF Market

LEMMA MetersKeep == MetersInv /\ [Next]_vars => MetersInv'
<1> SUFFICES ASSUME MetersInv, [Next]_vars PROVE MetersInv'
  OBVIOUS
<1>1. IInv /\ IInv'
  BY NextIsBudgetStep, StepKeeps DEF MetersInv
<1>2. ASSUME NEW b \in Batches, NEW id \in AllIds, RunBatch(b, id) PROVE MetersInv'
  BY <1>1, <1>2, BatchSlots, BatchLocks DEF MetersInv
<1>3. CASE Market
  BY <1>1, <1>3, MarketIsQuiet, MarketKeeps DEF MetersInv
<1>4. CASE Rewards
  BY <1>1, <1>4, RewardsAreQuiet, RewardsKeep DEF MetersInv
<1>5. CASE UNCHANGED vars
  <2>1. Quiet /\ UNCHANGED budgetVars /\ UNCHANGED meterVars
    BY <1>5 DEF vars, Quiet, TermsKept, budgetVars, meterVars
  <2>2. registered' \subseteq Pools /\ official' \subseteq Pools /\ bpt' \in [Pools -> [BptHolders -> Nat]]
    BY <2>1 DEF MetersInv, MeterTypes, meterVars
  <2> QED
    BY <1>1, <2>1, <2>2, ExitKeeps DEF MetersInv, meterVars
<1> QED
  BY <1>2, <1>3, <1>4, <1>5 DEF Next

THEOREM MetersInvariance == Spec => []MetersInv
BY MetersStart, MetersKeep, PTL DEF Spec

(* A program bound to a pool's swaps has exactly one slot until it ends,   *)
(* and no combination of bound, expired or foreign programs makes a call   *)
(* of recordWeight, and with it the swap, revert (RewardMeters.sol,        *)
(* configureProgram and onAfterSwap).                                      *)
THEOREM MetersServe == Spec => []MetersServeThePool
<1>1. MetersInv => MeteringNeverBlocksSwaps
  <2> SUFFICES ASSUME MetersInv, NEW pool \in registered, NEW fee \in 0..1,
                      \A id \in Ids : programs[id].totalWeight < MaxWeight
               PROVE  Recordable(Hook, Measured(pool, 1, fee, TRUE))
    BY DEF MeteringNeverBlocksSwaps
  <2> DEFINE added == Measured(pool, 1, fee, TRUE)
  <2>1. pool \in Pools
    BY DEF MetersInv, MeterTypes
  <2>2. \A id \in DOMAIN added : /\ id \in Measuring(pool) /\ added[id] = MeasureOf(id, 1, fee)
                                 /\ added[id] > 0
    BY DEF Measured
  <2>3. \A id \in Measuring(pool) : id \in Ids /\ programs[id].meter = Hook /\ InWindow(id)
    BY <2>1 DEF Measuring, MetersInv, SlotsInv, SlotsFit
  <2>4. \A id \in DOMAIN added : added[id] \in 0..1
    <3> SUFFICES ASSUME NEW id \in DOMAIN added PROVE MeasureOf(id, 1, fee) \in 0..1
      BY <2>2
    <3> QED
      BY DEF MeasureOf
  <2>5. \A id \in Ids : programs[id].totalWeight \in Nat
    BY DEF MetersInv, IInv, TypeOK, Ids, Programs
  <2> HIDE DEF added
  <2>6. \A id \in DOMAIN added : programs[id].totalWeight + added[id] <= MaxWeight
    BY <2>2, <2>3, <2>4, <2>5, RewardAssumption DEF RewardAssumption
  <2>7. Recordable(Hook, added)
    BY <2>2, <2>3, <2>6 DEF Recordable
  <2> QED
    BY <2>7 DEF added
<1>2. MetersInv => RunningProgramsKeepTheirSlot
  <2> SUFFICES ASSUME MetersInv, NEW id \in Ids, binding[id].pool # None, now < programs[id].end
               PROVE  Cardinality({i \in Slots : slots[binding[id].pool][i] = id}) = 1
    BY DEF RunningProgramsKeepTheirSlot
  <2> DEFINE pool == binding[id].pool
             held == {i \in Slots : slots[pool][i] = id}
  <2>1. PICK i \in Slots : slots[pool][i] = id
    BY DEF MetersInv, SlotsInv, SlotsHold
  <2>2. id \in AllIds /\ id # 0
    BY RewardAssumption DEF Ids, AllIds, MetersInv, MeterTypes, IInv, TypeOK, RewardAssumption
  <2>3. pool \in Pools
    BY <2>2 DEF MetersInv, Bindings
  <2>4. held = {i}
    BY <2>1, <2>2, <2>3 DEF MetersInv, SlotsInv, SlotsFit
  <2> HIDE DEF held
  <2>5. Cardinality(held) = 1
    BY <2>4, FS_Singleton
  <2> QED
    BY <2>5 DEF held
<1> QED
  BY <1>1, <1>2, MetersInvariance, PTL DEF MetersServeThePool

(* No weight without a lock, and no lock without a way out: the lock meter *)
(* holds, for every pool, exactly what has been deposited (RewardMeters.   *)
(* sol, stake and withdraw).                                               *)
THEOREM LocksKeepTheirWord == Spec => []LocksAreFair
<1>1. MetersInv => WeightIsLocked
  BY DEF MetersInv, LocksInv
<1>2. MetersInv => StakersCanLeave
  <2> SUFFICES ASSUME MetersInv, NEW id \in Ids, NEW a \in Accounts,
                      deposits[id][a] > 0, now >= programs[id].end
               PROVE  Withdrawable(id, a)
    BY DEF StakersCanLeave
  <2> DEFINE pool == programPool[id]
             x == <<id, a>>
  <2>1. id \in AllIds
    BY RewardAssumption DEF Ids, AllIds, MetersInv, MeterTypes, IInv, TypeOK, RewardAssumption
  <2>2. pool \in Pools
    BY <2>1 DEF MetersInv, LocksInv, DepositsAreBound, Bindings
  <2>3. x \in Locks /\ LockOf(pool)[x] = deposits[id][a]
    BY <2>1 DEF Locks, LockOf
  <2>4. bpt[pool][LockMeter] = SumFunctionOnSet(LockOf(pool), Locks)
    BY <2>2 DEF MetersInv, LocksInv, LocksAreBacked
  <2>5. \A y \in Locks : LockOf(pool)[y] \in Nat
    BY LockOfTypes DEF MetersInv
  <2>6. LockOf(pool)[x] <= SumFunctionOnSet(LockOf(pool), Locks)
    <3> HIDE DEF x
    <3> QED
      BY <2>3, <2>5, LocksAreFinite, SumCovers
  <2>7. bpt[pool][LockMeter] >= deposits[id][a]
    <3>1. bpt[pool][LockMeter] \in Nat /\ deposits[id][a] \in Nat
      BY <2>1, <2>2 DEF MetersInv, MeterTypes, BptHolders
    <3> QED
      BY <2>3, <2>4, <2>6, <3>1
  <2> QED
    BY <2>7 DEF Withdrawable
<1> QED
  BY <1>1, <1>2, MetersInvariance, PTL DEF LocksAreFair

(* The same of the composed system: governance only decides which of the  *)
(* batches run.                                                            *)
THEOREM GovernedImplementsMeters == GovernedSpec => Spec
<1>1. GovernedInit => Init /\ IInv /\ ProposalsTyped
  BY GovernedStartHolds DEF GovernedInit
<1>2. IInv /\ ProposalsTyped /\ [GovernedNext]_governedVars => (IInv /\ ProposalsTyped)' /\ [Next]_vars
  BY GovernedStepKeeps, GovernedIsNext
<1> QED
  BY <1>1, <1>2, PTL DEF GovernedSpec, Spec

(* Under governance too a bound program keeps its slot and no swap reverts *)
(* in the meter (RewardMeters.sol, onAfterSwap).                           *)
THEOREM GovernedMetersServe == GovernedSpec => []MetersServeThePool
BY GovernedImplementsMeters, MetersServe, PTL

(* Under governance too what earns is locked and every staker can leave    *)
(* (RewardMeters.sol, stake and withdraw).                                 *)
THEOREM GovernedLocksKeepTheirWord == GovernedSpec => []LocksAreFair
BY GovernedImplementsMeters, LocksKeepTheirWord, PTL

=============================================================================
