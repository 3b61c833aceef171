--------------------------- MODULE CompleteSetsProofs ---------------------------
(***************************************************************************)
(* The ledger is covered for every set of questions and every amount, and  *)
(* the complete sets implement it: for all users, questions and amounts no *)
(* sequence of splits, merges, redemptions and transfers costs anyone      *)
(* anything, and the winners of every question can be paid from the CTF's  *)
(* one balance.                                                            *)
(***************************************************************************)
EXTENDS CompleteSets, CollateralLedger, Sums

LedgerInv == LedgerTypeOK /\ Covered

LEMMA LedgerStart == LedgerInit => LedgerInv
BY DEF LedgerInit, LedgerInv, LedgerTypeOK, Covered

LEMMA DecideKeeps ==
  ASSUME LedgerInv, NEW q \in Markets, NEW outcome \in 1..2, Decide(q, outcome)
  PROVE  LedgerInv'
BY DEF LedgerInv, LedgerTypeOK, Covered, Decide

LEMMA IssuePairsKeeps ==
  ASSUME LedgerInv, NEW q \in Markets, NEW n \in Nat, IssuePairs(q, n)
  PROVE  LedgerInv'
<1>1. LedgerTypeOK'
  BY DEF LedgerInv, LedgerTypeOK, IssuePairs
<1>2. Covered'
  BY DEF LedgerInv, LedgerTypeOK, Covered, IssuePairs
<1> QED
  BY <1>1, <1>2 DEF LedgerInv

(* Buying back never underflows: a pair that exists is covered. *)
LEMMA BuyBackPairsKeeps ==
  ASSUME LedgerInv, NEW q \in Markets, NEW n \in Nat, BuyBackPairs(q, n)
  PROVE  LedgerInv'
<1>1. \A s \in 1..2 : issued[q][s] - n \in Nat
  BY DEF LedgerInv, LedgerTypeOK, BuyBackPairs
<1>2. locked[q] - n \in Nat
  <2>1. PICK s \in 1..2 : answer[q] \in {0, s}
    BY DEF LedgerInv, LedgerTypeOK
  <2> QED
    BY <2>1, <1>1 DEF LedgerInv, Covered
<1>3. LedgerTypeOK'
  BY <1>1, <1>2 DEF LedgerInv, LedgerTypeOK, BuyBackPairs
<1>4. Covered'
  BY DEF LedgerInv, LedgerTypeOK, Covered, BuyBackPairs
<1> QED
  BY <1>3, <1>4 DEF LedgerInv

(* The winning claims of an answered question are its collateral. *)
LEMMA PayClaimsKeeps ==
  ASSUME LedgerInv, NEW q \in Markets, NEW given \in [1..2 -> Nat], PayClaims(q, given)
  PROVE  LedgerInv'
<1>1. answer[q] \in 1..2 /\ locked[q] = issued[q][answer[q]]
  BY DEF LedgerInv, LedgerTypeOK, Covered, PayClaims
<1>2. \A s \in 1..2 : issued[q][s] - given[s] \in Nat
  BY DEF LedgerInv, LedgerTypeOK, PayClaims
<1>3. locked[q] - given[answer[q]] \in Nat
  BY <1>1, <1>2
<1>4. LedgerTypeOK'
  BY <1>2, <1>3 DEF LedgerInv, LedgerTypeOK, PayClaims
<1>5. Covered'
  BY <1>1 DEF LedgerInv, LedgerTypeOK, Covered, PayClaims
<1> QED
  BY <1>4, <1>5 DEF LedgerInv

LEMMA LedgerStep ==
  ASSUME Moves \subseteq Nat, LedgerInv, [LedgerNext]_ledgerVars
  PROVE  LedgerInv'
<1>1. CASE UNCHANGED ledgerVars
  BY <1>1 DEF ledgerVars, LedgerInv, LedgerTypeOK, Covered
<1>2. CASE LedgerNext
  <2>1. PICK q \in Markets :
          \/ \E outcome \in 1..2 : Decide(q, outcome)
          \/ \E n \in Moves : IssuePairs(q, n)
          \/ \E n \in Moves : BuyBackPairs(q, n)
          \/ \E given \in [1..2 -> Moves] : PayClaims(q, given)
    BY <1>2 DEF LedgerNext
  <2>2. \A given \in [1..2 -> Moves] : given \in [1..2 -> Nat]
    OBVIOUS
  <2> QED
    BY <2>1, <2>2, DecideKeeps, IssuePairsKeeps, BuyBackPairsKeeps, PayClaimsKeeps
<1> QED
  BY <1>1, <1>2

(* Collateral and claims of every question agree in every reachable state. *)
THEOREM LedgerCovered ==
  ASSUME Moves \subseteq Nat
  PROVE  LedgerSpec => [](LedgerTypeOK /\ Covered)
<1>1. LedgerInv => LedgerTypeOK /\ Covered
  BY DEF LedgerInv
<1>2. LedgerInv /\ [LedgerNext]_ledgerVars => LedgerInv'
  BY LedgerStep
<1> QED
  BY <1>1, <1>2, LedgerStart, PTL DEF LedgerSpec

-----------------------------------------------------------------------------
(* Totals of balances *)

Positions == [Holders -> Nat]

LEMMA HoldersAreFinite == IsFiniteSet(Holders)
<1>1. IsFiniteSet(Users)
  BY CompleteSetsAssumption DEF CompleteSetsAssumption
<1>2. IsFiniteSet((Users \cup {Router}) \cup {Wrapper})
  BY <1>1, FS_AddElement
<1>3. Holders = (Users \cup {Router}) \cup {Wrapper}
  BY DEF Holders
<1> QED
  BY <1>2, <1>3

LEMMA Distinct ==
  /\ Router \in Holders /\ Wrapper \in Holders /\ Router # Wrapper
  /\ CTF \in Accounts /\ Router \in Accounts
  /\ \A u \in Users : u \in Holders /\ u \in Accounts /\ u # Router /\ u # Wrapper /\ u # CTF
BY CompleteSetsAssumption DEF CompleteSetsAssumption, Holders, Accounts

LEMMA TotalIsSum ==
  ASSUME NEW f \in Positions
  PROVE  Total(f) = SumFunctionOnSet(f, Holders) /\ Total(f) \in Nat
<1>1. \A h \in Holders : f[h] \in Nat
  BY DEF Positions
<1>2. SumFunctionOnSet(f, Holders) \in Nat
  BY <1>1, HoldersAreFinite, SumIsNat
<1> QED
  BY <1>2, SumOfFunction DEF Positions, Total

LEMMA TotalChanges ==
  ASSUME NEW f \in Positions, NEW g \in Positions, NEW h \in Holders,
         \A x \in Holders \ {h} : g[x] = f[x]
  PROVE  Total(g) = Total(f) + g[h] - f[h]
<1>1. \A x \in Holders : f[x] \in Int /\ g[x] \in Int
  BY DEF Positions
<1>2. SumFunctionOnSet(g, Holders) = SumFunctionOnSet(f, Holders) + g[h] - f[h]
  BY <1>1, HoldersAreFinite, SumChange
<1> QED
  BY <1>2, TotalIsSum

LEMMA TotalCovers ==
  ASSUME NEW f \in Positions, NEW g \in Holders, NEW h \in Holders
  PROVE  /\ f[g] <= Total(f)
         /\ g # h => f[g] + f[h] <= Total(f)
<1>1. \A x \in Holders : f[x] \in Nat
  BY DEF Positions
<1>2. f[g] <= Total(f)
  BY <1>1, HoldersAreFinite, SumCovers, TotalIsSum
<1>3. ASSUME g # h PROVE f[g] + f[h] <= Total(f)
  <2> DEFINE R == Holders \ {g}
  <2>1. Total(f) = f[g] + SumFunctionOnSet(f, R)
    <3>1. \A x \in Holders : f[x] \in Int
      BY <1>1
    <3> QED
      BY <3>1, HoldersAreFinite, SumWithout, TotalIsSum
  <2>2. IsFiniteSet(R)
    BY HoldersAreFinite, FS_Subset
  <2>3. h \in R /\ \A x \in R : f[x] \in Nat
    BY <1>1, <1>3
  <2> HIDE DEF R
  <2>4. f[h] <= SumFunctionOnSet(f, R) /\ SumFunctionOnSet(f, R) \in Nat
    BY <2>2, <2>3, SumCovers, SumIsNat
  <2> QED
    BY <1>1, <2>1, <2>3, <2>4
<1> QED
  BY <1>2, <1>3

(* From B to C the holder h gets a[s] of side s of question q, which may   *)
(* be negative.                                                            *)
Changed(B, C, q, h, a) ==
  /\ C \in Balances
  /\ \A p \in Questions \ {q} : C[p] = B[p]
  /\ \A s \in Sides, g \in Holders : C[q][s][g] = IF g = h THEN B[q][s][g] + a[s] ELSE B[q][s][g]
  /\ \A s \in Sides : Total(C[q][s]) = Total(B[q][s]) + a[s]

Change(B, C, q, h, a) ==
  /\ B \in Balances /\ q \in Questions /\ h \in Holders
  /\ \A s \in Sides : a[s] \in Int /\ B[q][s][h] + a[s] >= 0
  /\ C = [B EXCEPT ![q] = [s \in Sides |-> [B[q][s] EXCEPT ![h] = @ + a[s]]]]

LEMMA ChangeIsOne ==
  ASSUME NEW B, NEW C, NEW q, NEW h, NEW a, Change(B, C, q, h, a)
  PROVE  Changed(B, C, q, h, a)
<1> DEFINE row == [s \in Sides |-> [B[q][s] EXCEPT ![h] = @ + a[s]]]
<1>1. /\ B \in [Questions -> [Sides -> Positions]] /\ q \in Questions /\ h \in Holders
      /\ \A s \in Sides : a[s] \in Int /\ B[q][s][h] + a[s] >= 0
      /\ C = [B EXCEPT ![q] = row]
  BY DEF Change, Balances, Positions
<1>2. \A s \in Sides : B[q][s] \in Positions
  BY <1>1
<1>3. \A s \in Sides : [B[q][s] EXCEPT ![h] = @ + a[s]] \in Positions
  BY <1>1, <1>2 DEF Positions
<1>4. row \in [Sides -> Positions]
  BY <1>3
<1>5. \A s \in Sides, g \in Holders : row[s][g] = IF g = h THEN B[q][s][g] + a[s] ELSE B[q][s][g]
  BY <1>1, <1>2 DEF Positions
<1> HIDE DEF row
<1>6. C \in [Questions -> [Sides -> Positions]] /\ C[q] = row
      /\ \A p \in Questions \ {q} : C[p] = B[p]
  BY <1>1, <1>4
<1>7. ASSUME NEW s \in Sides PROVE Total(C[q][s]) = Total(B[q][s]) + a[s]
  <2>1. row[s] \in Positions /\ B[q][s] \in Positions
    BY <1>2, <1>4
  <2>2. \A x \in Holders \ {h} : row[s][x] = B[q][s][x]
    BY <1>5
  <2>3. Total(row[s]) = Total(B[q][s]) + row[s][h] - B[q][s][h]
    BY <1>1, <2>1, <2>2, TotalChanges
  <2>4. row[s][h] = B[q][s][h] + a[s] /\ B[q][s][h] \in Nat /\ a[s] \in Int
    BY <1>1, <1>2, <1>5 DEF Positions
  <2>5. Total(B[q][s]) \in Nat
    BY <2>1, TotalIsSum
  <2> QED
    BY <1>6, <2>3, <2>4, <2>5
<1> QED
  BY <1>5, <1>6, <1>7 DEF Changed, Balances, Positions

LEMMA CreditIsChange ==
  ASSUME NEW B \in Balances, NEW q \in Questions, NEW h \in Holders, NEW a,
         \A s \in Sides : a[s] \in Nat,
         NEW C, C = [B EXCEPT ![q] = Credit(@, h, a)]
  PROVE  Changed(B, C, q, h, a)
<1>1. \A s \in Sides : B[q][s][h] \in Nat
  BY DEF Balances
<1>2. Change(B, C, q, h, a)
  BY <1>1 DEF Change, Credit
<1> QED
  BY <1>2, ChangeIsOne

Minus(a) == [s \in Sides |-> 0 - a[s]]

LEMMA DebitIsChange ==
  ASSUME NEW B \in Balances, NEW q \in Questions, NEW h \in Holders, NEW a,
         \A s \in Sides : a[s] \in Nat, Holds(B[q], h, a),
         NEW C, C = [B EXCEPT ![q] = Debit(@, h, a)]
  PROVE  Changed(B, C, q, h, Minus(a))
<1>1. \A s \in Sides : B[q][s] \in Positions
  BY DEF Balances, Positions
<1>2. \A s \in Sides : B[q][s][h] \in Nat
  BY <1>1 DEF Positions
<1>3. \A s \in Sides : [B[q][s] EXCEPT ![h] = @ - a[s]] = [B[q][s] EXCEPT ![h] = @ + Minus(a)[s]]
  BY <1>1, <1>2 DEF Positions, Minus
<1>4. Debit(B[q], h, a) = [s \in Sides |-> [B[q][s] EXCEPT ![h] = @ + Minus(a)[s]]]
  BY <1>3 DEF Debit
<1>5. \A s \in Sides : Minus(a)[s] \in Int /\ B[q][s][h] + Minus(a)[s] >= 0
  BY <1>2 DEF Minus, Holds
<1>6. Change(B, C, q, h, Minus(a))
  BY <1>4, <1>5 DEF Change
<1> QED
  BY <1>6, ChangeIsOne

-----------------------------------------------------------------------------
(* The invariant *)

Given(q) == IF Prepared(q) THEN verdict[q] ELSE 0

PaysVerdict ==
  /\ DOMAIN payout = DOMAIN verdict
  /\ \A q \in DOMAIN verdict : verdict[q] # 0 => payout[q] = Oracle!PayoutFor(verdict[q])

ClaimsBounded == \A q \in Questions, s \in Sides : Total(raw[q][s]) <= MaxClaims

QuestionsCovered ==
  \A q \in Questions, s \in Sides : Given(q) \in {0, s} => collateral[q] = Total(raw[q][s])

WrappersBacked == \A q \in Questions, s \in Sides : Total(wrapped[q][s]) = raw[q][s][Wrapper]

PotHolds == money[CTF] >= SumFunctionOnSet(collateral, Questions)

IInv ==
  TypeOK /\ PaysVerdict /\ ClaimsBounded /\ QuestionsCovered /\ WrappersBacked /\ PotHolds

LEMMA QuestionsAreFinite == IsFiniteSet(Questions)
BY CompleteSetsAssumption DEF CompleteSetsAssumption

LEMMA GivenTypes ==
  ASSUME TypeOK, NEW q
  PROVE  Given(q) \in 0..2
BY DEF TypeOK, Given, Prepared

LEMMA EmptyTotals ==
  ASSUME NEW f, f = [h \in Holders |-> 0]
  PROVE  f \in Positions /\ Total(f) = 0
<1>1. f \in Positions /\ \A h \in Holders : f[h] = 0
  BY DEF Positions
<1>2. SumFunctionOnSet(f, Holders) = 0
  BY <1>1, HoldersAreFinite, SumOfZeros
<1> QED
  BY <1>1, <1>2, TotalIsSum

LEMMA StartHolds == Init => IInv
<1> SUFFICES ASSUME Init PROVE IInv
  OBVIOUS
<1>1. /\ \A q \in Questions, s \in Sides : raw[q][s] = [h \in Holders |-> 0]
      /\ \A q \in Questions, s \in Sides : wrapped[q][s] = [h \in Holders |-> 0]
      /\ \A q \in Questions : collateral[q] = 0
      /\ money \in [Accounts -> Nat] /\ money[CTF] = 0 /\ supply = 0
      /\ raw \in Balances /\ wrapped \in Balances /\ collateral \in [Questions -> Nat]
  BY Distinct DEF Init, Balances
<1>2. DOMAIN verdict = {} /\ DOMAIN payout = {}
  BY DEF Init, Oracle!OracleInit
<1>3. TypeOK /\ PaysVerdict
  BY <1>1, <1>2, CompleteSetsAssumption DEF TypeOK, PaysVerdict, CompleteSetsAssumption
<1>4. \A q \in Questions, s \in Sides : Total(raw[q][s]) = 0 /\ Total(wrapped[q][s]) = 0
  BY <1>1, EmptyTotals
<1>5. SumFunctionOnSet(collateral, Questions) = 0
  BY <1>1, QuestionsAreFinite, SumOfZeros
<1>6. ClaimsBounded
  BY <1>4, CompleteSetsAssumption DEF ClaimsBounded, CompleteSetsAssumption
<1>7. QuestionsCovered /\ WrappersBacked
  BY <1>1, <1>4, Distinct DEF QuestionsCovered, WrappersBacked
<1> QED
  BY <1>1, <1>3, <1>5, <1>6, <1>7 DEF IInv, PotHolds

-----------------------------------------------------------------------------
(* What the positions and the money of one question do in a step *)

PositionsMove(q, d) ==
  /\ raw' \in Balances /\ wrapped' \in Balances
  /\ \A p \in Questions \ {q} : raw'[p] = raw[p] /\ wrapped'[p] = wrapped[p]
  /\ \A s \in Sides : Total(raw'[q][s]) = Total(raw[q][s]) + d[s]
  /\ \A s \in Sides : Total(wrapped'[q][s]) = raw'[q][s][Wrapper]

MoneyMove(q, c) ==
  /\ money' \in [Accounts -> Nat]
  /\ collateral' \in [Questions -> Nat]
  /\ collateral' = [collateral EXCEPT ![q] = @ + c]
  /\ money'[CTF] = money[CTF] + c
  /\ UNCHANGED <<verdict, payout, supply>>

LEMMA CollateralChanges ==
  ASSUME NEW f, NEW g, \A x \in Questions : f[x] \in Nat /\ g[x] \in Nat,
         NEW q \in Questions, NEW c \in Int, g[q] = f[q] + c,
         \A x \in Questions \ {q} : g[x] = f[x]
  PROVE  SumFunctionOnSet(g, Questions) = SumFunctionOnSet(f, Questions) + c
<1>1. \A x \in Questions : f[x] \in Int /\ g[x] \in Int
  OBVIOUS
<1>2. SumFunctionOnSet(g, Questions) = SumFunctionOnSet(f, Questions) + g[q] - f[q]
  BY <1>1, QuestionsAreFinite, SumChange
<1>3. SumFunctionOnSet(f, Questions) \in Nat /\ f[q] \in Nat
  BY QuestionsAreFinite, SumIsNat
<1> QED
  BY <1>2, <1>3

LEMMA CollateralIsNat ==
  ASSUME NEW f \in [Questions -> Nat]
  PROVE  /\ SumFunctionOnSet(f, Questions) \in Nat
         /\ \A q \in Questions : f[q] <= SumFunctionOnSet(f, Questions)
<1>1. \A q \in Questions : f[q] \in Nat
  OBVIOUS
<1> QED
  BY <1>1, QuestionsAreFinite, SumIsNat, SumCovers

LEMMA MoveKeeps ==
  ASSUME IInv, NEW q \in Questions, NEW d, NEW c \in Int,
         \A s \in Sides : /\ d[s] \in Int
                          /\ Total(raw[q][s]) + d[s] <= MaxClaims
                          /\ Given(q) \in {0, s} => d[s] = c,
         PositionsMove(q, d), MoneyMove(q, c)
  PROVE  IInv'
<1>1. TypeOK'
  BY DEF IInv, TypeOK, PositionsMove, MoneyMove, Balances
<1>2. PaysVerdict'
  BY DEF IInv, PaysVerdict, MoneyMove
<1>3. ClaimsBounded'
  BY DEF IInv, ClaimsBounded, PositionsMove
<1>4. \A p \in Questions : Given(p)' = Given(p)
  BY DEF MoneyMove, Given, Prepared
<1>5. /\ \A p \in Questions \ {q} : collateral'[p] = collateral[p]
      /\ collateral'[q] = collateral[q] + c
  BY DEF IInv, TypeOK, MoneyMove
<1>6. QuestionsCovered'
  <2> SUFFICES ASSUME NEW p \in Questions, NEW s \in Sides, Given(p)' \in {0, s}
               PROVE  collateral'[p] = Total(raw'[p][s])
    BY DEF QuestionsCovered
  <2>1. collateral[p] = Total(raw[p][s])
    BY <1>4 DEF IInv, QuestionsCovered
  <2>2. CASE p = q
    BY <1>4, <1>5, <2>1, <2>2 DEF PositionsMove
  <2>3. CASE p # q
    BY <1>5, <2>1, <2>3 DEF PositionsMove
  <2> QED
    BY <2>2, <2>3
<1>7. WrappersBacked'
  BY DEF IInv, WrappersBacked, PositionsMove
<1>8. PotHolds'
  <2>1. collateral \in [Questions -> Nat] /\ money \in [Accounts -> Nat]
    BY DEF IInv, TypeOK
  <2>2. SumFunctionOnSet(collateral', Questions) = SumFunctionOnSet(collateral, Questions) + c
    <3>1. \A x \in Questions : collateral[x] \in Nat /\ collateral'[x] \in Nat
      BY <2>1 DEF MoneyMove
    <3> QED
      BY <1>5, <3>1, CollateralChanges
  <2>3. SumFunctionOnSet(collateral, Questions) \in Nat
    BY <2>1, CollateralIsNat
  <2>4. money[CTF] \in Nat
    BY <2>1, Distinct
  <2> QED
    BY <2>2, <2>3, <2>4 DEF IInv, PotHolds, MoneyMove
<1> QED
  BY <1>1, <1>2, <1>3, <1>6, <1>7, <1>8 DEF IInv

LEMMA PayInMoves ==
  ASSUME TypeOK, NEW u \in Users, NEW q \in Questions, NEW n \in Nat, PayIn(u, q, n)
  PROVE  /\ MoneyMove(q, n)
         /\ money'[u] = money[u] - n
         /\ \A v \in Users \ {u} : money'[v] = money[v]
<1>1. /\ money \in [Accounts -> Nat] /\ collateral \in [Questions -> Nat]
      /\ money[u] >= n
      /\ money' = [money EXCEPT ![u] = @ - n, ![CTF] = @ + n]
      /\ collateral' = [collateral EXCEPT ![q] = @ + n]
      /\ UNCHANGED <<verdict, payout, supply>>
  BY DEF TypeOK, PayIn
<1> QED
  BY <1>1, Distinct DEF MoneyMove

LEMMA PayOutMoves ==
  ASSUME TypeOK, NEW u \in Users, NEW q \in Questions, NEW n \in Nat, n <= collateral[q],
         PayOut(u, q, n)
  PROVE  /\ MoneyMove(q, 0 - n)
         /\ money'[u] = money[u] + n
         /\ \A v \in Users \ {u} : money'[v] = money[v]
<1>1. /\ money \in [Accounts -> Nat] /\ collateral \in [Questions -> Nat]
      /\ money[CTF] >= n
      /\ money' = [money EXCEPT ![CTF] = @ - n, ![u] = @ + n]
      /\ collateral' = [collateral EXCEPT ![q] = @ - n]
      /\ UNCHANGED <<verdict, payout, supply>>
  BY DEF TypeOK, PayOut
<1>2. money[CTF] \in Nat /\ money[u] \in Nat /\ collateral[q] \in Nat
  BY <1>1, Distinct
<1>3. /\ money' \in [Accounts -> Nat] /\ money'[CTF] = money[CTF] + (0 - n)
      /\ money'[u] = money[u] + n
      /\ \A v \in Users \ {u} : money'[v] = money[v]
  BY <1>1, <1>2, Distinct
<1>4. /\ collateral' \in [Questions -> Nat]
      /\ collateral' = [collateral EXCEPT ![q] = @ + (0 - n)]
  <2>1. collateral[q] - n = collateral[q] + (0 - n) /\ collateral[q] - n \in Nat
    BY <1>2
  <2> QED
    BY <1>1, <2>1
<1> QED
  BY <1>1, <1>3, <1>4 DEF MoneyMove

LEMMA RedemptionIsWinning ==
  ASSUME IInv, NEW q, Answered(q), NEW burned, \A s \in Sides : burned[s] \in Nat
  PROVE  verdict[q] \in Sides /\ Given(q) = verdict[q] /\ Redemption(q, burned) = burned[verdict[q]]
<1>1. verdict[q] \in Sides /\ Given(q) = verdict[q]
  BY DEF IInv, TypeOK, Answered, Prepared, Given, Sides
<1>2. payout[q] = IF verdict[q] = 1 THEN <<1, 0>> ELSE <<0, 1>>
  BY DEF IInv, PaysVerdict, Answered, Prepared, Oracle!PayoutFor
<1>3. \A x \in Nat : 1 * x = x /\ 0 * x = 0
  OBVIOUS
<1>4. burned[1] \in Nat /\ burned[2] \in Nat
  BY DEF Sides
<1>5. CASE verdict[q] = 1
  <2>1. payout[q][1] = 1 /\ payout[q][2] = 0
    BY <1>2, <1>5
  <2> QED
    BY <1>1, <1>3, <1>4, <1>5, <2>1 DEF Redemption
<1>6. CASE verdict[q] = 2
  <2>1. payout[q][1] = 0 /\ payout[q][2] = 1
    BY <1>2, <1>6
  <2> QED
    BY <1>1, <1>3, <1>4, <1>6, <2>1 DEF Redemption
<1> QED
  BY <1>1, <1>5, <1>6 DEF Sides

-----------------------------------------------------------------------------
(* The operations move positions of one question *)

(* From B to C the holder g passes a[s] of side s of question q on to h. *)
Moved(B, C, q, g, h, a) ==
  /\ C \in Balances
  /\ \A p \in Questions \ {q} : C[p] = B[p]
  /\ \A s \in Sides, x \in Holders :
       C[q][s][x] = IF x = g THEN B[q][s][x] - a[s] ELSE IF x = h THEN B[q][s][x] + a[s] ELSE B[q][s][x]
  /\ \A s \in Sides : Total(C[q][s]) = Total(B[q][s])

LEMMA TotalsAreNat ==
  ASSUME NEW B \in Balances, NEW q \in Questions, NEW s \in Sides
  PROVE  Total(B[q][s]) \in Nat /\ \A h \in Holders : B[q][s][h] \in Nat
<1>1. B[q][s] \in Positions
  BY DEF Balances, Positions
<1> QED
  BY <1>1, TotalIsSum DEF Positions

LEMMA MoveIsTwoChanges ==
  ASSUME NEW B \in Balances, NEW q \in Questions, NEW g \in Holders, NEW h \in Holders, g # h, NEW a,
         \A s \in Sides : a[s] \in Nat, Holds(B[q], g, a),
         NEW C, C = [B EXCEPT ![q] = Credit(Debit(@, g, a), h, a)]
  PROVE  Moved(B, C, q, g, h, a)
<1> DEFINE D == [B EXCEPT ![q] = Debit(@, g, a)]
<1>1. Changed(B, D, q, g, Minus(a))
  BY DebitIsChange
<1>2. D \in Balances /\ C = [D EXCEPT ![q] = Credit(@, h, a)]
  <2>1. D \in Balances
    BY <1>1 DEF Changed
  <2>2. D[q] = Debit(B[q], g, a)
    BY DEF Balances
  <2> QED
    BY <2>1, <2>2 DEF Balances
<1> HIDE DEF D
<1>3. Changed(D, C, q, h, a)
  BY <1>2, CreditIsChange
<1>4. ASSUME NEW s \in Sides
      PROVE  /\ Total(C[q][s]) = Total(B[q][s])
             /\ \A x \in Holders :
                  C[q][s][x] = IF x = g THEN B[q][s][x] - a[s] ELSE IF x = h THEN B[q][s][x] + a[s] ELSE B[q][s][x]
  <2>1. Total(B[q][s]) \in Nat /\ \A x \in Holders : B[q][s][x] \in Nat
    BY TotalsAreNat
  <2>2. Minus(a)[s] = 0 - a[s] /\ a[s] \in Nat
    BY DEF Minus
  <2>3. /\ Total(D[q][s]) = Total(B[q][s]) - a[s]
        /\ \A x \in Holders : D[q][s][x] = IF x = g THEN B[q][s][x] - a[s] ELSE B[q][s][x]
    BY <1>1, <2>1, <2>2 DEF Changed
  <2>4. Total(C[q][s]) = Total(D[q][s]) + a[s]
    BY <1>3 DEF Changed
  <2>5. \A x \in Holders : C[q][s][x] = IF x = h THEN D[q][s][x] + a[s] ELSE D[q][s][x]
    BY <1>3 DEF Changed
  <2> QED
    BY <2>1, <2>2, <2>3, <2>4, <2>5
<1>5. C \in Balances /\ \A p \in Questions \ {q} : C[p] = B[p]
  BY <1>1, <1>3 DEF Changed
<1> QED
  BY <1>4, <1>5 DEF Moved

(* The four kinds of steps, and who they are fair to. *)
Sold(q, n) ==
  /\ PositionsMove(q, Both(n)) /\ MoneyMove(q, n)
  /\ \A s \in Sides : Total(raw[q][s]) + n <= MaxClaims

BoughtBack(q, n) ==
  /\ PositionsMove(q, Minus(Both(n))) /\ MoneyMove(q, 0 - n)
  /\ \A s \in Sides : n <= Total(raw[q][s])

Paid(q, given) ==
  /\ Answered(q) /\ given \in [Sides -> Nat]
  /\ PositionsMove(q, Minus(given)) /\ MoneyMove(q, 0 - given[verdict[q]])
  /\ \A s \in Sides : given[s] <= Total(raw[q][s])

PassedOn(q) ==
  PositionsMove(q, Both(0)) /\ UNCHANGED <<verdict, payout, money, supply, collateral>>

Fair(q, v) ==
  \A s \in Sides : Given(q) \in {0, s} =>
    money'[v] + raw'[q][s][v] + wrapped'[q][s][v] >= money[v] + raw[q][s][v] + wrapped[q][s][v]

LEMMA BothTypes ==
  ASSUME NEW n \in Nat
  PROVE  \A s \in Sides : Both(n)[s] = n /\ Both(n)[s] \in Nat /\ Minus(Both(n))[s] = 0 - n
BY DEF Both, Minus

LEMMA Balanced ==
  ASSUME IInv
  PROVE  /\ raw \in Balances /\ wrapped \in Balances
         /\ \A u \in Users : money[u] \in Nat
         /\ \A q \in Questions, s \in Sides :
              /\ Total(wrapped[q][s]) = raw[q][s][Wrapper]
              /\ Total(raw[q][s]) \in Nat /\ Total(raw[q][s]) <= MaxClaims
              /\ \A h \in Holders : raw[q][s][h] \in Nat /\ wrapped[q][s][h] \in Nat
              /\ \A h \in Holders : raw[q][s][h] <= Total(raw[q][s])
              /\ Given(q) \in {0, s} => collateral[q] = Total(raw[q][s])
<1>1. raw \in Balances /\ wrapped \in Balances /\ money \in [Accounts -> Nat]
  BY DEF IInv, TypeOK
<1>2. ASSUME NEW q \in Questions, NEW s \in Sides, NEW h \in Holders
      PROVE  raw[q][s][h] <= Total(raw[q][s])
  <2>1. raw[q][s] \in Positions
    BY <1>1 DEF Balances, Positions
  <2> QED
    BY <2>1, TotalCovers
<1>3. \A u \in Users : money[u] \in Nat
  BY <1>1, Distinct
<1>4. \A q \in Questions, s \in Sides :
        /\ Total(wrapped[q][s]) = raw[q][s][Wrapper] /\ Total(raw[q][s]) <= MaxClaims
        /\ Given(q) \in {0, s} => collateral[q] = Total(raw[q][s])
  BY DEF IInv, WrappersBacked, ClaimsBounded, QuestionsCovered
<1> QED
  BY <1>1, <1>2, <1>3, <1>4, TotalsAreNat

LEMMA AmountsAreNat == \A n \in Amounts : n \in Nat
BY CompleteSetsAssumption DEF CompleteSetsAssumption

LEMMA RouterSplitSells ==
  ASSUME IInv, NEW u \in Users, NEW q \in Questions, NEW n \in Amounts, RouterSplit(u, q, n)
  PROVE  Sold(q, n) /\ \A v \in Users : Fair(q, v)
<1>1. n \in Nat /\ u \in Holders /\ Wrapper \in Holders /\ u # Wrapper
  BY AmountsAreNat, Distinct
<1>2. /\ raw \in Balances /\ wrapped \in Balances
      /\ raw' = [raw EXCEPT ![q] = Credit(@, Wrapper, Both(n))]
      /\ wrapped' = [wrapped EXCEPT ![q] = Credit(@, u, Both(n))]
  BY Balanced DEF RouterSplit
<1>3. /\ Changed(raw, raw', q, Wrapper, Both(n))
      /\ Changed(wrapped, wrapped', q, u, Both(n))
  BY <1>1, <1>2, BothTypes, CreditIsChange
<1>4. /\ MoneyMove(q, n) /\ money'[u] = money[u] - n
      /\ \A v \in Users \ {u} : money'[v] = money[v]
  BY <1>1, PayInMoves DEF RouterSplit, IInv
<1>5. PositionsMove(q, Both(n))
  BY <1>1, <1>3, Balanced, BothTypes DEF Changed, PositionsMove
<1>6. \A s \in Sides : Total(raw[q][s]) + n <= MaxClaims
  BY DEF RouterSplit, Room
<1>7. ASSUME NEW v \in Users, NEW s \in Sides
      PROVE  money'[v] + raw'[q][s][v] + wrapped'[q][s][v] >= money[v] + raw[q][s][v] + wrapped[q][s][v]
  <2>1. v \in Holders /\ v # Wrapper /\ money[v] \in Nat /\ raw[q][s][v] \in Nat /\ wrapped[q][s][v] \in Nat
    BY Balanced, Distinct
  <2>2. raw'[q][s][v] = raw[q][s][v]
    BY <1>3, <2>1 DEF Changed
  <2>3. wrapped'[q][s][v] = IF v = u THEN wrapped[q][s][v] + n ELSE wrapped[q][s][v]
    BY <1>1, <1>3, <2>1, BothTypes DEF Changed
  <2> QED
    BY <1>1, <1>4, <2>1, <2>2, <2>3
<1> QED
  BY <1>4, <1>5, <1>6, <1>7 DEF Sold, Fair

LEMMA CtfSplitSells ==
  ASSUME IInv, NEW u \in Users, NEW q \in Questions, NEW n \in Amounts, CtfSplit(u, q, n)
  PROVE  Sold(q, n) /\ \A v \in Users : Fair(q, v)
<1>1. n \in Nat /\ u \in Holders /\ Wrapper \in Holders /\ u # Wrapper
  BY AmountsAreNat, Distinct
<1>2. /\ raw \in Balances /\ wrapped' = wrapped
      /\ raw' = [raw EXCEPT ![q] = Credit(@, u, Both(n))]
  BY Balanced DEF CtfSplit
<1>3. Changed(raw, raw', q, u, Both(n))
  BY <1>1, <1>2, BothTypes, CreditIsChange
<1>4. /\ MoneyMove(q, n) /\ money'[u] = money[u] - n
      /\ \A v \in Users \ {u} : money'[v] = money[v]
  BY <1>1, PayInMoves DEF CtfSplit, IInv
<1>5. PositionsMove(q, Both(n))
  BY <1>1, <1>2, <1>3, Balanced, BothTypes DEF Changed, PositionsMove
<1>6. \A s \in Sides : Total(raw[q][s]) + n <= MaxClaims
  BY DEF CtfSplit, Room
<1>7. ASSUME NEW v \in Users, NEW s \in Sides
      PROVE  money'[v] + raw'[q][s][v] + wrapped'[q][s][v] >= money[v] + raw[q][s][v] + wrapped[q][s][v]
  <2>1. v \in Holders /\ money[v] \in Nat /\ raw[q][s][v] \in Nat /\ wrapped[q][s][v] \in Nat
    BY Balanced, Distinct
  <2>2. raw'[q][s][v] = IF v = u THEN raw[q][s][v] + n ELSE raw[q][s][v]
    BY <1>1, <1>3, <2>1, BothTypes DEF Changed
  <2> QED
    BY <1>1, <1>2, <1>4, <2>1, <2>2
<1> QED
  BY <1>4, <1>5, <1>6, <1>7 DEF Sold, Fair

LEMMA PairsAreCovered ==
  ASSUME IInv, NEW q \in Questions, NEW n \in Nat, \A s \in Sides : n <= Total(raw[q][s])
  PROVE  n <= collateral[q]
<1>1. Given(q) \in 0..2
  BY GivenTypes DEF IInv
<1>2. PICK s \in Sides : Given(q) \in {0, s}
  BY <1>1 DEF Sides
<1> QED
  BY <1>2, Balanced

LEMMA WinnersAreCovered ==
  ASSUME IInv, NEW q \in Questions, Answered(q),
         NEW given, \A s \in Sides : given[s] \in Nat /\ given[s] <= Total(raw[q][s])
  PROVE  /\ verdict[q] \in Sides /\ Given(q) = verdict[q]
         /\ Redemption(q, given) = given[verdict[q]]
         /\ given[verdict[q]] \in Nat /\ given[verdict[q]] <= collateral[q]
<1>1. verdict[q] \in Sides /\ Given(q) = verdict[q] /\ Redemption(q, given) = given[verdict[q]]
  BY RedemptionIsWinning
<1>2. collateral[q] = Total(raw[q][verdict[q]])
  BY <1>1, Balanced
<1> QED
  BY <1>1, <1>2

LEMMA RouterMergeBuys ==
  ASSUME IInv, NEW u \in Users, NEW q \in Questions, NEW n \in Amounts, RouterMerge(u, q, n)
  PROVE  BoughtBack(q, n) /\ \A v \in Users : Fair(q, v)
<1>1. n \in Nat /\ u \in Holders /\ Wrapper \in Holders /\ u # Wrapper
  BY AmountsAreNat, Distinct
<1>2. /\ raw \in Balances /\ wrapped \in Balances
      /\ Holds(wrapped[q], u, Both(n)) /\ Holds(raw[q], Wrapper, Both(n))
      /\ raw' = [raw EXCEPT ![q] = Debit(@, Wrapper, Both(n))]
      /\ wrapped' = [wrapped EXCEPT ![q] = Debit(@, u, Both(n))]
  BY Balanced DEF RouterMerge, Take, Takeable
<1>3. /\ Changed(raw, raw', q, Wrapper, Minus(Both(n)))
      /\ Changed(wrapped, wrapped', q, u, Minus(Both(n)))
  BY <1>1, <1>2, BothTypes, DebitIsChange
<1>4. \A s \in Sides : n <= Total(raw[q][s])
  <2> SUFFICES ASSUME NEW s \in Sides PROVE n <= Total(raw[q][s])
    OBVIOUS
  <2>1. n <= raw[q][s][Wrapper]
    BY <1>1, <1>2, BothTypes DEF Holds
  <2> QED
    BY <1>1, <2>1, Balanced
<1>5. /\ MoneyMove(q, 0 - n) /\ money'[u] = money[u] + n
      /\ \A v \in Users \ {u} : money'[v] = money[v]
  BY <1>1, <1>4, PairsAreCovered, PayOutMoves DEF RouterMerge, IInv
<1>6. PositionsMove(q, Minus(Both(n)))
  BY <1>1, <1>3, Balanced, BothTypes DEF Changed, PositionsMove
<1>7. ASSUME NEW v \in Users, NEW s \in Sides
      PROVE  money'[v] + raw'[q][s][v] + wrapped'[q][s][v] >= money[v] + raw[q][s][v] + wrapped[q][s][v]
  <2>1. v \in Holders /\ v # Wrapper /\ money[v] \in Nat /\ raw[q][s][v] \in Nat /\ wrapped[q][s][v] \in Nat
    BY Balanced, Distinct
  <2>2. raw'[q][s][v] = raw[q][s][v]
    BY <1>3, <2>1 DEF Changed
  <2>3. wrapped'[q][s][v] = IF v = u THEN wrapped[q][s][v] - n ELSE wrapped[q][s][v]
    BY <1>1, <1>3, <2>1, BothTypes DEF Changed
  <2> QED
    BY <1>1, <1>5, <2>1, <2>2, <2>3
<1> QED
  BY <1>4, <1>5, <1>6, <1>7 DEF BoughtBack, Fair

LEMMA CtfMergeBuys ==
  ASSUME IInv, NEW u \in Users, NEW q \in Questions, NEW n \in Amounts, CtfMerge(u, q, n)
  PROVE  BoughtBack(q, n) /\ \A v \in Users : Fair(q, v)
<1>1. n \in Nat /\ u \in Holders /\ Wrapper \in Holders /\ u # Wrapper
  BY AmountsAreNat, Distinct
<1>2. /\ raw \in Balances /\ wrapped' = wrapped
      /\ Holds(raw[q], u, Both(n))
      /\ raw' = [raw EXCEPT ![q] = Debit(@, u, Both(n))]
  BY Balanced DEF CtfMerge
<1>3. Changed(raw, raw', q, u, Minus(Both(n)))
  BY <1>1, <1>2, BothTypes, DebitIsChange
<1>4. \A s \in Sides : n <= Total(raw[q][s])
  <2> SUFFICES ASSUME NEW s \in Sides PROVE n <= Total(raw[q][s])
    OBVIOUS
  <2>1. n <= raw[q][s][u]
    BY <1>1, <1>2, BothTypes DEF Holds
  <2> QED
    BY <1>1, <2>1, Balanced
<1>5. /\ MoneyMove(q, 0 - n) /\ money'[u] = money[u] + n
      /\ \A v \in Users \ {u} : money'[v] = money[v]
  BY <1>1, <1>4, PairsAreCovered, PayOutMoves DEF CtfMerge, IInv
<1>6. PositionsMove(q, Minus(Both(n)))
  BY <1>1, <1>2, <1>3, Balanced, BothTypes DEF Changed, PositionsMove
<1>7. ASSUME NEW v \in Users, NEW s \in Sides
      PROVE  money'[v] + raw'[q][s][v] + wrapped'[q][s][v] >= money[v] + raw[q][s][v] + wrapped[q][s][v]
  <2>1. v \in Holders /\ money[v] \in Nat /\ raw[q][s][v] \in Nat /\ wrapped[q][s][v] \in Nat
    BY Balanced, Distinct
  <2>2. raw'[q][s][v] = IF v = u THEN raw[q][s][v] - n ELSE raw[q][s][v]
    BY <1>1, <1>3, <2>1, BothTypes DEF Changed
  <2> QED
    BY <1>1, <1>2, <1>5, <2>1, <2>2
<1> QED
  BY <1>4, <1>5, <1>6, <1>7 DEF BoughtBack, Fair

LEMMA CtfRedeemPays ==
  ASSUME IInv, NEW u \in Users, NEW q \in Questions, CtfRedeem(u, q)
  PROVE  (\E given \in [Sides -> 0..MaxClaims] : Paid(q, given)) /\ \A v \in Users : Fair(q, v)
<1> DEFINE burned == Held(q, u)
<1>1. u \in Holders /\ Wrapper \in Holders /\ u # Wrapper
  BY Distinct
<1>2. /\ raw \in Balances /\ wrapped' = wrapped /\ Answered(q)
      /\ raw' = [raw EXCEPT ![q] = Debit(@, u, burned)]
      /\ PayOut(u, q, Redemption(q, burned))
  BY Balanced DEF CtfRedeem
<1>3. \A s \in Sides : burned[s] = raw[q][s][u] /\ burned[s] \in Nat /\ burned[s] <= Total(raw[q][s])
  BY <1>1, Balanced DEF Held
<1>4. Holds(raw[q], u, burned)
  BY <1>3 DEF Holds
<1>5. burned \in [Sides -> 0..MaxClaims] /\ burned \in [Sides -> Nat]
  <2>1. \A s \in Sides : burned[s] \in 0..MaxClaims
    BY <1>3, Balanced, CompleteSetsAssumption DEF CompleteSetsAssumption
  <2> QED
    BY <1>3, <2>1 DEF Held
<1> HIDE DEF burned
<1>6. Changed(raw, raw', q, u, Minus(burned))
  BY <1>1, <1>2, <1>3, <1>4, DebitIsChange
<1> DEFINE won == burned[verdict[q]]
<1>7. /\ verdict[q] \in Sides /\ Given(q) = verdict[q] /\ Redemption(q, burned) = won
      /\ won \in Nat /\ won <= collateral[q]
  BY <1>2, <1>3, WinnersAreCovered
<1> HIDE DEF won
<1>8. PayOut(u, q, won)
  BY <1>2, <1>7
<1>9. /\ MoneyMove(q, 0 - won) /\ money'[u] = money[u] + won
      /\ \A v \in Users \ {u} : money'[v] = money[v]
  BY <1>7, <1>8, PayOutMoves DEF IInv
<1>10. \A s \in Sides : Minus(burned)[s] = 0 - burned[s]
  BY DEF Minus
<1>11. PositionsMove(q, Minus(burned))
  BY <1>1, <1>2, <1>3, <1>6, <1>10, Balanced DEF Changed, PositionsMove
<1>12. Paid(q, burned)
  BY <1>2, <1>3, <1>5, <1>9, <1>11 DEF Paid, won
<1>13. ASSUME NEW v \in Users, NEW s \in Sides, Given(q) \in {0, s}
       PROVE  money'[v] + raw'[q][s][v] + wrapped'[q][s][v] >= money[v] + raw[q][s][v] + wrapped[q][s][v]
  <2>1. v \in Holders /\ money[v] \in Nat /\ raw[q][s][v] \in Nat /\ wrapped[q][s][v] \in Nat
    BY Balanced, Distinct
  <2>2. s = verdict[q] /\ won = burned[s]
    BY <1>7, <1>13 DEF Sides, won
  <2>3. raw'[q][s][v] = IF v = u THEN raw[q][s][v] - burned[s] ELSE raw[q][s][v]
    BY <1>1, <1>3, <1>6, <1>10, <2>1 DEF Changed
  <2>4. wrapped'[q][s][v] = wrapped[q][s][v]
    BY <1>2
  <2>5. money'[v] = IF v = u THEN money[v] + won ELSE money[v]
    BY <1>9
  <2>6. burned[s] \in Nat
    BY <1>3
  <2> QED
    BY <2>1, <2>2, <2>3, <2>4, <2>5, <2>6
<1> QED
  BY <1>5, <1>12, <1>13 DEF Fair

LEMMA RouterRedeemPays ==
  ASSUME IInv, NEW u \in Users, NEW q \in Questions, NEW k \in Redeemed, RouterRedeem(u, q, k)
  PROVE  (\E given \in [Sides -> 0..MaxClaims] : Paid(q, given)) /\ \A v \in Users : Fair(q, v)
<1> DEFINE burned == Burned(q, k)
           stray == Held(q, Router)
           B == [raw EXCEPT ![q] = Debit(@, Wrapper, k)]
<1>1. u \in Holders /\ Wrapper \in Holders /\ Router \in Holders /\ u # Wrapper /\ u # Router /\ Router # Wrapper
  BY Distinct
<1>2. /\ raw \in Balances /\ wrapped \in Balances /\ Answered(q)
      /\ Holds(wrapped[q], u, k) /\ Holds(raw[q], Wrapper, k)
      /\ raw' = [raw EXCEPT ![q] = Debit(Debit(@, Wrapper, k), Router, stray)]
      /\ wrapped' = [wrapped EXCEPT ![q] = Debit(@, u, k)]
      /\ PayOut(u, q, Redemption(q, burned))
  BY Balanced DEF RouterRedeem, Redeemable, Take, Takeable
<1>3. \A s \in Sides : k[s] \in Nat
  BY AmountsAreNat DEF Redeemed
<1>4. \A s \in Sides : stray[s] = raw[q][s][Router] /\ stray[s] \in Nat /\ burned[s] = stray[s] + k[s]
  BY <1>1, Balanced DEF Burned, Held
<1>5. Changed(raw, B, q, Wrapper, Minus(k))
  BY <1>1, <1>2, <1>3, DebitIsChange
<1>6. Holds(B[q], Router, stray) /\ raw' = [B EXCEPT ![q] = Debit(@, Router, stray)]
  <2>1. B[q] = Debit(raw[q], Wrapper, k)
    BY <1>2 DEF Balances
  <2>2. raw' = [B EXCEPT ![q] = Debit(B[q], Router, stray)]
    BY <1>2, <2>1 DEF Balances
  <2>3. \A s \in Sides : B[q][s][Router] = raw[q][s][Router]
    BY <1>1, <1>5 DEF Changed
  <2>4. Holds(B[q], Router, stray)
    BY <1>4, <2>3 DEF Holds
  <2> QED
    BY <2>2, <2>4
<1> HIDE DEF B
<1>7. B \in Balances
  BY <1>5 DEF Changed
<1>8. Changed(B, raw', q, Router, Minus(stray))
  BY <1>1, <1>4, <1>6, <1>7, DebitIsChange
<1>9. Changed(wrapped, wrapped', q, u, Minus(k))
  BY <1>1, <1>2, <1>3, DebitIsChange
<1> HIDE DEF stray, burned
<1>10. \A s \in Sides : Minus(k)[s] = 0 - k[s] /\ Minus(stray)[s] = 0 - stray[s] /\ Minus(burned)[s] = 0 - burned[s]
  BY DEF Minus
<1>11. ASSUME NEW s \in Sides
       PROVE  /\ Total(raw'[q][s]) = Total(raw[q][s]) - burned[s]
              /\ raw'[q][s][Wrapper] = raw[q][s][Wrapper] - k[s]
              /\ \A v \in Users : raw'[q][s][v] = raw[q][s][v]
              /\ burned[s] \in Nat /\ burned[s] <= Total(raw[q][s])
  <2>1. Total(raw[q][s]) \in Nat /\ raw[q][s][Wrapper] \in Nat
    BY <1>1, Balanced
  <2>2. Total(B[q][s]) = Total(raw[q][s]) - k[s] /\ B[q][s][Wrapper] = raw[q][s][Wrapper] - k[s]
    BY <1>1, <1>3, <1>5, <1>10, <2>1 DEF Changed
  <2>3. Total(raw'[q][s]) = Total(B[q][s]) - stray[s]
    BY <1>3, <1>4, <1>8, <1>10, <2>1, <2>2 DEF Changed
  <2>4. raw'[q][s][Wrapper] = B[q][s][Wrapper]
    BY <1>1, <1>8 DEF Changed
  <2>5. \A v \in Users : raw'[q][s][v] = raw[q][s][v]
    BY Distinct, <1>5, <1>8 DEF Changed
  <2>6. Total(raw'[q][s]) \in Nat
    BY <1>8, TotalsAreNat DEF Changed
  <2> QED
    BY <1>3, <1>4, <2>1, <2>2, <2>3, <2>4, <2>5, <2>6
<1>12. burned \in [Sides -> 0..MaxClaims] /\ burned \in [Sides -> Nat]
  <2>1. \A s \in Sides : burned[s] \in 0..MaxClaims
    BY <1>11, Balanced, CompleteSetsAssumption DEF CompleteSetsAssumption
  <2>2. burned = [s \in Sides |-> burned[s]]
    BY DEF burned, Burned
  <2> QED
    BY <1>11, <2>1, <2>2
<1> DEFINE won == burned[verdict[q]]
<1>13. /\ verdict[q] \in Sides /\ Given(q) = verdict[q] /\ Redemption(q, burned) = won
       /\ won \in Nat /\ won <= collateral[q]
  BY <1>2, <1>11, WinnersAreCovered
<1> HIDE DEF won
<1>14. PayOut(u, q, won)
  BY <1>2, <1>13
<1>15. /\ MoneyMove(q, 0 - won) /\ money'[u] = money[u] + won
       /\ \A v \in Users \ {u} : money'[v] = money[v]
  BY <1>13, <1>14, PayOutMoves DEF IInv
<1>16. PositionsMove(q, Minus(burned))
  <2>1. \A s \in Sides : Total(wrapped'[q][s]) = raw'[q][s][Wrapper]
    <3> SUFFICES ASSUME NEW s \in Sides PROVE Total(wrapped'[q][s]) = raw'[q][s][Wrapper]
      OBVIOUS
    <3>1. Total(wrapped'[q][s]) = Total(wrapped[q][s]) + Minus(k)[s]
      BY <1>9 DEF Changed
    <3>2. Total(wrapped[q][s]) = raw[q][s][Wrapper] /\ raw[q][s][Wrapper] \in Nat
      BY <1>1, Balanced
    <3> QED
      BY <1>3, <1>10, <1>11, <3>1, <3>2
  <2>2. \A s \in Sides : Total(raw'[q][s]) = Total(raw[q][s]) + Minus(burned)[s]
    BY <1>10, <1>11, Balanced
  <2> QED
    BY <1>5, <1>8, <1>9, <2>1, <2>2 DEF Changed, PositionsMove
<1>17. Paid(q, burned)
  BY <1>2, <1>11, <1>12, <1>15, <1>16 DEF Paid, won
<1>18. ASSUME NEW v \in Users, NEW s \in Sides, Given(q) \in {0, s}
       PROVE  money'[v] + raw'[q][s][v] + wrapped'[q][s][v] >= money[v] + raw[q][s][v] + wrapped[q][s][v]
  <2>1. v \in Holders /\ money[v] \in Nat /\ raw[q][s][v] \in Nat /\ wrapped[q][s][v] \in Nat
    BY Balanced, Distinct
  <2>2. s = verdict[q] /\ won = burned[s]
    BY <1>13, <1>18 DEF Sides, won
  <2>3. wrapped'[q][s][v] = IF v = u THEN wrapped[q][s][v] - k[s] ELSE wrapped[q][s][v]
    BY <1>3, <1>9, <1>10, <2>1 DEF Changed
  <2>4. won >= k[s]
    BY <1>3, <1>4, <2>2
  <2> QED
    BY <1>3, <1>11, <1>13, <1>15, <2>1, <2>3, <2>4
<1> QED
  BY <1>12, <1>17, <1>18 DEF Fair

LEMMA OneTypes ==
  ASSUME NEW t \in Sides, NEW n \in Amounts
  PROVE  \A s \in Sides : One(t, n)[s] \in Nat
BY AmountsAreNat DEF One

LEMMA WrapPassesOn ==
  ASSUME IInv, NEW u \in Users, NEW q \in Questions, NEW t \in Sides, NEW n \in Amounts, Wrap(u, q, t, n)
  PROVE  PassedOn(q) /\ \A v \in Users : Fair(q, v)
<1> DEFINE a == One(t, n)
<1>1. u \in Holders /\ Wrapper \in Holders /\ u # Wrapper
  BY Distinct
<1>2. /\ raw \in Balances /\ wrapped \in Balances /\ Holds(raw[q], u, a)
      /\ raw' = [raw EXCEPT ![q] = Credit(Debit(@, u, a), Wrapper, a)]
      /\ wrapped' = [wrapped EXCEPT ![q] = Credit(@, u, a)]
      /\ UNCHANGED <<verdict, payout, money, supply, collateral>>
  BY Balanced DEF Wrap
<1>3. \A s \in Sides : a[s] \in Nat
  BY OneTypes
<1> HIDE DEF a
<1>4. Moved(raw, raw', q, u, Wrapper, a)
  BY <1>1, <1>2, <1>3, MoveIsTwoChanges
<1>5. Changed(wrapped, wrapped', q, u, a)
  BY <1>1, <1>2, <1>3, CreditIsChange
<1>6. ASSUME NEW s \in Sides
      PROVE  /\ Total(raw'[q][s]) = Total(raw[q][s]) + Both(0)[s]
             /\ Total(wrapped'[q][s]) = raw'[q][s][Wrapper]
  <2>1. Total(raw'[q][s]) = Total(raw[q][s]) /\ raw'[q][s][Wrapper] = raw[q][s][Wrapper] + a[s]
    BY <1>1, <1>4 DEF Moved
  <2>2. Total(wrapped'[q][s]) = Total(wrapped[q][s]) + a[s]
    BY <1>5 DEF Changed
  <2>3. Total(wrapped[q][s]) = raw[q][s][Wrapper] /\ Total(raw[q][s]) \in Nat /\ Both(0)[s] = 0
    BY Balanced DEF Both
  <2> QED
    BY <2>1, <2>2, <2>3
<1>7. PassedOn(q)
  BY <1>2, <1>4, <1>5, <1>6 DEF Moved, Changed, PassedOn, PositionsMove
<1>8. ASSUME NEW v \in Users, NEW s \in Sides
      PROVE  money'[v] + raw'[q][s][v] + wrapped'[q][s][v] >= money[v] + raw[q][s][v] + wrapped[q][s][v]
  <2>1. /\ v \in Holders /\ v # Wrapper /\ money[v] \in Nat /\ raw[q][s][v] \in Nat
        /\ wrapped[q][s][v] \in Nat /\ a[s] \in Nat
    BY <1>3, Balanced, Distinct
  <2>2. /\ raw'[q][s][v] = IF v = u THEN raw[q][s][v] - a[s] ELSE raw[q][s][v]
        /\ wrapped'[q][s][v] = IF v = u THEN wrapped[q][s][v] + a[s] ELSE wrapped[q][s][v]
    BY <1>4, <1>5, <2>1 DEF Moved, Changed
  <2>3. money'[v] = money[v]
    BY <1>2
  <2> QED
    BY <2>1, <2>2, <2>3
<1> QED
  BY <1>7, <1>8 DEF Fair

LEMMA UnwrapPassesOn ==
  ASSUME IInv, NEW u \in Users, NEW q \in Questions, NEW t \in Sides, NEW n \in Amounts, Unwrap(u, q, t, n)
  PROVE  PassedOn(q) /\ \A v \in Users : Fair(q, v)
<1> DEFINE a == One(t, n)
<1>1. u \in Holders /\ Wrapper \in Holders /\ u # Wrapper
  BY Distinct
<1>2. /\ raw \in Balances /\ wrapped \in Balances /\ Holds(raw[q], Wrapper, a) /\ Holds(wrapped[q], u, a)
      /\ raw' = [raw EXCEPT ![q] = Credit(Debit(@, Wrapper, a), u, a)]
      /\ wrapped' = [wrapped EXCEPT ![q] = Debit(@, u, a)]
      /\ UNCHANGED <<verdict, payout, money, supply, collateral>>
  BY Balanced DEF Unwrap
<1>3. \A s \in Sides : a[s] \in Nat
  BY OneTypes
<1> HIDE DEF a
<1>4. Moved(raw, raw', q, Wrapper, u, a)
  BY <1>1, <1>2, <1>3, MoveIsTwoChanges
<1>5. Changed(wrapped, wrapped', q, u, Minus(a))
  BY <1>1, <1>2, <1>3, DebitIsChange
<1>6. ASSUME NEW s \in Sides
      PROVE  /\ Total(raw'[q][s]) = Total(raw[q][s]) + Both(0)[s]
             /\ Total(wrapped'[q][s]) = raw'[q][s][Wrapper]
  <2>1. Total(raw'[q][s]) = Total(raw[q][s]) /\ raw'[q][s][Wrapper] = raw[q][s][Wrapper] - a[s]
    BY <1>1, <1>4 DEF Moved
  <2>2. Total(wrapped'[q][s]) = Total(wrapped[q][s]) + (0 - a[s])
    BY <1>5 DEF Changed, Minus
  <2>3. /\ Total(wrapped[q][s]) = raw[q][s][Wrapper] /\ Total(raw[q][s]) \in Nat /\ Both(0)[s] = 0
        /\ raw[q][s][Wrapper] \in Nat /\ a[s] \in Nat
    BY <1>1, <1>3, Balanced DEF Both
  <2> QED
    BY <2>1, <2>2, <2>3
<1>7. PassedOn(q)
  BY <1>2, <1>4, <1>5, <1>6 DEF Moved, Changed, PassedOn, PositionsMove
<1>8. ASSUME NEW v \in Users, NEW s \in Sides
      PROVE  money'[v] + raw'[q][s][v] + wrapped'[q][s][v] >= money[v] + raw[q][s][v] + wrapped[q][s][v]
  <2>1. /\ v \in Holders /\ v # Wrapper /\ money[v] \in Nat /\ raw[q][s][v] \in Nat
        /\ wrapped[q][s][v] \in Nat /\ a[s] \in Nat
    BY <1>3, Balanced, Distinct
  <2>2. /\ raw'[q][s][v] = IF v = u THEN raw[q][s][v] + a[s] ELSE raw[q][s][v]
        /\ wrapped'[q][s][v] = IF v = u THEN wrapped[q][s][v] + (0 - a[s]) ELSE wrapped[q][s][v]
    BY <1>4, <1>5, <2>1 DEF Moved, Changed, Minus
  <2>3. money'[v] = money[v]
    BY <1>2
  <2> QED
    BY <2>1, <2>2, <2>3
<1> QED
  BY <1>7, <1>8 DEF Fair

LEMMA GiveRawPassesOn ==
  ASSUME IInv, NEW u \in Users, NEW to \in Users \cup {Router}, to # u, NEW q \in Questions,
         NEW t \in Sides, NEW n \in Amounts, GiveRaw(u, to, q, t, n)
  PROVE  PassedOn(q) /\ \A v \in Users \ {u} : Fair(q, v)
<1> DEFINE a == One(t, n)
<1>1. u \in Holders /\ to \in Holders /\ Wrapper \in Holders /\ u # Wrapper /\ to # Wrapper
  BY Distinct
<1>2. /\ raw \in Balances /\ wrapped' = wrapped /\ Holds(raw[q], u, a)
      /\ raw' = [raw EXCEPT ![q] = Credit(Debit(@, u, a), to, a)]
      /\ UNCHANGED <<verdict, payout, money, supply, collateral>>
  BY Balanced DEF GiveRaw
<1>3. \A s \in Sides : a[s] \in Nat
  BY OneTypes
<1> HIDE DEF a
<1>4. Moved(raw, raw', q, u, to, a)
  BY <1>1, <1>2, <1>3, MoveIsTwoChanges
<1>5. ASSUME NEW s \in Sides
      PROVE  /\ Total(raw'[q][s]) = Total(raw[q][s]) + Both(0)[s]
             /\ Total(wrapped'[q][s]) = raw'[q][s][Wrapper]
  <2>1. Total(raw'[q][s]) = Total(raw[q][s]) /\ raw'[q][s][Wrapper] = raw[q][s][Wrapper]
    BY <1>1, <1>4 DEF Moved
  <2>2. Total(wrapped'[q][s]) = Total(wrapped[q][s])
    BY <1>2
  <2>3. Total(wrapped[q][s]) = raw[q][s][Wrapper] /\ Total(raw[q][s]) \in Nat /\ Both(0)[s] = 0
    BY Balanced DEF Both
  <2> QED
    BY <2>1, <2>2, <2>3
<1>6. wrapped' \in Balances /\ wrapped' = wrapped
  BY <1>2, Balanced
<1>7. PassedOn(q)
  BY <1>2, <1>4, <1>5, <1>6 DEF Moved, PassedOn, PositionsMove
<1>8. ASSUME NEW v \in Users \ {u}, NEW s \in Sides
      PROVE  money'[v] + raw'[q][s][v] + wrapped'[q][s][v] >= money[v] + raw[q][s][v] + wrapped[q][s][v]
  <2>1. /\ v \in Holders /\ money[v] \in Nat /\ raw[q][s][v] \in Nat
        /\ wrapped[q][s][v] \in Nat /\ a[s] \in Nat
    BY <1>3, Balanced, Distinct
  <2>2. raw'[q][s][v] = IF v = to THEN raw[q][s][v] + a[s] ELSE raw[q][s][v]
    BY <1>4, <2>1 DEF Moved
  <2>3. money'[v] = money[v] /\ wrapped'[q][s][v] = wrapped[q][s][v]
    BY <1>2
  <2> QED
    BY <2>1, <2>2, <2>3
<1> QED
  BY <1>7, <1>8 DEF Fair

LEMMA GiveWrappedPassesOn ==
  ASSUME IInv, NEW u \in Users, NEW to \in Users \cup {Router}, to # u, NEW q \in Questions,
         NEW t \in Sides, NEW n \in Amounts, GiveWrapped(u, to, q, t, n)
  PROVE  PassedOn(q) /\ \A v \in Users \ {u} : Fair(q, v)
<1> DEFINE a == One(t, n)
<1>1. u \in Holders /\ to \in Holders
  BY Distinct
<1>2. /\ wrapped \in Balances /\ raw' = raw /\ Holds(wrapped[q], u, a)
      /\ wrapped' = [wrapped EXCEPT ![q] = Credit(Debit(@, u, a), to, a)]
      /\ UNCHANGED <<verdict, payout, money, supply, collateral>>
  BY Balanced DEF GiveWrapped
<1>3. \A s \in Sides : a[s] \in Nat
  BY OneTypes
<1> HIDE DEF a
<1>4. Moved(wrapped, wrapped', q, u, to, a)
  BY <1>1, <1>2, <1>3, MoveIsTwoChanges
<1>5. ASSUME NEW s \in Sides
      PROVE  /\ Total(raw'[q][s]) = Total(raw[q][s]) + Both(0)[s]
             /\ Total(wrapped'[q][s]) = raw'[q][s][Wrapper]
  <2>1. Total(wrapped'[q][s]) = Total(wrapped[q][s])
    BY <1>1, <1>4 DEF Moved
  <2>2. Total(raw'[q][s]) = Total(raw[q][s]) /\ raw'[q][s][Wrapper] = raw[q][s][Wrapper]
    BY <1>2
  <2>3. Total(wrapped[q][s]) = raw[q][s][Wrapper] /\ Total(raw[q][s]) \in Nat /\ Both(0)[s] = 0
    BY Balanced DEF Both
  <2> QED
    BY <2>1, <2>2, <2>3
<1>6. raw' \in Balances /\ raw' = raw
  BY <1>2, Balanced
<1>7. PassedOn(q)
  BY <1>2, <1>4, <1>5, <1>6 DEF Moved, PassedOn, PositionsMove
<1>8. ASSUME NEW v \in Users \ {u}, NEW s \in Sides
      PROVE  money'[v] + raw'[q][s][v] + wrapped'[q][s][v] >= money[v] + raw[q][s][v] + wrapped[q][s][v]
  <2>1. /\ v \in Holders /\ money[v] \in Nat /\ raw[q][s][v] \in Nat
        /\ wrapped[q][s][v] \in Nat /\ a[s] \in Nat
    BY <1>3, Balanced, Distinct
  <2>2. wrapped'[q][s][v] = IF v = to THEN wrapped[q][s][v] + a[s] ELSE wrapped[q][s][v]
    BY <1>4, <2>1 DEF Moved
  <2>3. money'[v] = money[v] /\ raw'[q][s][v] = raw[q][s][v]
    BY <1>2
  <2> QED
    BY <2>1, <2>2, <2>3
<1> QED
  BY <1>7, <1>8 DEF Fair

-----------------------------------------------------------------------------
(* Every step keeps the invariant and is a step of the ledger *)

LedgerMove == [Ledger!LedgerNext]_(Ledger!ledgerVars)

Issued == [q \in Questions |-> [s \in Sides |-> Total(raw[q][s])]]

Kind(q) ==
  \/ \E n \in Amounts : Sold(q, n) \/ BoughtBack(q, n)
  \/ \E given \in [Sides -> 0..MaxClaims] : Paid(q, given)
  \/ PassedOn(q)

LEMMA IssuedChanges ==
  ASSUME NEW q \in Questions, NEW d, PositionsMove(q, d)
  PROVE  Issued' = [Issued EXCEPT ![q] = [s \in Sides |-> Total(raw[q][s]) + d[s]]]
<1>1. \A p \in Questions \ {q} : [s \in Sides |-> Total(raw'[p][s])] = [s \in Sides |-> Total(raw[p][s])]
  BY DEF PositionsMove
<1>2. [s \in Sides |-> Total(raw'[q][s])] = [s \in Sides |-> Total(raw[q][s]) + d[s]]
  BY DEF PositionsMove
<1>3. Issued' = [p \in Questions |-> [s \in Sides |-> Total(raw'[p][s])]]
  BY DEF Issued
<1> QED
  BY <1>1, <1>2, <1>3 DEF Issued

LEMMA SoldKeeps ==
  ASSUME IInv, NEW q \in Questions, NEW n \in Amounts, Sold(q, n)
  PROVE  IInv' /\ LedgerMove
<1>1. n \in Nat
  BY AmountsAreNat
<1>2. \A s \in Sides : Both(n)[s] \in Int /\ Both(n)[s] = n
  BY <1>1, BothTypes
<1>3. IInv'
  BY <1>1, <1>2, MoveKeeps DEF Sold
<1>4. n \in 0..MaxClaims
  <2>1. 1 \in Sides /\ MaxClaims \in Nat
    BY CompleteSetsAssumption DEF CompleteSetsAssumption, Sides
  <2>2. Total(raw[q][1]) \in Nat /\ Total(raw[q][1]) + n <= MaxClaims
    BY <2>1, Balanced DEF Sold
  <2> QED
    BY <1>1, <2>1, <2>2
<1>5. Ledger!IssuePairs(q, n)
  <2>1. collateral' = [collateral EXCEPT ![q] = @ + n] /\ UNCHANGED verdict
    BY DEF Sold, MoneyMove
  <2>2. Issued' = [Issued EXCEPT ![q] = [s \in 1..2 |-> @[s] + n]]
    <3>1. [s \in Sides |-> Total(raw[q][s]) + Both(n)[s]] = [s \in 1..2 |-> Issued[q][s] + n]
      BY <1>2 DEF Issued, Sides
    <3> QED
      BY <3>1, IssuedChanges DEF Sold
  <2> QED
    BY <2>1, <2>2 DEF Ledger!IssuePairs, Issued, Prepared
<1> QED
  BY <1>3, <1>4, <1>5 DEF LedgerMove, Ledger!LedgerNext

LEMMA BoughtBackKeeps ==
  ASSUME IInv, NEW q \in Questions, NEW n \in Amounts, BoughtBack(q, n)
  PROVE  IInv' /\ LedgerMove
<1>1. n \in Nat
  BY AmountsAreNat
<1>2. \A s \in Sides : Minus(Both(n))[s] \in Int /\ Minus(Both(n))[s] = 0 - n
  BY <1>1, BothTypes
<1>3. \A s \in Sides : Total(raw[q][s]) + Minus(Both(n))[s] <= MaxClaims
  <2> SUFFICES ASSUME NEW s \in Sides PROVE Total(raw[q][s]) + Minus(Both(n))[s] <= MaxClaims
    OBVIOUS
  <2>1. Total(raw[q][s]) \in Nat /\ Total(raw[q][s]) <= MaxClaims /\ MaxClaims \in Nat
    BY Balanced, CompleteSetsAssumption DEF CompleteSetsAssumption
  <2> QED
    BY <1>1, <1>2, <2>1
<1>4. IInv'
  <2>1. 0 - n \in Int
    BY <1>1
  <2> QED
    BY <1>2, <1>3, <2>1, MoveKeeps DEF BoughtBack
<1>5. n \in 0..MaxClaims
  <2>1. 1 \in Sides /\ MaxClaims \in Nat
    BY CompleteSetsAssumption DEF CompleteSetsAssumption, Sides
  <2>2. Total(raw[q][1]) \in Nat /\ Total(raw[q][1]) <= MaxClaims /\ n <= Total(raw[q][1])
    BY <2>1, Balanced DEF BoughtBack
  <2> QED
    BY <1>1, <2>1, <2>2
<1>6. Ledger!BuyBackPairs(q, n)
  <2>1. collateral' = [collateral EXCEPT ![q] = @ - n] /\ UNCHANGED verdict
    <3>1. collateral[q] + (0 - n) = collateral[q] - n
      BY <1>1 DEF IInv, TypeOK
    <3> QED
      BY <3>1 DEF BoughtBack, MoneyMove
  <2>2. Issued' = [Issued EXCEPT ![q] = [s \in 1..2 |-> @[s] - n]]
    <3>1. \A s \in Sides : Total(raw[q][s]) + Minus(Both(n))[s] = Total(raw[q][s]) - n
      BY <1>1, <1>2, Balanced
    <3>2. [s \in Sides |-> Total(raw[q][s]) + Minus(Both(n))[s]] = [s \in 1..2 |-> Issued[q][s] - n]
      BY <3>1 DEF Issued, Sides
    <3> QED
      BY <3>2, IssuedChanges DEF BoughtBack
  <2>3. \A s \in 1..2 : n <= Issued[q][s]
    BY DEF BoughtBack, Issued, Sides
  <2> QED
    BY <2>1, <2>2, <2>3 DEF Ledger!BuyBackPairs, Issued, Prepared
<1> QED
  BY <1>4, <1>5, <1>6 DEF LedgerMove, Ledger!LedgerNext

LEMMA PaidKeeps ==
  ASSUME IInv, NEW q \in Questions, NEW given \in [Sides -> 0..MaxClaims], Paid(q, given)
  PROVE  IInv' /\ LedgerMove
<1>1. /\ Answered(q) /\ \A s \in Sides : given[s] \in Nat /\ given[s] <= Total(raw[q][s])
  BY DEF Paid
<1>2. verdict[q] \in Sides /\ Given(q) = verdict[q] /\ given[verdict[q]] \in Nat
  BY <1>1, WinnersAreCovered
<1>3. \A s \in Sides : Minus(given)[s] \in Int /\ Minus(given)[s] = 0 - given[s]
  BY <1>1 DEF Minus
<1>4. \A s \in Sides : Total(raw[q][s]) + Minus(given)[s] <= MaxClaims
  <2> SUFFICES ASSUME NEW s \in Sides PROVE Total(raw[q][s]) + Minus(given)[s] <= MaxClaims
    OBVIOUS
  <2>1. Total(raw[q][s]) \in Nat /\ Total(raw[q][s]) <= MaxClaims /\ MaxClaims \in Nat
    BY Balanced, CompleteSetsAssumption DEF CompleteSetsAssumption
  <2> QED
    BY <1>1, <1>3, <2>1
<1>5. \A s \in Sides : Given(q) \in {0, s} => Minus(given)[s] = 0 - given[verdict[q]]
  BY <1>2, <1>3 DEF Sides
<1>6. IInv'
  <2>1. 0 - given[verdict[q]] \in Int
    BY <1>2
  <2> QED
    BY <1>3, <1>4, <1>5, <2>1, MoveKeeps DEF Paid
<1>7. Ledger!PayClaims(q, given)
  <2> DEFINE ans == [p \in Questions |-> IF Prepared(p) THEN verdict[p] ELSE 0]
  <2>1. ans[q] = verdict[q] /\ ans[q] # 0 /\ ans' = ans
    BY <1>1 DEF Answered, Prepared, Paid, MoneyMove
  <2>2. collateral' = [collateral EXCEPT ![q] = @ - given[verdict[q]]]
    <3>1. collateral[q] + (0 - given[verdict[q]]) = collateral[q] - given[verdict[q]]
      BY <1>2 DEF IInv, TypeOK
    <3> QED
      BY <3>1 DEF Paid, MoneyMove
  <2>3. Issued' = [Issued EXCEPT ![q] = [s \in 1..2 |-> @[s] - given[s]]]
    <3>1. \A s \in Sides : Total(raw[q][s]) + Minus(given)[s] = Total(raw[q][s]) - given[s]
      BY <1>1, <1>3, Balanced
    <3>2. [s \in Sides |-> Total(raw[q][s]) + Minus(given)[s]] = [s \in 1..2 |-> Issued[q][s] - given[s]]
      BY <3>1 DEF Issued, Sides
    <3> QED
      BY <3>2, IssuedChanges DEF Paid
  <2>4. \A s \in 1..2 : given[s] <= Issued[q][s]
    BY <1>1 DEF Issued, Sides
  <2> QED
    BY <2>1, <2>2, <2>3, <2>4 DEF Ledger!PayClaims, Issued
<1>8. given \in [1..2 -> 0..MaxClaims]
  BY DEF Sides
<1> QED
  BY <1>6, <1>7, <1>8 DEF LedgerMove, Ledger!LedgerNext

LEMMA PassedOnKeeps ==
  ASSUME IInv, NEW q \in Questions, PassedOn(q)
  PROVE  IInv' /\ LedgerMove
<1>1. \A s \in Sides : Both(0)[s] \in Int /\ Both(0)[s] = 0
  BY DEF Both
<1>2. \A s \in Sides : Total(raw[q][s]) \in Nat /\ Total(raw[q][s]) + Both(0)[s] <= MaxClaims
  BY <1>1, Balanced
<1>3. MoneyMove(q, 0)
  <2>1. money \in [Accounts -> Nat] /\ collateral \in [Questions -> Nat]
    BY DEF IInv, TypeOK
  <2>2. collateral[q] + 0 = collateral[q] /\ money[CTF] + 0 = money[CTF]
    BY <2>1, Distinct
  <2>3. collateral = [collateral EXCEPT ![q] = @ + 0]
    BY <2>1, <2>2
  <2> QED
    BY <2>1, <2>2, <2>3 DEF PassedOn, MoneyMove
<1>4. IInv'
  BY <1>1, <1>2, <1>3, MoveKeeps DEF PassedOn
<1>5. Issued' = Issued
  <2>1. [s \in Sides |-> Total(raw[q][s]) + Both(0)[s]] = Issued[q]
    BY <1>1, <1>2 DEF Issued
  <2>2. Issued' = [Issued EXCEPT ![q] = Issued[q]]
    BY <2>1, IssuedChanges DEF PassedOn
  <2> QED
    BY <2>2 DEF Issued
<1>6. UNCHANGED Ledger!ledgerVars
  BY <1>5 DEF PassedOn, Ledger!ledgerVars, Issued, Prepared
<1> QED
  BY <1>4, <1>6 DEF LedgerMove

LEMMA KindKeeps ==
  ASSUME IInv, NEW q \in Questions, Kind(q)
  PROVE  IInv' /\ LedgerMove
BY SoldKeeps, BoughtBackKeeps, PaidKeeps, PassedOnKeeps DEF Kind

LEMMA TradesAreKinds ==
  ASSUME IInv, NEW u \in Users, NEW q \in Questions, Routed(u, q) \/ Direct(u, q)
  PROVE  Kind(q) /\ \A v \in Users : Fair(q, v)
<1>1. CASE \E n \in Amounts : RouterSplit(u, q, n) \/ CtfSplit(u, q, n)
  BY <1>1, RouterSplitSells, CtfSplitSells DEF Kind
<1>2. CASE \E n \in Amounts : RouterMerge(u, q, n) \/ CtfMerge(u, q, n)
  BY <1>2, RouterMergeBuys, CtfMergeBuys DEF Kind
<1>3. CASE (\E k \in Redeemed : RouterRedeem(u, q, k)) \/ CtfRedeem(u, q)
  BY <1>3, RouterRedeemPays, CtfRedeemPays DEF Kind
<1>4. CASE \E s \in Sides, n \in Amounts : Wrap(u, q, s, n) \/ Unwrap(u, q, s, n)
  BY <1>4, WrapPassesOn, UnwrapPassesOn DEF Kind
<1> QED
  BY <1>1, <1>2, <1>3, <1>4 DEF Routed, Direct

LEMMA GiftsOfPositionsAreKinds ==
  ASSUME IInv, NEW u \in Users, NEW to \in Users \cup {Router}, to # u, NEW q \in Questions,
         NEW t \in Sides, NEW n \in Amounts, GiveRaw(u, to, q, t, n) \/ GiveWrapped(u, to, q, t, n)
  PROVE  Kind(q) /\ \A v \in Users \ {u} : Fair(q, v)
BY GiveRawPassesOn, GiveWrappedPassesOn DEF Kind

(* Steps that move no position and pay nothing in or out. *)
Elsewhere ==
  /\ UNCHANGED <<raw, wrapped, collateral>>
  /\ money' \in [Accounts -> Nat] /\ money'[CTF] >= money[CTF] /\ supply' \in 0..MaxSupply

LEMMA ElsewhereKeeps ==
  ASSUME IInv, Elsewhere, UNCHANGED <<verdict, payout>>
  PROVE  IInv' /\ LedgerMove
<1>1. TypeOK'
  BY DEF IInv, TypeOK, Elsewhere, Balances
<1>2. PaysVerdict' /\ ClaimsBounded' /\ QuestionsCovered' /\ WrappersBacked'
  BY DEF IInv, PaysVerdict, ClaimsBounded, QuestionsCovered, WrappersBacked, Elsewhere, Given, Prepared
<1>3. PotHolds'
  <2>1. collateral' = collateral /\ money[CTF] \in Nat /\ money'[CTF] \in Nat
    BY Distinct DEF IInv, TypeOK, Elsewhere
  <2>2. SumFunctionOnSet(collateral, Questions) \in Nat
    BY CollateralIsNat DEF IInv, TypeOK
  <2> QED
    BY <2>1, <2>2 DEF IInv, PotHolds, Elsewhere
<1>4. UNCHANGED Ledger!ledgerVars
  BY DEF Elsewhere, Ledger!ledgerVars, Prepared
<1> QED
  BY <1>1, <1>2, <1>3, <1>4 DEF IInv, LedgerMove

LEMMA MintIsElsewhere ==
  ASSUME IInv, NEW u \in Users, NEW n \in Amounts, Mint(u, n)
  PROVE  /\ Elsewhere /\ UNCHANGED <<verdict, payout>>
         /\ \A v \in Users : money'[v] >= money[v]
<1>1. /\ money \in [Accounts -> Nat] /\ n \in Nat /\ supply \in 0..MaxSupply /\ MaxSupply \in Nat
      /\ supply + n <= MaxSupply /\ supply' = supply + n
      /\ money' = [money EXCEPT ![u] = @ + n]
      /\ UNCHANGED <<verdict, payout, raw, wrapped, collateral>>
  BY AmountsAreNat, CompleteSetsAssumption DEF CompleteSetsAssumption, IInv, TypeOK, Mint
<1>2. money' \in [Accounts -> Nat] /\ money'[CTF] = money[CTF] /\ money[CTF] \in Nat
  BY <1>1, Distinct
<1>3. supply' \in 0..MaxSupply
  BY <1>1
<1>4. \A v \in Users : money'[v] >= money[v]
  BY <1>1, Distinct
<1> QED
  BY <1>1, <1>2, <1>3, <1>4 DEF Elsewhere

LEMMA GiveMoneyIsElsewhere ==
  ASSUME IInv, NEW u \in Users, NEW to \in Accounts, to # u, NEW n \in Amounts, GiveMoney(u, to, n)
  PROVE  /\ Elsewhere /\ UNCHANGED <<verdict, payout>>
         /\ \A v \in Users \ {u} : money'[v] >= money[v]
<1>1. /\ money \in [Accounts -> Nat] /\ n \in Nat /\ supply \in 0..MaxSupply
      /\ money[u] >= n
      /\ money' = [money EXCEPT ![u] = @ - n, ![to] = @ + n]
      /\ UNCHANGED <<verdict, payout, supply, raw, wrapped, collateral>>
  BY AmountsAreNat DEF IInv, TypeOK, GiveMoney
<1>2. money' \in [Accounts -> Nat]
  BY <1>1, Distinct
<1>3. \A v \in Accounts \ {u} : money'[v] >= money[v]
  BY <1>1, Distinct
<1>4. CTF \in Accounts \ {u} /\ \A v \in Users \ {u} : v \in Accounts \ {u}
  BY Distinct
<1> QED
  BY <1>1, <1>2, <1>3, <1>4 DEF Elsewhere

LEMMA OpenKeeps ==
  ASSUME IInv, NEW q \in Questions, Open(q)
  PROVE  IInv' /\ LedgerMove
<1>1. /\ q \notin DOMAIN verdict
      /\ DOMAIN verdict' = DOMAIN verdict \cup {q} /\ DOMAIN payout' = DOMAIN payout \cup {q}
      /\ verdict'[q] = 0
      /\ \A p \in DOMAIN verdict : verdict'[p] = verdict[p]
      /\ \A p \in DOMAIN payout : p # q => payout'[p] = payout[p]
      /\ UNCHANGED <<money, supply, raw, wrapped, collateral>>
  BY DEF Open, Oracle!Open, Oracle!Extend
<1>2. TypeOK' /\ PaysVerdict'
  BY <1>1 DEF IInv, TypeOK, PaysVerdict, Balances
<1>3. \A p \in Questions : Given(p)' = Given(p)
  BY <1>1 DEF Given, Prepared
<1>4. ClaimsBounded' /\ QuestionsCovered' /\ WrappersBacked' /\ PotHolds'
  BY <1>1, <1>3 DEF IInv, ClaimsBounded, QuestionsCovered, WrappersBacked, PotHolds
<1>5. UNCHANGED Ledger!ledgerVars
  <2>1. [p \in Questions |-> Given(p)]' = [p \in Questions |-> Given(p)]
    BY <1>3
  <2> QED
    BY <1>1, <2>1 DEF Ledger!ledgerVars, Given
<1> QED
  BY <1>2, <1>4, <1>5 DEF IInv, LedgerMove

LEMMA AnswerKeeps ==
  ASSUME IInv, NEW q \in DOMAIN verdict, NEW outcome \in Sides, Answer(q, outcome)
  PROVE  IInv' /\ LedgerMove
<1>1. /\ verdict[q] = 0
      /\ DOMAIN verdict' = DOMAIN verdict /\ DOMAIN payout' = DOMAIN payout
      /\ verdict'[q] = outcome
      /\ \A p \in DOMAIN verdict : p # q => verdict'[p] = verdict[p]
      /\ \A p \in DOMAIN payout : payout'[p] = IF p = q THEN Oracle!PayoutFor(outcome) ELSE payout[p]
      /\ UNCHANGED <<money, supply, raw, wrapped, collateral>>
  BY DEF Answer, Oracle!Answer
<1>2. q \in Questions /\ outcome \in 1..2
  BY DEF IInv, TypeOK, Sides
<1>3. TypeOK' /\ PaysVerdict'
  <2>1. \A p \in DOMAIN verdict' : verdict'[p] \in 0..2
    BY <1>1, <1>2 DEF IInv, TypeOK
  <2>2. TypeOK'
    BY <1>1, <2>1 DEF IInv, TypeOK, Balances
  <2>3. PaysVerdict'
    BY <1>1 DEF IInv, PaysVerdict
  <2> QED
    BY <2>2, <2>3
<1>4. /\ Given(q) = 0 /\ Given(q)' = outcome
      /\ \A p \in Questions : p # q => Given(p)' = Given(p)
  BY <1>1 DEF Given, Prepared
<1>5. ClaimsBounded' /\ WrappersBacked' /\ PotHolds'
  BY <1>1 DEF IInv, ClaimsBounded, WrappersBacked, PotHolds
<1>6. QuestionsCovered'
  <2> SUFFICES ASSUME NEW p \in Questions, NEW s \in Sides, Given(p)' \in {0, s}
               PROVE  collateral[p] = Total(raw[p][s])
    BY <1>1 DEF QuestionsCovered
  <2>1. Given(p) \in {0, s}
    BY <1>4
  <2> QED
    BY <2>1 DEF IInv, QuestionsCovered
<1>7. Ledger!Decide(q, outcome)
  <2> DEFINE ans == [p \in Questions |-> IF Prepared(p) THEN verdict[p] ELSE 0]
  <2>1. ans[q] = 0 /\ ans' = [ans EXCEPT ![q] = outcome]
    <3>1. ans = [p \in Questions |-> Given(p)] /\ ans' = [p \in Questions |-> Given(p)']
      BY DEF Given
    <3> QED
      BY <1>2, <1>4, <3>1
  <2> QED
    BY <1>1, <2>1 DEF Ledger!Decide
<1> QED
  BY <1>2, <1>3, <1>5, <1>6, <1>7 DEF IInv, LedgerMove, Ledger!LedgerNext

LEMMA StepKeeps == IInv /\ [Next]_vars => IInv' /\ LedgerMove
<1> SUFFICES ASSUME IInv, [Next]_vars PROVE IInv' /\ LedgerMove
  OBVIOUS
<1>1. CASE UNCHANGED vars
  <2>1. Elsewhere /\ UNCHANGED <<verdict, payout>>
    <3>1. money' = money /\ money \in [Accounts -> Nat] /\ money[CTF] \in Nat
      BY <1>1, Distinct DEF vars, IInv, TypeOK
    <3> QED
      BY <1>1, <3>1 DEF vars, IInv, TypeOK, Elsewhere
  <2> QED
    BY <2>1, ElsewhereKeeps
<1>2. CASE \E q \in Questions : Open(q)
  BY <1>2, OpenKeeps
<1>3. CASE \E q \in DOMAIN verdict, outcome \in Sides : Answer(q, outcome)
  BY <1>3, AnswerKeeps
<1>4. CASE \E u \in Users, n \in Amounts : Mint(u, n)
  BY <1>4, MintIsElsewhere, ElsewhereKeeps
<1>5. CASE \E u \in Users, q \in Questions : Routed(u, q) \/ Direct(u, q)
  BY <1>5, TradesAreKinds, KindKeeps
<1>6. ASSUME NEW u \in Users, Gift(u) PROVE IInv' /\ LedgerMove
  <2>1. CASE \E to \in Accounts \ {u}, n \in Amounts : GiveMoney(u, to, n)
    BY <2>1, GiveMoneyIsElsewhere, ElsewhereKeeps
  <2>2. CASE \E to \in Users \cup {Router}, q \in Questions, s \in Sides, n \in Amounts :
               to # u /\ (GiveRaw(u, to, q, s, n) \/ GiveWrapped(u, to, q, s, n))
    BY <2>2, GiftsOfPositionsAreKinds, KindKeeps
  <2> QED
    BY <1>6, <2>1, <2>2 DEF Gift
<1> QED
  BY <1>1, <1>2, <1>3, <1>4, <1>5, <1>6 DEF Next

-----------------------------------------------------------------------------
(* What nobody can lose *)

ClaimsOf(u, o) == [q \in Questions |-> raw[q][o[q]][u] + wrapped[q][o[q]][u]]

LEMMA ClaimsTypes ==
  ASSUME TypeOK, NEW u \in Users, NEW o \in [Questions -> Sides]
  PROVE  /\ \A q \in Questions : ClaimsOf(u, o)[q] \in Nat
         /\ money[u] \in Nat
         /\ Worth(u, o) = money[u] + SumFunctionOnSet(ClaimsOf(u, o), Questions)
         /\ SumFunctionOnSet(ClaimsOf(u, o), Questions) \in Nat
<1>1. ASSUME NEW q \in Questions PROVE ClaimsOf(u, o)[q] \in Nat
  <2>1. raw[q][o[q]][u] \in Nat /\ wrapped[q][o[q]][u] \in Nat
    BY Distinct, TotalsAreNat DEF TypeOK
  <2> QED
    BY <2>1 DEF ClaimsOf
<1>2. ClaimsOf(u, o) \in [Questions -> Nat]
  BY <1>1 DEF ClaimsOf
<1>3. SumFunction(ClaimsOf(u, o)) = SumFunctionOnSet(ClaimsOf(u, o), Questions)
  BY <1>2, SumOfFunction
<1>4. SumFunctionOnSet(ClaimsOf(u, o), Questions) \in Nat
  BY <1>1, QuestionsAreFinite, SumIsNat
<1>5. money[u] \in Nat
  BY Distinct DEF TypeOK
<1> QED
  BY <1>1, <1>3, <1>4, <1>5 DEF Worth, ClaimsOf

LEMMA WorthStays ==
  ASSUME IInv, IInv', NEW u \in Users, NEW o \in [Questions -> Sides],
         UNCHANGED <<raw, wrapped>>, money'[u] >= money[u]
  PROVE  ~ (Worth(u, o)' < Worth(u, o))
<1>1. Worth(u, o)' = money'[u] + (Worth(u, o) - money[u])
  <2>1. Worth(u, o)' = money'[u] + SumFunctionOnSet(ClaimsOf(u, o), Questions)
    BY SumOfFunction, ClaimsTypes DEF IInv, Worth, ClaimsOf
  <2>2. /\ Worth(u, o) = money[u] + SumFunctionOnSet(ClaimsOf(u, o), Questions)
        /\ money[u] \in Nat /\ SumFunctionOnSet(ClaimsOf(u, o), Questions) \in Nat
    BY ClaimsTypes DEF IInv
  <2>3. money'[u] \in Nat
    BY Distinct DEF IInv, TypeOK
  <2> QED
    BY <2>1, <2>2, <2>3
<1> QED
  BY <1>1, ClaimsTypes, Distinct DEF IInv, TypeOK

LEMMA WorthRises ==
  ASSUME IInv, IInv', NEW u \in Users, NEW o \in [Questions -> Sides], NEW q \in Questions,
         \A p \in Questions \ {q} : raw'[p] = raw[p] /\ wrapped'[p] = wrapped[p],
         Given(q) \in {0, o[q]}, Fair(q, u)
  PROVE  ~ (Worth(u, o)' < Worth(u, o))
<1> DEFINE f == ClaimsOf(u, o)
           g == [p \in Questions |-> raw'[p][o[p]][u] + wrapped'[p][o[p]][u]]
<1>1. \A p \in Questions : f[p] \in Nat /\ g[p] \in Nat
  <2> SUFFICES ASSUME NEW p \in Questions PROVE f[p] \in Nat /\ g[p] \in Nat
    OBVIOUS
  <2>1. o[p] \in Sides /\ u \in Holders
    BY Distinct
  <2>2. raw' \in Balances /\ wrapped' \in Balances
    BY DEF IInv, TypeOK
  <2>3. raw'[p][o[p]][u] \in Nat /\ wrapped'[p][o[p]][u] \in Nat
    BY <2>1, <2>2, TotalsAreNat
  <2> QED
    BY <2>3, ClaimsTypes DEF IInv
<1>2. \A p \in Questions \ {q} : g[p] = f[p]
  BY DEF ClaimsOf
<1>3. money'[u] + g[q] >= money[u] + f[q]
  <2>1. money'[u] + raw'[q][o[q]][u] + wrapped'[q][o[q]][u] >= money[u] + raw[q][o[q]][u] + wrapped[q][o[q]][u]
    BY DEF Fair
  <2>2. raw' \in Balances /\ wrapped' \in Balances /\ raw \in Balances /\ wrapped \in Balances
    BY DEF IInv, TypeOK
  <2>3. /\ raw'[q][o[q]][u] \in Nat /\ wrapped'[q][o[q]][u] \in Nat
        /\ raw[q][o[q]][u] \in Nat /\ wrapped[q][o[q]][u] \in Nat
    BY <2>2, Distinct, TotalsAreNat
  <2>4. money'[u] \in Nat /\ money[u] \in Nat
    BY Distinct DEF IInv, TypeOK
  <2> QED
    BY <2>1, <2>3, <2>4 DEF ClaimsOf
<1>4. Worth(u, o)' = money'[u] + SumFunctionOnSet(g, Questions)
  <2>1. g \in [Questions -> Nat]
    BY <1>1
  <2>2. Worth(u, o)' = money'[u] + SumFunction(g)
    BY DEF Worth
  <2> HIDE DEF g
  <2> QED
    BY <2>1, <2>2, SumOfFunction
<1>5. Worth(u, o) = money[u] + SumFunctionOnSet(f, Questions)
  BY ClaimsTypes DEF IInv
<1>6. money'[u] \in Nat /\ money[u] \in Nat
  BY Distinct DEF IInv, TypeOK
<1> HIDE DEF f, g
<1>7. SumFunctionOnSet(g, Questions) = SumFunctionOnSet(f, Questions) + g[q] - f[q]
  <2>1. \A p \in Questions : f[p] \in Int /\ g[p] \in Int
    BY <1>1
  <2> QED
    BY <1>2, <2>1, QuestionsAreFinite, SumChange
<1>8. SumFunctionOnSet(f, Questions) \in Nat
  BY <1>1, QuestionsAreFinite, SumIsNat
<1> QED
  BY <1>1, <1>3, <1>4, <1>5, <1>6, <1>7, <1>8

(* The answers still possible after a step were possible before it. *)
LEMMA OutcomesShrink ==
  ASSUME IInv, [Next]_vars, NEW o \in Outcomes'
  PROVE  /\ o \in [Questions -> Sides]
         /\ \A q \in Questions : Given(q) \in {0, o[q]}
<1>1. \A q \in DOMAIN verdict : verdict[q] # 0 => q \in DOMAIN verdict' /\ verdict'[q] = verdict[q]
  <2>1. CASE UNCHANGED verdict
    BY <2>1
  <2>2. CASE \E q \in Questions : Open(q)
    BY <2>2 DEF Open, Oracle!Open, Oracle!Extend
  <2>3. CASE \E q \in DOMAIN verdict, outcome \in Sides : Answer(q, outcome)
    BY <2>3 DEF Answer, Oracle!Answer
  <2>4. ASSUME NEW u \in Users, NEW q \in Questions, Routed(u, q) \/ Direct(u, q)
        PROVE  UNCHANGED verdict
    BY <2>4 DEF Routed, Direct, RouterSplit, RouterMerge, RouterRedeem, CtfSplit, CtfMerge, CtfRedeem,
                Wrap, Unwrap, PayIn, PayOut
  <2>5. ASSUME NEW u \in Users, Gift(u) \/ \E n \in Amounts : Mint(u, n)
        PROVE  UNCHANGED verdict
    BY <2>5 DEF Gift, GiveMoney, GiveRaw, GiveWrapped, Mint
  <2> QED
    BY <2>1, <2>2, <2>3, <2>4, <2>5 DEF Next, vars
<1>2. o \in [Questions -> Sides] /\ \A q \in DOMAIN verdict' : verdict'[q] # 0 => o[q] = verdict'[q]
  BY DEF Outcomes
<1> QED
  BY <1>1, <1>2 DEF Given, Prepared

LEMMA KindStays ==
  ASSUME NEW q \in Questions, Kind(q)
  PROVE  \A p \in Questions \ {q} : raw'[p] = raw[p] /\ wrapped'[p] = wrapped[p]
BY DEF Kind, Sold, BoughtBack, Paid, PassedOn, PositionsMove

LEMMA OnlyOwnGiftsCost ==
  ASSUME IInv, IInv', [Next]_vars, NEW u \in Users, ~Gift(u), NEW o \in Outcomes'
  PROVE  ~ (Worth(u, o)' < Worth(u, o))
<1>1. o \in [Questions -> Sides] /\ \A q \in Questions : Given(q) \in {0, o[q]}
  BY OutcomesShrink
<1>2. money \in [Accounts -> Nat] /\ money[u] \in Nat
  BY Distinct DEF IInv, TypeOK
<1>3. CASE UNCHANGED <<raw, wrapped>> /\ money'[u] >= money[u]
  BY <1>1, <1>3, WorthStays
<1>4. ASSUME NEW q \in Questions, Kind(q), Fair(q, u)
      PROVE  ~ (Worth(u, o)' < Worth(u, o))
  BY <1>1, <1>4, KindStays, WorthRises
<1>5. CASE UNCHANGED vars \/ (\E q \in Questions : Open(q))
             \/ \E q \in DOMAIN verdict, outcome \in Sides : Answer(q, outcome)
  <2>1. UNCHANGED <<money, raw, wrapped>>
    BY <1>5 DEF vars, Open, Answer
  <2> QED
    BY <1>2, <1>3, <2>1
<1>6. CASE \E w \in Users, n \in Amounts : Mint(w, n)
  BY <1>3, <1>6, MintIsElsewhere DEF Elsewhere
<1>7. CASE \E w \in Users, q \in Questions : Routed(w, q) \/ Direct(w, q)
  BY <1>4, <1>7, TradesAreKinds
<1>8. ASSUME NEW w \in Users, Gift(w) PROVE ~ (Worth(u, o)' < Worth(u, o))
  <2>1. u # w
    BY <1>8
  <2>2. CASE \E to \in Accounts \ {w}, n \in Amounts : GiveMoney(w, to, n)
    BY <1>3, <2>1, <2>2, GiveMoneyIsElsewhere DEF Elsewhere
  <2>3. CASE \E to \in Users \cup {Router}, q \in Questions, s \in Sides, n \in Amounts :
               to # w /\ (GiveRaw(w, to, q, s, n) \/ GiveWrapped(w, to, q, s, n))
    BY <1>4, <2>1, <2>3, GiftsOfPositionsAreKinds
  <2> QED
    BY <1>8, <2>2, <2>3 DEF Gift
<1> QED
  BY <1>5, <1>6, <1>7, <1>8 DEF Next

-----------------------------------------------------------------------------
(* The theorems about the complete sets *)

THEOREM SetsInvariance == Spec => []IInv
BY StartHolds, StepKeeps, PTL DEF Spec

(* Balances never underflow (Protocol.sol, PositionRouter).                *)
THEOREM SetsTypes == Spec => []TypeOK
<1>1. IInv => TypeOK
  BY DEF IInv
<1> QED
  BY <1>1, SetsInvariance, PTL

(* Seen as totals per question, the router, the CTF and its users move     *)
(* collateral only with pairs of claims or, after the answer, with winning *)
(* claims (Protocol.sol, split, merge and redeem).                         *)
THEOREM SetsImplementLedger == Spec => ImplementsLedger
<1>1. Init => Ledger!LedgerInit
  <2> SUFFICES ASSUME Init PROVE Ledger!LedgerInit
    OBVIOUS
  <2>1. /\ \A q \in Questions, s \in Sides : raw[q][s] = [h \in Holders |-> 0]
        /\ collateral = [q \in Questions |-> 0]
    BY DEF Init
  <2>2. [q \in Questions |-> [s \in Sides |-> Total(raw[q][s])]] = [q \in Questions |-> [s \in 1..2 |-> 0]]
    <3>1. \A q \in Questions, s \in Sides : Total(raw[q][s]) = 0
      BY <2>1, EmptyTotals
    <3> QED
      BY <3>1 DEF Sides
  <2>3. DOMAIN verdict = {}
    BY DEF Init, Oracle!OracleInit
  <2>4. [q \in Questions |-> IF Prepared(q) THEN verdict[q] ELSE 0] = [q \in Questions |-> 0]
    BY <2>3 DEF Prepared
  <2> QED
    BY <2>1, <2>2, <2>4 DEF Ledger!LedgerInit
<1>2. IInv /\ [Next]_vars => LedgerMove
  BY StepKeeps
<1> QED
  BY <1>1, <1>2, SetsInvariance, PTL DEF Spec, ImplementsLedger, Ledger!LedgerSpec, LedgerMove

(* Nobody is made poorer, under any answer still possible, by anything but *)
(* a transfer of their own (Protocol.sol, split, merge, redeem and _take). *)
THEOREM NobodyLoses == Spec => NothingLost
<1>1. IInv /\ IInv' /\ [Next]_vars =>
        [\A u \in Users : (\E o \in Outcomes' : Worth(u, o)' < Worth(u, o)) => Gift(u)]_vars
  <2> SUFFICES ASSUME IInv, IInv', [Next]_vars, NEW u \in Users, NEW o \in Outcomes',
                      Worth(u, o)' < Worth(u, o), ~Gift(u)
               PROVE  FALSE
    OBVIOUS
  <2>1. ~ (Worth(u, o)' < Worth(u, o))
    BY OnlyOwnGiftsCost
  <2> QED
    BY <2>1
<1> QED
  BY <1>1, SetsInvariance, PTL DEF Spec, NothingLost

LEMMA PotIsEnough == IInv => Solvent
<1> SUFFICES ASSUME IInv PROVE Solvent
  OBVIOUS
<1>1. ASSUME NEW o \in Outcomes
      PROVE  money[CTF] >= SumFunction([q \in Questions |-> Total(raw[q][o[q]])])
  <2> DEFINE f == [q \in Questions |-> Total(raw[q][o[q]])]
  <2>1. o \in [Questions -> Sides] /\ \A q \in Questions : Given(q) \in {0, o[q]}
    BY <1>1 DEF Outcomes, Given, Prepared
  <2>2. \A q \in Questions : collateral[q] = f[q] /\ f[q] \in Nat
    BY <2>1, Balanced
  <2>3. f \in [Questions -> Nat]
    BY <2>2
  <2> HIDE DEF f
  <2>4. SumFunction(f) = SumFunctionOnSet(f, Questions)
    BY <2>3, SumOfFunction
  <2>5. SumFunctionOnSet(collateral, Questions) = SumFunctionOnSet(f, Questions)
    BY <2>2, QuestionsAreFinite, SumAgrees
  <2>6. money[CTF] >= SumFunction(f)
    BY <2>4, <2>5 DEF IInv, PotHolds
  <2> QED
    BY <2>6 DEF f
<1>2. \A q \in Questions, s \in Sides : Total(wrapped[q][s]) = raw[q][s][Wrapper]
  BY Balanced
<1> QED
  BY <1>1, <1>2 DEF Solvent

LEMMA WinnersAreServed == IInv => WinnersCanRedeem
<1> SUFFICES ASSUME IInv, NEW q \in DOMAIN verdict, NEW u \in Users, NEW k,
                    k = [s \in Sides |-> wrapped[q][s][u]], Answered(q), k[verdict[q]] > 0
             PROVE  Redeemable(u, q, k)
  BY DEF WinnersCanRedeem
<1>1. q \in Questions /\ u \in Holders /\ Router \in Holders /\ Wrapper \in Holders /\ Router # Wrapper
  BY Distinct DEF IInv, TypeOK
<1>2. ASSUME NEW s \in Sides
      PROVE  /\ k[s] = wrapped[q][s][u] /\ k[s] \in Nat /\ k[s] <= raw[q][s][Wrapper]
             /\ Burned(q, k)[s] \in Nat /\ Burned(q, k)[s] <= Total(raw[q][s])
  <2>1. wrapped[q][s] \in Positions /\ raw[q][s] \in Positions
    BY <1>1, Balanced DEF Balances, Positions
  <2>2. wrapped[q][s][u] <= Total(wrapped[q][s])
    BY <1>1, <2>1, TotalCovers
  <2>3. raw[q][s][Router] + raw[q][s][Wrapper] <= Total(raw[q][s])
    BY <1>1, <2>1, TotalCovers
  <2>4. /\ Total(wrapped[q][s]) = raw[q][s][Wrapper] /\ raw[q][s][Wrapper] \in Nat
        /\ raw[q][s][Router] \in Nat /\ wrapped[q][s][u] \in Nat /\ Total(raw[q][s]) \in Nat
    BY <1>1, Balanced
  <2>5. k[s] = wrapped[q][s][u] /\ Burned(q, k)[s] = raw[q][s][Router] + k[s]
    BY DEF Burned, Held
  <2>6. k[s] \in Nat /\ k[s] <= raw[q][s][Wrapper]
    BY <2>2, <2>4, <2>5
  <2> QED
    BY <2>3, <2>4, <2>5, <2>6
<1>3. Takeable(u, q, k)
  <2>1. \A s \in Sides : wrapped[q][s][u] >= k[s] /\ raw[q][s][Wrapper] >= k[s]
    <3> SUFFICES ASSUME NEW s \in Sides PROVE wrapped[q][s][u] >= k[s] /\ raw[q][s][Wrapper] >= k[s]
      OBVIOUS
    <3>1. raw[q][s][Wrapper] \in Nat
      BY <1>1, Balanced
    <3> QED
      BY <1>2, <3>1
  <2> QED
    BY <2>1 DEF Takeable, Holds
<1>4. /\ verdict[q] \in Sides
      /\ Redemption(q, Burned(q, k)) \in Nat /\ Redemption(q, Burned(q, k)) <= collateral[q]
  BY <1>1, <1>2, WinnersAreCovered
<1>5. money[CTF] >= Redemption(q, Burned(q, k))
  <2>1. collateral \in [Questions -> Nat] /\ money[CTF] \in Nat
    BY Distinct DEF IInv, TypeOK
  <2>2. collateral[q] <= SumFunctionOnSet(collateral, Questions) /\ SumFunctionOnSet(collateral, Questions) \in Nat
    BY <1>1, <2>1, CollateralIsNat
  <2>3. collateral[q] \in Nat
    BY <1>1, <2>1
  <2> QED
    BY <1>4, <2>1, <2>2, <2>3 DEF IInv, PotHolds
<1> QED
  BY <1>3, <1>4, <1>5 DEF Redeemable

(* Whichever way the open questions go, the one balance of the CTF covers  *)
(* all winning positions of all questions and holders, and the winning     *)
(* positions of every holder can be redeemed, in any order (Protocol.sol,  *)
(* redeem and _take).                                                      *)
THEOREM ThePotSuffices == Spec => []PotSuffices
BY PotIsEnough, WinnersAreServed, SetsInvariance, PTL DEF PotSuffices

(* So the collateral of every question is exactly what its holders can     *)
(* still draw, before and after its answer.                                *)
THEOREM EveryQuestionIsCovered == Spec => []Ledger!Covered
<1>1. IInv => Ledger!Covered
  <2> SUFFICES ASSUME IInv, NEW q \in Questions, NEW s \in 1..2, Given(q) \in {0, s}
               PROVE  collateral[q] = Total(raw[q][s])
    BY DEF Ledger!Covered, Given, Sides
  <2> QED
    BY DEF IInv, QuestionsCovered, Sides
<1> QED
  BY <1>1, SetsInvariance, PTL
=============================================================================
