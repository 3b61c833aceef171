------------------------------ MODULE CompleteSets ------------------------------
(***************************************************************************)
(* contracts/Protocol.sol, contract PositionRouter, with the collateral    *)
(* token, the conditional-tokens framework (CTF) and the factory of        *)
(* wrapped positions it composes.                                          *)
(*                                                                         *)
(* The CTF keeps the collateral of all questions in one balance and is     *)
(* open to everyone, so users may also act on it directly, and anyone may  *)
(* send any of the tokens anywhere.  The router's entry points are         *)
(* nonReentrant and made of calls to these contracts only, so each is one  *)
(* step; a revert is a step that is not enabled.                           *)
(***************************************************************************)
EXTENDS Integers, FiniteSets, FiniteSetsExt

CONSTANTS
  Questions, Users,
  Router,     \* the PositionRouter
  Wrapper,    \* the Wrapped1155 factory, holder of the wrapped positions
  CTF,        \* the ConditionalTokens contract, holder of the collateral
  Amounts,    \* bound: the nonzero amounts callers name
  MaxSupply,  \* bound: collateral tokens ever minted
  MaxClaims   \* bound: outstanding claims of one side of a question (the losing
              \* ones of an answered question need never be redeemed)

ASSUME CompleteSetsAssumption ==
  /\ Amounts \subseteq Nat \ {0}
  /\ MaxSupply \in Nat /\ MaxClaims \in Nat
  /\ IsFiniteSet(Questions) /\ IsFiniteSet(Users)
  /\ Users \cap {Router, Wrapper, CTF} = {}
  /\ Router # Wrapper /\ Router # CTF /\ Wrapper # CTF

VARIABLES
  verdict, payout,  \* the registry's answer and the CTF's payouts (OutcomeOracle)
  money,            \* collateral token balances
  supply,           \* collateral token totalSupply
  raw,              \* question |-> side |-> ERC-1155 balances at the CTF
  wrapped,          \* question |-> side |-> ERC-20 balances of the wrapped position
  collateral        \* history: what each question's splits paid in and have left

vars == <<verdict, payout, money, supply, raw, wrapped, collateral>>

Oracle == INSTANCE OutcomeOracle

Sides == 1..2
Holders == Users \cup {Router, Wrapper}
Accounts == Users \cup {Router, CTF}

Both(n) == [s \in Sides |-> n]
Credit(balances, who, amount) ==
  [s \in Sides |-> [balances[s] EXCEPT ![who] = @ + amount[s]]]
Debit(balances, who, amount) ==
  [s \in Sides |-> [balances[s] EXCEPT ![who] = @ - amount[s]]]
Holds(balances, who, amount) == \A s \in Sides : balances[s][who] >= amount[s]

(* The raw positions of h. *)
Held(q, h) == [s \in Sides |-> raw[q][s][h]]

Total(balances) == SumFunction(balances)

Room(q, n) == \A s \in Sides : Total(raw[q][s]) + n <= MaxClaims

Prepared(q) == q \in DOMAIN verdict
Answered(q) == Prepared(q) /\ verdict[q] # 0

-----------------------------------------------------------------------------
(* The registry and the token *)

Open(q) ==
  /\ Oracle!Open(q)
  /\ UNCHANGED <<money, supply, raw, wrapped, collateral>>

(* Mutant: the slots of the reported payout vector are exchanged. *)
Answer_Swapped(q, outcome) ==
  /\ Prepared(q) /\ verdict[q] = 0
  /\ verdict' = [verdict EXCEPT ![q] = outcome]
  /\ payout' = [payout EXCEPT ![q] = Oracle!PayoutFor(3 - outcome)]
  /\ UNCHANGED <<money, supply, raw, wrapped, collateral>>

Answer(q, outcome) ==
  /\ Oracle!Answer(q, outcome)
  /\ UNCHANGED <<money, supply, raw, wrapped, collateral>>

(* The constructor's genesis allocation; V2 also mints by a governance vote. *)
Mint(u, n) ==
  /\ supply + n <= MaxSupply
  /\ supply' = supply + n
  /\ money' = [money EXCEPT ![u] = @ + n]
  /\ UNCHANGED <<verdict, payout, raw, wrapped, collateral>>

-----------------------------------------------------------------------------
(* Collateral going to and coming from the CTF on behalf of u *)

PayIn(u, q, n) ==
  /\ money[u] >= n
  /\ money' = [money EXCEPT ![u] = @ - n, ![CTF] = @ + n]
  /\ collateral' = [collateral EXCEPT ![q] = @ + n]
  /\ UNCHANGED <<verdict, payout, supply>>

PayOut(u, q, n) ==
  /\ money[CTF] >= n
  /\ money' = [money EXCEPT ![CTF] = @ - n, ![u] = @ + n]
  /\ collateral' = [collateral EXCEPT ![q] = @ - n]
  /\ UNCHANGED <<verdict, payout, supply>>

(* ConditionalTokens.redeemPositions: the reported numerators over their   *)
(* sum, which is 1 for a reported question.                                *)
Redemption(q, burned) == payout[q][1] * burned[1] + payout[q][2] * burned[2]

-----------------------------------------------------------------------------
(* PositionRouter *)

(* Complete sets may be bought at any time, also of an answered question.  *)
RouterSplit(u, q, n) ==
  /\ Prepared(q)
  /\ Room(q, n)
  /\ PayIn(u, q, n)
  /\ raw' = [raw EXCEPT ![q] = Credit(@, Wrapper, Both(n))]
  /\ wrapped' = [wrapped EXCEPT ![q] = Credit(@, u, Both(n))]

Takeable(u, q, k) == Holds(wrapped[q], u, k) /\ Holds(raw[q], Wrapper, k)

(* Take(u, q, k): _take for both sides, wrapped positions of u become raw  *)
(* positions of the router, which the caller then burns at the CTF.        *)
(* Mutant: only the YES side is taken from the caller. *)
Take_OnlyYes(u, q, k) ==
  /\ Takeable(u, q, k)
  /\ wrapped' = [wrapped EXCEPT ![q] = Debit(@, u, [k EXCEPT ![2] = 0])]

(* Mutant: the NO side is taken from the caller twice. *)
Take_NoTwice(u, q, k) ==
  /\ Holds(wrapped[q], u, [k EXCEPT ![2] = 2 * @])
  /\ Holds(raw[q], Wrapper, k)
  /\ wrapped' = [wrapped EXCEPT ![q] = Debit(@, u, [k EXCEPT ![2] = 2 * @])]

Take(u, q, k) ==
  /\ Takeable(u, q, k)
  /\ wrapped' = [wrapped EXCEPT ![q] = Debit(@, u, k)]

RouterMerge(u, q, n) ==
  /\ Take(u, q, Both(n))
  /\ raw' = [raw EXCEPT ![q] = Debit(@, Wrapper, Both(n))]
  /\ PayOut(u, q, n)

(* redeemPositions burns every position of the question that the router    *)
(* holds, those somebody sent to it included, and the caller is paid the   *)
(* whole increase of the router's balance.                                 *)
Burned(q, k) == [s \in Sides |-> Held(q, Router)[s] + k[s]]

Redeemable(u, q, k) ==
  /\ \E s \in Sides : k[s] > 0
  /\ Answered(q)
  /\ Takeable(u, q, k)
  /\ money[CTF] >= Redemption(q, Burned(q, k))

RouterRedeem(u, q, k) ==
  /\ Redeemable(u, q, k)
  /\ Take(u, q, k)
  /\ raw' = [raw EXCEPT ![q] = Debit(Debit(@, Wrapper, k), Router, Held(q, Router))]
  /\ PayOut(u, q, Redemption(q, Burned(q, k)))

-----------------------------------------------------------------------------
(* Users acting on the CTF, the wrapper factory and the tokens themselves *)

CtfSplit(u, q, n) ==
  /\ Prepared(q)
  /\ Room(q, n)
  /\ PayIn(u, q, n)
  /\ raw' = [raw EXCEPT ![q] = Credit(@, u, Both(n))]
  /\ UNCHANGED wrapped

CtfMerge(u, q, n) ==
  /\ Holds(raw[q], u, Both(n))
  /\ raw' = [raw EXCEPT ![q] = Debit(@, u, Both(n))]
  /\ PayOut(u, q, n)
  /\ UNCHANGED wrapped

CtfRedeem(u, q) ==
  LET burned == Held(q, u)
  IN /\ Answered(q)
     /\ \E s \in Sides : burned[s] > 0
     /\ raw' = [raw EXCEPT ![q] = Debit(@, u, burned)]
     /\ PayOut(u, q, Redemption(q, burned))
     /\ UNCHANGED wrapped

One(s, n) == [t \in Sides |-> IF t = s THEN n ELSE 0]

Wrap(u, q, s, n) ==
  /\ Holds(raw[q], u, One(s, n))
  /\ raw' = [raw EXCEPT ![q] = Credit(Debit(@, u, One(s, n)), Wrapper, One(s, n))]
  /\ wrapped' = [wrapped EXCEPT ![q] = Credit(@, u, One(s, n))]
  /\ UNCHANGED <<verdict, payout, money, supply, collateral>>

Unwrap(u, q, s, n) ==
  /\ Holds(wrapped[q], u, One(s, n))
  /\ Holds(raw[q], Wrapper, One(s, n))
  /\ wrapped' = [wrapped EXCEPT ![q] = Debit(@, u, One(s, n))]
  /\ raw' = [raw EXCEPT ![q] = Credit(Debit(@, Wrapper, One(s, n)), u, One(s, n))]
  /\ UNCHANGED <<verdict, payout, money, supply, collateral>>

GiveMoney(u, to, n) ==
  /\ money[u] >= n
  /\ money' = [money EXCEPT ![u] = @ - n, ![to] = @ + n]
  /\ UNCHANGED <<verdict, payout, supply, raw, wrapped, collateral>>

GiveRaw(u, to, q, s, n) ==
  /\ Holds(raw[q], u, One(s, n))
  /\ raw' = [raw EXCEPT ![q] = Credit(Debit(@, u, One(s, n)), to, One(s, n))]
  /\ UNCHANGED <<verdict, payout, money, supply, wrapped, collateral>>

GiveWrapped(u, to, q, s, n) ==
  /\ Holds(wrapped[q], u, One(s, n))
  /\ wrapped' = [wrapped EXCEPT ![q] = Credit(Debit(@, u, One(s, n)), to, One(s, n))]
  /\ UNCHANGED <<verdict, payout, money, supply, raw, collateral>>

-----------------------------------------------------------------------------
Init ==
  /\ Oracle!OracleInit
  /\ money = [a \in Accounts |-> 0]
  /\ supply = 0
  /\ raw = [q \in Questions |-> [s \in Sides |-> [h \in Holders |-> 0]]]
  /\ wrapped = [q \in Questions |-> [s \in Sides |-> [h \in Holders |-> 0]]]
  /\ collateral = [q \in Questions |-> 0]

Redeemed == [Sides -> Amounts \cup {0}]

Routed(u, q) ==
  \/ \E n \in Amounts : RouterSplit(u, q, n)
  \/ \E n \in Amounts : RouterMerge(u, q, n)
  \/ \E k \in Redeemed : RouterRedeem(u, q, k)

Direct(u, q) ==
  \/ \E n \in Amounts : CtfSplit(u, q, n)
  \/ \E n \in Amounts : CtfMerge(u, q, n)
  \/ CtfRedeem(u, q)
  \/ \E s \in Sides, n \in Amounts : Wrap(u, q, s, n)
  \/ \E s \in Sides, n \in Amounts : Unwrap(u, q, s, n)

(* Sending to an account where nothing but a redemption can use it is      *)
(* allowed, and so is sending collateral to the CTF.                       *)
Gift(u) ==
  \/ \E to \in Accounts \ {u}, n \in Amounts : GiveMoney(u, to, n)
  \/ \E to \in Users \cup {Router}, q \in Questions, s \in Sides, n \in Amounts :
       to # u /\ (GiveRaw(u, to, q, s, n) \/ GiveWrapped(u, to, q, s, n))

Next ==
  \/ \E q \in Questions : Open(q)
  \/ \E q \in DOMAIN verdict, outcome \in Sides : Answer(q, outcome)
  \/ \E u \in Users, n \in Amounts : Mint(u, n)
  \/ \E u \in Users, q \in Questions : Routed(u, q) \/ Direct(u, q)
  \/ \E u \in Users : Gift(u)

Spec == Init /\ [][Next]_vars

-----------------------------------------------------------------------------
(* Properties *)

Balances == [Questions -> [Sides -> [Holders -> Nat]]]

(* Balances never underflow, whatever is redeemed in whatever order.       *)
TypeOK ==
  /\ money \in [Accounts -> Nat]
  /\ supply \in 0..MaxSupply
  /\ raw \in Balances
  /\ wrapped \in Balances
  /\ collateral \in [Questions -> Nat]
  /\ DOMAIN verdict \subseteq Questions
  /\ \A q \in DOMAIN verdict : verdict[q] \in 0..2

(* The answers still possible: those given stand. *)
Outcomes ==
  {o \in [Questions -> Sides] : \A q \in DOMAIN verdict : verdict[q] # 0 => o[q] = verdict[q]}

(* What an account ends up with if the answers are o and it redeems all.   *)
Worth(u, o) ==
  money[u] + SumFunction([q \in Questions |-> raw[q][o[q]][u] + wrapped[q][o[q]][u]])

(* Solvency of the shared pot: whichever way the open questions go, the    *)
(* CTF holds what all winning positions can draw, over all questions and   *)
(* holders, and every wrapped position has its raw position at the         *)
(* factory.  One user's redemption never spends another's collateral.      *)
Solvent ==
  /\ \A o \in Outcomes :
       money[CTF] >= SumFunction([q \in Questions |-> Total(raw[q][o[q]])])
  /\ \A q \in Questions, s \in Sides : Total(wrapped[q][s]) = raw[q][s][Wrapper]

(* Nobody is made poorer, under any answer still possible, by anything but *)
(* a transfer of their own: not by a split, a merge or a redemption of     *)
(* theirs, and not by anything others do, the answer itself included.      *)
NothingLost ==
  [][\A u \in Users :
       (\E o \in Outcomes' : Worth(u, o)' < Worth(u, o)) => Gift(u)]_vars

(* The winning positions of every holder can be redeemed, at any time      *)
(* after the answer and in any order: no earlier redemption, stray         *)
(* transfer or late split makes the router's call revert.                  *)
WinnersCanRedeem ==
  \A q \in DOMAIN verdict, u \in Users :
    LET k == [s \in Sides |-> wrapped[q][s][u]]
    IN Answered(q) /\ k[verdict[q]] > 0 => Redeemable(u, q, k)

(* The pot suffices as a whole and for whoever redeems next.               *)
PotSuffices == Solvent /\ WinnersCanRedeem

Ledger == INSTANCE CollateralLedger WITH
  Markets <- Questions,
  Moves <- 0..MaxClaims,
  answer <- [q \in Questions |-> IF Prepared(q) THEN verdict[q] ELSE 0],
  locked <- collateral,
  issued <- [q \in Questions |-> [s \in Sides |-> Total(raw[q][s])]]

(* Seen as totals per question, the router, the CTF and its users          *)
(* implement the ledger: collateral moves only with pairs of claims, or    *)
(* with winning claims after the answer.                                   *)
ImplementsLedger == Ledger!LedgerSpec
=============================================================================
