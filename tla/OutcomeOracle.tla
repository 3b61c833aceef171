---------------------------- MODULE OutcomeOracle ----------------------------
(***************************************************************************)
(* What the rest of the protocol relies on when it asks the registry for   *)
(* an outcome: a question is opened once, answered at most once with one   *)
(* of two sides, and the payout vector the conditional-tokens framework    *)
(* holds for it always says the same thing as the recorded outcome.        *)
(*                                                                         *)
(* Complete sets, pools and hooks are specified against this module;       *)
(* StatementRegistry is shown to implement it.                             *)
(***************************************************************************)

EXTENDS Naturals

VARIABLES
  verdict,  \* question |-> 0 (open), 1 (YES) or 2 (NO)
  payout    \* question |-> payout numerators of the YES and the NO slot

oracleVars == <<verdict, payout>>

NoPayout == <<0, 0>>

(* The numerators that pay the winning side everything. *)
PayoutFor(outcome) == IF outcome = 1 THEN <<1, 0>> ELSE <<0, 1>>

Extend(f, q, v) == [x \in DOMAIN f \cup {q} |-> IF x = q THEN v ELSE f[x]]

Open(q) ==
  /\ q \notin DOMAIN verdict
  /\ verdict' = Extend(verdict, q, 0)
  /\ payout' = Extend(payout, q, NoPayout)

Answer(q, outcome) ==
  /\ q \in DOMAIN verdict
  /\ verdict[q] = 0
  /\ verdict' = [verdict EXCEPT ![q] = outcome]
  /\ payout' = [payout EXCEPT ![q] = PayoutFor(outcome)]

OracleInit ==
  /\ verdict = [q \in {} |-> 0]
  /\ payout = [q \in {} |-> NoPayout]

(* Some one question is opened or answered; which one is up to the         *)
(* implementation, so the question is read off the step itself.            *)
OracleNext ==
  \/ \E q \in DOMAIN verdict' \ DOMAIN verdict : Open(q)
  \/ \E q \in DOMAIN verdict, outcome \in 1..2 : Answer(q, outcome)

OracleSpec == OracleInit /\ [][OracleNext]_oracleVars
=============================================================================
