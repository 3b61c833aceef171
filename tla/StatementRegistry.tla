--------------------------- MODULE StatementRegistry ---------------------------
(***************************************************************************)
(* contracts/Protocol.sol, contract StatementRegistry, together with the   *)
(* operator ResolvedWithinWindowOperator that ships with it.               *)
(*                                                                         *)
(* A transaction is one step: the registry's entry points are guarded by   *)
(* nonReentrant and the calls they make to verifiers and operators are     *)
(* view calls.  A revert is a step that is not enabled.  Several           *)
(* transactions may share one block timestamp; Tick is the next block.     *)
(*                                                                         *)
(* A statement id is keccak256 of what it is made from.  The hash is       *)
(* modelled as the preimage itself (no collisions), so an id is a tuple    *)
(* and a derived id contains the id it depends on.                         *)
(***************************************************************************)
EXTENDS Naturals, Sequences

CONSTANTS
  Goals, ProfileIds, Manifests,
  Verifiers,        \* addresses with code that setProfile may name
  OperatorIds, Specifications,
  Implementations,  \* addresses with code that setOperator may name
  WindowOperator,   \* the deployed ResolvedWithinWindowOperator
  Certified,        \* <<verifier, goal, profile>>: verifyGoal accepts a certificate
  Provable,         \* <<verifier, goal, profile, outcome>>: verify accepts one
  Deadlines,        \* the uint64 arguments callers pass
  NoAddress, None,  \* the zero address and the zero word
  MaxTime,          \* bound: last block timestamp
  MaxStatements     \* bound: number of registered statements

ASSUME RegistryAssumption ==
  /\ Deadlines \subseteq Nat
  /\ MaxTime \in Nat
  /\ MaxStatements \in Nat
  /\ NoAddress \notin Verifiers \cup Implementations
  /\ Certified \subseteq Verifiers \X Goals \X ProfileIds
  /\ Provable \subseteq Verifiers \X Goals \X ProfileIds \X (1..2)

VARIABLES
  now,               \* block.timestamp
  profiles,          \* profiles[profileId]
  operators,         \* operators[operatorId]
  statements,        \* statements[id]; author # 0 is membership in the domain
  statementIds,      \* the enumeration statementIds
  statementOperator, \* statementOperator[id], written by registerOperation
  operationParams,   \* operationParams[id], written by registerOperation
  payouts,           \* the CTF's payout numerators of the prepared conditions
  judge              \* history: the verifier or operator code that admitted the id

vars == <<now, profiles, operators, statements, statementIds,
          statementOperator, operationParams, payouts, judge>>

governanceVars == <<profiles, operators>>
operationVars == <<statementOperator, operationParams>>

Oracle == INSTANCE OutcomeOracle WITH
  verdict <- [id \in DOMAIN statements |-> statements[id].outcome],
  payout <- payouts

Extend(f, x, v) == [y \in DOMAIN f \cup {x} |-> IF y = x THEN v ELSE f[y]]

Known(id) == id \in DOMAIN statements

-----------------------------------------------------------------------------
(* Governance: both entry points are onlyOwner, the owner is the timelock. *)

SetProfile(p, verifier, enabled, manifest) ==
  /\ \/ profiles[p].verifier = NoAddress
     \/ profiles[p].verifier = verifier /\ profiles[p].manifest = manifest
  /\ profiles' = [profiles EXCEPT ![p] =
                   [verifier |-> verifier, enabled |-> enabled, manifest |-> manifest]]
  /\ UNCHANGED <<now, operators, statements, statementIds, operationVars, payouts, judge>>

SetOperator(o, implementation, specification, enabled) ==
  /\ \/ operators[o].implementation = NoAddress
     \/ /\ operators[o].implementation = implementation
        /\ operators[o].specification = specification
  /\ operators' = [operators EXCEPT ![o] =
                    [implementation |-> implementation, specification |-> specification,
                     enabled |-> enabled]]
  /\ UNCHANGED <<now, profiles, statements, statementIds, operationVars, payouts, judge>>

-----------------------------------------------------------------------------
(* Creation *)

BaseId(goal, profile) == <<"base", goal, profile>>

DerivedId(dep, kind, expected, deadline) == <<"derived", dep, kind, expected, deadline>>

OperationId(o, params) == <<"operation", o, params>>

Unresolved(goal, profile, kind, dep, deadline, expected) ==
  [goal |-> goal, profile |-> profile, kind |-> kind, dependency |-> dep,
   deadline |-> deadline, expected |-> expected, outcome |-> 0, resolvedAt |-> 0]

(* _create: the condition is prepared at the CTF in the same transaction,  *)
(* and the wrapped YES/NO tokens are determined by the id.                 *)
CreateStatement(id, s, admittedBy) ==
  /\ ~Known(id)
  /\ Len(statementIds) < MaxStatements
  /\ statements' = Extend(statements, id, s)
  /\ statementIds' = Append(statementIds, id)
  /\ payouts' = Extend(payouts, id, Oracle!NoPayout)
  /\ judge' = Extend(judge, id, admittedBy)

Register(goal, profile) ==
  /\ profiles[profile].enabled
  /\ <<profiles[profile].verifier, goal, profile>> \in Certified
  /\ CreateStatement(BaseId(goal, profile), Unresolved(goal, profile, 0, None, 0, 0),
                     profiles[profile].verifier)
  /\ UNCHANGED <<now, governanceVars, operationVars>>

(* The operands a kind does not use are normalised to zero in the id and   *)
(* in the record, so one question cannot be registered under two ids.      *)
(* Mutant: the caller's operand reaches the id.                            *)
UsedExpected_AsGiven(kind, expected) == expected

UsedExpected(kind, expected) == IF kind = 1 THEN 0 ELSE expected

UsedDeadline(kind, deadline) == IF kind = 2 THEN 0 ELSE deadline

ValidOperands(dep, kind, expected, deadline) ==
  /\ Known(dep)
  /\ kind \in 1..3
  /\ kind = 1 \/ expected \in 1..2
  /\ kind = 2 \/ deadline > 0

RegisterDerived(dep, kind, expected, deadline) ==
  LET e == UsedExpected(kind, expected)
      d == UsedDeadline(kind, deadline)
  IN /\ ValidOperands(dep, kind, expected, deadline)
     /\ CreateStatement(DerivedId(dep, kind, e, d), Unresolved(None, None, kind, dep, d, e), None)
     /\ UNCHANGED <<now, governanceVars, operationVars>>

(* ResolvedWithinWindowOperator.validate; another operator's validate is   *)
(* free to accept or refuse.                                               *)
WindowAccepts(params) ==
  /\ Known(params.dependency)
  /\ params.start <= params.end
  /\ params.expected \in 1..2

RegisterOperation(o, params) ==
  LET id == OperationId(o, params)
  IN /\ operators[o].enabled
     /\ operators[o].implementation = WindowOperator => WindowAccepts(params)
     /\ CreateStatement(id, Unresolved(None, None, 4, None, 0, 0), operators[o].implementation)
     /\ statementOperator' = Extend(statementOperator, id, o)
     /\ operationParams' = Extend(operationParams, id, params)
     /\ UNCHANGED <<now, governanceVars>>

-----------------------------------------------------------------------------
(* Resolution *)

(* ConditionalTokens.reportPayouts accepts one report per condition. *)
ReportPayouts(id, numerators) ==
  /\ payouts[id] = Oracle!NoPayout
  /\ payouts' = [payouts EXCEPT ![id] = numerators]

(* Mutant: the payout indices are swapped. *)
Resolve_Swapped(id, outcome) ==
  /\ statements' = [statements EXCEPT ![id] =
                     [@ EXCEPT !.outcome = outcome, !.resolvedAt = now]]
  /\ ReportPayouts(id, IF outcome = 1 THEN <<0, 1>> ELSE <<1, 0>>)

Resolve(id, outcome) ==
  /\ statements' = [statements EXCEPT ![id] =
                     [@ EXCEPT !.outcome = outcome, !.resolvedAt = now]]
  /\ ReportPayouts(id, IF outcome = 1 THEN <<1, 0>> ELSE <<0, 1>>)

(* A disabled profile still judges the statements admitted under it: only  *)
(* the verifier's presence is tested, not "enabled".                       *)
MayJudge(p) == profiles[p].verifier # NoAddress

SubmitProof(id, outcome) ==
  LET s == statements[id]
  IN /\ Known(id)
     /\ s.outcome = 0
     /\ s.kind = 0
     /\ MayJudge(s.profile)
     /\ <<profiles[s.profile].verifier, s.goal, s.profile, outcome>> \in Provable
     /\ Resolve(id, outcome)
     /\ UNCHANGED <<now, governanceVars, statementIds, operationVars, judge>>

(* kind 1: was the dependency decided at all by the deadline? *)
(* Mutant: NO is given in the deadline's own block. *)
EvaluateResolvedBy_AtDeadline(s, d) ==
  IF d.outcome # 0 /\ d.resolvedAt <= s.deadline THEN 1
  ELSE IF now >= s.deadline THEN 2 ELSE 0

EvaluateResolvedBy(s, d) ==
  IF d.outcome # 0 /\ d.resolvedAt <= s.deadline THEN 1
  ELSE IF now > s.deadline THEN 2 ELSE 0

(* kind 2: was it decided as expected? *)
EvaluateResolvedAs(s, d) ==
  IF d.outcome = 0 THEN 0 ELSE IF d.outcome = s.expected THEN 1 ELSE 2

(* kind 3: was it decided as expected by the deadline? *)
(* Mutant: the expected outcome recorded too late decides nothing. *)
EvaluateResolvedAsBy_LateMatchOpen(s, d) ==
  IF d.outcome # 0 /\ d.outcome # s.expected THEN 2
  ELSE IF d.outcome = s.expected
       THEN IF d.resolvedAt <= s.deadline THEN 1 ELSE 0
       ELSE IF now > s.deadline THEN 2 ELSE 0

EvaluateResolvedAsBy(s, d) ==
  IF d.outcome # 0 /\ d.outcome # s.expected THEN 2
  ELSE IF d.outcome = s.expected /\ d.resolvedAt <= s.deadline THEN 1
  ELSE IF now > s.deadline THEN 2 ELSE 0

(* ResolvedWithinWindowOperator.evaluate *)
EvaluateWindow(p, d) ==
  IF d.outcome # 0
  THEN IF d.outcome = p.expected /\ p.start <= d.resolvedAt /\ d.resolvedAt <= p.end
       THEN 1 ELSE 2
  ELSE IF now > p.end THEN 2 ELSE 0

(* The results evaluating the statement may give now.  Other operator code *)
(* than the window operator's is outside the repository: any uint8.        *)
Evaluations(id) ==
  LET s == statements[id]
  IN CASE s.kind = 1 -> {EvaluateResolvedBy(s, statements[s.dependency])}
       [] s.kind = 2 -> {EvaluateResolvedAs(s, statements[s.dependency])}
       [] s.kind = 3 -> {EvaluateResolvedAsBy(s, statements[s.dependency])}
       [] s.kind = 4 /\ operators[statementOperator[id]].implementation = WindowOperator
            -> {EvaluateWindow(operationParams[id],
                               statements[operationParams[id].dependency])}
       [] OTHER -> 0..3

ResolveDerived(id) ==
  /\ Known(id)
  /\ statements[id].outcome = 0
  /\ statements[id].kind # 0
  /\ \E result \in Evaluations(id) : result \in 1..2 /\ Resolve(id, result)
  /\ UNCHANGED <<now, governanceVars, statementIds, operationVars, judge>>

(* Blocks may be any time apart. *)
Tick ==
  /\ now' \in now + 1 .. MaxTime
  /\ UNCHANGED <<governanceVars, statements, statementIds, operationVars, payouts, judge>>

-----------------------------------------------------------------------------
NoProfile == [verifier |-> NoAddress, enabled |-> FALSE, manifest |-> None]
NoOperator == [implementation |-> NoAddress, specification |-> None, enabled |-> FALSE]

Init ==
  /\ now = 1
  /\ profiles = [p \in ProfileIds |-> NoProfile]
  /\ operators = [o \in OperatorIds |-> NoOperator]
  /\ statements = [id \in {} |-> 0]
  /\ statementIds = << >>
  /\ statementOperator = [id \in {} |-> 0]
  /\ operationParams = [id \in {} |-> 0]
  /\ payouts = [id \in {} |-> Oracle!NoPayout]
  /\ judge = [id \in {} |-> 0]

(* What a caller may ask the window operator about the given statements. *)
WindowParams(ids) ==
  [dependency : ids, start : Deadlines, end : Deadlines, expected : 0..3]

Governance ==
  \/ \E p \in ProfileIds, v \in Verifiers, e \in BOOLEAN, m \in Manifests :
       SetProfile(p, v, e, m)
  \/ \E o \in OperatorIds, i \in Implementations, e \in BOOLEAN, sp \in Specifications :
       SetOperator(o, i, sp, e)

Creation ==
  \/ \E g \in Goals, p \in ProfileIds : Register(g, p)
  \/ \E dep \in DOMAIN statements \cup {None}, kind \in 0..4, expected \in 0..3, d \in Deadlines :
       RegisterDerived(dep, kind, expected, d)
  \/ \E o \in OperatorIds, params \in WindowParams(DOMAIN statements) : RegisterOperation(o, params)

Next ==
  \/ Governance
  \/ Creation
  \/ \E id \in DOMAIN statements, outcome \in 1..2 : SubmitProof(id, outcome)
  \/ \E id \in DOMAIN statements : ResolveDerived(id)
  \/ Tick

Spec == Init /\ [][Next]_vars

(* Anyone may call resolveDerived and blocks keep coming. *)
KeeperFairness ==
  /\ WF_vars(\E id \in DOMAIN statements : ResolveDerived(id))
  /\ WF_vars(Tick)

FairSpec == Spec /\ KeeperFairness

-----------------------------------------------------------------------------
(* Properties *)

StatementRecords(ids) ==
  [goal : Goals \cup {None}, profile : ProfileIds \cup {None}, kind : 0..4,
   dependency : ids \cup {None}, deadline : Nat, expected : 0..2, outcome : 0..2,
   resolvedAt : Nat]

(* Every mapping of the contract holds values of its type, a derived       *)
(* statement refers to a registered one, and the mappings written by       *)
(* _create and registerOperation have the domains they should.             *)
TypeOK ==
  /\ now \in Nat
  /\ profiles \in [ProfileIds -> [verifier : Verifiers \cup {NoAddress}, enabled : BOOLEAN,
                                  manifest : Manifests \cup {None}]]
  /\ operators \in [OperatorIds -> [implementation : Implementations \cup {NoAddress},
                                    specification : Specifications \cup {None},
                                    enabled : BOOLEAN]]
  /\ \A o \in OperatorIds : operators[o].enabled => operators[o].implementation # NoAddress
  /\ statements \in [DOMAIN statements -> StatementRecords(DOMAIN statements)]
  /\ \A id \in DOMAIN statements :
       /\ statements[id].kind \in 1..3 => statements[id].dependency \in DOMAIN statements
       /\ statements[id].kind = 4 => id \in DOMAIN statementOperator
  /\ statementIds \in Seq(DOMAIN statements)
  /\ statementOperator \in [DOMAIN statementOperator -> OperatorIds]
  /\ operationParams \in
       [DOMAIN statementOperator -> WindowParams(DOMAIN statements)]
  /\ DOMAIN statementOperator \subseteq DOMAIN statements
  /\ payouts \in [DOMAIN statements -> {<<0, 0>>, <<1, 0>>, <<0, 1>>}]
  /\ judge \in [DOMAIN statements -> Verifiers \cup Implementations \cup {None}]

(* What the operator table of docs/integration-blueprint.md says a derived *)
(* statement means, of its dependency as it stands now.                    *)
HoldsNow(id) ==
  LET s == statements[id]
      d == statements[s.dependency]
      p == operationParams[id]
      w == statements[p.dependency]
  IN \/ s.kind = 1 /\ d.outcome # 0 /\ d.resolvedAt <= s.deadline
     \/ s.kind = 2 /\ d.outcome = s.expected
     \/ s.kind = 3 /\ d.outcome = s.expected /\ d.resolvedAt <= s.deadline
     \/ s.kind = 4 /\ w.outcome = p.expected /\ w.resolvedAt \in p.start .. p.end

(* Kinds whose meaning the repository defines: operations of another       *)
(* operator's code mean what that code says.                               *)
HasMeaning(id) ==
  \/ statements[id].kind \in 1..3
  \/ /\ statements[id].kind = 4
     /\ operators[statementOperator[id]].implementation = WindowOperator

(* A derived verdict is right, and stays right: whatever happens to the    *)
(* dependency after the derived statement was settled, YES is recorded     *)
(* exactly when the statement holds.  A NO given because a deadline passed *)
(* is never contradicted by a resolution recorded later, not even one in   *)
(* the same block as the deadline.                                         *)
DerivedMeaning ==
  \A id \in DOMAIN statements :
    HasMeaning(id) /\ statements[id].outcome # 0 =>
      (statements[id].outcome = 1 <=> HoldsNow(id))

(* A statement is judged by the code that admitted it: no sequence of      *)
(* governance transactions between the registration and the resolution     *)
(* replaces the verifier or the operator behind an existing statement.     *)
JudgeIsFixed ==
  \A id \in DOMAIN statements :
    /\ statements[id].kind = 0 => profiles[statements[id].profile].verifier = judge[id]
    /\ statements[id].kind = 4 =>
         operators[statementOperator[id]].implementation = judge[id]

(* Both: the right code gives the verdict and the verdict is right.        *)
VerdictsAreRight == JudgeIsFixed /\ DerivedMeaning

(* One question, one market: two registered derived statements never ask   *)
(* the same thing of the same dependency (same kind, same operands that    *)
(* the kind uses), whatever their callers passed for the unused operands.  *)
OneIdPerQuestion ==
  \A a, b \in DOMAIN statements :
    LET s == statements[a]
        t == statements[b]
    IN /\ a # b
       /\ s.kind \in 1..3
       /\ s.kind = t.kind
       /\ s.dependency = t.dependency
       => \/ s.kind # 1 /\ s.expected # t.expected
          \/ s.kind # 2 /\ s.deadline # t.deadline

(* The registry and the CTF together are the oracle the rest of the        *)
(* protocol is written against: each statement is opened once and answered *)
(* at most once, and the payout the CTF holds is that of the outcome.      *)
ImplementsOracle == Oracle!OracleSpec

(* Statements whose question has a last moment. *)
HasDeadline(id) == HasMeaning(id) /\ statements[id].kind # 2

(* With someone willing to call resolveDerived, every statement with a     *)
(* deadline is settled in the end, whatever its dependency does: no        *)
(* combination of late, wrong or missing resolutions leaves it open.       *)
EveryDeadlineSettles ==
  []<>(\A id \in DOMAIN statements : HasDeadline(id) => statements[id].outcome # 0)
=============================================================================
