----------------------------- MODULE SocialPanelProofs -----------------------------
(***************************************************************************)
(* The registry of statements, and the discussions that clients rebuild    *)
(* from its events and show beside it.                                     *)
(***************************************************************************)
EXTENDS SocialPanel, Sums, TLAPS

-----------------------------------------------------------------------------
(***************************************************************************)
(* For every value of the constants: the type invariant of the registry,   *)
(* that statements are judged by the code that admitted them, that derived *)
(* verdicts are right and stay right, that a question has one id, and that *)
(* the registry with the CTF implements OutcomeOracle.                     *)
(***************************************************************************)

USE RegistryAssumption

-----------------------------------------------------------------------------
(* The strengthening *)

(* What an operation or a derived statement asks about, and until when. *)
Subject(id) ==
  IF statements[id].kind = 4 THEN operationParams[id].dependency
                             ELSE statements[id].dependency

LastMoment(id) ==
  IF statements[id].kind = 4 THEN operationParams[id].end ELSE statements[id].deadline

(* What is judged was admitted by installed code, and by that code. *)
JudgeInv(id) ==
  /\ statements[id].kind \in {0, 4} => judge[id] # NoAddress
  /\ statements[id].kind = 0 => profiles[statements[id].profile].verifier = judge[id]
  /\ statements[id].kind = 4 => operators[statementOperator[id]].implementation = judge[id]

(* The operands a statement is created with, and its id. *)
OperandInv(id) ==
  /\ statements[id].kind = 0 => statements[id].profile \in ProfileIds
  /\ statements[id].kind \in 1..3 =>
       id = DerivedId(statements[id].dependency, statements[id].kind,
                      statements[id].expected, statements[id].deadline)
  /\ statements[id].kind = 1 => statements[id].expected = 0
  /\ statements[id].kind = 2 => statements[id].deadline = 0
  /\ statements[id].kind \in 2..3 => statements[id].expected \in 1..2
  /\ HasMeaning(id) /\ statements[id].kind = 4 => operationParams[id].expected \in 1..2

TimeInv(id) == statements[id].outcome # 0 => statements[id].resolvedAt <= now

(* A NO rests on a recorded outcome or on a deadline that has passed. *)
NoIsFounded(id) ==
  HasMeaning(id) /\ statements[id].outcome = 2 =>
    \/ statements[Subject(id)].outcome # 0
    \/ statements[id].kind # 2 /\ LastMoment(id) < now

Means(id) ==
  HasMeaning(id) /\ statements[id].outcome # 0 => (statements[id].outcome = 1 <=> HoldsNow(id))

Good(id) == JudgeInv(id) /\ OperandInv(id) /\ TimeInv(id) /\ NoIsFounded(id) /\ Means(id)

(* DerivedMeaning is not inductive: that no later resolution contradicts a *)
(* NO needs to know why the NO was given and that clocks do not run back.  *)
IInv == TypeOK /\ \A id \in DOMAIN statements : Good(id)

-----------------------------------------------------------------------------
(* Helpers *)

(* Extend adds or overwrites one entry and leaves the others alone. *)
LEMMA ExtendFacts ==
  ASSUME NEW f, NEW x, NEW v
  PROVE  /\ DOMAIN Extend(f, x, v) = DOMAIN f \cup {x}
         /\ Extend(f, x, v)[x] = v
         /\ \A y \in DOMAIN f : y # x => Extend(f, x, v)[y] = f[y]
         /\ Extend(f, x, v) = [y \in DOMAIN Extend(f, x, v) |-> Extend(f, x, v)[y]]
BY DEF Extend

(* A typed mapping stays typed when an entry is added. *)
LEMMA ExtendType ==
  ASSUME NEW D, NEW S, NEW f \in [D -> S], NEW x, NEW T, NEW v \in T, S \subseteq T
  PROVE  Extend(f, x, v) \in [D \cup {x} -> T]
BY DEF Extend

(* Records of a smaller set of ids are records of a larger one. *)
LEMMA RecordsGrow ==
  ASSUME NEW A, NEW B, A \subseteq B
  PROVE  StatementRecords(A) \subseteq StatementRecords(B)
BY DEF StatementRecords

-----------------------------------------------------------------------------
(* Type correctness *)

LEMMA InitType == Init => TypeOK
BY DEF Init, TypeOK, NoProfile, NoOperator, StatementRecords, Oracle!NoPayout

LEMMA SetProfileType ==
  ASSUME TypeOK, NEW p \in ProfileIds, NEW v \in Verifiers, NEW e \in BOOLEAN,
         NEW m \in Manifests, SetProfile(p, v, e, m)
  PROVE  TypeOK'
BY DEF TypeOK, SetProfile, operationVars

LEMMA SetOperatorType ==
  ASSUME TypeOK, NEW o \in OperatorIds, NEW i \in Implementations, NEW e \in BOOLEAN,
         NEW sp \in Specifications, SetOperator(o, i, sp, e)
  PROVE  TypeOK'
BY DEF TypeOK, SetOperator, operationVars

(* What _create does to the statement mappings, for a record of its type. *)
LEMMA CreateType ==
  ASSUME TypeOK, NEW id, NEW s \in StatementRecords(DOMAIN statements),
         NEW by \in Verifiers \cup Implementations \cup {None},
         CreateStatement(id, s, by)
  PROVE  /\ DOMAIN statements' = DOMAIN statements \cup {id}
         /\ statements' \in [DOMAIN statements' -> StatementRecords(DOMAIN statements')]
         /\ statements'[id] = s
         /\ \A y \in DOMAIN statements : statements'[y] = statements[y]
         /\ statementIds' \in Seq(DOMAIN statements')
         /\ payouts' \in [DOMAIN statements' -> {<<0, 0>>, <<1, 0>>, <<0, 1>>}]
         /\ judge' \in [DOMAIN statements' -> Verifiers \cup Implementations \cup {None}]
<1> DEFINE D == DOMAIN statements
           E == DOMAIN statements \cup {id}
<1>1. id \notin D /\ statements' = Extend(statements, id, s)
  BY DEF CreateStatement, Known
<1>2. statements' \in [E -> StatementRecords(E)]
  <2>1. statements \in [D -> StatementRecords(D)]
    BY DEF TypeOK
  <2>2. StatementRecords(D) \subseteq StatementRecords(E)
    BY RecordsGrow
  <2> HIDE DEF D, E
  <2>3. s \in StatementRecords(E)
    BY <2>2 DEF D
  <2>4. Extend(statements, id, s) \in [D \cup {id} -> StatementRecords(E)]
    BY <2>1, <2>2, <2>3, ExtendType
  <2> QED BY <1>1, <2>4 DEF D, E
<1>3. DOMAIN statements' = E
  BY <1>1, ExtendFacts
<1>4. statements'[id] = s /\ \A y \in D : statements'[y] = statements[y]
  BY <1>1 DEF Extend
<1>5. statementIds' \in Seq(E)
  BY DEF CreateStatement, TypeOK
<1>6. payouts' \in [E -> {<<0, 0>>, <<1, 0>>, <<0, 1>>}]
  <2>1. payouts \in [D -> {<<0, 0>>, <<1, 0>>, <<0, 1>>}]
    BY DEF TypeOK
  <2>2. payouts' = Extend(payouts, id, <<0, 0>>)
    BY DEF CreateStatement, Oracle!NoPayout
  <2> QED BY <2>1, <2>2, ExtendType
<1>7. judge' \in [E -> Verifiers \cup Implementations \cup {None}]
  <2>1. judge \in [D -> Verifiers \cup Implementations \cup {None}]
    BY DEF TypeOK
  <2>2. judge' = Extend(judge, id, by)
    BY DEF CreateStatement
  <2> QED BY <2>1, <2>2, ExtendType
<1> QED BY <1>2, <1>3, <1>4, <1>5, <1>6, <1>7

(* A new statement that is not an operation keeps TypeOK.                  *)
LEMMA CreateKeepsType ==
  ASSUME TypeOK, NEW id, NEW s \in StatementRecords(DOMAIN statements),
         NEW by \in Verifiers \cup Implementations \cup {None},
         CreateStatement(id, s, by),
         s.kind # 4, s.kind \in 1..3 => s.dependency \in DOMAIN statements,
         UNCHANGED <<now, profiles, operators, statementOperator, operationParams>>
  PROVE  TypeOK'
<1>1. /\ DOMAIN statements' = DOMAIN statements \cup {id}
      /\ statements' \in [DOMAIN statements' -> StatementRecords(DOMAIN statements')]
      /\ statements'[id] = s
      /\ \A y \in DOMAIN statements : statements'[y] = statements[y]
      /\ statementIds' \in Seq(DOMAIN statements')
      /\ payouts' \in [DOMAIN statements' -> {<<0, 0>>, <<1, 0>>, <<0, 1>>}]
      /\ judge' \in [DOMAIN statements' -> Verifiers \cup Implementations \cup {None}]
  BY CreateType
<1>2. \A y \in DOMAIN statements' :
        /\ statements'[y].kind \in 1..3 => statements'[y].dependency \in DOMAIN statements'
        /\ statements'[y].kind = 4 => y \in DOMAIN statementOperator
  BY <1>1 DEF TypeOK
<1>3. operationParams \in [DOMAIN statementOperator -> WindowParams(DOMAIN statements')]
  <2>1. WindowParams(DOMAIN statements) \subseteq WindowParams(DOMAIN statements')
    BY <1>1 DEF WindowParams
  <2>2. operationParams \in [DOMAIN statementOperator -> WindowParams(DOMAIN statements)]
    BY DEF TypeOK
  <2> QED BY <2>1, <2>2
<1> QED BY <1>1, <1>2, <1>3 DEF TypeOK

LEMMA RegisterType ==
  ASSUME TypeOK, NEW g \in Goals, NEW p \in ProfileIds, Register(g, p)
  PROVE  TypeOK'
<1> DEFINE s == Unresolved(g, p, 0, None, 0, 0)
<1>1. profiles[p].verifier \in Verifiers
  BY DEF Register
<1>2. s \in StatementRecords(DOMAIN statements) /\ s.kind = 0
  BY DEF Unresolved, StatementRecords
<1>3. /\ CreateStatement(BaseId(g, p), s, profiles[p].verifier)
      /\ UNCHANGED <<now, profiles, operators, statementOperator, operationParams>>
  BY DEF Register, governanceVars, operationVars
<1> HIDE DEF s
<1> QED BY <1>1, <1>2, <1>3, CreateKeepsType

LEMMA RegisterDerivedType ==
  ASSUME TypeOK, NEW dep, NEW kind \in 0..4, NEW expected \in 0..3, NEW d \in Deadlines,
         RegisterDerived(dep, kind, expected, d)
  PROVE  TypeOK'
<1> DEFINE e == UsedExpected(kind, expected)
           u == UsedDeadline(kind, d)
           s == Unresolved(None, None, kind, dep, u, e)
<1>1. dep \in DOMAIN statements /\ kind \in 1..3 /\ e \in 0..2 /\ u \in Nat
  BY DEF RegisterDerived, ValidOperands, Known, UsedExpected, UsedDeadline
<1>2. /\ s \in StatementRecords(DOMAIN statements)
      /\ s.kind # 4
      /\ s.dependency \in DOMAIN statements
  BY <1>1 DEF Unresolved, StatementRecords
<1>3. /\ CreateStatement(DerivedId(dep, kind, e, u), s, None)
      /\ UNCHANGED <<now, profiles, operators, statementOperator, operationParams>>
  BY DEF RegisterDerived, governanceVars, operationVars
<1> HIDE DEF s
<1> QED BY <1>2, <1>3, CreateKeepsType

LEMMA RegisterOperationType ==
  ASSUME TypeOK, NEW o \in OperatorIds, NEW params \in WindowParams(DOMAIN statements), RegisterOperation(o, params)
  PROVE  TypeOK'
<1> DEFINE id == OperationId(o, params)
           s == Unresolved(None, None, 4, None, 0, 0)
           by == operators[o].implementation
           P == WindowParams(DOMAIN statements)
           Q == WindowParams(DOMAIN statements')
<1>1. by \in Implementations
  BY DEF RegisterOperation, TypeOK
<1>2. /\ CreateStatement(id, s, by)
      /\ statementOperator' = Extend(statementOperator, id, o)
      /\ operationParams' = Extend(operationParams, id, params)
      /\ UNCHANGED <<now, profiles, operators>>
  BY DEF RegisterOperation, governanceVars
<1>3. s \in StatementRecords(DOMAIN statements) /\ s.kind = 4
  BY DEF Unresolved, StatementRecords
<1>4. params \in P
  OBVIOUS
<1> HIDE DEF s, id
<1>5. /\ DOMAIN statements' = DOMAIN statements \cup {id}
      /\ statements' \in [DOMAIN statements' -> StatementRecords(DOMAIN statements')]
      /\ statements'[id] = s
      /\ \A y \in DOMAIN statements : statements'[y] = statements[y]
      /\ statementIds' \in Seq(DOMAIN statements')
      /\ payouts' \in [DOMAIN statements' -> {<<0, 0>>, <<1, 0>>, <<0, 1>>}]
      /\ judge' \in [DOMAIN statements' -> Verifiers \cup Implementations \cup {None}]
  BY <1>1, <1>2, <1>3, CreateType
<1>6. /\ statementOperator' \in [DOMAIN statementOperator \cup {id} -> OperatorIds]
      /\ DOMAIN statementOperator' = DOMAIN statementOperator \cup {id}
  <2>1. statementOperator \in [DOMAIN statementOperator -> OperatorIds]
    BY DEF TypeOK
  <2>2. Extend(statementOperator, id, o) \in [DOMAIN statementOperator \cup {id} -> OperatorIds]
    BY <2>1, ExtendType
  <2> QED BY <2>2, <1>2
<1>7. operationParams' \in [DOMAIN statementOperator' -> Q]
  <2>1. operationParams \in [DOMAIN statementOperator -> P]
    BY DEF TypeOK
  <2>2. P \subseteq Q
    BY <1>5 DEF WindowParams
  <2> HIDE DEF P, Q
  <2>3. Extend(operationParams, id, params) \in [DOMAIN statementOperator \cup {id} -> Q]
    BY <2>1, <2>2, <1>4, ExtendType
  <2> QED BY <1>2, <1>6, <2>3
<1>8. \A y \in DOMAIN statements' :
        /\ statements'[y].kind \in 1..3 => statements'[y].dependency \in DOMAIN statements'
        /\ statements'[y].kind = 4 => y \in DOMAIN statementOperator'
  BY <1>3, <1>5, <1>6 DEF TypeOK
<1>9. DOMAIN statementOperator' \subseteq DOMAIN statements'
  BY <1>5, <1>6 DEF TypeOK
<1> QED BY <1>2, <1>5, <1>6, <1>7, <1>8, <1>9 DEF TypeOK

(* _resolve rewrites the outcome and the time of one known statement.      *)
LEMMA ResolveFacts ==
  ASSUME TypeOK, NEW id \in DOMAIN statements, NEW outcome \in 1..2, Resolve(id, outcome)
  PROVE  /\ DOMAIN statements' = DOMAIN statements
         /\ statements' \in [DOMAIN statements' -> StatementRecords(DOMAIN statements')]
         /\ \A y \in DOMAIN statements : y # id => statements'[y] = statements[y]
         /\ statements'[id].outcome = outcome /\ statements'[id].resolvedAt = now
         /\ statements'[id].kind = statements[id].kind
         /\ statements'[id].profile = statements[id].profile
         /\ statements'[id].dependency = statements[id].dependency
         /\ statements'[id].deadline = statements[id].deadline
         /\ statements'[id].expected = statements[id].expected
         /\ payouts' = [payouts EXCEPT ![id] = IF outcome = 1 THEN <<1, 0>> ELSE <<0, 1>>]
         /\ payouts' \in [DOMAIN statements' -> {<<0, 0>>, <<1, 0>>, <<0, 1>>}]
<1> DEFINE r == [statements[id] EXCEPT !.outcome = outcome, !.resolvedAt = now]
<1>1. statements[id] \in StatementRecords(DOMAIN statements)
  BY DEF TypeOK
<1>2. r \in StatementRecords(DOMAIN statements)
  <2>1. now \in Nat /\ outcome \in 0..2
    BY DEF TypeOK
  <2>2. \A q \in StatementRecords(DOMAIN statements), o \in 0..2, t \in Nat :
          [q EXCEPT !.outcome = o, !.resolvedAt = t] \in StatementRecords(DOMAIN statements)
    BY DEF StatementRecords
  <2> QED BY <1>1, <2>1, <2>2
<1>3. statements' = [statements EXCEPT ![id] = r]
  BY DEF Resolve
<1>4. /\ r.outcome = outcome /\ r.resolvedAt = now
      /\ r.kind = statements[id].kind /\ r.profile = statements[id].profile
      /\ r.dependency = statements[id].dependency /\ r.deadline = statements[id].deadline
      /\ r.expected = statements[id].expected
  BY <1>1 DEF StatementRecords
<1> HIDE DEF r
<1>5. /\ DOMAIN statements' = DOMAIN statements
      /\ statements' \in [DOMAIN statements' -> StatementRecords(DOMAIN statements')]
      /\ \A y \in DOMAIN statements : y # id => statements'[y] = statements[y]
      /\ statements'[id] = r
  BY <1>2, <1>3 DEF TypeOK
<1>6. payouts' = [payouts EXCEPT ![id] = IF outcome = 1 THEN <<1, 0>> ELSE <<0, 1>>]
  BY DEF Resolve, ReportPayouts
<1>7. payouts' \in [DOMAIN statements' -> {<<0, 0>>, <<1, 0>>, <<0, 1>>}]
  BY <1>5, <1>6 DEF TypeOK
<1> QED BY <1>4, <1>5, <1>6, <1>7

LEMMA ResolveType ==
  ASSUME TypeOK, NEW id \in DOMAIN statements, NEW outcome \in 1..2, Resolve(id, outcome),
         UNCHANGED <<now, profiles, operators, statementIds, statementOperator,
                     operationParams, judge>>
  PROVE  TypeOK'
<1>1. /\ DOMAIN statements' = DOMAIN statements
      /\ statements' \in [DOMAIN statements' -> StatementRecords(DOMAIN statements')]
      /\ \A y \in DOMAIN statements : y # id => statements'[y] = statements[y]
      /\ statements'[id].kind = statements[id].kind
      /\ statements'[id].dependency = statements[id].dependency
      /\ payouts' \in [DOMAIN statements' -> {<<0, 0>>, <<1, 0>>, <<0, 1>>}]
  BY ResolveFacts
<1>2. \A y \in DOMAIN statements' :
        /\ statements'[y].kind \in 1..3 => statements'[y].dependency \in DOMAIN statements'
        /\ statements'[y].kind = 4 => y \in DOMAIN statementOperator
  BY <1>1 DEF TypeOK
<1> QED BY <1>1, <1>2 DEF TypeOK

LEMMA TickType == TypeOK /\ Tick => TypeOK'
BY DEF TypeOK, Tick, governanceVars, operationVars

(* Every step of the registry keeps the types. *)
LEMMA NextType == TypeOK /\ [Next]_vars => TypeOK'
<1> SUFFICES ASSUME TypeOK, [Next]_vars PROVE TypeOK'
  OBVIOUS
<1>1. CASE Governance
  BY <1>1, SetProfileType, SetOperatorType DEF Governance
<1>2. CASE Creation
  BY <1>2, RegisterType, RegisterDerivedType, RegisterOperationType DEF Creation
<1>3. ASSUME NEW id \in DOMAIN statements, NEW outcome \in 1..2, SubmitProof(id, outcome)
      PROVE  TypeOK'
  BY <1>3, ResolveType DEF SubmitProof, governanceVars, operationVars
<1>4. ASSUME NEW id \in DOMAIN statements, ResolveDerived(id)
      PROVE  TypeOK'
  BY <1>4, ResolveType DEF ResolveDerived, governanceVars, operationVars
<1>5. CASE Tick
  BY <1>5, TickType
<1>6. CASE UNCHANGED vars
  BY <1>6 DEF TypeOK, vars
<1> QED BY <1>1, <1>2, <1>3, <1>4, <1>5, <1>6 DEF Next

(* The registry's mappings always hold values of their types, whatever is  *)
(* registered, enabled, disabled, proved or settled in whatever order.     *)
THEOREM TypeCorrect == Spec => []TypeOK
<1>1. Init => TypeOK
  BY InitType
<1>2. TypeOK /\ [Next]_vars => TypeOK'
  BY NextType
<1> QED BY <1>1, <1>2, PTL DEF Spec

-----------------------------------------------------------------------------
(* The inductive invariant *)

LEMMA SubjectKnown ==
  ASSUME TypeOK, NEW id \in DOMAIN statements, statements[id].kind # 0
  PROVE  Subject(id) \in DOMAIN statements
<1>1. statements[id].kind \in 0..4
  BY DEF TypeOK, StatementRecords
<1>2. CASE statements[id].kind = 4
  <2>1. operationParams[id] \in WindowParams(DOMAIN statements)
    BY <1>2 DEF TypeOK
  <2> QED BY <1>2, <2>1 DEF Subject, WindowParams
<1>3. CASE statements[id].kind \in 1..3
  BY <1>3 DEF Subject, TypeOK
<1> QED BY <1>1, <1>2, <1>3

(* A statement with a meaning is derived, and its last moment is a time. *)
LEMMA MomentKnown ==
  ASSUME TypeOK, NEW id \in DOMAIN statements
  PROVE  HasMeaning(id) => statements[id].kind # 0 /\ LastMoment(id) \in Nat
<1> DEFINE s == statements[id]
<1>1. CASE s.kind = 4
  <2>1. operationParams[id] \in WindowParams(DOMAIN statements)
    BY <1>1 DEF TypeOK
  <2>2. operationParams[id].end \in Deadlines
    BY <2>1 DEF WindowParams
  <2>3. Deadlines \subseteq Nat
    BY DEF RegistryAssumption
  <2>4. LastMoment(id) = operationParams[id].end
    BY <1>1 DEF LastMoment
  <2>5. LastMoment(id) \in Nat
    BY <2>2, <2>3, <2>4
  <2>6. s.kind # 0
    BY <1>1
  <2> QED BY <2>5, <2>6
<1>2. CASE s.kind # 4
  BY <1>2 DEF LastMoment, TypeOK, StatementRecords, HasMeaning
<1> QED BY <1>1, <1>2

(* A statement that a step leaves alone stays good, if the statement it    *)
(* asks about is left alone too, installed code stays, and time goes on.   *)
LEMMA Frame ==
  ASSUME IInv, TypeOK', now <= now', NEW id \in DOMAIN statements,
         id \in DOMAIN statements', statements'[id] = statements[id], judge'[id] = judge[id],
         statements[id].kind # 0 => statements'[Subject(id)] = statements[Subject(id)],
         statements[id].kind = 4 =>
           /\ statementOperator'[id] = statementOperator[id]
           /\ operationParams'[id] = operationParams[id],
         \A p \in ProfileIds : profiles[p].verifier # NoAddress =>
           profiles'[p].verifier = profiles[p].verifier,
         \A o \in OperatorIds : operators[o].implementation # NoAddress =>
           operators'[o].implementation = operators[o].implementation
  PROVE  Good(id)'
<1> DEFINE s == statements[id]
<1>1. TypeOK /\ Good(id)
  BY DEF IInv
<1>2. s.kind \in 0..4 /\ (s.outcome # 0 => s.resolvedAt \in Nat) /\ now \in Nat /\ now' \in Nat
  BY <1>1 DEF TypeOK, StatementRecords
<1>3. s.kind = 4 => statementOperator[id] \in OperatorIds
  BY <1>1 DEF TypeOK
<1>4. JudgeInv(id)'
  BY <1>1, <1>3 DEF Good, JudgeInv, OperandInv
<1>5. HasMeaning(id)' <=> HasMeaning(id)
  BY <1>1, <1>3 DEF HasMeaning, Good, JudgeInv
<1>6. OperandInv(id)'
  BY <1>1, <1>5 DEF Good, OperandInv
<1>7. TimeInv(id)'
  BY <1>1, <1>2 DEF Good, TimeInv
<1>8. /\ Subject(id)' = Subject(id)
      /\ LastMoment(id)' = LastMoment(id)
      /\ s.kind # 0 => Subject(id) \in DOMAIN statements
  BY <1>1, SubjectKnown DEF Subject, LastMoment
<1>9. HasMeaning(id) => s.kind # 0 /\ LastMoment(id) \in Nat
  BY <1>1, MomentKnown
<1>10. NoIsFounded(id)'
  BY <1>1, <1>2, <1>5, <1>8, <1>9 DEF Good, NoIsFounded
<1>11. HasMeaning(id) => (HoldsNow(id)' <=> HoldsNow(id))
  BY <1>9 DEF HoldsNow, Subject, HasMeaning
<1>12. Means(id)'
  BY <1>1, <1>5, <1>11 DEF Good, Means
<1> QED BY <1>4, <1>6, <1>7, <1>10, <1>12 DEF Good

LEMMA InitGood == Init => IInv
BY InitType DEF Init, IInv

(* Governance never touches installed code. *)
LEMMA GovernanceGood ==
  ASSUME IInv, Governance
  PROVE  IInv'
<1>1. TypeOK /\ TypeOK'
  BY SetProfileType, SetOperatorType DEF Governance, IInv
<1>2. UNCHANGED <<now, statements, statementOperator, operationParams, judge>>
  BY Zenon DEF Governance, SetProfile, SetOperator, operationVars
<1>3. \A p \in ProfileIds : profiles[p].verifier # NoAddress =>
        profiles'[p].verifier = profiles[p].verifier
  <2>1. CASE UNCHANGED profiles
    BY <2>1
  <2>2. ASSUME NEW q \in ProfileIds, NEW v \in Verifiers, NEW e \in BOOLEAN,
               NEW m \in Manifests, SetProfile(q, v, e, m)
        PROVE  \A p \in ProfileIds : profiles[p].verifier # NoAddress =>
                 profiles'[p].verifier = profiles[p].verifier
    BY <1>1, <2>2 DEF SetProfile, TypeOK
  <2> QED BY <2>1, <2>2 DEF Governance, SetOperator
<1>4. \A o \in OperatorIds : operators[o].implementation # NoAddress =>
        operators'[o].implementation = operators[o].implementation
  BY <1>1 DEF Governance, SetProfile, SetOperator, TypeOK
<1>5. now <= now'
  BY <1>1, <1>2 DEF TypeOK
<1>6. ASSUME NEW id \in DOMAIN statements PROVE Good(id)'
  BY <1>1, <1>2, <1>3, <1>4, <1>5, Frame
<1> QED BY <1>1, <1>2, <1>6 DEF IInv

LEMMA TickGood ==
  ASSUME IInv, Tick
  PROVE  IInv'
<1>1. TypeOK /\ TypeOK'
  BY TickType DEF IInv
<1>2. UNCHANGED <<statements, statementOperator, operationParams, judge, profiles, operators>>
  BY DEF Tick, governanceVars, operationVars
<1>3. now <= now'
  BY <1>1 DEF TypeOK, Tick
<1>4. ASSUME NEW id \in DOMAIN statements PROVE Good(id)'
  BY <1>1, <1>2, <1>3, Frame
<1> QED BY <1>1, <1>2, <1>4 DEF IInv

(* A new statement disturbs no old one. *)
LEMMA CreateFrame ==
  ASSUME IInv, TypeOK', NEW id, NEW s, NEW by, CreateStatement(id, s, by),
         UNCHANGED <<now, profiles, operators>>,
         \A y \in DOMAIN statementOperator :
           y # id => /\ statementOperator'[y] = statementOperator[y]
                     /\ operationParams'[y] = operationParams[y]
  PROVE  /\ \A y \in DOMAIN statements : Good(y)'
         /\ DOMAIN statements' = DOMAIN statements \cup {id}
         /\ statements'[id] = s
         /\ judge'[id] = by
         /\ id \notin DOMAIN statements
<1>1. /\ id \notin DOMAIN statements
      /\ statements' = Extend(statements, id, s)
      /\ judge' = Extend(judge, id, by)
  BY DEF CreateStatement, Known
<1>2. /\ DOMAIN statements' = DOMAIN statements \cup {id}
      /\ statements'[id] = s
      /\ \A y \in DOMAIN statements : statements'[y] = statements[y]
  BY <1>1 DEF Extend
<1>3. judge'[id] = by /\ \A y \in DOMAIN statements : judge'[y] = judge[y]
  <2>1. DOMAIN judge = DOMAIN statements
    BY DEF IInv, TypeOK
  <2> QED BY <1>1, <2>1 DEF Extend
<1>4. ASSUME NEW y \in DOMAIN statements PROVE Good(y)'
  <2>1. TypeOK /\ now <= now'
    BY DEF IInv, TypeOK
  <2>2. statements[y].kind # 0 => Subject(y) \in DOMAIN statements
    BY <2>1, SubjectKnown
  <2>3. y # id
    BY <1>1
  <2>4. statements[y].kind = 4 => y \in DOMAIN statementOperator
    BY <2>1 DEF TypeOK
  <2>5. statements[y].kind = 4 => /\ statementOperator'[y] = statementOperator[y]
                                  /\ operationParams'[y] = operationParams[y]
    BY <2>3, <2>4
  <2> QED BY <1>2, <1>3, <2>1, <2>2, <2>5, Frame
<1> QED BY <1>1, <1>2, <1>3, <1>4

LEMMA RegisterGood ==
  ASSUME IInv, NEW g \in Goals, NEW p \in ProfileIds, Register(g, p)
  PROVE  IInv'
<1> DEFINE id == BaseId(g, p)
           s == Unresolved(g, p, 0, None, 0, 0)
<1>1. TypeOK'
  BY RegisterType DEF IInv
<1>2. /\ CreateStatement(id, s, profiles[p].verifier)
      /\ UNCHANGED <<now, profiles, operators, statementOperator, operationParams>>
  BY DEF Register, governanceVars, operationVars
<1>3. /\ \A y \in DOMAIN statements : Good(y)'
      /\ DOMAIN statements' = DOMAIN statements \cup {id}
      /\ statements'[id] = s
      /\ judge'[id] = profiles[p].verifier
  <2> HIDE DEF s, id
  <2> QED BY <1>1, <1>2, CreateFrame
<1>4. s.kind = 0 /\ s.outcome = 0 /\ s.profile = p
  BY DEF Unresolved
<1>5. profiles[p].verifier # NoAddress
  BY DEF Register, RegistryAssumption
<1>6. JudgeInv(id)' /\ OperandInv(id)'
  <2> HIDE DEF s, id
  <2> QED BY <1>2, <1>3, <1>4, <1>5 DEF JudgeInv, OperandInv
<1>7. TimeInv(id)' /\ NoIsFounded(id)' /\ Means(id)'
  <2> HIDE DEF s, id
  <2> QED BY <1>3, <1>4 DEF TimeInv, NoIsFounded, Means
<1> QED BY <1>1, <1>3, <1>6, <1>7 DEF IInv, Good

LEMMA RegisterDerivedGood ==
  ASSUME IInv, NEW dep, NEW kind \in 0..4, NEW expected \in 0..3, NEW d \in Deadlines,
         RegisterDerived(dep, kind, expected, d)
  PROVE  IInv'
<1> DEFINE e == UsedExpected(kind, expected)
           u == UsedDeadline(kind, d)
           id == DerivedId(dep, kind, e, u)
           s == Unresolved(None, None, kind, dep, u, e)
<1>1. TypeOK'
  BY RegisterDerivedType DEF IInv
<1>2. /\ CreateStatement(id, s, None)
      /\ UNCHANGED <<now, profiles, operators, statementOperator, operationParams>>
  BY DEF RegisterDerived, governanceVars, operationVars
<1>3. /\ \A y \in DOMAIN statements : Good(y)'
      /\ DOMAIN statements' = DOMAIN statements \cup {id}
      /\ statements'[id] = s
  <2> HIDE DEF s, id
  <2> QED BY <1>1, <1>2, CreateFrame
<1>4. /\ kind \in 1..3
      /\ kind = 1 => e = 0
      /\ kind = 2 => u = 0
      /\ kind \in 2..3 => e \in 1..2
  BY DEF RegisterDerived, ValidOperands, UsedExpected, UsedDeadline
<1>5. /\ s.kind = kind /\ s.outcome = 0
      /\ s.dependency = dep /\ s.expected = e /\ s.deadline = u
  BY DEF Unresolved
<1>6. id = DerivedId(s.dependency, s.kind, s.expected, s.deadline)
  BY <1>5
<1> HIDE DEF s, id, e, u
<1>7. JudgeInv(id)' /\ OperandInv(id)'
  BY <1>3, <1>4, <1>5, <1>6 DEF JudgeInv, OperandInv
<1>8. TimeInv(id)' /\ NoIsFounded(id)' /\ Means(id)'
  BY <1>3, <1>5 DEF TimeInv, NoIsFounded, Means
<1> QED BY <1>1, <1>3, <1>7, <1>8 DEF IInv, Good

LEMMA RegisterOperationGood ==
  ASSUME IInv, NEW o \in OperatorIds, NEW params \in WindowParams(DOMAIN statements),
         RegisterOperation(o, params)
  PROVE  IInv'
<1> DEFINE id == OperationId(o, params)
           s == Unresolved(None, None, 4, None, 0, 0)
           by == operators[o].implementation
<1>1. TypeOK /\ TypeOK'
  BY RegisterOperationType DEF IInv
<1>2. /\ CreateStatement(id, s, by)
      /\ statementOperator' = Extend(statementOperator, id, o)
      /\ operationParams' = Extend(operationParams, id, params)
      /\ UNCHANGED <<now, profiles, operators>>
  BY DEF RegisterOperation, governanceVars
<1>3. by # NoAddress
  BY <1>1 DEF RegisterOperation, TypeOK
<1>4. operators[o].implementation = WindowOperator => params.expected \in 1..2
  BY DEF RegisterOperation, WindowAccepts
<1>5. s.kind = 4 /\ s.outcome = 0
  BY DEF Unresolved
<1> HIDE DEF s, id
<1>6. \A y \in DOMAIN statementOperator :
        y # id => /\ statementOperator'[y] = statementOperator[y]
                  /\ operationParams'[y] = operationParams[y]
  <2>1. DOMAIN operationParams = DOMAIN statementOperator
    BY <1>1 DEF TypeOK
  <2> QED BY <1>2, <2>1 DEF Extend
<1>7. /\ \A y \in DOMAIN statements : Good(y)'
      /\ DOMAIN statements' = DOMAIN statements \cup {id}
      /\ statements'[id] = s
      /\ judge'[id] = by
  BY <1>1, <1>2, <1>6, CreateFrame
<1>8. statementOperator'[id] = o /\ operationParams'[id] = params
  BY <1>2 DEF Extend
<1>9. JudgeInv(id)' /\ OperandInv(id)'
  BY <1>2, <1>3, <1>4, <1>5, <1>7, <1>8 DEF JudgeInv, OperandInv, HasMeaning
<1>10. TimeInv(id)' /\ NoIsFounded(id)' /\ Means(id)'
  BY <1>5, <1>7 DEF TimeInv, NoIsFounded, Means
<1> QED BY <1>1, <1>7, <1>9, <1>10 DEF IInv, Good

(* What recording an outcome at the current time makes of a statement that *)
(* asks about the one just resolved: a NO it already has stays right.      *)
LEMMA ResolveOthersGood ==
  ASSUME IInv, TypeOK', NEW id \in DOMAIN statements, statements[id].outcome = 0,
         NEW outcome \in 1..2, Resolve(id, outcome),
         UNCHANGED <<now, profiles, operators, statementOperator, operationParams, judge>>,
         NEW y \in DOMAIN statements, y # id
  PROVE  Good(y)'
<1> DEFINE s == statements[y]
<1>1. TypeOK /\ Good(y)
  BY DEF IInv
<1>2. /\ DOMAIN statements' = DOMAIN statements
      /\ \A z \in DOMAIN statements : z # id => statements'[z] = statements[z]
      /\ statements'[id].outcome = outcome /\ statements'[id].resolvedAt = now
  BY <1>1, ResolveFacts
<1>3. CASE s.kind = 0 \/ Subject(y) # id
  <2>1. s.kind # 0 => Subject(y) \in DOMAIN statements
    BY <1>1, SubjectKnown
  <2>2. s.kind # 0 => statements'[Subject(y)] = statements[Subject(y)]
    BY <1>2, <1>3, <2>1
  <2>3. now <= now'
    BY <1>1 DEF TypeOK
  <2> QED BY <1>2, <2>2, <2>3, Frame
<1>4. CASE s.kind # 0 /\ Subject(y) = id
  <2>1. statements'[id].outcome = outcome /\ statements'[id].resolvedAt = now
    BY <1>2
  <2>2. statements'[y] = s
    BY <1>2
  <2>3. JudgeInv(y)' /\ OperandInv(y)' /\ TimeInv(y)' /\ (HasMeaning(y)' <=> HasMeaning(y))
    BY <1>1, <2>2 DEF Good, JudgeInv, OperandInv, TimeInv, HasMeaning
  <2>4. Subject(y)' = id /\ LastMoment(y)' = LastMoment(y)
    BY <1>4, <2>2 DEF Subject, LastMoment
  <2>5. NoIsFounded(y)'
    BY <2>1, <2>4 DEF NoIsFounded
  <2>6. Means(y)'
    <3> SUFFICES ASSUME HasMeaning(y), s.outcome # 0
                 PROVE  s.outcome = 1 <=> HoldsNow(y)'
      BY <2>2, <2>3 DEF Means
    <3>1. ~HoldsNow(y)
      BY <1>1, <1>4 DEF HoldsNow, Subject, Good, OperandInv
    <3>2. s.outcome # 1
      BY <1>1, <3>1 DEF Good, Means
    <3>3. s.outcome = 2
      <4>1. s.outcome \in 0..2
        BY <1>1 DEF TypeOK, StatementRecords
      <4> QED BY <4>1, <3>2
    <3>4. s.kind # 2 /\ LastMoment(y) < now
      BY <1>1, <1>4, <3>3 DEF Good, NoIsFounded
    <3>5. ~(now <= LastMoment(y))
      BY <1>1, <3>4, MomentKnown DEF TypeOK
    <3>6. ~HoldsNow(y)'
      BY <1>4, <2>1, <2>2, <3>4, <3>5 DEF HoldsNow, Subject, LastMoment, HasMeaning
    <3> QED BY <3>2, <3>6
  <2> QED BY <2>3, <2>5, <2>6 DEF Good
<1> QED BY <1>3, <1>4

(* What an evaluation that gives a verdict says, for each kind: it is the  *)
(* statement's meaning once the subject is decided, and NO by the deadline *)
(* otherwise.                                                              *)
LEMMA EvaluationFacts ==
  ASSUME TypeOK, NEW id \in DOMAIN statements, OperandInv(id), HasMeaning(id),
         NEW result \in 1..2, result \in Evaluations(id)
  PROVE  LET d == statements[Subject(id)]
         IN /\ d.outcome # 0 => (result = 1 <=> HoldsNow(id))
            /\ d.outcome = 0 => result = 2 /\ statements[id].kind # 2 /\ LastMoment(id) < now
<1> DEFINE s == statements[id]
           d == statements[Subject(id)]
           Goal == /\ d.outcome # 0 => (result = 1 <=> HoldsNow(id))
                   /\ d.outcome = 0 => result = 2 /\ s.kind # 2 /\ LastMoment(id) < now
<1>1. s.kind # 0 /\ LastMoment(id) \in Nat
  BY MomentKnown
<1>2. Subject(id) \in DOMAIN statements
  BY <1>1, SubjectKnown
<1>3. d.outcome \in 0..2 /\ d.resolvedAt \in Nat /\ now \in Nat
  BY <1>2 DEF TypeOK, StatementRecords
<1>4. s.kind \in 0..4
  BY DEF TypeOK, StatementRecords
<1>5. CASE s.kind = 1
  <2>1. result = EvaluateResolvedBy(s, d)
    BY <1>5 DEF Evaluations, Subject
  <2>2. (result = 1 /\ d.outcome # 0 /\ d.resolvedAt <= s.deadline)
        \/ (result = 2 /\ ~(d.outcome # 0 /\ d.resolvedAt <= s.deadline) /\ now > s.deadline)
    BY <2>1 DEF EvaluateResolvedBy
  <2>3. HoldsNow(id) <=> d.outcome # 0 /\ d.resolvedAt <= s.deadline
    BY <1>5 DEF HoldsNow, Subject
  <2>4. LastMoment(id) = s.deadline
    BY <1>5 DEF LastMoment
  <2> QED BY <1>1, <1>3, <1>5, <2>2, <2>3, <2>4
<1>6. CASE s.kind = 2
  <2>1. result = EvaluateResolvedAs(s, d)
    BY <1>6 DEF Evaluations, Subject
  <2>2. d.outcome # 0 /\ (result = 1 <=> d.outcome = s.expected)
    BY <2>1 DEF EvaluateResolvedAs
  <2>3. HoldsNow(id) <=> d.outcome = s.expected
    BY <1>6 DEF HoldsNow, Subject
  <2> QED BY <2>2, <2>3
<1>7. CASE s.kind = 3
  <2>1. result = EvaluateResolvedAsBy(s, d)
    BY <1>7 DEF Evaluations, Subject
  <2>2. \/ result = 2 /\ d.outcome # 0 /\ d.outcome # s.expected
        \/ result = 1 /\ d.outcome = s.expected /\ d.resolvedAt <= s.deadline
        \/ result = 2 /\ ~(d.outcome = s.expected /\ d.resolvedAt <= s.deadline)
           /\ now > s.deadline
    BY <2>1 DEF EvaluateResolvedAsBy
  <2>3. HoldsNow(id) <=> d.outcome = s.expected /\ d.resolvedAt <= s.deadline
    BY <1>7 DEF HoldsNow, Subject
  <2>4. LastMoment(id) = s.deadline
    BY <1>7 DEF LastMoment
  <2>5. s.expected # 0
    BY <1>7 DEF OperandInv
  <2> QED BY <1>1, <1>3, <1>7, <2>2, <2>3, <2>4, <2>5
<1>8. CASE s.kind = 4
  <2> DEFINE p == operationParams[id]
  <2>1. result = EvaluateWindow(p, d)
    BY <1>8 DEF Evaluations, Subject, HasMeaning
  <2>2. \/ result = 1 /\ d.outcome # 0 /\ d.outcome = p.expected
           /\ p.start <= d.resolvedAt /\ d.resolvedAt <= p.end
        \/ result = 2 /\ d.outcome # 0
           /\ ~(d.outcome = p.expected /\ p.start <= d.resolvedAt /\ d.resolvedAt <= p.end)
        \/ result = 2 /\ d.outcome = 0 /\ now > p.end
    BY <2>1 DEF EvaluateWindow
  <2>3. p.start \in Nat /\ p.end \in Nat
    <3>1. p \in WindowParams(DOMAIN statements)
      BY <1>8 DEF TypeOK
    <3>2. p.start \in Deadlines /\ p.end \in Deadlines
      BY <3>1 DEF WindowParams
    <3>3. Deadlines \subseteq Nat
      BY DEF RegistryAssumption
    <3> QED BY <3>2, <3>3
  <2>4. HoldsNow(id) <=> d.outcome = p.expected /\ d.resolvedAt \in p.start .. p.end
    BY <1>8 DEF HoldsNow, Subject
  <2>5. d.resolvedAt \in p.start .. p.end <=> p.start <= d.resolvedAt /\ d.resolvedAt <= p.end
    BY <1>3, <2>3
  <2>6. LastMoment(id) = p.end
    BY <1>8 DEF LastMoment
  <2> HIDE DEF p
  <2> QED BY <1>1, <1>3, <1>8, <2>2, <2>3, <2>4, <2>5, <2>6
<1> QED BY <1>1, <1>4, <1>5, <1>6, <1>7, <1>8

(* The statement that a resolution settles. *)
LEMMA ResolveSelfGood ==
  ASSUME IInv, TypeOK', NEW id \in DOMAIN statements, statements[id].outcome = 0,
         NEW outcome \in 1..2, Resolve(id, outcome),
         statements[id].kind # 0 => outcome \in Evaluations(id),
         UNCHANGED <<now, profiles, operators, statementOperator, operationParams, judge>>
  PROVE  Good(id)'
<1> DEFINE s == statements[id]
           d == statements[Subject(id)]
<1>1. TypeOK /\ Good(id)
  BY DEF IInv
<1>2. /\ \A z \in DOMAIN statements : z # id => statements'[z] = statements[z]
      /\ statements'[id].outcome = outcome /\ statements'[id].resolvedAt = now
      /\ statements'[id].kind = s.kind /\ statements'[id].profile = s.profile
      /\ statements'[id].dependency = s.dependency /\ statements'[id].deadline = s.deadline
      /\ statements'[id].expected = s.expected
  BY <1>1, ResolveFacts
<1> HIDE DEF s, d
<1>3. /\ HasMeaning(id)' <=> HasMeaning(id)
      /\ Subject(id)' = Subject(id)
      /\ LastMoment(id)' = LastMoment(id)
  BY <1>2 DEF HasMeaning, Subject, LastMoment, s
<1>4. JudgeInv(id)' /\ OperandInv(id)'
  BY <1>1, <1>2, <1>3 DEF Good, JudgeInv, OperandInv, s
<1>5. TimeInv(id)'
  BY <1>1, <1>2 DEF TimeInv, TypeOK
<1>6. HasMeaning(id) => /\ s.kind # 0
                        /\ d.outcome # 0 => (outcome = 1 <=> HoldsNow(id))
                        /\ d.outcome = 0 => outcome = 2 /\ s.kind # 2 /\ LastMoment(id) < now
  <2> SUFFICES ASSUME HasMeaning(id)
               PROVE  /\ s.kind # 0
                      /\ d.outcome # 0 => (outcome = 1 <=> HoldsNow(id))
                      /\ d.outcome = 0 => outcome = 2 /\ s.kind # 2 /\ LastMoment(id) < now
    OBVIOUS
  <2>1. s.kind # 0
    BY <1>1, MomentKnown DEF s
  <2>2. outcome \in Evaluations(id) /\ OperandInv(id)
    BY <1>1, <2>1 DEF Good, s
  <2> QED BY <1>1, <2>1, <2>2, EvaluationFacts DEF s, d
<1>7. HasMeaning(id) /\ d.outcome # 0 => statements'[Subject(id)] = d
  <2>1. HasMeaning(id) => Subject(id) \in DOMAIN statements
    BY <1>1, <1>6, SubjectKnown DEF s
  <2> QED BY <1>2, <2>1 DEF d
<1>8. NoIsFounded(id)'
  BY <1>2, <1>3, <1>6, <1>7 DEF NoIsFounded
<1>9. Means(id)'
  <2> SUFFICES ASSUME HasMeaning(id)
               PROVE  outcome = 1 <=> HoldsNow(id)'
    BY <1>2, <1>3 DEF Means
  <2>1. CASE d.outcome # 0
    <3>1. HoldsNow(id)' <=> HoldsNow(id)
      BY <1>2, <1>7, <2>1 DEF HoldsNow, Subject, s, d, HasMeaning
    <3> QED BY <1>6, <2>1, <3>1
  <2>2. CASE d.outcome = 0
    <3>1. outcome = 2 /\ s.kind # 2 /\ ~(now <= LastMoment(id))
      BY <1>1, <1>6, <2>2, MomentKnown DEF TypeOK
    <3>2. statements'[Subject(id)].outcome = 0 \/ statements'[Subject(id)].resolvedAt = now
      <4>1. Subject(id) \in DOMAIN statements
        BY <1>1, <1>6, SubjectKnown DEF s
      <4> QED BY <1>2, <2>2, <4>1 DEF d
    <3>3. ~HoldsNow(id)'
      BY <1>1, <1>2, <3>1, <3>2 DEF HoldsNow, Subject, LastMoment, HasMeaning, Good, OperandInv, s
    <3> QED BY <3>1, <3>3
  <2> QED BY <2>1, <2>2
<1> QED BY <1>4, <1>5, <1>8, <1>9 DEF Good

LEMMA ResolveGood ==
  ASSUME IInv, NEW id \in DOMAIN statements, statements[id].outcome = 0,
         NEW outcome \in 1..2, Resolve(id, outcome),
         statements[id].kind # 0 => outcome \in Evaluations(id),
         UNCHANGED <<now, profiles, operators, statementIds, statementOperator,
                     operationParams, judge>>
  PROVE  IInv'
<1>1. TypeOK
  BY DEF IInv
<1>2. TypeOK'
  BY <1>1, ResolveType
<1>3. DOMAIN statements' = DOMAIN statements
  BY <1>1, ResolveFacts
<1>4. Good(id)'
  BY <1>2, ResolveSelfGood
<1>5. ASSUME NEW y \in DOMAIN statements, y # id PROVE Good(y)'
  BY <1>2, <1>5, ResolveOthersGood
<1> QED BY <1>2, <1>3, <1>4, <1>5 DEF IInv

LEMMA NextGood == IInv /\ [Next]_vars => IInv'
<1> SUFFICES ASSUME IInv, [Next]_vars PROVE IInv'
  OBVIOUS
<1>1. CASE Governance
  BY <1>1, GovernanceGood
<1>2. CASE Creation
  BY <1>2, RegisterGood, RegisterDerivedGood, RegisterOperationGood DEF Creation
<1>3. ASSUME NEW id \in DOMAIN statements, NEW outcome \in 1..2, SubmitProof(id, outcome)
      PROVE  IInv'
  BY <1>3, ResolveGood DEF SubmitProof, governanceVars, operationVars
<1>4. ASSUME NEW id \in DOMAIN statements, ResolveDerived(id)
      PROVE  IInv'
  <2>1. PICK result \in Evaluations(id) : result \in 1..2 /\ Resolve(id, result)
    BY <1>4 DEF ResolveDerived
  <2> QED BY <1>4, <2>1, ResolveGood DEF ResolveDerived, governanceVars, operationVars
<1>5. CASE Tick
  BY <1>5, TickGood
<1>6. CASE UNCHANGED vars
  <2>1. TypeOK'
    BY <1>6 DEF IInv, TypeOK, vars
  <2>2. ASSUME NEW id \in DOMAIN statements PROVE Good(id)'
    <3>1. UNCHANGED <<now, profiles, operators, statements, statementOperator,
                      operationParams, judge>> /\ now <= now'
      BY <1>6 DEF vars, IInv, TypeOK
    <3> QED BY <2>1, <3>1, Frame
  <2> QED BY <1>6, <2>1, <2>2 DEF IInv, vars
<1> QED BY <1>1, <1>2, <1>3, <1>4, <1>5, <1>6 DEF Next

LEMMA Inductive == Spec => []IInv
BY InitGood, NextGood, PTL DEF Spec

(* Derived verdicts are right and stay right: YES is recorded exactly when *)
(* the statement holds of its dependency, whatever resolves afterwards.    *)
THEOREM VerdictsStand == Spec => []DerivedMeaning
<1>1. IInv => DerivedMeaning
  BY DEF IInv, Good, Means, DerivedMeaning
<1> QED BY <1>1, Inductive, PTL

(* No governance transaction replaces the verifier or the operator that    *)
(* admitted a statement.                                                   *)
THEOREM JudgesStand == Spec => []JudgeIsFixed
<1>1. IInv => JudgeIsFixed
  BY DEF IInv, Good, JudgeInv, JudgeIsFixed
<1> QED BY <1>1, Inductive, PTL

(* Every recorded verdict was given by the code that admitted the          *)
(* statement, and is right for ever.                                       *)
THEOREM VerdictsAndJudges == Spec => []VerdictsAreRight
<1>1. JudgeIsFixed /\ DerivedMeaning => VerdictsAreRight
  BY DEF VerdictsAreRight
<1> QED BY <1>1, VerdictsStand, JudgesStand, PTL

(* Two registered derived statements never ask the same question: the id   *)
(* is made of the operands the kind uses and of nothing else.              *)
THEOREM QuestionsHaveOneId == Spec => []OneIdPerQuestion
<1>1. IInv => OneIdPerQuestion
  <2> SUFFICES ASSUME IInv, NEW a \in DOMAIN statements, NEW b \in DOMAIN statements,
                      a # b, statements[a].kind \in 1..3,
                      statements[a].kind = statements[b].kind,
                      statements[a].dependency = statements[b].dependency,
                      statements[a].kind = 1 \/ statements[a].expected = statements[b].expected
               PROVE  statements[a].kind # 2 /\ statements[a].deadline # statements[b].deadline
    BY DEF OneIdPerQuestion
  <2>1. OperandInv(a) /\ OperandInv(b)
    BY DEF IInv, Good
  <2>2. statements[a].expected = statements[b].expected
    BY <2>1 DEF OperandInv
  <2>3. statements[a].deadline # statements[b].deadline
    BY <2>1, <2>2 DEF OperandInv
  <2>4. statements[a].kind # 2
    BY <2>1, <2>3 DEF OperandInv
  <2> QED BY <2>3, <2>4
<1> QED BY <1>1, Inductive, PTL

-----------------------------------------------------------------------------
(* Refinement *)

Verdicts == [id \in DOMAIN statements |-> statements[id].outcome]

LEMMA InitOracle == Init => Oracle!OracleInit
BY DEF Init, Oracle!OracleInit, Oracle!NoPayout

(* Registering a statement opens its question. *)
LEMMA CreateOpens ==
  ASSUME TypeOK, NEW id, NEW s, NEW by, s.outcome = 0, CreateStatement(id, s, by)
  PROVE  Oracle!OracleNext
<1>1. /\ id \notin DOMAIN statements
      /\ statements' = Extend(statements, id, s)
      /\ payouts' = Extend(payouts, id, Oracle!NoPayout)
  BY DEF CreateStatement, Known
<1>2. DOMAIN statements' = DOMAIN statements \cup {id}
  BY <1>1 DEF Extend
<1>3. DOMAIN Verdicts = DOMAIN statements /\ DOMAIN Verdicts' = DOMAIN statements'
  BY DEF Verdicts
<1>4. Verdicts' = Oracle!Extend(Verdicts, id, 0)
  BY <1>1, <1>2 DEF Extend, Oracle!Extend, Verdicts
<1>5. payouts' = Oracle!Extend(payouts, id, Oracle!NoPayout)
  BY <1>1 DEF Extend, Oracle!Extend
<1>6. Oracle!Open(id)
  BY <1>1, <1>3, <1>4, <1>5 DEF Oracle!Open, Verdicts
<1>7. id \in DOMAIN Verdicts' \ DOMAIN Verdicts
  BY <1>1, <1>2, <1>3
<1> QED BY <1>6, <1>7 DEF Oracle!OracleNext, Verdicts

(* Recording an outcome answers the question and pays the same side. *)
LEMMA ResolveAnswers ==
  ASSUME TypeOK, NEW id \in DOMAIN statements, statements[id].outcome = 0,
         NEW outcome \in 1..2, Resolve(id, outcome)
  PROVE  Oracle!OracleNext
<1>1. /\ DOMAIN statements' = DOMAIN statements
      /\ \A y \in DOMAIN statements : y # id => statements'[y] = statements[y]
      /\ statements'[id].outcome = outcome
      /\ payouts' = [payouts EXCEPT ![id] = IF outcome = 1 THEN <<1, 0>> ELSE <<0, 1>>]
  BY ResolveFacts
<1>2. Verdicts' = [Verdicts EXCEPT ![id] = outcome]
  BY <1>1 DEF Verdicts
<1>3. payouts' = [payouts EXCEPT ![id] = Oracle!PayoutFor(outcome)]
  BY <1>1 DEF Oracle!PayoutFor
<1>4. DOMAIN Verdicts = DOMAIN statements /\ Verdicts[id] = 0
  BY DEF Verdicts
<1>5. Oracle!Answer(id, outcome)
  BY <1>2, <1>3, <1>4 DEF Oracle!Answer, Verdicts
<1> QED BY <1>4, <1>5 DEF Oracle!OracleNext, Verdicts

LEMMA StepOracle == TypeOK /\ [Next]_vars => [Oracle!OracleNext]_(Oracle!oracleVars)
<1> SUFFICES ASSUME TypeOK, [Next]_vars PROVE [Oracle!OracleNext]_(Oracle!oracleVars)
  OBVIOUS
<1>1. CASE UNCHANGED <<statements, payouts>>
  BY <1>1 DEF Oracle!oracleVars
<1>2. CASE Governance
  BY <1>1, <1>2 DEF Governance, SetProfile, SetOperator
<1>3. CASE Creation
  <2>1. ASSUME NEW g \in Goals, NEW p \in ProfileIds, Register(g, p)
        PROVE  Oracle!OracleNext
    BY <2>1, CreateOpens DEF Register, Unresolved
  <2>2. ASSUME NEW dep, NEW kind \in 0..4, NEW expected \in 0..3, NEW d \in Deadlines,
               RegisterDerived(dep, kind, expected, d)
        PROVE  Oracle!OracleNext
    BY <2>2, CreateOpens DEF RegisterDerived, Unresolved
  <2>3. ASSUME NEW o \in OperatorIds, NEW params, RegisterOperation(o, params)
        PROVE  Oracle!OracleNext
    BY <2>3, CreateOpens DEF RegisterOperation, Unresolved
  <2> QED BY <1>3, <2>1, <2>2, <2>3 DEF Creation
<1>4. ASSUME NEW id \in DOMAIN statements, NEW outcome \in 1..2, SubmitProof(id, outcome)
      PROVE  Oracle!OracleNext
  BY <1>4, ResolveAnswers DEF SubmitProof
<1>5. ASSUME NEW id \in DOMAIN statements, ResolveDerived(id)
      PROVE  Oracle!OracleNext
  BY <1>5, ResolveAnswers DEF ResolveDerived
<1>6. CASE Tick
  BY <1>1, <1>6 DEF Tick
<1>7. CASE UNCHANGED vars
  BY <1>1, <1>7 DEF vars
<1> QED BY <1>2, <1>3, <1>4, <1>5, <1>6, <1>7 DEF Next

(* The registry and the CTF's payout table implement the one-shot oracle   *)
(* that markets, hooks and redemption are written against.                 *)
THEOREM RegistryImplementsOracle == Spec => ImplementsOracle
<1>1. Init => Oracle!OracleInit
  BY InitOracle
<1>2. TypeOK /\ [Next]_vars => [Oracle!OracleNext]_(Oracle!oracleVars)
  BY StepOracle
<1> QED BY <1>1, <1>2, TypeCorrect, PTL DEF Spec, ImplementsOracle, Oracle!OracleSpec

HIDE RegistryAssumption

-----------------------------------------------------------------------------
(***************************************************************************)
(* For any users, statements and numbers of attestations: the entries of   *)
(* the contract are those a reader rebuilds from the log, and what is      *)
(* written on the page follows what was shown on it.                       *)
(***************************************************************************)

(* The greatest member of a set of numbers. *)
Top(S, m) == m \in S /\ \A x \in S : x <= m

LEMMA TopIsMax ==
  ASSUME NEW S \in SUBSET Int, NEW m, Top(S, m)
  PROVE  Max(S) = m
<1>1. m \in S /\ \A x \in S : m >= x
  BY DEF Top
<1>2. \A y \in S : (\A x \in S : y >= x) => y = m
  BY <1>1
<1> QED BY <1>1, <1>2 DEF Max

-----------------------------------------------------------------------------
(* The log *)

IsAttestation(a) ==
  a \in [schema : {a.schema}, attester : {a.attester}, kind : {a.kind},
         statement : {a.statement}, root : {a.root}, parent : {a.parent},
         previous : {a.previous}, deleted : {a.deleted}, text : {a.text},
         value : {a.value}, seen : {a.seen}]

(* All that a stored attestation shares with the one that was sent. *)
SameFields(a, b) ==
  /\ b.schema = a.schema /\ b.attester = a.attester /\ b.kind = a.kind
  /\ b.statement = a.statement /\ b.root = a.root /\ b.parent = a.parent
  /\ b.previous = a.previous /\ b.deleted = a.deleted /\ b.seen = a.seen
  /\ b.value = a.value

IsLog == attestations \in Seq({attestations[uid] : uid \in Uids})

(* The log is longer by one, and otherwise as it was. *)
Grows ==
  /\ Len(attestations) \in Nat /\ Len(attestations') = Len(attestations) + 1
  /\ \A uid \in 1..Len(attestations) : attestations'[uid] = attestations[uid]

LEMMA Length == IsLog => Len(attestations) \in Nat /\ Uids = 1..Len(attestations)
BY DEF IsLog, Uids

LEMMA Stored ==
  ASSUME IsLog, NEW a, IsAttestation(a), Store(a)
  PROVE  /\ Grows /\ IsLog'
         /\ IsAttestation(attestations'[Uid]) /\ SameFields(a, attestations'[Uid])
         /\ attestations'[Uid].text # 0
         /\ a.text # 0 => attestations'[Uid].text = a.text
<1> DEFINE b == IF a.text = 0 THEN [a EXCEPT !.text = Len(attestations) + 1] ELSE a
           S == {attestations[uid] : uid \in Uids}
<1>1. attestations' = Append(attestations, b)
  BY DEF Store
<1>2. attestations \in Seq(S) /\ attestations \in Seq(S \cup {b})
  BY DEF IsLog
<1>3. Len(attestations) \in Nat
  BY <1>2
<1>4. attestations' \in Seq(S \cup {b}) /\ Len(attestations') = Len(attestations) + 1
  BY <1>1, <1>2
<1>5. \A uid \in 1..Len(attestations) : attestations'[uid] = attestations[uid]
  BY <1>1, <1>2
<1>6. attestations'[Uid] = b
  BY <1>1, <1>2 DEF Uid
<1>7. IsLog'
  <2>1. Uids' = 1..(Len(attestations) + 1) /\ Uids = 1..Len(attestations)
    BY <1>2, <1>4 DEF Uids
  <2>2. S \cup {b} = {attestations'[uid] : uid \in Uids'}
    BY <2>1, <1>3, <1>5, <1>6 DEF Uid
  <2> QED BY <2>2, <1>4 DEF IsLog
<1>8. IsAttestation(b) /\ SameFields(a, b) /\ b.text # 0 /\ (a.text # 0 => b.text = a.text)
  <2>1. CASE a.text = 0
    BY <2>1, <1>3 DEF IsAttestation, SameFields
  <2>2. CASE a.text # 0
    BY <2>2 DEF IsAttestation, SameFields
  <2> QED BY <2>1, <2>2
<1> QED BY <1>3, <1>4, <1>5, <1>6, <1>7, <1>8 DEF Grows

(* What was read of the first n attestations is read of them for ever. *)
LEMMA PrefixStays ==
  ASSUME Grows
  PROVE  \A n \in 0..Len(attestations) :
           /\ Roots(n)' = Roots(n)
           /\ \A root : Revisions(root, n)' = Revisions(root, n)
BY DEF Grows, Roots, Revisions, RootOf

LEMMA NewRoots ==
  ASSUME Grows, NEW n, n = Uid
  PROVE  LET b == attestations'[n]
         IN Roots(n)' = IF b.schema = "entry" /\ b.root = 0
                        THEN Roots(Len(attestations)) \cup {n}
                        ELSE Roots(Len(attestations))
BY DEF Grows, Roots, Uid

LEMMA NewRevisions ==
  ASSUME Grows, NEW n, n = Uid, NEW root
  PROVE  LET b == attestations'[n]
         IN Revisions(root, n)' =
              IF b.schema = "entry" /\ (IF b.root = 0 THEN n = root ELSE b.root = root)
              THEN Revisions(root, Len(attestations)) \cup {n}
              ELSE Revisions(root, Len(attestations))
BY DEF Grows, Revisions, RootOf, Uid

-----------------------------------------------------------------------------
(* One line of revisions *)

SameEntryAs(a, b) ==
  /\ a.attester = b.attester /\ a.kind = b.kind
  /\ a.statement = b.statement /\ a.parent = b.parent

(* A revision replaces the latest one of an entry, by the entry's author   *)
(* and without changing what the entry is.                                 *)
Follows(a, n) ==
  a.schema = "entry" /\ a.root # 0 =>
    /\ a.root \in Roots(n)
    /\ Top(Revisions(a.root, n), a.previous)
    /\ SameEntryAs(a, attestations[a.root])

LogInv ==
  /\ IsLog
  /\ \A uid \in 1..Len(attestations) :
       /\ IsAttestation(attestations[uid])
       /\ attestations[uid].text # 0
       /\ Follows(attestations[uid], uid - 1)
  /\ \A n \in 0..Len(attestations) : \A root \in Roots(n) :
       \E m : Top(Revisions(root, n), m)

(* The contract's record of an entry. *)
EntryInv(root) ==
  LET e == entries[root]
  IN /\ e \in [author : {e.author}, latest : {e.latest}, statement : {e.statement},
               parent : {e.parent}, context : {e.context}, kind : {e.kind},
               deleted : {e.deleted}]
     /\ Top(Revisions(root, Len(attestations)), e.latest)
     /\ e.author = attestations[root].attester /\ e.kind = attestations[root].kind
     /\ e.statement = attestations[root].statement /\ e.parent = attestations[root].parent
     /\ e.deleted = attestations[e.latest].deleted

EntriesInv ==
  /\ entries = [root \in DOMAIN entries |-> entries[root]]
  /\ DOMAIN entries = Roots(Len(attestations))
  /\ \A root \in DOMAIN entries : EntryInv(root)

SocialInv == LogInv /\ EntriesInv

LEMMA RevisionsRange ==
  LogInv => \A n \in 0..Len(attestations) :
              /\ Roots(n) \subseteq 1..n
              /\ \A root : Revisions(root, n) \subseteq 1..n
BY DEF Roots, Revisions

LEMMA MoreOfTheLog ==
  LogInv => \A n \in 0..Len(attestations) : \A k \in n..Len(attestations) :
              /\ Roots(n) \subseteq Roots(k)
              /\ \A root : Revisions(root, n) \subseteq Revisions(root, k)
<1> SUFFICES ASSUME LogInv, NEW n \in 0..Len(attestations), NEW k \in n..Len(attestations)
             PROVE  /\ Roots(n) \subseteq Roots(k)
                    /\ \A root : Revisions(root, n) \subseteq Revisions(root, k)
  OBVIOUS
<1>1. Len(attestations) \in Nat
  BY Length DEF LogInv
<1>2. 1..n \subseteq 1..k
  BY <1>1
<1> QED BY <1>2 DEF Roots, Revisions

(* A row is what the latest revision read says, and the entry it is of     *)
(* does not change.                                                        *)
LEMMA RowFacts ==
  LogInv => \A n \in 0..Len(attestations) : \A root \in Roots(n) :
              /\ Top(Revisions(root, n), Row(root, n).uid)
              /\ Row(root, n).deleted = attestations[Row(root, n).uid].deleted
              /\ Row(root, n).author = attestations[root].attester
              /\ Row(root, n).kind = attestations[root].kind
              /\ Row(root, n).statement = attestations[root].statement
              /\ Row(root, n).parent = attestations[root].parent
<1> SUFFICES ASSUME LogInv, NEW n \in 0..Len(attestations), NEW root \in Roots(n)
             PROVE  /\ Top(Revisions(root, n), Row(root, n).uid)
                    /\ Row(root, n).deleted = attestations[Row(root, n).uid].deleted
                    /\ Row(root, n).author = attestations[root].attester
                    /\ Row(root, n).kind = attestations[root].kind
                    /\ Row(root, n).statement = attestations[root].statement
                    /\ Row(root, n).parent = attestations[root].parent
  OBVIOUS
<1>1. Len(attestations) \in Nat
  BY Length DEF LogInv
<1>2. PICK m : Top(Revisions(root, n), m)
  BY DEF LogInv
<1>3. Revisions(root, n) \in SUBSET Int
  BY <1>1, RevisionsRange
<1>4. Max(Revisions(root, n)) = m
  BY <1>2, <1>3, TopIsMax
<1>5. m \in 1..n /\ m \in 1..Len(attestations)
  BY <1>1, <1>2, RevisionsRange DEF Top
<1>6. attestations[m].schema = "entry" /\ RootOf(m) = root
  BY <1>2 DEF Top, Revisions
<1>7. m = root \/ SameEntryAs(attestations[m], attestations[root])
  <2>1. Follows(attestations[m], m - 1)
    BY <1>5 DEF LogInv
  <2> QED BY <2>1, <1>6 DEF Follows, RootOf
<1>8. Row(root, n).uid = m /\ Row(root, n).deleted = attestations[m].deleted
  BY <1>4 DEF Row
<1>9. /\ Row(root, n).author = attestations[m].attester
      /\ Row(root, n).kind = attestations[m].kind
      /\ Row(root, n).statement = attestations[m].statement
      /\ Row(root, n).parent = attestations[m].parent
  BY <1>4 DEF Row
<1> QED BY <1>2, <1>7, <1>8, <1>9 DEF SameEntryAs

LEMMA Rebuilt == SocialInv => EntriesAreRebuilt
<1> SUFFICES ASSUME SocialInv PROVE EntriesAreRebuilt
  OBVIOUS
<1> DEFINE n == Len(attestations)
<1>1. n \in Nat
  BY Length DEF SocialInv, LogInv
<1>2. ASSUME NEW root \in Roots(n)
      PROVE  entries[root].latest = Row(root, n).uid
  <2>1. Top(Revisions(root, n), entries[root].latest)
    BY DEF SocialInv, EntriesInv, EntryInv
  <2>2. Top(Revisions(root, n), Row(root, n).uid)
    BY <1>1, RowFacts DEF SocialInv
  <2>3. Revisions(root, n) \subseteq Int
    BY <1>1, RevisionsRange DEF SocialInv
  <2> QED BY <2>1, <2>2, <2>3 DEF Top
<1>3. ASSUME NEW root \in Roots(n)
      PROVE  /\ entries[root].author = Row(root, n).author
             /\ entries[root].deleted = Row(root, n).deleted
             /\ entries[root].kind = Row(root, n).kind
             /\ entries[root].statement = Row(root, n).statement
             /\ entries[root].parent = Row(root, n).parent
  BY <1>1, <1>2, RowFacts DEF SocialInv, EntriesInv, EntryInv
<1> QED BY <1>2, <1>3 DEF EntriesAreRebuilt, SocialInv, EntriesInv

-----------------------------------------------------------------------------
(* An accepted attestation *)

LEMMA LogGrows ==
  ASSUME LogInv, NEW a, IsAttestation(a), Store(a), Follows(a, Len(attestations))
  PROVE  LogInv'
<1> DEFINE n == Len(attestations)
<1>1. /\ Grows /\ IsLog' /\ n \in Nat
      /\ IsAttestation(attestations'[Uid]) /\ SameFields(a, attestations'[Uid])
      /\ attestations'[Uid].text # 0
  BY Stored, Length DEF LogInv
<1>2. Uid = n + 1 /\ Len(attestations') = n + 1
  BY <1>1 DEF Uid, Grows
<1>3. \A k \in 0..n : /\ Roots(k)' = Roots(k)
                      /\ \A root : Revisions(root, k)' = Revisions(root, k)
  BY <1>1, PrefixStays
<1>4. ASSUME NEW k \in 0..n, NEW b, Follows(b, k), NEW c, SameFields(b, c)
      PROVE  Follows(c, k)'
  <2> SUFFICES ASSUME c.schema = "entry", c.root # 0
               PROVE  /\ c.root \in Roots(k)'
                      /\ Top(Revisions(c.root, k)', c.previous)
                      /\ SameEntryAs(c, attestations'[c.root])
    BY DEF Follows, Top, SameEntryAs
  <2>1. /\ c.root \in Roots(k) /\ Top(Revisions(c.root, k), c.previous)
        /\ SameEntryAs(c, attestations[c.root])
    BY <1>4 DEF Follows, SameFields, SameEntryAs
  <2>2. c.root \in 1..n
    BY <2>1, <1>1 DEF Roots
  <2> QED BY <2>1, <2>2, <1>1, <1>3 DEF Grows
<1>5. ASSUME NEW uid \in 1..(n + 1), NEW c, c = attestations'[uid],
             NEW b, SameFields(b, c), Follows(b, uid - 1)
      PROVE  Follows(attestations[uid], uid - 1)'
  <2>1. uid - 1 \in 0..n
    BY <1>1
  <2>2. Follows(c, uid - 1)'
    BY <2>1, <1>4, <1>5
  <2> QED BY <2>2, <1>5 DEF Follows, Revisions, RootOf, Roots, Top, SameEntryAs
<1>6. ASSUME NEW uid \in 1..(n + 1)
      PROVE  /\ IsAttestation(attestations[uid])'
             /\ attestations'[uid].text # 0
             /\ Follows(attestations[uid], uid - 1)'
  <2>1. CASE uid = n + 1
    <3>1. SameFields(a, attestations'[uid]) /\ Follows(a, uid - 1)
      BY <2>1, <1>1, <1>2
    <3>2. Follows(attestations[uid], uid - 1)'
      BY <3>1, <1>5
    <3> QED BY <2>1, <3>2, <1>1, <1>2 DEF IsAttestation
  <2>2. CASE uid \in 1..n
    <3>1. attestations'[uid] = attestations[uid]
      BY <2>2, <1>1 DEF Grows
    <3>2. IsAttestation(attestations[uid]) /\ Follows(attestations[uid], uid - 1)
          /\ attestations[uid].text # 0
      BY <2>2 DEF LogInv
    <3>3. SameFields(attestations[uid], attestations'[uid])
      BY <3>1 DEF SameFields
    <3>4. Follows(attestations[uid], uid - 1)'
      BY <3>2, <3>3, <1>5
    <3> QED BY <3>1, <3>2, <3>4 DEF IsAttestation
  <2> QED BY <2>1, <2>2, <1>1
<1>7. ASSUME NEW k \in 0..(n + 1), NEW root, root \in Roots(k)'
      PROVE  \E m : Top(Revisions(root, k)', m)
  <2>1. CASE k \in 0..n
    BY <2>1, <1>3, <1>7 DEF LogInv
  <2>2. CASE k = n + 1
    <3>1. CASE n + 1 \in Revisions(root, k)'
      <4>1. Revisions(root, k)' \subseteq 1..(n + 1)
        BY <2>2 DEF Revisions
      <4>2. Top(Revisions(root, k)', n + 1)
        BY <3>1, <4>1, <1>1 DEF Top
      <4> QED BY <4>2
    <3>2. CASE n + 1 \notin Revisions(root, k)'
      <4>1. k = Uid
        BY <2>2, <1>2
      <4>2. Revisions(root, k)' = Revisions(root, n)
        BY <3>2, <4>1, <1>1, <1>2, NewRevisions
      <4>3. root \in Roots(n) \/ root = n + 1
        BY <4>1, <1>1, <1>2, <1>7, NewRoots
      <4>4. root # n + 1
        BY <3>2, <2>2, <1>1, <1>7, <4>1, <1>2, NewRevisions DEF Roots
      <4> QED BY <4>2, <4>3, <4>4, <1>1 DEF LogInv
    <3> QED BY <3>1, <3>2
  <2> QED BY <2>1, <2>2, <1>1
<1>8. \A uid \in 1..Len(attestations') :
        /\ IsAttestation(attestations[uid])' /\ attestations'[uid].text # 0
        /\ Follows(attestations[uid], uid - 1)'
  BY <1>2, <1>6
<1>9. \A k \in 0..Len(attestations') : \A root \in Roots(k)' :
        \E m : Top(Revisions(root, k)', m)
  BY <1>2, <1>7
<1> QED BY <1>1, <1>8, <1>9 DEF LogInv, Top

(* The resolver accepts a revision only if it continues the entry's line. *)
LEMMA AcceptedFollows ==
  ASSUME SocialInv, NEW a, Attest(a)
  PROVE  Store(a) /\ Follows(a, Len(attestations))
<1>1. CASE ReviseProfile(a)
  BY <1>1 DEF ReviseProfile, Follows
<1>2. CASE CreateEntry(a)
  BY <1>2 DEF CreateEntry, Follows
<1>3. CASE ReviseEntry(a)
  <2>1. a.root \in DOMAIN entries /\ EntryInv(a.root) /\ a.root \in Roots(Len(attestations))
    BY <1>3 DEF ReviseEntry, SocialInv, EntriesInv
  <2> QED BY <1>3, <2>1 DEF ReviseEntry, SameEntry, EntryInv, Follows, SameEntryAs
<1>4. CASE ReviseVote(a)
  BY <1>4 DEF ReviseVote, Follows
<1> QED BY <1>1, <1>2, <1>3, <1>4 DEF Attest

(* Profiles and votes leave the lines of entries alone. *)
LEMMA OthersKeepEntries ==
  ASSUME SocialInv, NEW b, Grows, b = attestations'[Uid], b.schema # "entry",
         entries' = entries
  PROVE  EntriesInv'
<1> DEFINE n == Len(attestations)
<1>1. n \in Nat /\ Len(attestations') = n + 1 /\ n + 1 = Uid
  BY DEF Grows, Uid
<1>2. ASSUME NEW k, k = n + 1
      PROVE  Roots(k)' = Roots(n) /\ \A root : Revisions(root, k)' = Revisions(root, n)
  BY <1>1, <1>2, NewRoots, NewRevisions
<1>3. Roots(Len(attestations))' = Roots(n)
  BY <1>1, <1>2
<1>4. ASSUME NEW root \in DOMAIN entries
      PROVE  EntryInv(root)'
  <2>1. EntryInv(root) /\ root \in 1..n
    BY <1>1 DEF SocialInv, EntriesInv, Roots
  <2>2. Revisions(root, Len(attestations))' = Revisions(root, n)
    BY <1>1, <1>2
  <2>3. entries[root].latest \in 1..n
    BY <2>1 DEF EntryInv, Top, Revisions
  <2>4. /\ attestations'[root] = attestations[root]
        /\ attestations'[entries[root].latest] = attestations[entries[root].latest]
    BY <2>1, <2>3 DEF Grows
  <2> QED BY <2>1, <2>2, <2>4 DEF EntryInv, Top
<1> QED BY <1>3, <1>4 DEF SocialInv, EntriesInv

LEMMA CreateKeepsEntries ==
  ASSUME SocialInv, NEW a, CreateEntry(a), Grows, SameFields(a, attestations'[Uid])
  PROVE  EntriesInv'
<1> DEFINE n == Len(attestations)
           b == attestations'[Uid]
<1>1. n \in Nat /\ Len(attestations') = n + 1 /\ n + 1 = Uid
  BY DEF Grows, Uid
<1>2. b.schema = "entry" /\ b.root = 0 /\ b.deleted = FALSE
  BY DEF CreateEntry, SameFields
<1>3. ASSUME NEW k, k = n + 1
      PROVE  /\ Roots(k)' = Roots(n) \cup {k}
             /\ \A root : root # k => Revisions(root, k)' = Revisions(root, n)
             /\ Revisions(k, k)' = Revisions(k, n) \cup {k}
  BY <1>1, <1>2, <1>3, NewRoots, NewRevisions
<1>4. DOMAIN entries = Roots(n) /\ Roots(n) \subseteq 1..n
  BY <1>1 DEF SocialInv, EntriesInv, Roots
<1>5. /\ DOMAIN entries' = DOMAIN entries \cup {n + 1}
      /\ entries' = [root \in DOMAIN entries' |-> entries'[root]]
      /\ \A root \in DOMAIN entries : entries'[root] = entries[root]
      /\ entries'[n + 1] =
           [author |-> a.attester, latest |-> n + 1, statement |-> a.statement,
            parent |-> a.parent, context |-> Context(a), kind |-> a.kind, deleted |-> FALSE]
  <2>1. n + 1 \notin DOMAIN entries
    BY <1>1, <1>4
  <2> QED BY <1>1, <2>1 DEF CreateEntry, Extend
<1>6. Roots(Len(attestations))' = DOMAIN entries'
  BY <1>1, <1>3, <1>4, <1>5
<1>7. ASSUME NEW root \in DOMAIN entries
      PROVE  EntryInv(root)'
  <2>1. EntryInv(root) /\ root \in 1..n
    BY <1>1, <1>4 DEF SocialInv, EntriesInv
  <2>2. Revisions(root, Len(attestations))' = Revisions(root, n)
    BY <1>1, <1>3, <2>1
  <2>3. entries[root].latest \in 1..n
    BY <2>1 DEF EntryInv, Top, Revisions
  <2>4. /\ attestations'[root] = attestations[root]
        /\ attestations'[entries[root].latest] = attestations[entries[root].latest]
    BY <2>1, <2>3 DEF Grows
  <2>5. entries'[root] = entries[root]
    BY <1>5
  <2> QED BY <2>1, <2>2, <2>4, <2>5 DEF EntryInv, Top
<1>8. ASSUME NEW k, k = n + 1
      PROVE  EntryInv(k)'
  <2>1. Revisions(k, Len(attestations))' = Revisions(k, n) \cup {k}
    BY <1>1, <1>3, <1>8
  <2>2. Revisions(k, n) \subseteq 1..n
    BY DEF Revisions
  <2>3. \A top : top = k => Top(Revisions(k, Len(attestations))', top)
    BY <2>1, <2>2, <1>1, <1>8 DEF Top
  <2>4. attestations'[k] = b
    BY <1>1, <1>8
  <2>5. /\ entries'[k].latest = k /\ entries'[k].deleted = FALSE
        /\ entries'[k].author = a.attester /\ entries'[k].kind = a.kind
        /\ entries'[k].statement = a.statement /\ entries'[k].parent = a.parent
        /\ entries'[k] \in
             [author : {entries'[k].author}, latest : {entries'[k].latest},
              statement : {entries'[k].statement}, parent : {entries'[k].parent},
              context : {entries'[k].context}, kind : {entries'[k].kind},
              deleted : {entries'[k].deleted}]
    BY <1>5, <1>8
  <2>6. Top(Revisions(k, Len(attestations))', entries'[k].latest)
    BY <2>3, <2>5
  <2> QED BY <2>4, <2>5, <2>6, <1>2 DEF EntryInv, SameFields, Top
<1>9. \A root \in DOMAIN entries' : EntryInv(root)'
  BY <1>5, <1>7, <1>8
<1> QED BY <1>5, <1>6, <1>9 DEF EntriesInv

LEMMA ReviseKeepsEntries ==
  ASSUME SocialInv, NEW a, ReviseEntry(a), Grows, SameFields(a, attestations'[Uid])
  PROVE  EntriesInv'
<1> DEFINE n == Len(attestations)
           b == attestations'[Uid]
<1>1. n \in Nat /\ Len(attestations') = n + 1 /\ n + 1 = Uid
  BY DEF Grows, Uid
<1>2. /\ DOMAIN entries = Roots(n) /\ Roots(n) \subseteq 1..n
      /\ a.root \in DOMAIN entries /\ EntryInv(a.root)
  BY <1>1 DEF SocialInv, EntriesInv, Roots, ReviseEntry
<1>3. b.schema = "entry" /\ b.root = a.root /\ b.root # 0 /\ b.deleted = a.deleted
  BY <1>1, <1>2 DEF ReviseEntry, SameFields
<1>4. ASSUME NEW k, k = n + 1
      PROVE  /\ Roots(k)' = Roots(n)
             /\ \A root : root # a.root => Revisions(root, k)' = Revisions(root, n)
             /\ \A root : root = a.root => Revisions(root, k)' = Revisions(root, n) \cup {k}
  BY <1>1, <1>3, <1>4, NewRoots, NewRevisions
<1>5. /\ DOMAIN entries' = DOMAIN entries
      /\ entries' = [root \in DOMAIN entries' |-> entries'[root]]
      /\ \A root \in DOMAIN entries : root # a.root => entries'[root] = entries[root]
      /\ entries'[a.root] = [entries[a.root] EXCEPT !.latest = n + 1, !.deleted = a.deleted]
  BY <1>1, <1>2 DEF ReviseEntry, SocialInv, EntriesInv
<1>6. Roots(Len(attestations))' = DOMAIN entries'
  BY <1>1, <1>2, <1>4, <1>5
<1>7. ASSUME NEW root \in DOMAIN entries, root # a.root
      PROVE  EntryInv(root)'
  <2>1. EntryInv(root) /\ root \in 1..n
    BY <1>1, <1>2 DEF SocialInv, EntriesInv
  <2>2. Revisions(root, Len(attestations))' = Revisions(root, n)
    BY <1>1, <1>4, <1>7
  <2>3. entries[root].latest \in 1..n
    BY <2>1 DEF EntryInv, Top, Revisions
  <2>4. /\ attestations'[root] = attestations[root]
        /\ attestations'[entries[root].latest] = attestations[entries[root].latest]
    BY <2>1, <2>3 DEF Grows
  <2>5. entries'[root] = entries[root]
    BY <1>5, <1>7
  <2> QED BY <2>1, <2>2, <2>4, <2>5 DEF EntryInv, Top
<1>8. ASSUME NEW root, root = a.root
      PROVE  EntryInv(root)'
  <2>1. Revisions(root, Len(attestations))' = Revisions(root, n) \cup {n + 1}
    BY <1>1, <1>4, <1>8
  <2>2. Revisions(root, n) \subseteq 1..n
    BY DEF Revisions
  <2>3. \A top : top = n + 1 => Top(Revisions(root, Len(attestations))', top)
    BY <2>1, <2>2, <1>1 DEF Top
  <2>4. attestations'[root] = attestations[root]
    BY <1>2, <1>8 DEF Grows
  <2>5. /\ entries'[root].latest = n + 1 /\ entries'[root].deleted = a.deleted
        /\ entries'[root].author = entries[root].author
        /\ entries'[root].kind = entries[root].kind
        /\ entries'[root].statement = entries[root].statement
        /\ entries'[root].parent = entries[root].parent
        /\ entries'[root] \in
             [author : {entries'[root].author}, latest : {entries'[root].latest},
              statement : {entries'[root].statement}, parent : {entries'[root].parent},
              context : {entries'[root].context}, kind : {entries'[root].kind},
              deleted : {entries'[root].deleted}]
    BY <1>2, <1>5, <1>8 DEF EntryInv
  <2>6. attestations'[entries'[root].latest].deleted = a.deleted
    BY <2>5, <1>1, <1>3
  <2>7. Top(Revisions(root, Len(attestations))', entries'[root].latest)
    BY <2>3, <2>5
  <2> QED BY <2>4, <2>5, <2>6, <2>7, <1>2, <1>8 DEF EntryInv, Top
<1>9. \A root \in DOMAIN entries' : EntryInv(root)'
  BY <1>5, <1>7, <1>8
<1> QED BY <1>5, <1>6, <1>9 DEF EntriesInv

LEMMA AttestKeeps ==
  ASSUME SocialInv, NEW a, IsAttestation(a), Attest(a)
  PROVE  SocialInv' /\ Grows
<1>1. Store(a) /\ Follows(a, Len(attestations))
  BY AcceptedFollows
<1>2. Grows /\ SameFields(a, attestations'[Uid])
  BY <1>1, Stored DEF SocialInv, LogInv
<1>3. LogInv'
  BY <1>1, LogGrows DEF SocialInv
<1>4. CASE ReviseProfile(a) \/ ReviseVote(a)
  <2>1. a.schema # "entry" /\ entries' = entries
    BY <1>4 DEF ReviseProfile, ReviseVote
  <2>2. attestations'[Uid].schema # "entry"
    BY <2>1, <1>2 DEF SameFields
  <2>3. EntriesInv'
    BY <2>1, <2>2, <1>2, OthersKeepEntries
  <2> QED BY <2>3, <1>2, <1>3 DEF SocialInv
<1>5. CASE CreateEntry(a)
  BY <1>5, <1>2, <1>3, CreateKeepsEntries DEF SocialInv
<1>6. CASE ReviseEntry(a)
  BY <1>6, <1>2, <1>3, ReviseKeepsEntries DEF SocialInv
<1> QED BY <1>4, <1>5, <1>6 DEF Attest

-----------------------------------------------------------------------------
(* The page *)

IsCall(t) ==
  t \in [fresh : BOOLEAN, step : {"read", "wallet", "receipt"}, attestation : {t.attestation}]

IsRead(r) ==
  r \in [fresh : BOOLEAN, page : {r.page}, post : {r.post}, from : {r.from}, ends : BOOLEAN]

(* What a transaction would revise is what its author saw. *)
Shows(a) ==
  a.seen # 0 =>
    /\ a.schema = "entry" /\ a.root \in Roots(Len(attestations))
    /\ a.previous = a.seen /\ a.seen \in Revisions(a.root, Len(attestations))

(* The text of a transaction that hides is that of no older revision. *)
KeepsText(a) ==
  a.seen # 0 /\ a.deleted =>
    \E k \in Revisions(a.root, Len(attestations)) :
      a.seen <= k /\ a.text = attestations[k].text

CallInv(t) ==
  /\ IsCall(t) /\ IsAttestation(t.attestation)
  /\ Shows(t.attestation)
  /\ t.step = "wallet" => KeepsText(t.attestation)
  /\ t.step # "wallet" => t.fresh

(* A refresh that still counts is of the page, and of a post of its blog.  *)
ReadInv(r) ==
  /\ IsRead(r) /\ r.from \in 0..Len(attestations)
  /\ r.fresh => /\ r.page = page
                /\ r.post # 0 => page \in Users /\ r.post \in Blog(page, r.from)

ListsInv ==
  /\ posts.at \in 0..Len(attestations) /\ rows.at \in 0..Len(attestations)
  /\ posts.page \in {None, page} /\ rows.page \in {None, page}
  /\ selected # 0 => selected \in DisplayedPosts

ComposerInv ==
  composer.for = "edit" =>
    /\ composer.root \in Roots(Len(attestations))
    /\ composer.uid \in Revisions(composer.root, Len(attestations))

(* Of transactions and of refreshes that end one, one at a time counts.    *)
TurnInv ==
  /\ busy \in BOOLEAN
  /\ \A t, u \in acts : t.fresh /\ u.fresh => t = u
  /\ \A q, r \in reads : q.fresh /\ q.ends /\ r.fresh /\ r.ends => q = r
  /\ \A t \in acts : t.fresh => busy
  /\ \A r \in reads : r.fresh /\ r.ends => busy /\ \A t \in acts : ~t.fresh

(* What was written after something seen. *)
SeenInv ==
  \A uid \in 1..Len(attestations) :
    LET a == attestations[uid]
    IN a.seen # 0 =>
         /\ a.schema = "entry" /\ a.root # 0 /\ a.previous = a.seen
         /\ a.deleted => a.text = attestations[a.seen].text

CallsInv == (\A t \in acts : CallInv(t)) /\ (\A r \in reads : ReadInv(r))

ScreenInv == ListsInv /\ ComposerInv

PanelInv == SocialInv /\ SeenInv /\ ScreenInv /\ CallsInv /\ TurnInv

(* A blog is the posts of its owner, whatever became of them. *)
BlogsAreOwn ==
  \A n \in 0..Len(attestations) : \A u :
    Blog(u, n) = {r \in Roots(n) : attestations[r].kind = Post /\ attestations[r].attester = u}

LEMMA BlogIs == LogInv => BlogsAreOwn
<1> SUFFICES ASSUME LogInv, NEW n \in 0..Len(attestations), NEW u
             PROVE  Blog(u, n) = {r \in Roots(n) : /\ attestations[r].kind = Post
                                                   /\ attestations[r].attester = u}
  BY DEF BlogsAreOwn
<1>1. \A r \in Roots(n) : /\ Row(r, n).kind = attestations[r].kind
                          /\ Row(r, n).author = attestations[r].attester
  BY RowFacts
<1> QED BY <1>1 DEF Blog

LEMMA BlogIsThen == LogInv' => BlogsAreOwn'
BY BlogIs, PTL

LEMMA MoreOfTheBlog ==
  LogInv => \A n \in 0..Len(attestations) : \A k \in n..Len(attestations) : \A u :
              Blog(u, n) \subseteq Blog(u, k)
<1> SUFFICES ASSUME LogInv, NEW n \in 0..Len(attestations), NEW k \in n..Len(attestations), NEW u
             PROVE  Blog(u, n) \subseteq Blog(u, k)
  OBVIOUS
<1>1. Len(attestations) \in Nat
  BY Length DEF LogInv
<1>2. k \in 0..Len(attestations) /\ Roots(n) \subseteq Roots(k)
  BY <1>1, MoreOfTheLog
<1> QED BY <1>2, BlogIs DEF BlogsAreOwn

LEMMA BlogStays ==
  ASSUME LogInv, LogInv', Grows
  PROVE  \A n \in 0..Len(attestations) : \A u : Blog(u, n)' = Blog(u, n)
<1> SUFFICES ASSUME NEW n \in 0..Len(attestations), NEW u
             PROVE  Blog(u, n)' = Blog(u, n)
  OBVIOUS
<1>1. Roots(n)' = Roots(n) /\ Roots(n) \subseteq 1..Len(attestations)
  BY PrefixStays DEF Roots, Grows
<1>2. Blog(u, n) = {r \in Roots(n) : attestations[r].kind = Post /\ attestations[r].attester = u}
  BY BlogIs DEF BlogsAreOwn
<1>3. n \in 0..Len(attestations')
  BY DEF Grows
<1>4. Blog(u, n)' = {r \in Roots(n)' : attestations'[r].kind = Post /\ attestations'[r].attester = u}
  BY <1>3, BlogIsThen DEF BlogsAreOwn
<1> QED BY <1>1, <1>2, <1>4 DEF Grows

(* Revisions on the page follow the screen. *)
LEMMA Followed == LogInv /\ SeenInv => RevisionsFollowTheScreen
<1> SUFFICES ASSUME LogInv, SeenInv, NEW uid \in Uids, attestations[uid].seen # 0
             PROVE  LET a == attestations[uid]
                    IN /\ a.seen = Max({r \in Revisions(a.root, uid) : r # uid})
                       /\ a.deleted => a.text = attestations[a.seen].text
  BY DEF RevisionsFollowTheScreen
<1> DEFINE a == attestations[uid]
<1>1. uid \in 1..Len(attestations) /\ Len(attestations) \in Nat
  BY Length DEF LogInv
<1>2. Top(Revisions(a.root, uid - 1), a.seen) /\ (a.deleted => a.text = attestations[a.seen].text)
  BY <1>1 DEF LogInv, SeenInv, Follows
<1>3. {r \in Revisions(a.root, uid) : r # uid} = Revisions(a.root, uid - 1)
  BY <1>1 DEF Revisions
<1>4. Revisions(a.root, uid - 1) \in SUBSET Int
  BY <1>1 DEF Revisions
<1>5. Max(Revisions(a.root, uid - 1)) = a.seen
  BY <1>2, <1>4, TopIsMax
<1> QED BY <1>2, <1>3, <1>5

LEMMA OneTurn == PanelInv => OneAtATime
<1> SUFFICES ASSUME PanelInv PROVE OneAtATime
  OBVIOUS
<1> DEFINE F == {t \in acts : t.fresh}
<1>1. \A t, u \in F : t = u
  BY DEF PanelInv, TurnInv
<1>2. Cardinality(F) <= 1
  <2>1. CASE F = {}
    BY <2>1, FS_EmptySet
  <2>2. CASE F # {}
    <3>1. PICK t : F = {t}
      BY <2>2, <1>1
    <3> QED BY <3>1, FS_Singleton
  <2> QED BY <2>1, <2>2
<1> QED BY <1>2 DEF OneAtATime, PanelInv, TurnInv

LEMMA PanelTrue == PanelInv => PanelIsTrue
<1> SUFFICES ASSUME PanelInv PROVE PanelIsTrue
  OBVIOUS
<1>1. RevisionsFollowTheScreen
  BY Followed DEF PanelInv, SocialInv
<1>2. ListsAreOfThePage
  BY DEF PanelInv, ScreenInv, ListsInv, ListsAreOfThePage
<1> QED BY <1>1, <1>2, OneTurn DEF PanelIsTrue

-----------------------------------------------------------------------------
(* An attestation beside the page, or from it *)

LEMMA GrownLog ==
  ASSUME Grows
  PROVE  /\ Roots(Len(attestations)) \subseteq Roots(Len(attestations))'
         /\ \A root : Revisions(root, Len(attestations))
                        \subseteq Revisions(root, Len(attestations))'
<1>1. Len(attestations) \in Nat /\ Len(attestations') = Uid
  BY DEF Grows, Uid
<1>2. ASSUME NEW n, n = Uid
      PROVE  /\ Roots(Len(attestations)) \subseteq Roots(n)'
             /\ \A root : Revisions(root, Len(attestations)) \subseteq Revisions(root, n)'
  BY <1>2, NewRoots, NewRevisions
<1> QED BY <1>1, <1>2

LEMMA CallsStay ==
  ASSUME Grows, NEW t, CallInv(t)
  PROVE  CallInv(t)'
<1> DEFINE a == t.attestation
<1>1. Shows(a)'
  BY GrownLog DEF CallInv, Shows
<1>2. ASSUME KeepsText(a)
      PROVE  KeepsText(a)'
  <2> SUFFICES ASSUME a.seen # 0, a.deleted
               PROVE  \E k \in Revisions(a.root, Len(attestations))' :
                        a.seen <= k /\ a.text = attestations'[k].text
    BY DEF KeepsText
  <2>1. PICK k \in Revisions(a.root, Len(attestations)) :
               a.seen <= k /\ a.text = attestations[k].text
    BY <1>2 DEF KeepsText
  <2>2. k \in Revisions(a.root, Len(attestations))'
    BY GrownLog
  <2>3. k \in 1..Len(attestations)
    BY DEF Revisions
  <2> QED BY <2>1, <2>2, <2>3 DEF Grows
<1> QED BY <1>1, <1>2 DEF CallInv, IsCall, IsAttestation

LEMMA ReadsStay ==
  ASSUME LogInv, LogInv', Grows, page' = page, NEW r, ReadInv(r)
  PROVE  ReadInv(r)'
<1>1. r.from \in 0..Len(attestations')
  BY DEF Grows, ReadInv
<1>2. \A u : Blog(u, r.from)' = Blog(u, r.from)
  BY BlogStays DEF ReadInv
<1> QED BY <1>1, <1>2 DEF ReadInv, IsRead

LEMMA ScreenStays ==
  ASSUME LogInv, LogInv', Grows, ScreenInv, UNCHANGED screenVars
  PROVE  ScreenInv'
<1> USE DEF screenVars
<1>1. posts.at \in 0..Len(attestations') /\ rows.at \in 0..Len(attestations')
  BY DEF Grows, ScreenInv, ListsInv
<1>2. DisplayedPosts' = DisplayedPosts
  <2>1. \A u : Blog(u, posts.at)' = Blog(u, posts.at)
    BY BlogStays DEF ScreenInv, ListsInv
  <2> QED BY <2>1 DEF DisplayedPosts
<1>3. ListsInv'
  BY <1>1, <1>2 DEF ScreenInv, ListsInv
<1>4. ComposerInv'
  BY GrownLog DEF ScreenInv, ComposerInv
<1> QED BY <1>3, <1>4 DEF ScreenInv

LEMMA SeenStays ==
  ASSUME SocialInv, SeenInv, NEW a, IsAttestation(a), Attest(a), Shows(a), KeepsText(a)
  PROVE  SeenInv'
<1> DEFINE n == Len(attestations)
           b == attestations'[Uid]
<1>1. Store(a) /\ Follows(a, n)
  BY AcceptedFollows
<1>2. /\ Grows /\ SameFields(a, b) /\ (a.text # 0 => b.text = a.text)
      /\ n \in Nat /\ Len(attestations') = n + 1 /\ Uid = n + 1
  BY <1>1, Stored DEF SocialInv, LogInv, Grows, Uid
<1>3. ASSUME NEW uid \in 1..n, attestations'[uid].seen # 0
      PROVE  LET c == attestations'[uid]
             IN /\ c.schema = "entry" /\ c.root # 0 /\ c.previous = c.seen
                /\ c.deleted => c.text = attestations'[c.seen].text
  <2> DEFINE c == attestations[uid]
  <2>1. attestations'[uid] = c
    BY <1>2 DEF Grows
  <2>2. /\ c.schema = "entry" /\ c.root # 0 /\ c.previous = c.seen
        /\ c.deleted => c.text = attestations[c.seen].text
    BY <2>1, <1>3 DEF SeenInv
  <2>3. c.seen \in 1..n
    <3>1. Follows(c, uid - 1)
      BY DEF SocialInv, LogInv
    <3>2. c.seen \in Revisions(c.root, uid - 1)
      BY <3>1, <2>2 DEF Follows, Top
    <3> QED BY <3>2, <1>2 DEF Revisions
  <2>4. attestations'[c.seen] = attestations[c.seen]
    BY <2>3, <1>2 DEF Grows
  <2> QED BY <2>1, <2>2, <2>4
<1>4. ASSUME b.seen # 0
      PROVE  /\ b.schema = "entry" /\ b.root # 0 /\ b.previous = b.seen
             /\ b.deleted => b.text = attestations'[b.seen].text
  <2>1. /\ a.seen # 0 /\ a.schema = "entry" /\ a.root \in Roots(n)
        /\ a.previous = a.seen /\ a.seen \in Revisions(a.root, n)
    BY <1>2, <1>4 DEF Shows, SameFields
  <2>2. a.root # 0 /\ a.seen \in 1..n
    BY <2>1, <1>2 DEF Roots, Revisions
  <2>3. Top(Revisions(a.root, n), a.seen)
    BY <2>1, <2>2, <1>1 DEF Follows
  <2>4. ASSUME a.deleted
        PROVE  b.text = attestations[a.seen].text
    <3>1. PICK k \in Revisions(a.root, n) : a.seen <= k /\ a.text = attestations[k].text
      BY <2>1, <2>4 DEF KeepsText
    <3>2. k \in 1..n /\ k <= a.seen
      BY <2>3, <1>2 DEF Top, Revisions
    <3>3. k = a.seen /\ attestations[k].text # 0
      BY <3>1, <3>2, <2>2, <1>2 DEF SocialInv, LogInv
    <3> QED BY <3>1, <3>3, <1>2
  <2>5. attestations'[a.seen] = attestations[a.seen]
    BY <2>2, <1>2 DEF Grows
  <2> QED BY <2>1, <2>2, <2>4, <2>5, <1>2 DEF SameFields
<1>5. \A uid \in 1..Len(attestations') : uid \in 1..n \/ uid = Uid
  BY <1>2
<1> QED BY <1>3, <1>4, <1>5 DEF SeenInv

(* Nothing but the log and the transactions under way changes. *)
LEMMA LogStep ==
  ASSUME PanelInv, NEW a, IsAttestation(a), Attest(a), Shows(a), KeepsText(a),
         UNCHANGED <<screenVars, reads>>
  PROVE  /\ SocialInv' /\ SeenInv' /\ ScreenInv'
         /\ \A r \in reads' : ReadInv(r)'
         /\ \A t \in acts : CallInv(t)'
<1>1. SocialInv' /\ Grows
  BY AttestKeeps DEF PanelInv
<1>2. SeenInv'
  BY SeenStays DEF PanelInv
<1>3. ScreenInv'
  BY <1>1, ScreenStays DEF PanelInv, SocialInv
<1>4. \A r \in reads' : ReadInv(r)'
  BY <1>1, ReadsStay DEF PanelInv, SocialInv, CallsInv, screenVars
<1>5. \A t \in acts : CallInv(t)'
  BY <1>1, CallsStay DEF PanelInv, CallsInv
<1> QED BY <1>1, <1>2, <1>3, <1>4, <1>5

LEMMA BlankFacts == IsAttestation(Blank) /\ Blank.seen = 0
BY SMTT(30) DEF Blank, IsAttestation

(* A wallet of its own attests without having seen the page. *)
LEMMA DirectIs ==
  ASSUME NEW u, DirectAttest(u)
  PROVE  \E a : IsAttestation(a) /\ Attest(a) /\ a.attester = u /\ a.seen = 0
<1>1. CASE \E previous \in 0..Len(attestations) :
             Attest([Blank EXCEPT !.schema = "profile", !.attester = u, !.previous = previous])
  <2>1. PICK previous :
          Attest([Blank EXCEPT !.schema = "profile", !.attester = u, !.previous = previous])
    BY <1>1
  <2> DEFINE a == [Blank EXCEPT !.schema = "profile", !.attester = u, !.previous = previous]
  <2>2. IsAttestation(a) /\ a.attester = u /\ a.seen = 0
    BY DEF Blank, IsAttestation
  <2>3. Attest(a)
    BY <2>1
  <2> HIDE DEF a
  <2> QED BY <2>2, <2>3
<1>2. CASE \E kind \in {Post, Comment}, topic \in Topics, parent \in 0..Len(attestations) :
             Attest([Blank EXCEPT !.schema = "entry", !.attester = u, !.kind = kind,
                                  !.statement = topic, !.parent = parent])
  <2>1. PICK kind, topic, parent :
          Attest([Blank EXCEPT !.schema = "entry", !.attester = u, !.kind = kind,
                               !.statement = topic, !.parent = parent])
    BY <1>2
  <2> DEFINE a == [Blank EXCEPT !.schema = "entry", !.attester = u, !.kind = kind,
                                !.statement = topic, !.parent = parent]
  <2>2. IsAttestation(a) /\ a.attester = u /\ a.seen = 0
    BY DEF Blank, IsAttestation
  <2>3. Attest(a)
    BY <2>1
  <2> HIDE DEF a
  <2> QED BY <2>2, <2>3
<1>3. CASE \E root \in DOMAIN entries, topic \in Topics, previous \in Uids, hide \in BOOLEAN :
             Attest([Blank EXCEPT !.schema = "entry", !.attester = u, !.root = root,
                                  !.kind = entries[root].kind, !.statement = topic,
                                  !.parent = entries[root].parent, !.previous = previous,
                                  !.deleted = hide])
  <2>1. PICK root, topic, previous, hide :
          Attest([Blank EXCEPT !.schema = "entry", !.attester = u, !.root = root,
                               !.kind = entries[root].kind, !.statement = topic,
                               !.parent = entries[root].parent, !.previous = previous,
                               !.deleted = hide])
    BY <1>3
  <2> DEFINE a == [Blank EXCEPT !.schema = "entry", !.attester = u, !.root = root,
                                !.kind = entries[root].kind, !.statement = topic,
                                !.parent = entries[root].parent, !.previous = previous,
                                !.deleted = hide]
  <2>2. IsAttestation(a) /\ a.attester = u /\ a.seen = 0
    BY DEF Blank, IsAttestation
  <2>3. Attest(a)
    BY <2>1
  <2> HIDE DEF a
  <2> QED BY <2>2, <2>3
<1>4. CASE \E root \in DOMAIN entries, previous \in 0..Len(attestations), value \in -2..2 :
             Attest([Blank EXCEPT !.schema = "vote", !.attester = u, !.root = root,
                                  !.previous = previous, !.value = value])
  <2>1. PICK root, previous, value :
          Attest([Blank EXCEPT !.schema = "vote", !.attester = u, !.root = root,
                               !.previous = previous, !.value = value])
    BY <1>4
  <2> DEFINE a == [Blank EXCEPT !.schema = "vote", !.attester = u, !.root = root,
                                !.previous = previous, !.value = value]
  <2>2. IsAttestation(a) /\ a.attester = u /\ a.seen = 0
    BY DEF Blank, IsAttestation
  <2>3. Attest(a)
    BY <2>1
  <2> HIDE DEF a
  <2> QED BY <2>2, <2>3
<1> QED BY <1>1, <1>2, <1>3, <1>4 DEF DirectAttest

LEMMA DirectKeeps ==
  ASSUME PanelInv, NEW u, DirectAttest(u), UNCHANGED panelVars
  PROVE  PanelInv'
<1> PICK a : IsAttestation(a) /\ a.seen = 0 /\ Attest(a)
  BY DirectIs
<1>1. Shows(a) /\ KeepsText(a)
  BY DEF Shows, KeepsText
<1>2. UNCHANGED <<screenVars, reads>> /\ UNCHANGED <<busy, reads, acts>>
  BY DEF panelVars, screenVars
<1>3. /\ SocialInv' /\ SeenInv' /\ ScreenInv'
      /\ \A r \in reads' : ReadInv(r)'
      /\ \A t \in acts : CallInv(t)'
  BY <1>1, <1>2, LogStep
<1>4. CallsInv'
  BY <1>2, <1>3 DEF CallsInv
<1>5. TurnInv'
  BY <1>2 DEF PanelInv, TurnInv
<1> QED BY <1>3, <1>4, <1>5 DEF PanelInv

LEMMA MineKeeps ==
  ASSUME PanelInv, NEW t \in acts, Mine(t)
  PROVE  PanelInv'
<1> DEFINE a == t.attestation
           done == [t EXCEPT !.step = "receipt", !.attestation = Blank]
<1>1. CallInv(t) /\ t.step = "wallet" /\ Attest(a)
  BY DEF PanelInv, CallsInv, Mine
<1>2. IsAttestation(a) /\ Shows(a) /\ KeepsText(a)
  BY <1>1 DEF CallInv
<1>3. UNCHANGED <<screenVars, reads>> /\ UNCHANGED <<busy, reads>>
  BY DEF Mine, screenVars
<1>4. /\ SocialInv' /\ SeenInv' /\ ScreenInv'
      /\ \A r \in reads' : ReadInv(r)'
      /\ \A u \in acts : CallInv(u)'
  BY <1>1, <1>2, <1>3, LogStep
<1>5. /\ done.fresh = t.fresh /\ done.step = "receipt" /\ done.attestation = Blank
      /\ IsCall(done)
  BY <1>1 DEF CallInv, IsCall
<1>6. acts' \subseteq acts \cup {done} /\ t \notin acts' /\ (done \in acts' => t.fresh)
  <2>1. t # done
    BY <1>1, <1>5
  <2>2. done \notin acts \/ ~t.fresh \/ done \in acts
    OBVIOUS
  <2>3. CASE t.fresh
    BY <2>1, <2>3 DEF Mine, Replace
  <2>4. CASE ~t.fresh
    <3>1. acts' = acts \ {t}
      BY <2>4 DEF Mine
    <3>2. done \notin acts
      BY <1>5, <2>4 DEF PanelInv, CallsInv, CallInv
    <3> QED BY <3>1, <3>2
  <2> QED BY <2>3, <2>4
<1>7. t.fresh => CallInv(done)'
  BY <1>5, BlankFacts DEF CallInv, Shows, IsCall, IsAttestation
<1>8. CallsInv'
  BY <1>4, <1>6, <1>7 DEF CallsInv
<1>9. TurnInv'
  <2>1. CASE t.fresh
    <3>1. \A u \in acts' : u.fresh => u = done
      BY <2>1, <1>6 DEF PanelInv, TurnInv
    <3> QED BY <2>1, <3>1, <1>3 DEF PanelInv, TurnInv
  <2>2. CASE ~t.fresh
    <3>1. acts' \subseteq acts
      BY <2>2, <1>6
    <3> QED BY <3>1, <1>3 DEF PanelInv, TurnInv
  <2> QED BY <2>1, <2>2
<1> QED BY <1>4, <1>8, <1>9 DEF PanelInv

-----------------------------------------------------------------------------
(* What is displayed *)

LEMMA BelowIsPart ==
  ASSUME NEW tops, NEW some, NEW n
  PROVE  Below(tops, some, n) \subseteq some
BY DEF Below

LEMMA DisplayedRowsAreComments ==
  \A root \in DisplayedRows : root \in Roots(rows.at) /\ Row(root, rows.at).kind = Comment
<1> SUFFICES ASSUME NEW root \in DisplayedRows
             PROVE  root \in Roots(rows.at) /\ Row(root, rows.at).kind = Comment
  OBVIOUS
<1>1. CASE rows.page = None
  BY <1>1 DEF DisplayedRows
<1>2. CASE rows.page # None /\ rows.post # 0
  <2>1. root \in BlogThread(rows.post, rows.at)
    BY <1>2 DEF DisplayedRows
  <2>2. BlogThread(rows.post, rows.at) \subseteq {r \in Roots(rows.at) : Row(r, rows.at).kind = Comment}
    BY BelowIsPart DEF BlogThread
  <2> QED BY <2>1, <2>2
<1>3. CASE rows.page # None /\ rows.post = 0
  <2>1. root \in Comments(rows.page, rows.at)
    BY <1>3 DEF DisplayedRows
  <2>2. Comments(rows.page, rows.at) \subseteq {r \in Roots(rows.at) : Row(r, rows.at).kind = Comment}
    BY BelowIsPart DEF Comments
  <2> QED BY <2>1, <2>2
<1> QED BY <1>1, <1>2, <1>3

LEMMA DisplayedFacts ==
  PanelInv =>
    /\ \A root \in Displayed :
         /\ root \in Roots(Len(attestations))
         /\ Shown(root).uid \in Revisions(root, Len(attestations))
         /\ root \in DisplayedPosts \/ Shown(root).kind = Comment
    /\ \A root \in DisplayedPosts : page \in Users /\ root \in Blog(page, Len(attestations))
<1> SUFFICES ASSUME PanelInv
             PROVE  /\ \A root \in Displayed :
                         /\ root \in Roots(Len(attestations))
                         /\ Shown(root).uid \in Revisions(root, Len(attestations))
                         /\ root \in DisplayedPosts \/ Shown(root).kind = Comment
                    /\ \A root \in DisplayedPosts :
                         page \in Users /\ root \in Blog(page, Len(attestations))
  OBVIOUS
<1> DEFINE len == Len(attestations)
<1>1. LogInv /\ len \in Nat /\ posts.at \in 0..len /\ rows.at \in 0..len
  BY Length DEF PanelInv, SocialInv, LogInv, ScreenInv, ListsInv
<1>2. ASSUME NEW n \in 0..len, NEW root \in Roots(n)
      PROVE  root \in Roots(len) /\ Row(root, n).uid \in Revisions(root, len)
  <2>1. Row(root, n).uid \in Revisions(root, n)
    BY <1>1, RowFacts DEF Top
  <2>2. len \in n..len
    BY <1>1
  <2> QED BY <2>1, <2>2, <1>1, MoreOfTheLog
<1>3. ASSUME NEW root \in DisplayedPosts
      PROVE  /\ page \in Users /\ root \in Blog(page, len)
             /\ root \in Roots(len) /\ Shown(root).uid \in Revisions(root, len)
  <2>1. posts.page \in Users /\ root \in Blog(posts.page, posts.at)
    BY DEF DisplayedPosts
  <2>2. posts.page = page
    BY <2>1, SocialAssumption DEF PanelInv, ScreenInv, ListsInv
  <2>3. len \in posts.at..len
    BY <1>1
  <2>4. root \in Blog(page, len)
    BY <2>1, <2>2, <2>3, <1>1, MoreOfTheBlog
  <2>5. root \in Roots(posts.at)
    BY <2>1 DEF Blog
  <2> QED BY <2>1, <2>2, <2>4, <2>5, <1>1, <1>2 DEF Shown
<1>4. ASSUME NEW root \in DisplayedRows, root \notin DisplayedPosts
      PROVE  /\ root \in Roots(len) /\ Shown(root).uid \in Revisions(root, len)
             /\ Shown(root).kind = Comment
  BY <1>1, <1>2, <1>4, DisplayedRowsAreComments DEF Shown
<1> QED BY <1>3, <1>4 DEF Displayed

-----------------------------------------------------------------------------
(* A step of the page *)

LEMMA SameLog ==
  ASSUME attestations' = attestations
  PROVE  \A n : /\ Roots(n)' = Roots(n)
                /\ \A root : Revisions(root, n)' = Revisions(root, n)
                /\ \A u : Blog(u, n)' = Blog(u, n)
BY DEF Roots, Revisions, RootOf, Blog, Row

LEMMA SocialSame ==
  ASSUME PanelInv, UNCHANGED socialVars
  PROVE  SocialInv' /\ SeenInv'
<1>1. attestations' = attestations /\ entries' = entries
  BY DEF socialVars
<1>2. LogInv'
  <2>1. IsLog'
    BY <1>1 DEF PanelInv, SocialInv, LogInv, IsLog, Uids
  <2>2. ASSUME NEW uid \in 1..Len(attestations)
        PROVE  /\ IsAttestation(attestations[uid])'
               /\ attestations'[uid].text # 0
               /\ Follows(attestations[uid], uid - 1)'
    <3>1. /\ IsAttestation(attestations[uid])
          /\ attestations[uid].text # 0
          /\ Follows(attestations[uid], uid - 1)
      BY DEF PanelInv, SocialInv, LogInv
    <3>2. Follows(attestations[uid], uid - 1)'
      BY <1>1, <3>1 DEF Follows, Top, Roots, Revisions, RootOf, SameEntryAs
    <3> QED BY <1>1, <3>1, <3>2 DEF IsAttestation
  <2>3. \A n \in 0..Len(attestations') : \A root \in Roots(n)' :
          \E m : Top(Revisions(root, n)', m)
    BY <1>1, SameLog DEF PanelInv, SocialInv, LogInv
  <2> QED BY <2>1, <2>2, <2>3, <1>1 DEF LogInv, Top
<1>3. EntriesInv'
  BY <1>1 DEF PanelInv, SocialInv, EntriesInv, EntryInv, Top, Roots, Revisions, RootOf
<1>4. SeenInv'
  BY <1>1 DEF PanelInv, SeenInv
<1> QED BY <1>2, <1>3, <1>4 DEF SocialInv

LEMMA CallSame ==
  ASSUME UNCHANGED socialVars, NEW t, CallInv(t)
  PROVE  CallInv(t)'
BY DEF socialVars, CallInv, IsCall, IsAttestation, Shows, KeepsText, Roots, Revisions, RootOf

LEMMA ReadSame ==
  ASSUME UNCHANGED socialVars, NEW r, ReadInv(r), page' = page \/ ~r.fresh
  PROVE  ReadInv(r)'
<1>1. attestations' = attestations
  BY DEF socialVars
<1>2. \A u, n : Blog(u, n)' = Blog(u, n)
  BY <1>1, SameLog
<1> QED BY <1>1, <1>2 DEF ReadInv, IsRead

LEMMA LateCalls ==
  ASSUME PanelInv
  PROVE  /\ \A t \in LateActs : CallInv(t) /\ ~t.fresh
         /\ \A r \in LateReads : ReadInv(r) /\ ~r.fresh /\ ~r.ends
<1>1. ASSUME NEW t \in LateActs
      PROVE  CallInv(t) /\ ~t.fresh
  <2>1. PICK u \in acts : u.step = "wallet" /\ t = [u EXCEPT !.fresh = FALSE]
    BY DEF LateActs
  <2>2. CallInv(u)
    BY DEF PanelInv, CallsInv
  <2>3. IsCall(t) /\ ~t.fresh /\ t.step = "wallet" /\ t.attestation = u.attestation
    BY <2>1, <2>2 DEF CallInv, IsCall
  <2> QED BY <2>1, <2>2, <2>3 DEF CallInv
<1>2. ASSUME NEW r \in LateReads
      PROVE  ReadInv(r) /\ ~r.fresh /\ ~r.ends
  <2>1. PICK q \in reads : r = [q EXCEPT !.fresh = FALSE, !.ends = FALSE, !.from = 0]
    BY DEF LateReads
  <2>2. IsRead(q) /\ Len(attestations) \in Nat
    BY Length DEF PanelInv, CallsInv, ReadInv, SocialInv, LogInv
  <2>3. IsRead(r) /\ ~r.fresh /\ ~r.ends /\ r.from = 0
    BY <2>1, <2>2 DEF IsRead
  <2> QED BY <2>2, <2>3 DEF ReadInv
<1> QED BY <1>1, <1>2

(* A new epoch, or a read in the present one. *)
LEMMA BeginKeeps ==
  ASSUME PanelInv, UNCHANGED socialVars,
         NEW earlier, NEW transactions, NEW post, NEW ends \in BOOLEAN,
         NEW of, of = page', Begin(earlier, transactions, of, post, ends),
         earlier = LateReads \/ (earlier = reads /\ page' = page),
         transactions = LateActs \/ transactions \subseteq acts,
         post # 0 => page' \in Users /\ post \in Blog(of, Len(attestations))
  PROVE  CallsInv'
<1> DEFINE new == [fresh |-> TRUE, page |-> of, post |-> post,
                   from |-> Len(attestations), ends |-> ends]
<1>1. acts' = transactions /\ reads' = earlier \cup {new} /\ attestations' = attestations
      /\ Len(attestations) \in Nat
  BY Length DEF Begin, socialVars, PanelInv, SocialInv, LogInv
<1>2. \A t \in acts' : CallInv(t)'
  BY <1>1, LateCalls, CallSame DEF PanelInv, CallsInv
<1>3. ASSUME NEW r \in earlier
      PROVE  ReadInv(r)'
  BY <1>3, LateCalls, ReadSame DEF PanelInv, CallsInv
<1>4. ASSUME NEW r, r = new
      PROVE  ReadInv(r)'
  <2>1. \A u, n : Blog(u, n)' = Blog(u, n)
    BY <1>1, SameLog
  <2> QED BY <1>1, <1>4, <2>1 DEF ReadInv, IsRead
<1> QED BY <1>1, <1>2, <1>3, <1>4 DEF CallsInv

(* An epoch that starts without a read. *)
LEMMA QuietKeeps ==
  ASSUME PanelInv, UNCHANGED socialVars, reads' = LateReads, acts' = LateActs
  PROVE  CallsInv'
BY LateCalls, CallSame, ReadSame DEF CallsInv

LEMMA ScreenKeeps ==
  ASSUME PanelInv, UNCHANGED socialVars, UNCHANGED <<page, posts>>,
         rows' = rows \/ rows' = NoRows,
         selected' = selected \/ selected' = 0 \/ selected' \in DisplayedPosts,
         \/ composer' = composer
         \/ composer'.for # "edit"
         \/ /\ composer'.root \in Roots(Len(attestations))
            /\ composer'.uid \in Revisions(composer'.root, Len(attestations))
  PROVE  ScreenInv'
<1>1. attestations' = attestations /\ Len(attestations) \in Nat
  BY Length DEF socialVars, PanelInv, SocialInv, LogInv
<1>2. DisplayedPosts' = DisplayedPosts
  BY <1>1, SameLog DEF DisplayedPosts
<1>3. ListsInv'
  BY <1>1, <1>2 DEF PanelInv, ScreenInv, ListsInv, NoRows
<1>4. ComposerInv'
  <2> SUFFICES ASSUME composer'.for = "edit"
               PROVE  /\ composer'.root \in Roots(Len(attestations))
                      /\ composer'.uid \in Revisions(composer'.root, Len(attestations))
    BY <1>1 DEF ComposerInv, Roots, Revisions, RootOf
  <2> QED BY DEF PanelInv, ScreenInv, ComposerInv
<1> QED BY <1>3, <1>4 DEF ScreenInv

(* The panel's open post is among those of the page's blog. *)
LEMMA OpenPost ==
  PanelInv =>
    /\ selected # 0 => page \in Users /\ selected \in Blog(page, Len(attestations))
    /\ \A root \in DisplayedPosts : page \in Users /\ root \in Blog(page, Len(attestations))
<1>1. PanelInv => (selected # 0 => selected \in DisplayedPosts)
  BY DEF PanelInv, ScreenInv, ListsInv
<1> QED BY <1>1, DisplayedFacts

LEMMA EpochTurn ==
  ASSUME PanelInv, NEW of, NEW post, Begin(LateReads, LateActs, of, post, FALSE),
         busy' \in BOOLEAN
  PROVE  TurnInv'
<1> DEFINE new == [fresh |-> TRUE, page |-> of, post |-> post,
                   from |-> Len(attestations), ends |-> FALSE]
<1>1. ~new.ends /\ reads' = LateReads \cup {new} /\ acts' = LateActs
  BY DEF Begin
<1>2. \A t \in acts' : ~t.fresh
  BY <1>1, LateCalls
<1>3. \A r \in reads' : ~r.ends
  BY <1>1, LateCalls
<1> QED BY <1>2, <1>3 DEF TurnInv

LEMMA QuietTurn ==
  ASSUME PanelInv, reads' = LateReads, acts' = LateActs, busy' = busy
  PROVE  TurnInv'
<1>1. \A t \in acts' : ~t.fresh
  BY LateCalls
<1>2. \A r \in reads' : ~r.ends
  BY LateCalls
<1> QED BY <1>1, <1>2 DEF PanelInv, TurnInv

LEMMA RereadKeeps ==
  ASSUME PanelInv, UNCHANGED socialVars, Reread
  PROVE  PanelInv'
<1>1. SocialInv' /\ SeenInv'
  BY SocialSame
<1>2. Begin(reads, acts, page, selected, FALSE) /\ UNCHANGED screenVars
  BY DEF Reread
<1>3. ScreenInv'
  BY <1>2, ScreenKeeps DEF screenVars
<1>4. CallsInv'
  BY <1>2, BeginKeeps, OpenPost DEF screenVars
<1>5. PICK new : ~new.ends /\ reads' = reads \cup {new} /\ acts' = acts
  <2> DEFINE new == [fresh |-> TRUE, page |-> page, post |-> selected,
                     from |-> Len(attestations), ends |-> FALSE]
  <2>1. ~new.ends /\ reads' = reads \cup {new} /\ acts' = acts
    BY <1>2 DEF Begin
  <2> QED BY <2>1
<1>6. TurnInv'
  BY <1>2, <1>5 DEF screenVars, PanelInv, TurnInv
<1> QED BY <1>1, <1>3, <1>4, <1>6 DEF PanelInv

LEMMA ChangeContextKeeps ==
  ASSUME PanelInv, UNCHANGED socialVars, NEW a, NEW p, ChangeContext(a, p)
  PROVE  PanelInv'
<1>1. SocialInv' /\ SeenInv'
  BY SocialSame
<1>2. /\ page' = p /\ selected' = 0 /\ composer' = NewText
      /\ posts' = NoPosts /\ rows' = NoRows /\ busy' = FALSE
      /\ Begin(LateReads, LateActs, p, 0, FALSE)
  BY DEF ChangeContext
<1>3. Len(attestations') \in Nat
  BY Length DEF socialVars, PanelInv, SocialInv, LogInv
<1>4. ScreenInv'
  BY <1>2, <1>3 DEF ScreenInv, ListsInv, ComposerInv, NoPosts, NoRows, NewText
<1>5. CallsInv'
  BY <1>2, BeginKeeps
<1>6. TurnInv'
  BY <1>2, EpochTurn
<1> QED BY <1>1, <1>4, <1>5, <1>6 DEF PanelInv

LEMMA ChooseBlogKeeps ==
  ASSUME PanelInv, UNCHANGED socialVars, NEW root, ChooseBlog(root)
  PROVE  PanelInv'
<1>1. SocialInv' /\ SeenInv'
  BY SocialSame
<1>2. /\ root \in DisplayedPosts /\ selected' = root /\ composer' = NewText
      /\ Begin(LateReads, LateActs, page, root, FALSE)
      /\ UNCHANGED <<page, posts, rows, busy>>
  BY DEF ChooseBlog
<1>3. ScreenInv'
  BY <1>2, ScreenKeeps DEF NewText
<1>4. CallsInv'
  BY <1>2, BeginKeeps, OpenPost
<1>5. TurnInv'
  BY <1>2, EpochTurn DEF PanelInv, TurnInv
<1> QED BY <1>1, <1>3, <1>4, <1>5 DEF PanelInv

LEMMA RespondKeeps ==
  ASSUME PanelInv, UNCHANGED socialVars, NEW root \in Displayed, Respond(root)
  PROVE  PanelInv'
<1> DEFINE post == IF OnBlog /\ Shown(root).kind = Post THEN root ELSE selected
<1>1. SocialInv' /\ SeenInv'
  BY SocialSame
<1>2. /\ selected' = post /\ composer'.for = "reply"
      /\ Begin(LateReads, LateActs, page, post, FALSE)
      /\ UNCHANGED <<page, posts, rows, busy>>
  BY DEF Respond
<1>3. post = selected \/ post \in DisplayedPosts
  BY DisplayedFacts DEF Post, Comment
<1>4. ScreenInv'
  BY <1>2, <1>3, ScreenKeeps
<1>5. CallsInv'
  BY <1>2, <1>3, BeginKeeps, OpenPost
<1>6. TurnInv'
  BY <1>2, EpochTurn DEF PanelInv, TurnInv
<1> QED BY <1>1, <1>4, <1>5, <1>6 DEF PanelInv

LEMMA QuietStepKeeps ==
  ASSUME PanelInv, UNCHANGED socialVars,
         NewBlog \/ CancelEditor \/ \E root \in Displayed : Edit(root)
  PROVE  PanelInv'
<1>1. SocialInv' /\ SeenInv'
  BY SocialSame
<1>2. reads' = LateReads /\ acts' = LateActs /\ busy' = busy
  BY DEF NewBlog, CancelEditor, Edit
<1>3. CallsInv' /\ TurnInv'
  BY <1>2, QuietKeeps, QuietTurn
<1>4. ScreenInv'
  <2>1. CASE NewBlog
    BY <2>1, ScreenKeeps DEF NewBlog, NewText
  <2>2. CASE CancelEditor
    BY <2>2, ScreenKeeps DEF CancelEditor, NewText
  <2>3. ASSUME NEW root \in Displayed, Edit(root)
        PROVE  ScreenInv'
    <3>1. composer'.root = root /\ composer'.uid = Shown(root).uid
      BY <2>3 DEF Edit
    <3>2. /\ composer'.root \in Roots(Len(attestations))
          /\ composer'.uid \in Revisions(composer'.root, Len(attestations))
      BY <3>1, DisplayedFacts
    <3> QED BY <2>3, <3>2, ScreenKeeps DEF Edit
  <2> QED BY <2>1, <2>2, <2>3
<1> QED BY <1>1, <1>3, <1>4 DEF PanelInv

(* One transaction takes the place of another, in the same turn. *)
LEMMA ReplaceTurn ==
  ASSUME PanelInv, NEW t \in acts, NEW u, u.fresh => t.fresh,
         acts' \subseteq (acts \ {t}) \cup {u}, UNCHANGED <<busy, reads>>
  PROVE  TurnInv'
BY DEF PanelInv, TurnInv

LEMMA ActKeeps ==
  ASSUME PanelInv, UNCHANGED socialVars, NEW want, IsAttestation(want), Shows(want), Act(want)
  PROVE  PanelInv'
<1> DEFINE new == [fresh |-> TRUE, step |-> "read", attestation |-> want]
<1>1. SocialInv' /\ SeenInv'
  BY SocialSame
<1>2. /\ ~busy /\ busy' = TRUE /\ acts' = acts \cup {new}
      /\ UNCHANGED <<page, selected, composer, posts, rows, reads>>
  BY DEF Act
<1>3. ScreenInv'
  BY <1>2, ScreenKeeps
<1>4. CallsInv'
  <2>1. \A t \in acts : CallInv(t)'
    BY CallSame DEF PanelInv, CallsInv
  <2>2. \A r \in reads : ReadInv(r)'
    BY <1>2, ReadSame DEF PanelInv, CallsInv
  <2>3. ASSUME NEW t, t = new
        PROVE  CallInv(t)'
    <3>1. CallInv(t)
      BY <2>3 DEF CallInv, IsCall
    <3> QED BY <3>1, CallSame
  <2> QED BY <1>2, <2>1, <2>2, <2>3 DEF CallsInv
<1>5. TurnInv'
  BY <1>2 DEF PanelInv, TurnInv
<1> QED BY <1>1, <1>3, <1>4, <1>5 DEF PanelInv

LEMMA SubmitKeeps ==
  ASSUME PanelInv, UNCHANGED socialVars,
         SubmitEdit \/ SubmitNew
           \/ \E root \in Displayed : Hide(root) \/ \E value \in {-1, 1} : Vote(root, value)
  PROVE  PanelInv'
<1>1. CASE SubmitEdit
  <2> DEFINE want == [By("entry") EXCEPT !.root = composer.root, !.previous = composer.uid,
                                         !.seen = composer.uid]
  <2>1. Act(want) /\ composer.for = "edit"
    BY <1>1 DEF SubmitEdit
  <2>2. IsAttestation(want)
    BY DEF By, Blank, IsAttestation
  <2>3. Shows(want)
    BY <2>1 DEF By, Blank, Shows, PanelInv, ScreenInv, ComposerInv
  <2> QED BY <2>1, <2>2, <2>3, ActKeeps
<1>2. CASE SubmitNew
  <2>1. PICK kind, statement, parent :
          Act([By("entry") EXCEPT !.kind = kind, !.statement = statement, !.parent = parent])
    BY <1>2 DEF SubmitNew
  <2> DEFINE want == [By("entry") EXCEPT !.kind = kind, !.statement = statement, !.parent = parent]
  <2>2. IsAttestation(want)
    BY DEF By, Blank, IsAttestation
  <2>3. Shows(want)
    BY DEF By, Blank, Shows
  <2> QED BY <2>1, <2>2, <2>3, ActKeeps
<1>3. ASSUME NEW root \in Displayed, Hide(root)
      PROVE  PanelInv'
  <2> DEFINE want == [By("entry") EXCEPT !.root = root, !.previous = Shown(root).uid,
                                         !.deleted = TRUE, !.seen = Shown(root).uid]
  <2>1. Act(want)
    BY <1>3 DEF Hide
  <2>2. IsAttestation(want)
    BY DEF By, Blank, IsAttestation
  <2>3. Shows(want)
    BY DisplayedFacts DEF By, Blank, Shows
  <2> QED BY <2>1, <2>2, <2>3, ActKeeps
<1>4. ASSUME NEW root \in Displayed, NEW value \in {-1, 1}, Vote(root, value)
      PROVE  PanelInv'
  <2>1. PICK v : Act([By("vote") EXCEPT !.root = root, !.value = v])
    BY <1>4 DEF Vote
  <2> DEFINE want == [By("vote") EXCEPT !.root = root, !.value = v]
  <2>2. IsAttestation(want)
    BY DEF By, Blank, IsAttestation
  <2>3. Shows(want)
    BY DEF By, Blank, Shows
  <2> QED BY <2>1, <2>2, <2>3, ActKeeps
<1> QED BY <1>1, <1>2, <1>3, <1>4

(* What is sent keeps what the author saw, and the text in force.          *)
LEMMA SentKeeps ==
  ASSUME SocialInv, NEW a, IsAttestation(a), Shows(a),
         NEW b, b = CASE a.schema = "vote" -> [a EXCEPT !.previous = votes[a.root][a.attester].uid]
                      [] a.schema = "entry" /\ a.root # 0 -> Revision(a)
                      [] OTHER -> a
  PROVE  IsAttestation(b) /\ Shows(b) /\ KeepsText(b)
<1>1. CASE a.schema = "vote"
  <2>1. a.seen = 0 /\ b = [a EXCEPT !.previous = votes[a.root][a.attester].uid]
    BY <1>1 DEF Shows
  <2> QED BY <2>1 DEF IsAttestation, Shows, KeepsText
<1>2. CASE a.schema = "entry" /\ a.root # 0
  <2> DEFINE e == entries[a.root]
  <2>1. b = [a EXCEPT !.kind = e.kind, !.statement = e.statement, !.parent = e.parent,
                      !.text = IF a.deleted THEN attestations[e.latest].text ELSE 0]
    BY <1>2 DEF Revision
  <2>2. /\ IsAttestation(b) /\ b.schema = a.schema /\ b.root = a.root /\ b.seen = a.seen
        /\ b.previous = a.previous /\ b.deleted = a.deleted
        /\ b.deleted => b.text = attestations[e.latest].text
    BY <2>1 DEF IsAttestation
  <2>3. Shows(b)
    BY <2>2 DEF Shows
  <2>4. ASSUME b.seen # 0
        PROVE  e.latest \in Revisions(b.root, Len(attestations)) /\ b.seen <= e.latest
    <3>1. a.root \in Roots(Len(attestations)) /\ a.seen \in Revisions(a.root, Len(attestations))
      BY <2>2, <2>4 DEF Shows
    <3>2. Top(Revisions(a.root, Len(attestations)), e.latest)
      BY <3>1 DEF SocialInv, EntriesInv, EntryInv
    <3> QED BY <3>1, <3>2, <2>2 DEF Top
  <2>5. KeepsText(b)
    BY <2>2, <2>4 DEF KeepsText
  <2> QED BY <2>2, <2>3, <2>5
<1>3. CASE a.schema # "vote" /\ ~(a.schema = "entry" /\ a.root # 0)
  <2>1. b = a
    BY <1>3
  <2>2. a.seen = 0
    <3>1. 0 \notin Roots(Len(attestations))
      BY DEF Roots
    <3> QED BY <3>1, <1>3 DEF Shows
  <2> QED BY <2>1, <2>2 DEF KeepsText
<1> QED BY <1>1, <1>2, <1>3

LEMMA SendActKeeps ==
  ASSUME PanelInv, UNCHANGED socialVars, NEW t \in acts, SendAct(t)
  PROVE  PanelInv'
<1> DEFINE a == t.attestation
           b == CASE a.schema = "vote" -> [a EXCEPT !.previous = votes[a.root][a.attester].uid]
                  [] a.schema = "entry" /\ a.root # 0 -> Revision(a)
                  [] OTHER -> a
           u == [t EXCEPT !.step = "wallet", !.attestation = b]
<1>1. SocialInv' /\ SeenInv'
  BY SocialSame
<1>2. acts' = (acts \ {t}) \cup {u} /\ UNCHANGED <<screenVars, reads>>
  BY DEF SendAct, Replace
<1>3. CallInv(t)
  BY DEF PanelInv, CallsInv
<1>4. IsAttestation(b) /\ Shows(b) /\ KeepsText(b)
  BY <1>3, SentKeeps DEF CallInv, PanelInv
<1>5. IsCall(u) /\ u.fresh = t.fresh /\ u.step = "wallet" /\ u.attestation = b
  BY <1>3 DEF CallInv, IsCall
<1>6. CallInv(u)
  BY <1>4, <1>5 DEF CallInv
<1>7. CallsInv'
  <2>1. \A v \in acts \cup {u} : CallInv(v)'
    BY <1>6, CallSame DEF PanelInv, CallsInv
  <2>2. \A r \in reads : ReadInv(r)'
    BY <1>2, ReadSame DEF PanelInv, CallsInv, screenVars
  <2> QED BY <1>2, <2>1, <2>2 DEF CallsInv
<1>8. ScreenInv'
  BY <1>2, ScreenKeeps DEF screenVars
<1>9. TurnInv'
  <2>1. acts' \subseteq (acts \ {t}) \cup {u} /\ UNCHANGED <<busy, reads>>
    BY <1>2 DEF screenVars
  <2> HIDE DEF u
  <2> QED BY <2>1, <1>5, ReplaceTurn
<1> QED BY <1>1, <1>7, <1>8, <1>9 DEF PanelInv

LEMMA ReceiptKeeps ==
  ASSUME PanelInv, UNCHANGED socialVars, NEW t \in acts, Receipt(t)
  PROVE  PanelInv'
<1>1. SocialInv' /\ SeenInv'
  BY SocialSame
<1>2. /\ t.step = "receipt" /\ composer' = NewText
      /\ Begin(reads, acts \ {t}, page, selected, TRUE)
      /\ UNCHANGED <<page, selected, posts, rows, busy>>
  BY DEF Receipt
<1>3. t.fresh
  BY <1>2 DEF PanelInv, CallsInv, CallInv
<1>4. ScreenInv'
  BY <1>2, ScreenKeeps DEF NewText
<1>5. CallsInv'
  BY <1>2, BeginKeeps, OpenPost
<1>6. \E new : reads' = reads \cup {new} /\ acts' = acts \ {t}
  BY <1>2 DEF Begin
<1>7. \A u \in acts' : ~u.fresh
  BY <1>3, <1>6 DEF PanelInv, TurnInv
<1>8. \A r \in reads : ~(r.fresh /\ r.ends)
  BY <1>3 DEF PanelInv, TurnInv
<1>9. busy' = busy /\ busy = TRUE
  BY <1>2, <1>3 DEF PanelInv, TurnInv
<1>10. TurnInv'
  BY <1>6, <1>7, <1>8, <1>9 DEF TurnInv
<1> QED BY <1>1, <1>4, <1>5, <1>10 DEF PanelInv

LEMMA ActFailsKeeps ==
  ASSUME PanelInv, UNCHANGED socialVars, NEW t \in acts, ActFails(t)
  PROVE  PanelInv'
<1>1. SocialInv' /\ SeenInv'
  BY SocialSame
<1>2. /\ acts' = acts \ {t} /\ busy' = (busy /\ ~t.fresh)
      /\ UNCHANGED <<page, selected, composer, posts, rows, reads>>
  BY DEF ActFails
<1>3. ScreenInv'
  BY <1>2, ScreenKeeps
<1>4. CallsInv'
  BY <1>2, CallSame, ReadSame DEF PanelInv, CallsInv
<1>5. TurnInv'
  BY <1>2 DEF PanelInv, TurnInv
<1> QED BY <1>1, <1>3, <1>4, <1>5 DEF PanelInv

(* A refresh that is over gives the panel back if it ended a transaction.  *)
LEMMA ReadDone ==
  ASSUME PanelInv, UNCHANGED socialVars, NEW r \in reads,
         reads' = reads \ {r}, busy' = (busy /\ ~(r.ends /\ r.fresh)),
         UNCHANGED <<page, acts>>
  PROVE  SocialInv' /\ SeenInv' /\ CallsInv' /\ TurnInv'
<1>1. SocialInv' /\ SeenInv'
  BY SocialSame
<1>2. CallsInv'
  BY CallSame, ReadSame DEF PanelInv, CallsInv
<1>3. TurnInv'
  BY DEF PanelInv, TurnInv
<1> QED BY <1>1, <1>2, <1>3

LEMMA ShowKeeps ==
  ASSUME PanelInv, UNCHANGED socialVars, NEW r \in reads, Show(r)
  PROVE  PanelInv'
<1> DEFINE len == Len(attestations)
<1>1. SocialInv' /\ SeenInv' /\ CallsInv' /\ TurnInv'
  BY ReadDone DEF Show
<1>2. UNCHANGED <<page, selected, composer>>
  BY DEF Show
<1>3. CASE ~Timely(r)
  <2>1. ScreenInv'
    BY <1>2, <1>3, ScreenKeeps DEF Show
  <2> QED BY <1>1, <2>1 DEF PanelInv
<1>4. CASE Timely(r)
  <2>1. PICK n \in r.from..len : \E m \in n..len :
            /\ posts' = IF r.page \in Users THEN [page |-> r.page, at |-> n] ELSE NoPosts
            /\ rows' = IF r.page \in Users /\ r.post = 0 THEN NoRows
                       ELSE [page |-> r.page, post |-> r.post, at |-> m]
    BY <1>4 DEF Show
  <2>2. PICK m \in n..len :
            /\ posts' = IF r.page \in Users THEN [page |-> r.page, at |-> n] ELSE NoPosts
            /\ rows' = IF r.page \in Users /\ r.post = 0 THEN NoRows
                       ELSE [page |-> r.page, post |-> r.post, at |-> m]
    BY <2>1
  <2>3. /\ len \in Nat /\ r.from \in 0..len /\ r.page = page /\ r.post = selected
        /\ selected # 0 => page \in Users /\ selected \in Blog(page, r.from)
    BY <1>4, Length DEF Timely, PanelInv, SocialInv, LogInv, CallsInv, ReadInv
  <2>4. n \in 0..len /\ m \in 0..len /\ attestations' = attestations
    BY <2>3 DEF socialVars
  <2>5. posts'.at \in 0..len /\ rows'.at \in 0..len
        /\ posts'.page \in {None, page} /\ rows'.page \in {None, page}
    BY <2>2, <2>3, <2>4 DEF NoPosts, NoRows
  <2>6. ASSUME selected # 0
        PROVE  selected \in DisplayedPosts'
    <3>1. posts' = [page |-> page, at |-> n]
      BY <2>2, <2>3, <2>6
    <3>2. selected \in Blog(page, n)
      BY <2>1, <2>3, <2>6, MoreOfTheBlog DEF PanelInv, SocialInv
    <3>3. DisplayedPosts' = Blog(page, n)
      <4>1. \A u, k : Blog(u, k)' = Blog(u, k)
        BY <2>4, SameLog
      <4>2. posts'.page = page /\ posts'.at = n /\ page \in Users
        BY <3>1, <2>3, <2>6
      <4> QED BY <4>1, <4>2 DEF DisplayedPosts
    <3> QED BY <3>2, <3>3
  <2>7. ListsInv'
    BY <1>2, <2>4, <2>5, <2>6 DEF ListsInv
  <2>8. ComposerInv'
    BY <1>2, <2>4, SameLog DEF PanelInv, ScreenInv, ComposerInv
  <2> QED BY <1>1, <2>7, <2>8 DEF PanelInv, ScreenInv
<1> QED BY <1>3, <1>4

LEMMA ReadFailsKeeps ==
  ASSUME PanelInv, UNCHANGED socialVars, NEW r \in reads, ReadFails(r)
  PROVE  PanelInv'
<1>1. SocialInv' /\ SeenInv' /\ CallsInv' /\ TurnInv'
  BY ReadDone DEF ReadFails
<1>2. ScreenInv'
  BY ScreenKeeps DEF ReadFails
<1> QED BY <1>1, <1>2 DEF PanelInv

LEMMA PageKeeps ==
  ASSUME PanelInv, UNCHANGED socialVars, Page
  PROVE  PanelInv'
<1>1. CASE \E r \in reads : Show(r) \/ ReadFails(r)
  BY <1>1, ShowKeeps, ReadFailsKeeps
<1>2. CASE \E a \in Visitors, p \in Pages : ChangeContext(a, p)
  BY <1>2, ChangeContextKeeps
<1>3. CASE \E root \in Displayed : ChooseBlog(root) \/ Respond(root)
  BY <1>3, ChooseBlogKeeps, RespondKeeps
<1>4. CASE NewBlog \/ CancelEditor \/ \E root \in Displayed : Edit(root)
  BY <1>4, QuietStepKeeps
<1>5. CASE SubmitEdit \/ SubmitNew
             \/ \E root \in Displayed : Hide(root) \/ \E value \in {-1, 1} : Vote(root, value)
  BY <1>5, SubmitKeeps
<1>6. CASE \E t \in acts : SendAct(t) \/ Receipt(t) \/ ActFails(t)
  BY <1>6, SendActKeeps, ReceiptKeeps, ActFailsKeeps
<1> QED BY <1>1, <1>2, <1>3, <1>4, <1>5, <1>6, RereadKeeps DEF Page

-----------------------------------------------------------------------------
(* Every step *)

LEMMA StillKeeps ==
  ASSUME PanelInv, UNCHANGED <<socialVars, panelVars>>
  PROVE  PanelInv'
<1>1. UNCHANGED socialVars /\ UNCHANGED screenVars /\ UNCHANGED <<reads, acts>>
  BY DEF panelVars
<1>2. UNCHANGED <<page, selected, composer, posts, rows, busy>>
  BY <1>1 DEF screenVars
<1>3. SocialInv' /\ SeenInv'
  BY <1>1, SocialSame
<1>4. ScreenInv'
  BY <1>1, <1>2, ScreenKeeps
<1>5. CallsInv'
  BY <1>1, <1>2, CallSame, ReadSame DEF PanelInv, CallsInv
<1>6. TurnInv'
  BY <1>1, <1>2 DEF PanelInv, TurnInv
<1> QED BY <1>3, <1>4, <1>5, <1>6 DEF PanelInv

LEMMA PanelStarts == SocialInit /\ PanelInit => PanelInv
<1> SUFFICES ASSUME SocialInit, PanelInit PROVE PanelInv
  OBVIOUS
<1>1. attestations = << >> /\ Len(attestations) = 0 /\ Uids = {}
  BY DEF SocialInit, Uids
<1>2. \A n \in 0..0 : Roots(n) = {}
  BY DEF Roots
<1>3. LogInv
  BY <1>1, <1>2 DEF LogInv, IsLog
<1>4. EntriesInv
  BY <1>1, <1>2 DEF SocialInit, EntriesInv
<1>5. SeenInv
  BY <1>1 DEF SeenInv
<1>6. ScreenInv
  BY <1>1 DEF PanelInit, ScreenInv, ListsInv, ComposerInv, NoPosts, NoRows, NewText
<1>7. CallsInv /\ TurnInv
  BY DEF PanelInit, CallsInv, TurnInv
<1> QED BY <1>3, <1>4, <1>5, <1>6, <1>7 DEF PanelInv, SocialInv

LEMMA PanelStep ==
  PanelInv /\ [Together]_<<vars, socialVars, panelVars>> => PanelInv'
<1> SUFFICES ASSUME PanelInv, [Together]_<<vars, socialVars, panelVars>> PROVE PanelInv'
  OBVIOUS
<1>1. CASE UNCHANGED <<socialVars, panelVars>>
  BY <1>1, StillKeeps
<1>2. CASE Discussion
  BY <1>2, PageKeeps, MineKeeps, DirectKeeps DEF Discussion
<1> QED BY <1>1, <1>2 DEF Together

LEMMA PanelInductive == PanelSpec => []PanelInv
BY PanelStarts, PanelStep, PTL DEF PanelSpec

-----------------------------------------------------------------------------
(* Who writes: the page sends nothing without an account. *)

WriterInv ==
  /\ account \in Users \cup {None}
  /\ \A t \in acts : t.step # "receipt" => t.attestation.attester \in Users

LEMMA LateWriters ==
  ASSUME PanelInv, WriterInv, acts' = LateActs, account' \in Users \cup {None}
  PROVE  WriterInv'
<1> SUFFICES ASSUME NEW u \in acts, NEW t, t = [u EXCEPT !.fresh = FALSE], t.step # "receipt"
             PROVE  t.attestation.attester \in Users
  BY DEF WriterInv, LateActs
<1>1. IsCall(u)
  BY DEF PanelInv, CallsInv, CallInv
<1>2. t.attestation = u.attestation /\ t.step = u.step
  BY <1>1 DEF IsCall
<1> QED BY <1>2 DEF WriterInv

LEMMA ActWriters ==
  ASSUME WriterInv, NEW want, want.attester = account, Act(want)
  PROVE  WriterInv'
BY SocialAssumption DEF WriterInv, Act

LEMMA PageWriters ==
  ASSUME PanelInv, WriterInv, Page
  PROVE  WriterInv'
<1>1. ASSUME acts' \subseteq acts, account' = account
      PROVE  WriterInv'
  BY <1>1 DEF WriterInv
<1>2. ASSUME acts' = LateActs, account' = account
      PROVE  WriterInv'
  BY <1>2, LateWriters DEF WriterInv
<1>3. CASE Reread \/ (\E r \in reads : Show(r) \/ ReadFails(r))
             \/ (\E t \in acts : Receipt(t) \/ ActFails(t))
  BY <1>1, <1>3 DEF Reread, Begin, Show, ReadFails, Receipt, ActFails, screenVars
<1>4. CASE \E a \in Visitors, p \in Pages : ChangeContext(a, p)
  BY <1>4, LateWriters, PanelAssumption DEF ChangeContext, Begin
<1>5. CASE NewBlog \/ CancelEditor
             \/ \E root \in Displayed : ChooseBlog(root) \/ Edit(root) \/ Respond(root)
  BY <1>2, <1>5 DEF NewBlog, CancelEditor, ChooseBlog, Edit, Respond, Begin
<1>6. CASE SubmitEdit \/ SubmitNew
             \/ \E root \in Displayed : Hide(root) \/ \E value \in {-1, 1} : Vote(root, value)
  <2>1. ASSUME SubmitEdit
        PROVE  WriterInv'
    <3> DEFINE want == [By("entry") EXCEPT !.root = composer.root, !.previous = composer.uid,
                                           !.seen = composer.uid]
    <3>1. Act(want) /\ want.attester = account
      BY <2>1 DEF SubmitEdit, By, Blank
    <3> QED BY <3>1, ActWriters
  <2>2. ASSUME SubmitNew
        PROVE  WriterInv'
    <3>1. PICK kind, statement, parent :
            Act([By("entry") EXCEPT !.kind = kind, !.statement = statement, !.parent = parent])
      BY <2>2 DEF SubmitNew
    <3> DEFINE want == [By("entry") EXCEPT !.kind = kind, !.statement = statement, !.parent = parent]
    <3>2. want.attester = account
      BY DEF By, Blank
    <3> QED BY <3>1, <3>2, ActWriters
  <2>3. ASSUME NEW root, Hide(root)
        PROVE  WriterInv'
    <3> DEFINE want == [By("entry") EXCEPT !.root = root, !.previous = Shown(root).uid,
                                           !.deleted = TRUE, !.seen = Shown(root).uid]
    <3>1. Act(want) /\ want.attester = account
      BY <2>3 DEF Hide, By, Blank
    <3> QED BY <3>1, ActWriters
  <2>4. ASSUME NEW root, NEW value, Vote(root, value)
        PROVE  WriterInv'
    <3>1. PICK v : Act([By("vote") EXCEPT !.root = root, !.value = v])
      BY <2>4 DEF Vote
    <3> DEFINE want == [By("vote") EXCEPT !.root = root, !.value = v]
    <3>2. want.attester = account
      BY DEF By, Blank
    <3> QED BY <3>1, <3>2, ActWriters
  <2> QED BY <1>6, <2>1, <2>2, <2>3, <2>4
<1>7. ASSUME NEW t \in acts, SendAct(t)
      PROVE  WriterInv'
  <2> DEFINE a == t.attestation
             b == CASE a.schema = "vote" -> [a EXCEPT !.previous = votes[a.root][a.attester].uid]
                    [] a.schema = "entry" /\ a.root # 0 -> Revision(a)
                    [] OTHER -> a
             u == [t EXCEPT !.step = "wallet", !.attestation = b]
  <2>1. /\ acts' = (acts \ {t}) \cup {u} /\ account' = account
        /\ t.step = "read" /\ IsCall(t) /\ IsAttestation(a)
    BY <1>7 DEF SendAct, Replace, screenVars, PanelInv, CallsInv, CallInv
  <2>2. b.attester = a.attester
    BY <2>1 DEF IsAttestation, Revision
  <2> HIDE DEF b
  <2>3. u.attestation = b
    BY <2>1 DEF IsCall
  <2> HIDE DEF u
  <2> QED BY <2>1, <2>2, <2>3 DEF WriterInv
<1> QED BY <1>3, <1>4, <1>5, <1>6, <1>7 DEF Page

LEMMA MineWriters ==
  ASSUME PanelInv, WriterInv, NEW t \in acts, Mine(t)
  PROVE  WriterInv' /\ Attest(t.attestation) /\ t.attestation.attester \in Users
         /\ IsAttestation(t.attestation)
<1>1. IsCall(t) /\ IsAttestation(t.attestation)
  BY DEF PanelInv, CallsInv, CallInv
<1> DEFINE done == [t EXCEPT !.step = "receipt", !.attestation = Blank]
<1>2. done.step = "receipt"
  BY <1>1 DEF IsCall
<1>3. acts' \subseteq acts \cup {done} /\ account' = account
  BY DEF Mine, Replace, screenVars
<1> HIDE DEF done
<1> QED BY <1>1, <1>2, <1>3 DEF WriterInv, Mine

(* Every step leaves the log alone or adds what some user attests. *)
LEMMA WriterStep ==
  ASSUME PanelInv, WriterInv, [Together]_<<vars, socialVars, panelVars>>
  PROVE  /\ WriterInv'
         /\ \/ UNCHANGED socialVars
            \/ \E a : IsAttestation(a) /\ Attest(a) /\ a.attester \in Users
<1>1. CASE UNCHANGED <<socialVars, panelVars>>
  BY <1>1 DEF WriterInv, panelVars, screenVars
<1>2. CASE Page /\ UNCHANGED socialVars
  BY <1>2, PageWriters
<1>3. CASE \E t \in acts : Mine(t)
  BY <1>3, MineWriters
<1>4. CASE (\E u \in Users : DirectAttest(u)) /\ UNCHANGED panelVars
  <2>1. WriterInv'
    BY <1>4 DEF WriterInv, panelVars, screenVars
  <2> QED BY <1>4, <2>1, DirectIs
<1> QED BY <1>1, <1>2, <1>3, <1>4 DEF Together, Discussion

-----------------------------------------------------------------------------
(* The votes and the profiles *)

LEMMA TopExists ==
  ASSUME NEW n \in Nat, NEW S \in SUBSET (1..n), S # {}
  PROVE  \E m : Top(S, m)
<1> DEFINE B == {k \in Nat : \A x \in S : x <= k}
<1>1. B \in SUBSET Nat /\ B # {}
  <2>1. n \in B
    OBVIOUS
  <2> QED BY <2>1
<1>2. PICK k \in B : \A l \in B : k <= l
  <2> HIDE DEF B
  <2> QED BY <1>1, LeastNatural
<1>3. k \in Nat /\ \A x \in S : x <= k /\ x \in Nat /\ x >= 1
  OBVIOUS
<1>4. k \in S
  <2> SUFFICES ASSUME k \notin S PROVE FALSE
    OBVIOUS
  <2>1. PICK y \in S : TRUE
    OBVIOUS
  <2>2. k - 1 \in Nat
    BY <1>3, <2>1
  <2>3. \A x \in S : x <= k - 1
    BY <1>3
  <2>4. k - 1 \in B
    BY <2>2, <2>3
  <2>5. k <= k - 1
    <3> HIDE DEF B
    <3> QED BY <1>2, <2>4
  <2> QED BY <1>3, <2>5
<1>5. Top(S, k)
  BY <1>3, <1>4 DEF Top
<1> QED BY <1>5

ProfilesOf(u, n) ==
  {uid \in 1..n : attestations[uid].schema = "profile" /\ attestations[uid].attester = u}

VoteRecords == [uid : Int, value : -1..1]

(* A row of votes is the last that each user has cast, and the score their *)
(* sum.                                                                    *)
VotesInv(root) ==
  /\ votes[root] \in [Users -> VoteRecords]
  /\ \A u \in Users : votes[root][u].value = VoteValue(root, u, Len(attestations))
  /\ scores[root] = SumFunctionOnSet([u \in Users |-> votes[root][u].value], Users)

ProfilesInv ==
  /\ DOMAIN latestProfile = Users
  /\ \A u \in Users : Top({0} \cup ProfilesOf(u, Len(attestations)), latestProfile[u])

(* Nobody votes on what is not there yet. *)
VotesFollow ==
  \A uid \in 1..Len(attestations) :
    attestations[uid].schema = "vote" => attestations[uid].root < uid

ScoresInv ==
  /\ DOMAIN votes = Roots(Len(attestations)) /\ DOMAIN scores = Roots(Len(attestations))
  /\ \A root \in Roots(Len(attestations)) : VotesInv(root)
  /\ ProfilesInv /\ VotesFollow

LEMMA MoreVotes ==
  ASSUME Grows, NEW b, b = attestations'[Uid], NEW n, n = Uid, NEW root, NEW u
  PROVE  VotesOf(root, u, n)' =
           IF b.schema = "vote" /\ b.root = root /\ b.attester = u
           THEN VotesOf(root, u, Len(attestations)) \cup {n}
           ELSE VotesOf(root, u, Len(attestations))
BY DEF Grows, VotesOf, Uid

LEMMA MoreProfiles ==
  ASSUME Grows, NEW b, b = attestations'[Uid], NEW n, n = Uid, NEW u
  PROVE  ProfilesOf(u, n)' =
           IF b.schema = "profile" /\ b.attester = u
           THEN ProfilesOf(u, Len(attestations)) \cup {n}
           ELSE ProfilesOf(u, Len(attestations))
BY DEF Grows, ProfilesOf, Uid

(* A vote counts until the user's next on the same entry. *)
LEMMA VoteStands ==
  ASSUME Grows, NEW b, b = attestations'[Uid], NEW n, n = Uid, NEW root, NEW u
  PROVE  VoteValue(root, u, n)' =
           IF b.schema = "vote" /\ b.root = root /\ b.attester = u
           THEN b.value ELSE VoteValue(root, u, Len(attestations))
<1> DEFINE len == Len(attestations)
           old == VotesOf(root, u, len)
<1>1. len \in Nat /\ n = len + 1 /\ \A uid \in 1..len : attestations'[uid] = attestations[uid]
  BY DEF Grows, Uid
<1>2. old \in SUBSET (1..len)
  BY DEF VotesOf
<1>3. CASE b.schema = "vote" /\ b.root = root /\ b.attester = u
  <2>1. VotesOf(root, u, n)' = old \cup {n}
    BY <1>3, MoreVotes
  <2>2. Top(old \cup {n}, n) /\ old \cup {n} \in SUBSET Int
    BY <1>1, <1>2 DEF Top
  <2>3. Max(old \cup {n}) = n
    BY <2>2, TopIsMax
  <2>4. VoteValue(root, u, n)' = attestations'[n].value
    <3> HIDE DEF old
    <3> QED BY <2>1, <2>3 DEF VoteValue
  <2> QED BY <1>3, <2>4
<1>4. CASE ~ (b.schema = "vote" /\ b.root = root /\ b.attester = u)
  <2>1. VotesOf(root, u, n)' = old
    BY <1>4, MoreVotes
  <2>2. CASE old = {}
    BY <1>4, <2>1, <2>2 DEF VoteValue
  <2>3. CASE old # {}
    <3> HIDE DEF old
    <3>1. PICK m : Top(old, m)
      BY <1>1, <1>2, <2>3, TopExists
    <3>2. Max(old) = m /\ m \in 1..len
      BY <1>1, <1>2, <3>1, TopIsMax DEF Top
    <3>3. VoteValue(root, u, n)' = attestations'[m].value
      BY <2>1, <2>3, <3>2 DEF VoteValue
    <3>4. VoteValue(root, u, len) = attestations[m].value
      BY <2>3, <3>2 DEF VoteValue, old
    <3> QED BY <1>1, <1>4, <3>2, <3>3, <3>4
  <2> QED BY <2>2, <2>3
<1> QED BY <1>3, <1>4

LEMMA ProfilesGo ==
  ASSUME SocialInv, ProfilesInv, NEW a, IsAttestation(a), Attest(a), a.attester \in Users
  PROVE  ProfilesInv'
<1> DEFINE b == attestations'[Uid]
           len == Len(attestations)
<1>1. Grows /\ SameFields(a, b)
  BY AcceptedFollows, Stored DEF SocialInv, LogInv
<1>2. len \in Nat /\ Uid = len + 1 /\ Len(attestations') = Uid
  BY <1>1 DEF Grows, Uid
<1>3. ASSUME NEW n, n = Uid, NEW u \in Users
      PROVE  ProfilesOf(u, Len(attestations))' =
               IF a.schema = "profile" /\ a.attester = u
               THEN ProfilesOf(u, len) \cup {n} ELSE ProfilesOf(u, len)
  <2>1. ProfilesOf(u, n)' = IF b.schema = "profile" /\ b.attester = u
                            THEN ProfilesOf(u, len) \cup {n} ELSE ProfilesOf(u, len)
    BY <1>1, <1>3, MoreProfiles
  <2>2. ProfilesOf(u, Len(attestations))' = ProfilesOf(u, n)'
    BY <1>2, <1>3 DEF ProfilesOf
  <2> QED BY <1>1, <2>1, <2>2 DEF SameFields
<1>4. \A u : ProfilesOf(u, len) \in SUBSET (1..len)
  BY DEF ProfilesOf
<1>5. CASE ReviseProfile(a)
  <2>1. latestProfile' = [latestProfile EXCEPT ![a.attester] = len + 1] /\ a.schema = "profile"
    BY <1>2, <1>5 DEF ReviseProfile
  <2>2. ASSUME NEW u \in Users
        PROVE  Top({0} \cup ProfilesOf(u, Len(attestations)), latestProfile[u])'
    <3>1. CASE u = a.attester
      <4>1. latestProfile'[u] = len + 1
        BY <2>1, <3>1 DEF ProfilesInv
      <4>2. ProfilesOf(u, Len(attestations))' = ProfilesOf(u, len) \cup {len + 1}
        BY <1>2, <1>3, <2>1, <3>1
      <4> QED BY <1>2, <1>4, <4>1, <4>2 DEF Top
    <3>2. CASE u # a.attester
      <4>1. latestProfile'[u] = latestProfile[u]
        BY <2>1, <3>2 DEF ProfilesInv
      <4>2. ProfilesOf(u, Len(attestations))' = ProfilesOf(u, len)
        BY <1>2, <1>3, <3>2
      <4> QED BY <4>1, <4>2 DEF Top, ProfilesInv
    <3> QED BY <3>1, <3>2
  <2>3. DOMAIN latestProfile' = Users
    BY <2>1 DEF ProfilesInv
  <2> QED BY <2>2, <2>3 DEF ProfilesInv, Top
<1>6. CASE ~ ReviseProfile(a)
  <2>1. a.schema # "profile" /\ latestProfile' = latestProfile
    BY <1>6 DEF Attest, CreateEntry, ReviseEntry, ReviseVote
  <2>2. ASSUME NEW u \in Users
        PROVE  ProfilesOf(u, Len(attestations))' = ProfilesOf(u, len)
    BY <1>2, <1>3, <2>1
  <2> QED BY <2>1, <2>2 DEF ProfilesInv, Top
<1> QED BY <1>5, <1>6

LEMMA VotesNow ==
  ASSUME Grows, NEW b, b = attestations'[Uid], NEW root, NEW u
  PROVE  VoteValue(root, u, Len(attestations))' =
           IF b.schema = "vote" /\ b.root = root /\ b.attester = u
           THEN b.value ELSE VoteValue(root, u, Len(attestations))
<1>1. Len(attestations') = Uid
  BY DEF Grows, Uid
<1>2. ASSUME NEW n, n = Uid
      PROVE  VoteValue(root, u, Len(attestations))' = VoteValue(root, u, n)'
  BY <1>1, <1>2 DEF VoteValue, VotesOf
<1> QED BY <1>2, VoteStands

LEMMA OtherVotes ==
  ASSUME Grows, NEW root, VotesInv(root),
         votes'[root] = votes[root], scores'[root] = scores[root],
         attestations'[Uid].schema = "vote" => attestations'[Uid].root # root
  PROVE  VotesInv(root)'
<1>1. ASSUME NEW u
      PROVE  VoteValue(root, u, Len(attestations))' = VoteValue(root, u, Len(attestations))
  BY VotesNow
<1> QED BY <1>1 DEF VotesInv

LEMMA NewEntryVotes ==
  ASSUME SocialInv, VotesFollow, Grows, NEW n, n = Uid, attestations'[Uid].schema # "vote",
         votes'[n] = [u \in Users |-> NoVote], scores'[n] = 0
  PROVE  VotesInv(n)'
<1> DEFINE value == [u \in Users |-> votes'[n][u].value]
<1>1. \A u \in Users : votes'[n][u].value = 0 /\ votes'[n][u] \in VoteRecords
  BY DEF NoVote, VoteRecords
<1>2. ASSUME NEW u \in Users
      PROVE  VoteValue(n, u, Len(attestations))' = 0
  <2>1. VotesOf(n, u, Len(attestations)) = {}
    BY DEF VotesOf, VotesFollow, Grows, Uid
  <2> QED BY <2>1, VotesNow DEF VoteValue
<1>3. SumFunctionOnSet(value, Users) = 0
  <2>1. \A u \in Users : value[u] = 0
    BY <1>1
  <2> HIDE DEF value
  <2> QED BY <2>1, SumOfZeros, SocialAssumption DEF SocialAssumption
<1> QED BY <1>1, <1>2, <1>3 DEF VotesInv

LEMMA CastVote ==
  ASSUME SocialInv, ScoresInv, NEW a, ReviseVote(a), a.attester \in Users,
         Grows, SameFields(a, attestations'[Uid])
  PROVE  VotesInv(a.root)'
<1> DEFINE root == a.root
           who == a.attester
           old == [u \in Users |-> votes[root][u].value]
           new == [u \in Users |-> votes'[root][u].value]
<1>1. /\ a.schema = "vote" /\ root \in DOMAIN votes /\ root \in DOMAIN scores /\ VotesInv(root)
      /\ a.value \in -1..1
      /\ scores' = [scores EXCEPT ![root] = @ + a.value - votes[root][who].value]
      /\ votes' = [votes EXCEPT ![root][who] = [uid |-> Uid, value |-> a.value]]
  BY DEF ReviseVote, SocialInv, EntriesInv, ScoresInv
<1>2. Uid \in Int
  BY DEF Grows, Uid
<1>3. votes[root] \in [Users -> VoteRecords]
  BY <1>1 DEF VotesInv
<1>4. /\ votes'[root] = [votes[root] EXCEPT ![who] = [uid |-> Uid, value |-> a.value]]
      /\ scores'[root] = scores[root] + a.value - votes[root][who].value
  BY <1>1
<1>5. /\ votes'[root] \in [Users -> VoteRecords]
      /\ votes'[root][who].value = a.value
      /\ \A u \in Users : u # who => votes'[root][u] = votes[root][u]
  BY <1>1, <1>2, <1>3, <1>4 DEF VoteRecords
<1>6. ASSUME NEW u \in Users
      PROVE  votes'[root][u].value = VoteValue(root, u, Len(attestations))'
  <2>1. VoteValue(root, u, Len(attestations))' =
          IF u = who THEN a.value ELSE VoteValue(root, u, Len(attestations))
    BY <1>1, VotesNow DEF SameFields
  <2>2. votes[root][u].value = VoteValue(root, u, Len(attestations))
    BY <1>1 DEF VotesInv
  <2> QED BY <1>5, <2>1, <2>2
<1>7. scores'[root] = SumFunctionOnSet(new, Users)
  <2>1. /\ \A u \in Users : old[u] \in Int /\ new[u] \in Int
        /\ \A u \in Users \ {who} : old[u] = new[u]
        /\ old[who] = votes[root][who].value /\ new[who] = a.value
    BY <1>3, <1>5 DEF VoteRecords
  <2>2. scores[root] = SumFunctionOnSet(old, Users)
    BY <1>1 DEF VotesInv
  <2> HIDE DEF old, new
  <2>3. SumFunctionOnSet(new, Users) = SumFunctionOnSet(old, Users) + new[who] - old[who]
    BY <2>1, SumChange, SocialAssumption DEF SocialAssumption
  <2> QED BY <1>4, <2>1, <2>2, <2>3
<1> QED BY <1>5, <1>6, <1>7 DEF VotesInv

LEMMA ScoresGo ==
  ASSUME SocialInv, ScoresInv, NEW a, IsAttestation(a), Attest(a), a.attester \in Users
  PROVE  ScoresInv'
<1> DEFINE b == attestations'[Uid]
           len == Len(attestations)
<1>1. Grows /\ SameFields(a, b) /\ SocialInv'
  BY AttestKeeps, AcceptedFollows, Stored DEF SocialInv, LogInv
<1>2. len \in Nat /\ Uid = len + 1 /\ Len(attestations') = Uid
  BY <1>1 DEF Grows, Uid
<1>3. /\ DOMAIN entries = Roots(len) /\ DOMAIN entries' = Roots(Len(attestations))'
      /\ Roots(len) \subseteq 1..len
  BY <1>1 DEF SocialInv, EntriesInv, Roots
<1>4. ProfilesInv'
  BY ProfilesGo DEF ScoresInv
<1>5. VotesFollow'
  <2>1. ASSUME NEW uid \in 1..Uid, attestations'[uid].schema = "vote"
        PROVE  attestations'[uid].root < uid
    <3>1. CASE uid = Uid
      <4>1. a.schema = "vote" /\ b.root = a.root
        BY <1>1, <2>1, <3>1 DEF SameFields
      <4>2. a.root \in DOMAIN entries
        BY <4>1 DEF Attest, ReviseProfile, CreateEntry, ReviseEntry, ReviseVote
      <4> QED BY <1>2, <1>3, <3>1, <4>1, <4>2
    <3>2. CASE uid # Uid
      <4>1. uid \in 1..len /\ attestations'[uid] = attestations[uid]
        BY <1>1, <1>2, <3>2 DEF Grows
      <4> QED BY <2>1, <4>1 DEF ScoresInv, VotesFollow
    <3> QED BY <3>1, <3>2
  <2> QED BY <1>2, <2>1 DEF VotesFollow
<1>6. CASE ReviseProfile(a) \/ ReviseEntry(a)
  <2>1. /\ votes' = votes /\ scores' = scores /\ DOMAIN entries' = DOMAIN entries
        /\ b.schema # "vote"
    BY <1>1, <1>6 DEF ReviseProfile, ReviseEntry, SameFields
  <2>2. \A root \in Roots(len) : VotesInv(root)'
    BY <1>1, <2>1, OtherVotes DEF ScoresInv
  <2> QED BY <1>3, <1>4, <1>5, <2>1, <2>2 DEF ScoresInv
<1>7. CASE CreateEntry(a)
  <2>1. /\ votes' = Extend(votes, Uid, [u \in Users |-> NoVote])
        /\ scores' = Extend(scores, Uid, 0)
        /\ DOMAIN entries' = DOMAIN entries \cup {Uid} /\ b.schema # "vote"
    <3>1. a.schema = "entry" /\ b.schema = a.schema
      BY <1>1, <1>7 DEF CreateEntry, SameFields
    <3>2. DOMAIN entries' = DOMAIN entries \cup {Uid}
      BY <1>7 DEF CreateEntry, Extend
    <3> QED BY <1>7, <3>1, <3>2 DEF CreateEntry
  <2>2. /\ DOMAIN votes' = Roots(len) \cup {Uid} /\ DOMAIN scores' = Roots(len) \cup {Uid}
        /\ votes'[Uid] = [u \in Users |-> NoVote] /\ scores'[Uid] = 0
        /\ \A root \in Roots(len) : votes'[root] = votes[root] /\ scores'[root] = scores[root]
    <3> DEFINE noVotes == [u \in Users |-> NoVote]
    <3>1. \A root \in Roots(len) : root # Uid
      BY <1>2, <1>3
    <3>2. DOMAIN votes = Roots(len) /\ DOMAIN scores = Roots(len)
      BY DEF ScoresInv
    <3>3. votes' = Extend(votes, Uid, noVotes)
      BY <2>1
    <3> HIDE DEF noVotes
    <3>4. /\ DOMAIN votes' = Roots(len) \cup {Uid} /\ votes'[Uid] = noVotes
          /\ \A root \in Roots(len) : votes'[root] = votes[root]
      BY <3>1, <3>2, <3>3 DEF Extend
    <3>5. /\ DOMAIN scores' = Roots(len) \cup {Uid} /\ scores'[Uid] = 0
          /\ \A root \in Roots(len) : scores'[root] = scores[root]
      BY <2>1, <3>1, <3>2 DEF Extend
    <3> QED BY <3>4, <3>5 DEF noVotes
  <2>3. \A root \in Roots(len) : VotesInv(root)'
    BY <1>1, <2>1, <2>2, OtherVotes DEF ScoresInv
  <2>4. ASSUME NEW n, n = Uid
        PROVE  VotesInv(n)'
    BY <1>1, <2>1, <2>2, <2>4, NewEntryVotes DEF ScoresInv
  <2>5. \A root \in Roots(len) \cup {Uid} : VotesInv(root)'
    BY <2>3, <2>4
  <2> QED BY <1>3, <1>4, <1>5, <2>1, <2>2, <2>5 DEF ScoresInv
<1>8. CASE ReviseVote(a)
  <2>1. /\ DOMAIN votes' = DOMAIN votes /\ DOMAIN scores' = DOMAIN scores
        /\ DOMAIN entries' = DOMAIN entries /\ b.root = a.root
        /\ \A root : root # a.root => votes'[root] = votes[root] /\ scores'[root] = scores[root]
    BY <1>1, <1>8 DEF ReviseVote, SameFields, ScoresInv
  <2>2. ASSUME NEW root \in Roots(len)
        PROVE  VotesInv(root)'
    <3>1. CASE root = a.root
      <4>1. VotesInv(a.root)'
        BY <1>1, <1>8, CastVote
      <4> QED BY <3>1, <4>1
    <3>2. CASE root # a.root
      BY <1>1, <2>1, <3>2, OtherVotes DEF ScoresInv
    <3> QED BY <3>1, <3>2
  <2> QED BY <1>3, <1>4, <1>5, <2>1, <2>2 DEF ScoresInv
<1> QED BY <1>6, <1>7, <1>8 DEF Attest

LEMMA ScoresSame ==
  ASSUME ScoresInv, UNCHANGED socialVars
  PROVE  ScoresInv'
<1>1. /\ attestations' = attestations /\ latestProfile' = latestProfile
      /\ votes' = votes /\ scores' = scores
  BY DEF socialVars
<1>2. ASSUME NEW n
      PROVE  Roots(n)' = Roots(n) /\ \A u : ProfilesOf(u, n)' = ProfilesOf(u, n)
  BY <1>1 DEF Roots, ProfilesOf
<1>3. ASSUME NEW root, NEW u, NEW n
      PROVE  VoteValue(root, u, n)' = VoteValue(root, u, n)
  BY <1>1 DEF VoteValue, VotesOf
<1>4. Roots(Len(attestations))' = Roots(Len(attestations))
  BY <1>1, <1>2
<1>5. ASSUME NEW root \in Roots(Len(attestations))
      PROVE  VotesInv(root)'
  <2>1. VotesInv(root)
    BY DEF ScoresInv
  <2>2. \A u : VoteValue(root, u, Len(attestations))' = VoteValue(root, u, Len(attestations))
    BY <1>1, <1>3
  <2> QED BY <1>1, <2>1, <2>2 DEF VotesInv
<1>6. ProfilesInv'
  <2>1. \A u : ProfilesOf(u, Len(attestations))' = ProfilesOf(u, Len(attestations))
    BY <1>1, <1>2
  <2> QED BY <1>1, <2>1 DEF ScoresInv, ProfilesInv, Top
<1>7. VotesFollow'
  BY <1>1 DEF ScoresInv, VotesFollow
<1> QED BY <1>1, <1>4, <1>5, <1>6, <1>7 DEF ScoresInv

LEMMA ScoresStart == SocialInit => ScoresInv
<1> SUFFICES ASSUME SocialInit PROVE ScoresInv
  OBVIOUS
<1>1. Len(attestations) = 0 /\ Roots(0) = {}
  BY DEF SocialInit, Roots
<1>2. \A u : ProfilesOf(u, 0) = {}
  BY DEF ProfilesOf
<1>3. ProfilesInv
  BY <1>1, <1>2 DEF SocialInit, ProfilesInv, Top
<1>4. VotesFollow
  BY <1>1 DEF VotesFollow
<1> QED BY <1>1, <1>3, <1>4 DEF SocialInit, ScoresInv

LEMMA ScoresMatch == SocialInv /\ ScoresInv => ScoresAreRebuilt
<1> SUFFICES ASSUME SocialInv, ScoresInv PROVE ScoresAreRebuilt
  OBVIOUS
<1> DEFINE n == Len(attestations)
<1>1. n \in Nat
  BY Length DEF SocialInv, LogInv
<1>2. ASSUME NEW root \in Roots(n)
      PROVE  /\ scores[root] = Score(root, n)
             /\ \A u \in Users : votes[root][u].value = VoteValue(root, u, n)
  <2> DEFINE kept == [u \in Users |-> votes[root][u].value]
             read == [u \in Users |-> VoteValue(root, u, n)]
  <2>1. /\ scores[root] = SumFunctionOnSet(kept, Users)
        /\ \A u \in Users : votes[root][u].value = VoteValue(root, u, n)
    BY <1>2 DEF ScoresInv, VotesInv
  <2>2. \A u \in Users : kept[u] = read[u]
    BY <2>1
  <2>3. Score(root, n) = SumFunctionOnSet(read, Users)
    BY DEF Score
  <2> HIDE DEF kept, read
  <2>4. SumFunctionOnSet(kept, Users) = SumFunctionOnSet(read, Users)
    BY <2>2, SumAgrees, SocialAssumption DEF SocialAssumption
  <2> QED BY <2>1, <2>3, <2>4
<1>3. ASSUME NEW u \in Users
      PROVE  latestProfile[u] = Max({0} \cup {uid \in 1..n : /\ attestations[uid].schema = "profile"
                                                             /\ attestations[uid].attester = u})
  <2>1. Top({0} \cup ProfilesOf(u, n), latestProfile[u])
    BY DEF ScoresInv, ProfilesInv
  <2>2. {0} \cup ProfilesOf(u, n) \in SUBSET Int
    BY <1>1 DEF ProfilesOf
  <2>3. latestProfile[u] = Max({0} \cup ProfilesOf(u, n))
    BY <2>1, <2>2, TopIsMax
  <2> QED BY <2>3 DEF ProfilesOf
<1> QED BY <1>2, <1>3 DEF ScoresAreRebuilt

-----------------------------------------------------------------------------
(* The discussions: an entry is a post, or a comment below a statement or  *)
(* below an older entry of the same discussion.                            *)

ContextInv(root) ==
  LET e == entries[root]
  IN /\ e.kind \in {Post, Comment}
     /\ e.kind = Post => e.statement = None /\ e.parent = 0 /\ e.context = PostContext(root)
     /\ e.kind = Comment /\ e.parent = 0 => e.statement # None
     /\ e.kind = Comment /\ e.parent # 0 =>
          /\ e.parent \in DOMAIN entries /\ e.parent < root
          /\ entries[e.parent].statement = e.statement
          /\ entries[e.parent].context = e.context

(* A discussion is about a statement, or starts with a post.               *)
FoundedInv(root) ==
  LET e == entries[root]
  IN /\ e.statement # None => e.kind = Comment /\ e.context = StatementContext(e.statement)
     /\ e.statement = None =>
          \E post \in DOMAIN entries :
            entries[post].kind = Post /\ e.context = PostContext(post)

ContextsInv == \A root \in DOMAIN entries : ContextInv(root) /\ FoundedInv(root)

LEMMA ContextsStay ==
  ASSUME ContextsInv,
         \A r \in DOMAIN entries :
           /\ r \in DOMAIN entries'
           /\ entries'[r].kind = entries[r].kind /\ entries'[r].parent = entries[r].parent
           /\ entries'[r].statement = entries[r].statement
           /\ entries'[r].context = entries[r].context
  PROVE  \A root \in DOMAIN entries : ContextInv(root)' /\ FoundedInv(root)'
<1> SUFFICES ASSUME NEW root \in DOMAIN entries
             PROVE  ContextInv(root)' /\ FoundedInv(root)'
  OBVIOUS
<1>1. ContextInv(root) /\ FoundedInv(root)
  BY DEF ContextsInv
<1>2. ContextInv(root)'
  BY <1>1 DEF ContextInv
<1>3. FoundedInv(root)'
  BY <1>1 DEF FoundedInv
<1> QED BY <1>2, <1>3

(* A new entry joins the discussion of its parent, or starts its own.      *)
LEMMA NewContext ==
  ASSUME ContextsInv, NEW a, CreateEntry(a), Uid \in Nat,
         \A r \in DOMAIN entries : r \in Nat /\ r < Uid
  PROVE  ContextsInv'
<1> DEFINE new == [author |-> a.attester, latest |-> Uid, statement |-> a.statement,
                   parent |-> a.parent, context |-> Context(a), kind |-> a.kind,
                   deleted |-> FALSE]
<1>1. entries' = Extend(entries, Uid, new) /\ a.kind \in {Post, Comment} /\ Context(a) # None
  BY DEF CreateEntry
<1>2. /\ new.kind = a.kind /\ new.statement = a.statement /\ new.parent = a.parent
      /\ new.context = Context(a)
  OBVIOUS
<1> HIDE DEF new
<1>3. /\ DOMAIN entries' = DOMAIN entries \cup {Uid} /\ entries'[Uid] = new
      /\ \A r \in DOMAIN entries : entries'[r] = entries[r]
  <2>1. Uid \notin DOMAIN entries
    OBVIOUS
  <2> QED BY <1>1, <2>1 DEF Extend
<1>4. \A root \in DOMAIN entries : ContextInv(root)' /\ FoundedInv(root)'
  BY <1>3, ContextsStay
<1>5. ASSUME NEW n, n = Uid
      PROVE  ContextInv(n)' /\ FoundedInv(n)'
  <2>1. CASE a.kind = Post
    <3>1. a.parent = 0 /\ a.statement = None /\ Context(a) = PostContext(n)
      BY <1>1, <1>5, <2>1 DEF Context, Post, Comment
    <3>2. ContextInv(n)'
      BY <1>2, <1>3, <1>5, <2>1, <3>1 DEF ContextInv, Post, Comment
    <3>3. FoundedInv(n)'
      BY <1>2, <1>3, <1>5, <2>1, <3>1 DEF FoundedInv
    <3> QED BY <3>2, <3>3
  <2>2. CASE a.kind = Comment /\ a.parent = 0
    <3>1. a.statement # None /\ Context(a) = StatementContext(a.statement)
      BY <1>1, <2>2 DEF Context, Post, Comment
    <3>2. ContextInv(n)'
      BY <1>2, <1>3, <1>5, <2>2, <3>1 DEF ContextInv, Post, Comment
    <3>3. FoundedInv(n)'
      BY <1>2, <1>3, <1>5, <2>2, <3>1 DEF FoundedInv
    <3> QED BY <3>2, <3>3
  <2>3. CASE a.kind = Comment /\ a.parent # 0
    <3>1. /\ a.parent \in DOMAIN entries /\ entries[a.parent].statement = a.statement
          /\ Context(a) = entries[a.parent].context
      BY <1>1, <2>3 DEF Context, Post, Comment
    <3>2. a.parent < n /\ FoundedInv(a.parent)
      BY <1>5, <3>1 DEF ContextsInv
    <3>3. ContextInv(n)'
      BY <1>2, <1>3, <1>5, <2>3, <3>1, <3>2 DEF ContextInv, Post, Comment
    <3>4. FoundedInv(n)'
      BY <1>2, <1>3, <1>5, <2>3, <3>1, <3>2 DEF FoundedInv
    <3> QED BY <3>3, <3>4
  <2> QED BY <1>1, <2>1, <2>2, <2>3
<1> QED BY <1>3, <1>4, <1>5 DEF ContextsInv

LEMMA ContextsGo ==
  ASSUME SocialInv, ContextsInv, NEW a, Attest(a)
  PROVE  ContextsInv'
<1>1. CASE ReviseProfile(a) \/ ReviseVote(a)
  <2>1. entries' = entries
    BY <1>1 DEF ReviseProfile, ReviseVote
  <2> QED BY <2>1, ContextsStay DEF ContextsInv
<1>2. CASE CreateEntry(a)
  <2>1. Uid \in Nat /\ \A r \in DOMAIN entries : r \in Nat /\ r < Uid
    BY Length DEF SocialInv, LogInv, EntriesInv, Roots, Uid
  <2> QED BY <1>2, <2>1, NewContext
<1>3. CASE ReviseEntry(a)
  <2>1. a.root \in DOMAIN entries /\ EntryInv(a.root)
    BY <1>3 DEF ReviseEntry, SocialInv, EntriesInv
  <2>2. /\ DOMAIN entries' = DOMAIN entries
        /\ \A r \in DOMAIN entries : r # a.root => entries'[r] = entries[r]
        /\ entries'[a.root] = [entries[a.root] EXCEPT !.latest = Uid, !.deleted = a.deleted]
    BY <1>3, <2>1 DEF ReviseEntry
  <2>3. /\ entries'[a.root].kind = entries[a.root].kind
        /\ entries'[a.root].parent = entries[a.root].parent
        /\ entries'[a.root].statement = entries[a.root].statement
        /\ entries'[a.root].context = entries[a.root].context
    BY <2>1, <2>2 DEF EntryInv
  <2> QED BY <2>2, <2>3, ContextsStay DEF ContextsInv
<1> QED BY <1>1, <1>2, <1>3 DEF Attest

LEMMA ContextsSame ==
  ASSUME ContextsInv, UNCHANGED socialVars
  PROVE  ContextsInv'
<1>1. entries' = entries
  BY DEF socialVars
<1> QED BY <1>1, ContextsStay DEF ContextsInv

-----------------------------------------------------------------------------
(* What hangs below what: a tree, since a reply is younger than its parent *)

ParentOf(some, n) == [r \in some |-> Row(r, n).parent]

Hangs(g, tops, some, parent) ==
  g = [r \in some |-> r \in tops \/ (parent[r] \in some /\ g[parent[r]])]

LEMMA BelowIsChosen ==
  ASSUME NEW tops, NEW some, NEW n
  PROVE  Below(tops, some, n) =
           {r \in some : (CHOOSE g : Hangs(g, tops, some, ParentOf(some, n)))[r]}
BY Zenon DEF Below, Hangs, ParentOf

(* M is closed: it holds the tops and exactly the replies to its members.  *)
Closed(M, tops, some, parent) ==
  \A r \in some : r \in M <=> r \in tops \/ (parent[r] \in some /\ parent[r] \in M)

LEMMA HangsOnce ==
  ASSUME NEW tops, NEW some \in SUBSET Nat, NEW parent, NEW M, Closed(M, tops, some, parent),
         \A r \in some : parent[r] \in some => parent[r] < r,
         NEW g, Hangs(g, tops, some, parent)
  PROVE  \A r \in some : g[r] <=> r \in M
<1> DEFINE B == {r \in some : ~ (g[r] <=> r \in M)}
<1>1. SUFFICES ASSUME B # {} PROVE FALSE
  OBVIOUS
<1>2. PICK r \in B : \A k \in B : r <= k
  <2>1. B \in SUBSET Nat
    OBVIOUS
  <2> HIDE DEF B
  <2> QED BY <1>1, <2>1, LeastNatural
<1>3. g[r] <=> r \in tops \/ (parent[r] \in some /\ g[parent[r]])
  BY Zenon DEF Hangs
<1>4. r \in M <=> r \in tops \/ (parent[r] \in some /\ parent[r] \in M)
  BY DEF Closed
<1>5. parent[r] \in some => (g[parent[r]] <=> parent[r] \in M)
  <2> SUFFICES ASSUME parent[r] \in some, parent[r] \in B PROVE FALSE
    BY Zenon
  <2>1. parent[r] < r /\ r <= parent[r] /\ r \in Nat /\ parent[r] \in Nat
    BY <1>2
  <2> QED BY <2>1
<1> QED BY <1>3, <1>4, <1>5, Zenon

LEMMA BelowIs ==
  ASSUME NEW tops, NEW some \in SUBSET Nat, NEW n, NEW M,
         Closed(M, tops, some, ParentOf(some, n)),
         \A r \in some : Row(r, n).parent \in some => Row(r, n).parent < r
  PROVE  \A r \in some : r \in Below(tops, some, n) <=> r \in M
<1> DEFINE parent == ParentOf(some, n)
           g == [r \in some |-> r \in M]
           chosen == CHOOSE h : Hangs(h, tops, some, parent)
<1>1. Hangs(g, tops, some, parent)
  <2>1. \A p \in some : g[p] <=> p \in M
    BY Zenon
  <2>2. ASSUME NEW r \in some
        PROVE  (r \in M) = (r \in tops \/ (parent[r] \in some /\ g[parent[r]]))
    <3>1. r \in M <=> r \in tops \/ (parent[r] \in some /\ parent[r] \in M)
      BY DEF Closed
    <3> HIDE DEF g, parent
    <3>2. parent[r] \in some => (g[parent[r]] <=> parent[r] \in M)
      BY <2>1, Zenon
    <3> QED BY <3>1, <3>2, SMT
  <2> QED BY <2>2, Zenon DEF Hangs
<1>2. Hangs(chosen, tops, some, parent)
  <2> HIDE DEF g, parent
  <2> QED BY <1>1, Zenon
<1>3. \A r \in some : parent[r] \in some => parent[r] < r
  BY DEF ParentOf
<1>4. Below(tops, some, n) = {r \in some : chosen[r]}
  BY BelowIsChosen
<1> HIDE DEF chosen, parent
<1>5. \A r \in some : chosen[r] <=> r \in M
  <2>1. Closed(M, tops, some, parent)
    BY DEF parent
  <2> QED BY <1>2, <1>3, <2>1, HangsOnce
<1> QED BY <1>4, <1>5, Zenon

(* A reader's row of an entry says what the contract says of it.           *)
Told ==
  \A r \in Roots(Len(attestations)) :
    /\ r \in Nat \ {0} /\ r \in DOMAIN entries
    /\ Row(r, Len(attestations)).kind = entries[r].kind
    /\ Row(r, Len(attestations)).statement = entries[r].statement
    /\ Row(r, Len(attestations)).parent = entries[r].parent

LEMMA RowsAreTold == SocialInv => Told /\ DOMAIN entries = Roots(Len(attestations))
<1> SUFFICES ASSUME SocialInv
             PROVE  Told /\ DOMAIN entries = Roots(Len(attestations))
  OBVIOUS
<1>1. Len(attestations) \in Nat
  BY Length DEF SocialInv, LogInv
<1>2. Roots(Len(attestations)) \subseteq Nat \ {0}
  BY <1>1 DEF Roots
<1>3. DOMAIN entries = Roots(Len(attestations))
  BY DEF SocialInv, EntriesInv
<1>4. EntriesAreRebuilt
  BY Rebuilt
<1> QED BY <1>2, <1>3, <1>4 DEF Told, EntriesAreRebuilt

(* The comments below a statement are all that name it.                    *)
LEMMA CommentsAreAll ==
  ASSUME SocialInv, ContextsInv, NEW statement, statement # None,
         NEW r \in Roots(Len(attestations)),
         entries[r].kind = Comment, entries[r].statement = statement
  PROVE  r \in Comments(statement, Len(attestations))
<1> DEFINE n == Len(attestations)
           some == {x \in Roots(n) : LET row == Row(x, n)
                                      IN row.kind = Comment /\ row.statement = statement}
           tops == {x \in some : Row(x, n).parent = 0}
<1>1. Told /\ DOMAIN entries = Roots(n)
  BY RowsAreTold
<1>2. ASSUME NEW x \in some
      PROVE  /\ x \in Nat /\ Row(x, n).parent = entries[x].parent
             /\ entries[x].parent # 0 => entries[x].parent \in some /\ entries[x].parent < x
  <2>1. /\ x \in DOMAIN entries /\ x \in Nat /\ ContextInv(x)
        /\ entries[x].kind = Comment /\ entries[x].statement = statement
        /\ Row(x, n).parent = entries[x].parent
    BY <1>1 DEF Told, ContextsInv
  <2>2. ASSUME NEW p, p = entries[x].parent, p # 0
        PROVE  p \in some /\ p < x
    <3>1. p \in DOMAIN entries /\ p < x /\ entries[p].statement = statement
      BY <2>1, <2>2 DEF ContextInv
    <3>2. entries[p].kind = Comment
      BY <3>1 DEF ContextsInv, FoundedInv
    <3> QED BY <1>1, <3>1, <3>2 DEF Told
  <2> QED BY <2>1, <2>2
<1>3. Closed(some, tops, some, ParentOf(some, n))
  <2> SUFFICES ASSUME NEW x \in some
               PROVE  x \in tops \/ ParentOf(some, n)[x] \in some
    BY DEF Closed
  <2>1. ParentOf(some, n)[x] = entries[x].parent
    BY <1>2 DEF ParentOf
  <2> QED BY <1>2, <2>1
<1>4. \A x \in some : Row(x, n).parent \in some => Row(x, n).parent < x
  <2>1. 0 \notin some
    BY <1>1 DEF Told
  <2> QED BY <1>2, <2>1
<1>5. r \in some /\ some \in SUBSET Nat
  BY <1>1, <1>2 DEF Told
<1>6. Comments(statement, n) = Below(tops, some, n)
  BY DEF Comments
<1> HIDE DEF tops, some
<1> QED BY <1>3, <1>4, <1>5, <1>6, BelowIs

(* The thread of a post is all that the contract counts as its discussion. *)
LEMMA ThreadIsDiscussion ==
  ASSUME SocialInv, ContextsInv, NEW post \in Roots(Len(attestations)),
         entries[post].kind = Post,
         NEW r \in Roots(Len(attestations)), entries[r].kind = Comment
  PROVE  r \in BlogThread(post, Len(attestations)) <=> entries[r].context = PostContext(post)
<1> DEFINE n == Len(attestations)
           some == {x \in Roots(n) : Row(x, n).kind = Comment}
           tops == {x \in some : Row(x, n).parent = post}
           M == {x \in some : entries[x].context = PostContext(post)}
<1>1. Told /\ DOMAIN entries = Roots(n)
  BY RowsAreTold
<1>2. ASSUME NEW x \in some
      PROVE  /\ x \in DOMAIN entries /\ x \in Nat /\ ContextInv(x) /\ FoundedInv(x)
             /\ entries[x].kind = Comment /\ Row(x, n).parent = entries[x].parent
  BY <1>1 DEF Told, ContextsInv
<1>3. 0 \notin some /\ 0 # post /\ post \notin some
  BY <1>1 DEF Told, Post, Comment
<1>4. ASSUME NEW x \in some, NEW p, p = entries[x].parent
      PROVE  x \in M <=> x \in tops \/ (p \in some /\ p \in M)
  <2>1. CASE p = 0
    <3>1. entries[x].statement # None /\ entries[x].context = StatementContext(entries[x].statement)
      BY <1>2, <1>4, <2>1 DEF ContextInv, FoundedInv
    <3>2. entries[x].context # PostContext(post)
      BY <3>1 DEF StatementContext, PostContext
    <3> QED BY <1>2, <1>3, <1>4, <2>1, <3>2
  <2>2. CASE p # 0 /\ p \in some
    <3>1. entries[p].context = entries[x].context
      BY <1>2, <1>4, <2>2 DEF ContextInv
    <3> QED BY <1>2, <1>3, <1>4, <2>2, <3>1
  <2>3. CASE p # 0 /\ p \notin some
    <3>1. p \in DOMAIN entries /\ entries[p].context = entries[x].context
      BY <1>2, <1>4, <2>3 DEF ContextInv
    <3>2. entries[p].kind # Comment
      BY <1>1, <2>3, <3>1 DEF Told
    <3>3. entries[p].context = PostContext(p)
      BY <3>1, <3>2 DEF ContextsInv, ContextInv
    <3>4. PostContext(p) = PostContext(post) <=> p = post
      BY DEF PostContext
    <3> QED BY <1>2, <1>4, <2>3, <3>1, <3>3, <3>4
  <2> QED BY <2>1, <2>2, <2>3
<1>5. Closed(M, tops, some, ParentOf(some, n))
  <2> SUFFICES ASSUME NEW x \in some, NEW p, p = ParentOf(some, n)[x]
               PROVE  x \in M <=> x \in tops \/ (p \in some /\ p \in M)
    BY Zenon DEF Closed
  <2>1. p = entries[x].parent
    BY <1>2 DEF ParentOf
  <2> HIDE DEF M, tops, some
  <2> QED BY <1>4, <2>1
<1>6. \A x \in some : Row(x, n).parent \in some => Row(x, n).parent < x
  BY <1>2, <1>3 DEF ContextInv
<1>7. r \in some /\ some \in SUBSET Nat
  BY <1>1, <1>2 DEF Told
<1>8. BlogThread(post, n) = Below(tops, some, n)
  BY DEF BlogThread
<1>9. r \in M <=> entries[r].context = PostContext(post)
  BY <1>7
<1> HIDE DEF M, tops, some
<1> QED BY <1>5, <1>6, <1>7, <1>8, <1>9, BelowIs

LEMMA NothingLost == SocialInv /\ ContextsInv => NothingIsLost
<1> SUFFICES ASSUME SocialInv, ContextsInv PROVE NothingIsLost
  OBVIOUS
<1> DEFINE n == Len(attestations)
           postsMade == {root \in Roots(n) : Row(root, n).kind = Post}
<1>1. Told /\ DOMAIN entries = Roots(n)
  BY RowsAreTold
<1>2. postsMade = {root \in Roots(n) : entries[root].kind = Post}
  BY <1>1 DEF Told
<1>3. ASSUME NEW root \in Roots(n) \ postsMade
      PROVE  IF Row(root, n).statement # None
             THEN /\ entries[root].context = StatementContext(Row(root, n).statement)
                  /\ root \in Comments(Row(root, n).statement, n)
             ELSE /\ entries[root].context \in {PostContext(post) : post \in postsMade}
                  /\ \A post \in postsMade :
                       root \in BlogThread(post, n) <=> entries[root].context = PostContext(post)
  <2>1. ContextInv(root) /\ FoundedInv(root) /\ Row(root, n).statement = entries[root].statement
    BY <1>1 DEF ContextsInv, Told
  <2>2. entries[root].kind = Comment
    BY <1>2, <2>1 DEF ContextInv
  <2>3. CASE entries[root].statement # None
    <3>1. root \in Comments(entries[root].statement, n)
      BY <2>2, <2>3, CommentsAreAll
    <3> QED BY <2>1, <2>3, <3>1 DEF FoundedInv
  <2>4. CASE entries[root].statement = None
    <3>1. \A post \in postsMade :
            root \in BlogThread(post, n) <=> entries[root].context = PostContext(post)
      BY <1>2, <2>2, ThreadIsDiscussion
    <3>2. entries[root].context \in {PostContext(post) : post \in postsMade}
      BY <1>1, <1>2, <2>1, <2>4 DEF FoundedInv
    <3> QED BY <2>1, <2>4, <3>1, <3>2
  <2> QED BY <2>3, <2>4
<1> QED BY <1>3 DEF NothingIsLost

-----------------------------------------------------------------------------
(* Together *)

WholeInv == PanelInv /\ WriterInv /\ ScoresInv /\ ContextsInv

LEMMA WholeStep ==
  WholeInv /\ [Together]_<<vars, socialVars, panelVars>> => WholeInv'
<1> SUFFICES ASSUME WholeInv, [Together]_<<vars, socialVars, panelVars>> PROVE WholeInv'
  OBVIOUS
<1>1. PanelInv' /\ SocialInv
  BY PanelStep DEF WholeInv, PanelInv
<1>2. /\ WriterInv'
      /\ \/ UNCHANGED socialVars
         \/ \E a : IsAttestation(a) /\ Attest(a) /\ a.attester \in Users
  BY WriterStep DEF WholeInv
<1>3. CASE UNCHANGED socialVars
  BY <1>1, <1>2, <1>3, ScoresSame, ContextsSame DEF WholeInv
<1>4. ASSUME NEW a, IsAttestation(a), Attest(a), a.attester \in Users
      PROVE  ScoresInv' /\ ContextsInv'
  BY <1>1, <1>4, ScoresGo, ContextsGo DEF WholeInv
<1> QED BY <1>1, <1>2, <1>3, <1>4 DEF WholeInv

LEMMA WholeInductive == PanelSpec => []WholeInv
<1>1. SocialInit /\ PanelInit => WholeInv
  <2> SUFFICES ASSUME SocialInit, PanelInit PROVE WholeInv
    OBVIOUS
  <2>1. PanelInv
    BY PanelStarts
  <2>2. ScoresInv
    BY ScoresStart
  <2>3. WriterInv
    BY DEF PanelInit, WriterInv
  <2>4. ContextsInv
    BY DEF SocialInit, ContextsInv
  <2> QED BY <2>1, <2>2, <2>3, <2>4 DEF WholeInv
<1> QED BY <1>1, WholeStep, PTL DEF PanelSpec

(* Whoever writes what, in whatever order: the contract and its readers    *)
(* agree on every entry, profile, vote and score, and each comment is      *)
(* shown in the one discussion it belongs to.                              *)
THEOREM DiscussionsStand == PanelSpec => []DiscussionsAreWhole
<1>1. WholeInv => DiscussionsAreWhole
  BY Rebuilt, ScoresMatch, NothingLost DEF WholeInv, PanelInv, DiscussionsAreWhole
<1> QED BY <1>1, WholeInductive, PTL

(* However many pages, wallets and scripts write: the entries the contract *)
(* keeps are those that a reader rebuilds from the log.                    *)
THEOREM EntriesAreRight == PanelSpec => []EntriesAreRebuilt
<1>1. PanelInv => EntriesAreRebuilt
  BY Rebuilt DEF PanelInv
<1> QED BY <1>1, PanelInductive, PTL

(* What the page shows is of its subject, one transaction is made at a     *)
(* time, and a revision replaces what its author was shown.                *)
THEOREM PanelIsRight == PanelSpec => []PanelIsTrue
BY PanelTrue, PanelInductive, PTL
=============================================================================
