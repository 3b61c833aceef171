------------------------- MODULE MCStatementRegistry -------------------------
(***************************************************************************)
(* A small instance of StatementRegistry and of the discussions beside it. *)
(* Every verifier may accept a proof of either outcome, since nothing in   *)
(* the contract relies on the consistency of a profile's logic.            *)
(*                                                                         *)
(* The resolver of discussions asks the registry one thing, whether a      *)
(* statement is registered, and that never changes back.  So discussions   *)
(* are explored beside one state of the registry, with one statement, and  *)
(* the registry while nothing is discussed.                                *)
(***************************************************************************)
EXTENDS SocialPanel

CertifiedAll == Verifiers \X Goals \X ProfileIds
ProvableAll == Verifiers \X Goals \X ProfileIds \X (1..2)
DeadlineSet == 0..2

NothingDiscussed == SocialInit /\ PanelInit

Discussed ==
  /\ now = MaxTime
  /\ profiles = [p \in ProfileIds |-> [verifier |-> CHOOSE v \in Verifiers : TRUE, enabled |-> TRUE,
                                       manifest |-> CHOOSE m \in Manifests : TRUE]]
  /\ operators = [o \in OperatorIds |-> NoOperator]
  /\ Len(statementIds) = 1
  /\ \A id \in DOMAIN statements : statements[id].outcome = 0

MCInit == Init /\ NothingDiscussed

MCNext ==
  \/ NothingDiscussed /\ Next /\ UNCHANGED <<socialVars, panelVars>>
  \/ Discussed /\ Discussion /\ UNCHANGED vars

MCSpec == MCInit /\ [][MCNext]_<<vars, socialVars, panelVars>> /\ KeeperFairness
=============================================================================
