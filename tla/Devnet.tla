-------------------------------- MODULE Devnet --------------------------------
(***************************************************************************)
(* The development network as `npm run dev` brings it up: scripts/start.mjs *)
(* starts the launcher or uses a running node, deploys the contracts if    *)
(* they were never deployed (scripts/deploy.mjs), adds the social          *)
(* contracts (scripts/social-setup.mjs, social/deploy.mjs) and declares    *)
(* the network ready.                                                      *)
(*                                                                         *)
(* Contracts live on the chain and roll back with it, while the two        *)
(* descriptors that name them are files and do not.  One account deploys,  *)
(* so the address of a contract is the number of contracts deployed up to  *)
(* it; the contracts of one phase of a script, each mined in blocks of its *)
(* own, are one contract in one block.                                     *)
(***************************************************************************)
EXTENDS ChainLauncher, Sequences

VARIABLES
  contracts,   \* contracts[s]: the contracts on the chain at the state s, by address
  pc,          \* where start.mjs and the script it runs are
  deployed,    \* how much of the graph deploy.mjs has deployed
  deployment,  \* deployment.json: the pool coordinator's address, 0 without the file
  social       \* social-deployment.json: the resolver's address, 0 without the file

scriptVars == <<pc, deployed, deployment, social>>
devVars == <<vars, contracts, scriptVars>>

(* deploy.mjs: the graph from the registry to the pool coordinator, then   *)
(* the proof verifier, the transfers of ownership and the renounced admin  *)
(* role.                                                                   *)
Graph == <<"coordinator", "handover">>

(* eth_getCode at the head of the chain. *)
CodeAt(address) ==
  IF address \in DOMAIN contracts[chain] THEN contracts[chain][address] ELSE "none"

Answers == node # "down"

(* No start is under way. *)
Resting == pc \in {"down", "ready"}

-----------------------------------------------------------------------------
(* The launcher and the node go on by themselves; blocks without one of    *)
(* the contracts, which change nothing here, are left out.  A start        *)
(* launches the chain, if nothing answers, before it does anything else,   *)
(* as `npm run chain` does alone; nobody launches it again during a start, *)
(* which takes seconds.                                                    *)
ChainStep ==
  /\ Next
  /\ run' = run \/ Resting
  /\ chain' # chain => run' # run
  /\ UNCHANGED <<contracts, scriptVars>>

MineContract(contract) ==
  /\ Mine
  /\ contracts' = [contracts EXCEPT ![chain'] = Append(contracts[chain], contract)]

-----------------------------------------------------------------------------
(* start.mjs *)

(* A check that fails ends the start, as EndStart does. *)
CheckDeployment ==
  /\ Resting /\ Answers
  /\ deployment # 0
  /\ CodeAt(deployment) # "none"
  /\ pc' = "social"
  /\ UNCHANGED <<vars, contracts, deployed, deployment, social>>

BeginDeploy ==
  /\ Resting /\ Answers
  /\ deployment = 0
  /\ pc' = "deploy"
  /\ UNCHANGED <<vars, contracts, deployed, deployment, social>>

(* An error, a signal or a crash; scripts leave their files as they are.   *)
(* If it also stops the launcher, Stop is the next step.                   *)
EndStart ==
  /\ ~Resting
  /\ pc' = "down"
  /\ deployed' = 0
  /\ UNCHANGED <<vars, contracts, deployment, social>>

-----------------------------------------------------------------------------
(* deploy.mjs *)

DeployNext ==
  /\ pc = "deploy"
  /\ deployed < Len(Graph)
  /\ MineContract(Graph[deployed + 1])
  /\ deployed' = deployed + 1
  /\ UNCHANGED <<pc, deployment, social>>

(* The files are written one after the other in place.  A start that finds *)
(* one of them cut short by a crash fails, as every later one does; that   *)
(* end is left out.                                                        *)
WriteDeployment ==
  /\ pc = "deploy" /\ deployed = Len(Graph)
  /\ deployment' = Len(contracts[chain]) - deployed + 1
  /\ deployed' = 0
  /\ pc' = "social"
  /\ UNCHANGED <<vars, contracts, social>>

-----------------------------------------------------------------------------
(* ensureSocialSetup and social/deploy.mjs *)

DeploySocial ==
  /\ pc = "social"
  /\ social = 0
  /\ CodeAt(deployment) # "none"
  /\ MineContract("social")
  /\ pc' = "save"
  /\ UNCHANGED <<deployed, deployment, social>>

(* The descriptor is renamed into place. *)
SaveSocial ==
  /\ pc = "save" /\ Answers
  /\ social' = Len(contracts[chain])
  /\ pc' = "social"
  /\ UNCHANGED <<vars, contracts, deployed, deployment>>

(* Mutant: an existing descriptor is enough. *)
VerifySocial_ByFile ==
  /\ pc = "social" /\ Answers
  /\ social # 0
  /\ CodeAt(deployment) # "none"
  /\ pc' = "ready"
  /\ UNCHANGED <<vars, contracts, deployed, deployment, social>>

(* The script's check of an existing descriptor and the one after the      *)
(* script; then the API and the site are started.                          *)
VerifySocial ==
  /\ pc = "social" /\ Answers
  /\ social # 0
  /\ CodeAt(deployment) # "none"
  /\ CodeAt(social) = "social"
  /\ pc' = "ready"
  /\ UNCHANGED <<vars, contracts, deployed, deployment, social>>

-----------------------------------------------------------------------------
DevInit ==
  /\ Init
  /\ contracts = [s \in [run : 0..MaxRuns, block : 0..MaxBlock] |-> <<>>]
  /\ pc = "down"
  /\ deployed = 0
  /\ deployment = 0 /\ social = 0

Script ==
  \/ CheckDeployment \/ BeginDeploy \/ DeployNext \/ WriteDeployment
  \/ DeploySocial \/ SaveSocial \/ VerifySocial

DevNext == ChainStep \/ Script \/ EndStart

DevSpec == DevInit /\ [][DevNext]_devVars /\ Fairness

-----------------------------------------------------------------------------
(* A network that is declared ready has the contracts of its descriptors   *)
(* on its chain, at their addresses, however often the scripts, the        *)
(* launcher and the node were stopped between and whatever the chain was   *)
(* rolled back to: "the absence of a contract of a saved deployment is an  *)
(* error, not an unnoticed new deployment" (README 35, start.mjs 74-88).   *)
(* The steps after the coordinator are not among what a start checks.      *)
ReadyIsDeployed ==
  [][pc' = "ready" /\ pc # "ready" =>
       /\ CodeAt(deployment) = "coordinator"
       /\ CodeAt(social) = "social"]_devVars
=============================================================================
