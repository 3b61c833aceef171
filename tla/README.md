# A formal model of the ONCM vault

ONCM runs markets on mathematical statements: a statement is registered on a
chain, collateral is split into YES and NO positions, the positions trade in
Balancer pools, and a proof checked by Lean decides which side is paid. This
directory holds TLA+ modules of the active implementation,
`implementations/vault`, and of the remote proof requests in
`tools/lean-zk/remote`, the TLC configurations that check them on small
instances, and theorems about them that TLAPS proves for every value of the
constants. All paths below are relative to `implementations/vault/` unless
they start with `docs/`, `tools/` or another top-level directory.

Each module's header says what the module abstracts; `PROJECT.json` maps every
definition to the lines of code it stands for, and lists the hazards of this
code with the properties that would notice them.

Reproduce a run with, for example,
`tlc -workers 2 -config PublicWrites.cfg MCPublicWrites`, and a proof with
`tlapm PublicAccessProofs.tla`.

## 1. Inventory

### On the chain

| Component | State | Operations | Interacts with |
|---|---|---|---|
| **Statement registry** (`contracts/Protocol.sol`) | profiles, operators, statements, the operator and operands of operations | `setProfile`, `setOperator` (owner), `register`, `registerDerived`, `registerOperation`, `submitProof`, `resolveDerived` | asks verifiers and operators by view calls; prepares the condition at the conditional-tokens framework (CTF) and reports its payout |
| **Complete sets and redemption** (`PositionRouter`, `TrueToken`, `monetary/TrueTokenV2.sol`) | balances only | `split`, `merge`, `redeem`, minting and burning of collateral | CTF (one collateral balance for all questions), wrapper factory |
| **Revenue allocation** (`VaultIntegration.sol` `AllocationController`, `monetary/FeeRouting.sol`) | epochs, proposals, consents | `propose`, `setConsent`, `apply`, `collect`, `collectAll`, `sweep`, `distribute` | Balancer's fee controller, one immutable 0xSplits wallet per epoch |
| **Pools and finality hook** (`VaultIntegration.sol`, `monetary/PoolCoordinatorV2.sol`) | a hook per statement, registered pools | create and register pools, refuse swaps and liquidity after the answer | Balancer factory and vault, registry, allocation controller |
| **Reward budgets** (`monetary/RewardBudget.sol`) | programs, weights, claims, `reserved` | `createProgram`, `recordWeight`, `claim`, `close` | meters record, anyone claims |
| **Reward meters** (`monetary/RewardMeters.sol`) | bindings, slots, deposits | swap callbacks, `bindProgram`, lock and withdraw of pool tokens | called by the Balancer vault, call `RewardBudget` and read the registry |
| **Governance** (`Governance.sol`) | members, proposals, timelock | membership, proposing, voting, queueing, cancelling, executing a batch | OpenZeppelin Governor and Timelock; owner of everything above |
| **On-chain social resolver** (`social/contracts/VaultSocialResolver.sol`) | the latest profile of a user; entries with author, latest revision and context; votes and scores | profile, entry and vote attestations | EAS calls it and stores what it accepts; asks the registry whether a statement exists; `sdk/social.mjs` rebuilds everything from the log |
| **Lean proof bridge** (`proof/contracts/LeanProofBridge.sol`) | none | `verify`, `verifyGoal` (views) | RISC Zero verifier |

### Beside the chain

| Component | State | Operations | Interacts with |
|---|---|---|---|
| **Proof jobs and workers** (`server/proof-jobs.mjs`, `proof/resource-guard.py`, `proof/runner.mjs`) | a JSON file of jobs; in memory a PQueue, active jobs, abort controllers; a machine-wide file lock; process trees | submit, cancel, run, close, restart | API, operating system, the two frozen prototypes through the lock |
| **Remote proof requests** (`tools/lean-zk/remote/`: `github-provider.mjs`, `remote-slot.mjs`, `ci/publish_request.py`, `request_job.py`) | a record per job, one slot directory shared by three applications with a lock on its metadata; branches and a run at GitHub | submit, retry, status, publish | git server, workflow runs, operator reruns |
| **Chain launcher and checkpoints** (`scripts/chain.mjs`, `scripts/state-snapshot.mjs`) | the primary and the last-good snapshot, Anvil's dump, `chain-instance.json` | start, restore, poll, checkpoint, stop | Anvil process, file system, signals |
| **Deployment and start scripts** (`scripts/start.mjs`, `scripts/deploy.mjs`, `scripts/social-setup.mjs`, `social/deploy.mjs`) | `deployment.json`, `social-deployment.json` | check, deploy, save, verify | launcher, node |
| **Public RPC gateway and write readiness** (`server/rpc-gateway.mjs`, `server/public-write-readiness.mjs`, `server/public-surface.mjs`) | an in-flight counter of the gateway and one of the API's routes, a cached verdict per provider with at most one check in flight | dispatch of an RPC envelope, `/api/config` | the node (over HTTP), the deployment descriptor |
| **API server** (`server/index.mjs`, `community.mjs`, `publications.mjs`, …) | sign-in nonces, sessions, comments and packages | HTTP handlers | all of the above |
| **Web application** (`web/App.svelte`, `web/wallet-connection.mjs`, `sdk/`) | the connected account and its signer, what is on the screen, reads and tasks under way, the session cookie; per discussion the lists shown, the open post and the text field | connect, disconnect, read, poll, sign and send, Lean checks; post, edit, reply, vote, hide (`web/SocialPanel.svelte`) | wallet extension and its events, API sessions, node |
| **Pilot migration**, **operations** (`scripts/`, `ops/`) | plans and evidence files | run once, install and supervise | chain, operating system |

The remaining parts are the vendored contracts and proof checker, the frozen
prototypes `implementations/agora` and `implementations/exchange`, and the rest
of `tools/lean-zk`.

### What is hard here

* **Time inside a block.** Deadlines, windows and resolutions share
  `block.timestamp`; a NO for a missed deadline and a resolution may land in
  one block.
* **Governance in between.** Registration, proof and resolution are months
  apart; an owner may call anything in between. Two batches voted in one order
  may be executed in the other.
* **One balance for many claims.** The CTF holds the collateral of all
  questions, `RewardBudget` the budgets of all programs, `BptLockMeter` the
  pool tokens of all lock programs. Checked arithmetic turns every accounting
  mistake into someone else's revert.
* **Proposals in parallel.** Consents given against one allocation must not
  be spent on another.
* **Objects that outlive their context.** A pool is registered while its
  statement is open and used after it has resolved.
* **Crashes.** The API, the launcher, Anvil, the scripts and the machine stop
  between any two steps; workers outlive the API that started them; dumps are
  written in place; contracts roll back with the chain, descriptors do not.
* **Cancellation.** Aborted jobs stay in the queue; aborted reads of the
  provider cannot be stopped and hold their slot; a timed-out broadcast may
  have arrived, and so may a push that was never acknowledged.
* **Late answers.** What the web application asked for one account arrives
  when another is connected; a published result is read from a cache that may
  be an attempt behind.
* **Caches over a chain that moves.** The write check reuses a verdict while
  no event has touched the authority, on a node that can be restored to an
  older snapshot.

The properties that make each part right are those of section 4; for parts
not modelled yet section 3 names the ones to state.

## 2. Modules

`M.tla` is the specification and `MCM.tla` the instance TLC checks. The
theorems are in seven modules, each of which extends the modules it is about,
and in a library of facts about sums. No module uses a RECURSIVE operator, so
every one can be proved about.

| Proof module | About |
|---|---|
| `SocialPanelProofs` | `OutcomeOracle`, `StatementRegistry`, `SocialResolver`, `SocialPanel` |
| `CompleteSetsProofs` | `CollateralLedger`, `CompleteSets` |
| `AllocationControllerProofs` | `AllocationController`, `Pools` |
| `RewardBudgetProofs` | `RewardBudget`, `RewardMeters`, `Governance` |
| `ProofServiceProofs` | `ProofJobs`, `RemoteProof` |
| `ChainLauncherProofs` | `ChainLauncher`, `Devnet` |
| `PublicAccessProofs` | `PublicWrites`, `WebClient` |
| `Sums` | `SumFunctionOnSet` over finite sets, smallest subsets and least numbers; used by five of the others |

| Module | Stands for | Steps | Relation to the others |
|---|---|---|---|
| `OutcomeOracle` | what the rest relies on: a question is answered at most once, and the payout agrees with the outcome | open, answer | abstract |
| `StatementRegistry` | `StatementRegistry` and `ResolvedWithinWindowOperator` | one per entry point, and the next block | implements `OutcomeOracle` |
| `SocialResolver` | `VaultSocialResolver`, and the readers of `sdk/social.mjs` | profile, entry and vote attestations | EXTENDS `StatementRegistry`: a comment needs a registered statement |
| `SocialPanel` | `web/SocialPanel.svelte`, `SocialEntry.svelte`, the writers of `sdk/social.mjs` | each await of a refresh or a transaction; every control | EXTENDS `SocialResolver`: what the page sends is one of its attestations |
| `CollateralLedger` | what complete sets promise, as totals per question | issue a pair, buy it back, decide, pay claims | abstract |
| `CompleteSets` | `PositionRouter`, the collateral token, the CTF, the wrapper factory | routed and direct split, merge, redeem, wrap, unwrap, gifts, minting | uses the actions of `OutcomeOracle`; implements `CollateralLedger` |
| `AllocationController` | allocation epochs and the way of revenue from a pool to a beneficiary | one per entry point; Balancer's own push of fees | – |
| `Pools` | `PoolCoordinator`, `PoolCoordinatorV2`, `FinalityHook` | creation by the coordinator and at the open factory, initialization, liquidity, trades, resolutions | EXTENDS `AllocationController` and composes with it: a trade in an official pool earns the fees that the controller distributes |
| `RewardBudget` | `RewardBudget.sol` | one per entry point; time | – |
| `RewardMeters` | `IncentiveFinalityHook`, `BptLockMeter`, and the batches by which governance funds, creates and binds programs (`sdk/monetary-policy.mjs`) | swaps, batches, locking, withdrawal | EXTENDS `RewardBudget` and composes with it: a swap's callback is the `recordWeight` of every bound program |
| `Governance` | `VaultGovernor` and its timelock | propose, vote, queue, cancel, execute | EXTENDS `RewardMeters`: executing a proposal runs its batch, all of it or nothing |
| `ProofJobs` | `createProofJobs`, `createProofWorker`, the guard, the runner's commands and the lock | an event of the API's loop; a step of a process tree; stop and restart | – |
| `RemoteProof` | the provider's submit and status, the shared slot, the request job and the publisher | every file operation, network call and lock of a provider; deliveries and runs at GitHub | – |
| `ChainLauncher` | `chain.mjs`, `state-snapshot.mjs`, Anvil's dumps and exits | every file operation of a checkpoint; events; crashes | – |
| `Devnet` | `start.mjs`, `deploy.mjs`, `social-setup.mjs`, `social/deploy.mjs` | checks, deployments, descriptors, interruptions | EXTENDS `ChainLauncher`: a deployment mines, and contracts roll back with the checkpoints |
| `PublicWrites` | `createRpcGateway` with `createPublicReadinessVerifier` | each await of a read; each event of a request; blocks, rollbacks, a new descriptor | – |
| `WebClient` | the private state of `App.svelte`, `wallet-connection.mjs` and the API's sessions | each await of a task; reads with what they captured; wallet events; API answers | – |

### Correspondence and abstractions

**Contracts.** A transaction is one step. The entry points are `nonReentrant`
or make no call that could come back; a revert is a step that is not enabled.
Time is `block.timestamp`; several transactions may share one. Sums of tokens
are unbounded naturals, since Solidity 0.8 reverts on overflow and the supplies
are far from 2^256; every subtraction the code makes is either guarded in the
model as in the code or shown not to underflow by the type invariant.

* *Registry.* A statement id is `keccak256` of its preimage; it is modelled by
  the preimage (no collisions). Verifiers and operators with code of their own
  are relations (`Certified`, `Provable`), constant because they are view calls
  of immutable code; both outcomes may be provable, as the contract does not
  rely on the consistency of a logic. `judge` is a history variable.
* *Social resolver.* EAS's storing of an attestation and the resolver's call
  are one step. A uid is the place in the log; a text is known by the
  attestation that first held it. Lengths, encoding checks and the header
  fields of an attestation are left out; a batch is its members one by one.
* *Complete sets.* Users may also act on the CTF and the factory directly and
  send any token anywhere, to the router as well. The router has no state, yet
  it can be sent positions, and `redeemPositions` burns all it holds.
  Allowances and permits are left out. `collateral` is a history variable.
* *Allocation.* Revenue comes in units of the total weight, so the rounding
  inside Splits is not modelled. Fee percentages, the one-time coordinator and
  the authorizer's permission table are left out. V1's split of protocol fees
  is represented by the V2 controller that replaces it. `signed`, `rights` and
  `made` are history variables.
* *Pools.* Liquidity is in units; prices, weights and fee percentages are left
  out. A pool has an outcome token of one statement and a hook of one
  statement, which need not be the same when it is made at Balancer's factory.
  `trades` counts swaps and is a history variable.
* *Rewards.* Amounts of a swap are a volume and a fee. The hook's two running
  totals, which nothing reads, Balancer's quote mode and the address that gets
  a program's remainder are left out.
* *Governance.* One block is mined per unit of time, so the governor's clock
  and the timelock's are one. The members do not change and do not delegate.
  The batches are those of the reward programs; about the other contracts
  governance is an actor who may call every owner-only entry point at any time.

**Processes.** A step is what runs without interruption: the JavaScript of one
event with the microtasks it leads to, one file operation, one read of the
provider.

* *ProofJobs.* When PQueue starts a waiting task is open. Stopping a process
  tree is one step (`stop_tree` sends signals until nothing is left; what
  matters is what is released before and after). Lock, deadline and result are
  kept; memory accounting is a reason to stop at any time.
* *RemoteProof.* A job fixes the bytes and the digest of its request; a
  request commit is a number, since `commit-tree` is timestamped and a second
  one differs. A provider's operation holds its copy of the record between
  awaits, and an interruption forgets it. The git server, the workflow's
  concurrency group, reruns and the raw-file cache are external; whether an
  artifact verifies is a choice.
* *ChainLauncher.* A state of the chain is its height and the start that mined
  it, so two histories of the same height differ. A file identity (inode, size,
  time of change) is a version number. A remembered identity is only ever
  compared with the present one, and none comes back: once the file has changed
  it is 0. What is copied is the dump that is there then, possibly later than
  the one that was seen. The validation report beside a snapshot is for the
  operator; writing it may fail after the snapshot is in place, and the
  checkpoint then counts as failed. `ready.json`, the checks of genesis and
  head, the clock's target and the creation of `chain-instance.json` are left
  out; validation asks if the file is whole.
* *Devnet.* One account deploys, so an address is the number of contracts
  deployed up to it, and `eth_getCode` is a lookup on the current chain. The
  contracts of one phase of a script are one contract. The blocks that matter
  are those of the deployments, others are left out.
* *PublicWrites.* The authority of a deployment is what the full audit finds
  in a block, kept with the block, and so are the deployments of which the
  block has an event that the filters of `public-write-readiness.mjs:118-123`
  match. Nothing falls out of order without such an event. The converse is
  not assumed: an event may leave the authority as it was, and a deployment
  may come into order without one, when the voting period of a proposal from
  before the cutover ends (`gov.state`, lines 80 and 52). The three `getLogs`
  of a check are one read. An audit that finds its block unchanged may be answered from a cache
  or not. Whether an envelope is valid and the rate limit lets it in is a
  choice. A call of a route (`/api/config`, `/api/snapshot`) has a slot of
  `publicRouteWrapper` and asks the same verifier; what else its handler reads
  is not modelled, nor are the middleware's tests of hosts, origins and
  routes. A call that is over leaves its number to the next one, so the pages
  ask without end.
* *WebClient.* Data on the screen is represented by the account it belongs to.
  Which page is shown is open, so any read a page makes may be made at any
  time; "gov" stands for `refreshGovernance` and `loadClaims`, which are
  guarded alike. A wallet on the wrong network answers `eth_chainId`, a step of
  its own, with a refusal. A request to the API with the session is one step. One tab has the cookie to itself. Private jobs exist in local
  mode, which is the one modelled.
* *SocialPanel.* A list on the screen is known by what it is of and how much of
  the log it was read from. Epochs are not numbered: what is under way carries
  whether its epoch is still the panel's. Leaving the page and opening it again
  is a change of context to the same one. `seen`, the revision an author was
  shown, is history. The panel starts where a first read has failed.

## 3. Plan

Done, in this order: `OutcomeOracle`, `StatementRegistry`, `CollateralLedger`,
`CompleteSets`, `AllocationController`, `RewardBudget`, `RewardMeters`,
`ProofJobs`, `ChainLauncher`, `PublicWrites`, `Pools`, `RemoteProof`,
`WebClient`, `Governance`, `Devnet`, `SocialResolver`, `SocialPanel`, with the
proofs of section 5.

Next, most important first:

1. Membership and delegation in `Governance`: votes are counted at the
   proposal's snapshot, whoever joins or leaves afterwards.
2. Several tabs with one cookie in `WebClient`.
3. An abstract specification of a proof request (asked, computed at most once
   at a time, answered or given up) that `RemoteProof` implements, with the
   step simulation proved.

## 4. What is checked

| Run | Module, configuration | Instance | Shows |
|---|---|---|---|
| `registry` | MCStatementRegistry, StatementRegistry | 1 goal, 1 profile, 1 manifest and 2 verifiers, 1 operator with 2 implementations, deadlines 0–2, time to 3, 2 statements; beside one registered statement 2 users, nobody and then either connected to the page, 1 blog, 4 attestations, the page used until the third, others writing the first 2, 2 calls under way | `VerdictsAreRight`: governance never replaces the judge of a registered statement, and a derived verdict is right and is never contradicted by what is recorded later. `DiscussionsAreWhole`: the resolver's state is the one a reader rebuilds from the log, and every comment is shown in exactly the discussion it was made in. `PanelIsTrue`: a revision made on the page replaces the revision that was shown and hiding keeps its text, lists are of the page they are on, one transaction at a time. `ImplementsOracle`; `EveryDeadlineSettles` under fairness |
| `sets` | MCCompleteSets, CompleteSets | 2 questions, 2 users, amount 1, supply and claims 2 | `PotSuffices`: the CTF's one balance covers the winning positions of all questions, and every holder can redeem, in any order. `NothingLost`: nobody is made poorer by anything but a gift of their own. `ImplementsLedger`: no question is paid from another's collateral |
| `pools` | MCPools, Pools | 2 beneficiaries, total weight 2, 4 epochs (0–3), 2 proposals, 2 pools over 2 statements, 1 unit of revenue, liquidity and trade | `ResolvedPoolsOnlyExit`, `SharesAreKept`, `NoCutWithoutConsent`; `RevenueReachesBeneficiaries` under fairness |
| `rewards` | MCRewardMeters, RewardMeters | 2 accounts, 1 pool with 1 slot, 2 programs of budget 3 with adjoining or nested windows, funds 3, weights to 3, 2 pool tokens, time to 4 | `AwardsAreProRata`, `ReservedIsOwed`, `MetersServeThePool` (metering never blocks a swap, and a running program keeps its slot), `LocksAreFair`; `ReservationsEnd` under fairness |
| `governance` | MCGovernance, Governance | 2 members, 2 proposals, voting delay 0, voting period and timelock 1, time to 4 | `ProgramsAreAsVoted`: in whatever order queued batches are executed, what runs is what was voted |
| `jobs` | MCProofJobs, ProofJobs | 2 owners, 1 input, 3 pending, 2 per owner, 4 jobs, 1 stop of the API | `OneComputation`, `SlotCoversCleanup`, `QueueIsSound` (limits kept, one job per request), `EndedJobsStayEnded`; `EveryJobEnds` under fairness |
| `remote` | MCRemoteProof, RemoteProof | 2 jobs of 2 applications, 1 interruption or lost run, 1 rerun | `SlotIsSound`: nothing computes without the shared slot and nothing keeps it that could not give it back. `RetryFindsItsCommit`; `SlotIsFreed` under fairness |
| `chain` | MCDevnet, Devnet | 2 starts of the launcher, 3 blocks, 3 dumps, 1 damage from outside | `SnapshotsAreWhole`, `CleanExitSavesAll`, `StartsContinue`, `CheckpointsExtendTheChain`, `ReadyIsDeployed`; `StopEnds` under fairness |
| `chain_readme` | MCChainLauncher, ChainLauncher_readme | 2 starts, 2 blocks, 4 dumps, 1 damage | a disagreement of code and README, section 6 |
| `public_writes` | MCPublicWrites, PublicWrites | 2 requests, 1 slot of each kind, 2 deployments of which one is in order at a time, 3 blocks with an event of either, 1 change of the descriptor | `AdmissionIsBounded`, `RetryIsSafe`, `WritesNeedAuthority`; `EveryRequestEnds` under fairness |
| `web` | MCWebClient, WebClient | 2 wallet accounts, 2 sign-ins, 2 reads or logouts under way at once | `ShownIsOwn`, `SessionIsAccounts`, `SenderIsAsker`; `ConnectEnds` under fairness |
| `web_private` | same, WebClient_private | same | a disagreement of code and its own message, section 6 |

The runs of composed modules also fire every action of the modules they
extend: `pools` those of the allocation, `rewards` those of the reward budget,
`chain` those of the launcher. The type invariants are theorems or parts of the
inductive invariants of section 5.

### Why these bounds are enough to be interesting

* Two statements make a base and a derived one, or two base ones. Times 0–3
  around deadlines 0–2 put every event before, at and after every deadline. Two
  verifiers and two operator codes are enough to see a judge replaced.
* The resolver asks the registry one thing, whether a statement exists, and
  that never changes back: so discussions are explored beside one state of the
  registry, and the registry while nothing is discussed. Four attestations
  hold an entry with two revisions and a vote or a reply, a vote that is
  changed and withdrawn, and a reply to a reply below a hidden entry. A
  user whose page and whose other writings meet (two by anyone, then the
  page's own) can be shown a revision that is no longer the latest. Two
  calls are a late transaction or refresh beside one of the new page; to what
  is late, disconnecting is the same as changing the account.
* Two questions are needed for one to draw on the other's collateral, two
  holders for one to draw on the other's position.
* Four epochs and two proposals allow two rivals for one epoch, a consent that
  outlives its epoch and a cut to zero. Two pools of two statements give an
  official pool next to one made at the factory with the wrong hook, and a
  resolution of one statement while the other trades.
* A budget of 3 over weights up to 3 gives exact shares, rounding and dust; two
  programs are needed for one to be paid from the other or to take its slot;
  the window set has an end that is the other's start; one slot for two
  programs makes every binding a reuse or a refusal.
* Two proposals can name the same program or different ones and are executed
  in both orders; with two members a vote can pass, fail or miss the quorum.
* Three pending jobs with two per owner reach both limits, and a fourth job is
  the resubmission of a cancelled one. One stop of the API puts an orphan next
  to a new worker.
* Two applications with a job each compete for the slot; one interruption may
  fall on any await, one rerun makes a second attempt beside a result of the
  first.
* Two starts are needed for a dump that belongs to the abandoned history, and
  for a restore after a deployment; three changes of the dump file for a
  checkpoint while the node runs, its last dump at the exit and one that is
  torn or late; the damage makes the primary unusable between them.
  Three blocks are the three phases of a complete deployment, and also two
  halves of an interrupted one.
* Two deployments of which exactly one is in order make a verdict on the wrong
  one visible; three blocks allow a change of authority after the checked
  block, with an event or without, and a replacement of it. With one slot at the gateway a second write
  can not be under way at the same time; the call of a route, with a slot of
  its own, joins the check in flight or waits for the end of another
  deployment's.
* Two accounts and two calls under way let an answer for the first account
  meet the second one and a logout overtake a sign-in.

`CHECK_DEADLOCK FALSE` is set throughout: once its bounded counters are used
up an instance has nothing left to do, and users, governance and operators may
stop acting at any time.

### Fairness

No fairness is assumed of users, governance, the operators' commands, the node
or the network. What is assumed:

* *Chain.* Blocks are produced (`Tick`), and someone calls the entry points
  that are open to everyone and that the repository leaves to keepers:
  `resolveDerived`, `collectAll`, `sweep`, `distribute`, `close`. Weak
  fairness suffices, since each stays possible until it is done.
* *ProofJobs.* The event loop runs what is ready; the guard has a deadline
  and stops its tree with SIGKILL, so `Interrupt` and `StopTree` happen; an
  API that has stopped is started again by its supervisor. Nothing is assumed
  of the commands: they may run until the deadline.
* *RemoteProof.* A provider finishes an operation unless it is interrupted,
  the application retries a prepared job and polls a submitted one, and GitHub
  delivers pushes and works its runs off. Strong fairness stands where a step
  is possible again and again without staying so: the lock on the slot's
  metadata, which others take in between, and the reading of the latest
  result, which other operations of the same application interrupt.
* *ChainLauncher.* File operations of the launcher end and its SIGKILL timer
  fires. Nothing is assumed of Anvil, which may hang, nor of the scripts.
* *PublicWrites.* The deadline of a request fires (`AbortSignal.timeout`), and
  a read of the provider ends, by an answer or by its own timeout. Nothing is
  assumed of the upstream's answer.
* *WebClient.* The API answers and the page goes on; a request to the wallet
  during a connection is answered or times out after its minute. Nothing is
  assumed of a wallet that is asked to sign a transaction.

### Every property can fail

For each property of each passing run `PROJECT.json` names a mutant: a
definition of the model and a form of it with a plausible bug (a guard
dropped, a comparison off by one, a reset forgotten, two steps exchanged)
under which TLC finds the property violated in the same configuration. The
mutated forms stand in the modules before the definitions they vary, under
the comment `Mutant:`; no specification uses them.

## 5. What is proved

The theorems hold for every value of the constants that satisfies the module's
assumption: bounds are naturals; contracts and users that the code tells apart
have different addresses, `None` is nobody, and no job has the name of the
empty slot; and where the code adds up over all users or questions (balances
in `CompleteSets`, weights and awards in `RewardBudget`, votes in
`SocialResolver`) there are finitely many of them.
Bounds such as `MaxTime` are constants like any other, so the theorems speak of
executions of any length.

| Theorem | States | Argument |
|---|---|---|
| `SocialPanelProofs.TypeCorrect` | `TypeOK` | by actions; `CreateType` is the common part of the three kinds of registration |
| `.VerdictsStand` | `DerivedMeaning` | the property is not inductive: that a later resolution never contradicts a NO needs to know why the NO was given. `IInv` adds, per statement, which code judges it, what its operands are, that times of resolution have passed, and that a NO rests on an outcome on record or on a deadline that is over (`NoIsFounded`). One lemma says that a resolution leaves the meaning of every other recorded verdict alone (`ResolveOthersGood`), another that the verdict it records is right (`ResolveSelfGood`) |
| `.JudgesStand` | `JudgeIsFixed` | a part of `IInv` (`JudgeInv`) |
| `.VerdictsAndJudges` | `VerdictsAreRight` | the two theorems before |
| `.QuestionsHaveOneId` | `OneIdPerQuestion` | `OperandInv`: the id is made of the normalised operands |
| `.RegistryImplementsOracle` | `ImplementsOracle` | step simulation: a registration opens, a resolution answers, all else stutters |
| `.EntriesAreRight` | `EntriesAreRebuilt`, a part of `DiscussionsAreWhole` | invariant `SocialInv`: of the log, every stored revision replaces the one before it in its entry's line and changes only text and visibility (`Follows`); of the contract, `latest` is the end of that line (`EntryInv`) |
| `.PanelIsRight` | `PanelIsTrue` | `SocialInv`, and for each part of the page what makes it inductive: a transaction names the revision its author saw and a text no older (`CallInv`), a refresh that still counts is of the page and of a post its blog already had (`ReadInv`), a refresh that ends a transaction excludes another transaction (`TurnInv`). An accepted revision replaces the end of the line, so the one seen was that end. `PanelSpec` lets registry and discussions interleave in any way, which the run `registry` restricts |
| `.DiscussionsStand` | `DiscussionsAreWhole` | three invariants beside `SocialInv`. `ScoresInv`: the vote on record is the last one cast (`VoteStands`), and a score changes by what that vote changes (`CastVote`, by `SumChange`); it needs that whoever attests is a user, so `WriterInv` says that the page sends nothing without an account. `ContextsInv`: a reply is younger than its parent and of the same statement and discussion, and a discussion starts with a statement or a post. The readers collect replies to any depth (`Below`); `BelowIs` shows that a set which holds the tops and exactly the replies to its members is what they collect, by the least reply for which it would not be |
| `CompleteSetsProofs.LedgerCovered` | every behaviour of the ledger is covered: an open or winning side of a question is backed claim by claim | `Covered` is inductive with the types |
| `.SetsImplementLedger` | `ImplementsLedger` | step simulation under the invariant of `SetsInvariance`: totals of positions, which every transfer keeps and every split, merge and redemption changes alike on both sides (`Changed`, `DebitIsChange`), equal the collateral of the question (`QuestionsCovered`), the factory holds what it has wrapped (`WrappersBacked`), and the pot holds the collateral of all questions (`PotHolds`) |
| `.EveryQuestionIsCovered` | `Covered` of the ledger, in the contracts | a part of the same invariant: no question draws on another's collateral |
| `.ThePotSuffices` | `PotSuffices` | what is redeemable is bounded by the totals and these by the pot; the router burns all it holds, which the totals count too (`WinnersAreServed`) |
| `.NobodyLoses` | `NothingLost` | a step is a trade, a gift or concerns neither (`TradesAreKinds`, `ElsewhereKeeps`): what a trade takes it gives back in money or in the other kind of claim, under every answer still possible (`WorthStays`, `WorthRises`), and an answer only rules answers out (`OutcomesShrink`) |
| `.SetsTypes` | `TypeOK` | a part of the same invariant; no subtraction of the code underflows |
| `AllocationControllerProofs.TypeCorrect` | `TypeOK` | governance and revenue variables apart (`GovTypes`, `FeeTypes`) |
| `.CutsNeedConsent` | `NoCutWithoutConsent` | invariant `ConsentIsFresh`: a consent on a proposal that can still be applied was given in the current epoch |
| `.EpochsAreAChain` | `EpochsFormAChain` | invariant `Chain`: an applied proposal made the epoch after its base, each base at most once |
| `.SharesKept` | `SharesAreKept` | invariant `Kept`: what each beneficiary was to get of the revenue of every epoch is received or lies in that epoch's split; a collection adds to one epoch (`SumChange`), a new epoch adds an empty one (`SumAgrees`, `SumWith`) |
| `.PoolsUseTheController` | `PoolsSpec => Spec` | step simulation: creating an official pool configures it, a trade in it is a swap, every other step of the market stutters |
| `.CutsNeedConsentWithPools`, `.SharesKeptWithPools` | the two properties in the composition | the refinement and the theorems before |
| `.Finality` | `ResolvedPoolsOnlyExit` | invariant `HooksFit`: a pool that a hook took in has the token of that hook's statement |
| `RewardBudgetProofs.TypeCorrect`, `.AlwaysFunded`, `.AwardsStand` | `TypeOK`, `Funded`, `AwardsAreProRata` | invariant `ClaimsAfterEnd`: nothing is claimed before the end of the window, the moment from which weights are fixed |
| `.ReservationsMatch` | `ReservedIsOwed` | invariant `Books`: per program, the total weight is the sum of the weights and what is paid the sum of the awards; `reserved` is the sum over the programs of what each still owes. The awards, each rounded down, never exceed the budget (`FloorShares`) |
| `.ArithmeticNeverReverts` | no claim or closing fails for want of budget, reservation or balance | `Books`: a claim not yet made fits in what its program has not paid (`ClaimIsOwed`), and that in the reservation (`DebtsAreReserved`) |
| `.MetersServe` | `MetersServeThePool` | `MetersInvariance`: a slot holds a program bound to its pool and no two slots the same (`SlotsFit`), a program keeps its slot while it runs (`SlotsHold`) |
| `.LocksKeepTheirWord` | `LocksAreFair` | `LocksInv`: the meter's pool tokens are the sum of what was deposited (`LocksAreBacked`), so that every withdrawal is served; weight is given only for deposits (`WeightIsLocked`) |
| `.GovernedImplementsBudget` | a behaviour of the governor, the meters and the budget is one of the budget | refinement: a batch creates one program, a swap or a deposit of pool tokens records the weights of the programs it counts for, everything else stutters |
| `.GovernedImplementsMeters` | a behaviour of the governor is one of the meters | refinement: executing runs one batch, all else of the governor stutters |
| `.GovernedAwardsStand`, `.GovernedReservationsMatch`, `.GovernedMetersServe`, `.GovernedLocksKeepTheirWord` | the four properties in the composition | the two refinements and the theorems before |
| `.VotesAreFollowed` | `ProgramsAreAsVoted` | the property is not inductive: a batch that runs must find its program's binding free. `VotedInv` adds that the next id is bound nowhere (`Bindings`) and that proposals are numbered from 1 on (`Numbered`) |
| `ProofServiceProofs.ComputationsExclude` | `OneComputation` | invariant `Locked`: who computes holds the lock; the lock is given up only with the computation ended |
| `.SlotsOutliveWorkers` | `SlotCoversCleanup` | by actions: a task settles only after its tree is closed, and a stop of the API turns all trees into orphans |
| `.QueueStaysSound` | `QueueIsSound`, with its `TypeOK` | invariant `QInv`: what waits is queued, or was cancelled there (`Fresh`); what is live is active and is the job its request names (`Alive`); the active jobs are those of the queue, each once, and no more than the limits (`Listed`, `Counted`). A stop of the API empties the maps and leaves live jobs in the file, so `Alive` speaks only of a running API and a restart fails them before the maps fill again |
| `.VerdictsOnJobsStand` | `EndedJobsStayEnded` | `QInv`, and `RunsOn`: the job of the running task is "cancelling" exactly when its abort has fired, so its task cannot end it as completed |
| `.RemoteTypes` | `RemoteTypeOK` | a part of `RemoteInv` |
| `.SlotSound` | `SlotIsSound` | `RemoteInv` says for every place of an operation what its copy of the record, the slot and the run still are (`OpOK`): who holds the slot finds it as it was taken, who gives it back has seen the first attempt end. An application moves only its own slot (`SlotMovedBy`), so the other's places stay true |
| `.RetriesMeetTheirCommit` | `RetryFindsItsCommit` | `RecordOK`, `PushesOK`: a record has its commit from the moment it exists, and whatever is pushed carries it |
| `ChainLauncherProofs.WholeSnapshots` | `SnapshotsAreWhole` | invariant `Whole`: a copy past validation was read as whole |
| `.NoRollback` | `StartsContinue` | invariant `Continues`: the primary, whole or not, is of the state published last |
| `.Extensions` | `CheckpointsExtendTheChain` | invariant `Ordered`: the published state, the copy in flight, the dump and the head stand in this order on the history of the running node, from the moment its first dump begins |
| `.CleanExits` | `CleanExitSavesAll` | invariant `Saved`: after a clean exit the dump is the node's last state, and the final copy is of it |
| `.TypeCorrect` | `TypeOK` | `Types`, and `Ranges` for what the launcher remembers |
| `.ScriptsUseTheLauncher` | `DevSpec => Spec` of the launcher | a deployment is a `Mine`, every other step of a script stutters; all the theorems before hold under the scripts |
| `.ReadyNetworks` | `ReadyIsDeployed` | invariant `DevInv`: the checkpoint a restore would take, and every state it can become, has contracts with which the present chain begins (`History`), so an address that was saved is never taken by another contract (`Saves`) |
| `PublicAccessProofs.SlotsAreCounted` | `AdmissionIsBounded` | each counter is the cardinality of the set of its requests under way; a check that settles returns the slots of all those that waited on after their answer, at once (`SlotsReturned`) |
| `.FailuresAreFinal` | `RetryIsSafe` | a received request is a write that was sent, and is unanswered or answered "ok" or "unknown" |
| `.WritesAreAuthorised` | `WritesNeedAuthority` | `AuthInv`: as long as the block checked last is there, a cached "ready" is what an audit of it would find, and a cached "closed" that differs stems from an audit since which no block had an event (`CacheIsRight`, by `EntryInv`), and what a check has read is right in the same sense, step by step (`TaskInv`). So a write goes through only where the audit would let it. A block that is gone does not come back and a block that stays keeps those below it (`BlocksStayBelow`), so one unchanged block vouches for all that was read below it |
| `.TypeCorrect` | `TypeOK` | the node, the check in flight and the requests apart (`NodeTypes`, `ReadTypes`, `Awaited`) |
| `.ClientTypes` | `ClientTypeOK` | a part of `ClientInv` |
| `.OnlyOwnDataIsShown`, `.SessionsFollowTheAccount`, `.AskersSign` | `ShownIsOwn`, `SessionIsAccounts`, `SenderIsAsker` | `ClientInv`: one task at a time, and until the account is checked nobody is connected and a session there is the consenting account's (`PageTaskOK`); what was asked for by address is answered for that address (`CallsOK`) |

TLC checks each of these properties too, on the instances of section 4, except
`TypeOK` and its like, `Funded`, `NothingReverts`, `OneIdPerQuestion`,
`EpochsFormAChain`, `Covered` of the ledger and the implications between
specifications, which need no run of their own beside the proof. The inductive
invariants were checked by TLC before they were proved.

**Sums and trees.** The sums of the model are folds over finite sets, defined
by a recursive function on the subsets; the installed provers can not use the
library's induction theorems. `Sums` proves what is needed in another way: the
relation between subsets of a finite set is well-founded, so if a fact failed
there would be a smallest subset for which it fails (`SmallestSubset`, from
`WFMin`), and one element less or more gives the contradiction. The same
argument about numbers (`LeastNatural`) serves the trees of replies.

**Only model-checked.** Liveness (`EveryDeadlineSettles`,
`RevenueReachesBeneficiaries`, `ReservationsEnd`, `EveryJobEnds`, `StopEnds`,
`EveryRequestEnds`, `SlotIsFreed`, `ConnectEnds`), which is outside what the
prover handles. Every invariant and every action property of a passing run is
a theorem. The two runs that show a disagreement with a text of the repository
are counterexamples and need no proof.

## 6. What came out of it

All properties hold of the modelled code. Two statements of the repository do
not:

* `README.md:50` says that the launcher uses the last good copy when the main
  snapshot is damaged. `chain.mjs:34-38` refuses to start instead and leaves
  the choice to the operator, deliberately ("Never silently recover an older
  backup"). The run `chain_readme` shows a state with a damaged primary and a
  whole copy beside it in which no start is possible; `StartsContinue` in the
  run `chain` is the property the code has in its place.
* `App.svelte:311` tells the user after a disconnection that private data was
  cleared from the screen, and `README.md:141` says so too. The list of private
  jobs that `go('lab')` asks for (`App.svelte:237`; alike 353, 403–404, 457) is
  shown as it comes, without the comparison that every other read makes with
  the account it was asked for. The run `web_private` shows a list asked for
  before a disconnection that appears after it. `ShownIsOwn` is the property
  the guarded reads have.

A third one is visible in `Devnet` without a run of its own. `README.md:35`
says that the absence of a contract of a saved deployment is an error.
`start.mjs:78` looks for the pool coordinator alone; what `deploy.mjs:141-169`
sends after it (the verifier, the transfers of ownership, the renounced admin
role; "handover" in the model) may be missing when the chain is restored from
a checkpoint taken between the two. TLC finds such a state when
`ReadyIsDeployed` is asked for the handover as well. `ReadyIsDeployed` is
therefore about the contracts a start does look for.

One limitation of the page came up and contradicts no text: a control that
starts a new epoch without reading (`SocialPanel.svelte:38`, `40`, `76`) while
a refresh is under way leaves `loading` set, since the late refresh no longer
clears it (line 22), and the button that reads the chain again stays off
(line 57) until another control has read (`loading` in `SocialPanel`).

Two windows the code leaves open are not stated as properties: between the
verdict of the write check and the execution of the transaction the authority
may change (`WritesNeedAuthority` speaks of the block of the check), and a
machine that stops while the last checkpoint is in flight loses the blocks
since the previous one (`CleanExitSavesAll` speaks of exit code 0).

The write check errs on one side only. The comment at
`public-write-readiness.mjs:97-98` says that the audited contracts "emit every
relevant authority change". A proposal that is defeated by the end of its
voting period emits nothing, so writes that have become legitimate may stay
closed until the entry is 60 seconds old (line 112). The comment's purpose
stands: there is no blind allowance (`WritesNeedAuthority`).

## 7. What is not modelled

* **Social resolver**: lengths and encodings of texts; the order in which a
  list is sorted (choosing one is a reread) and the profile form of `App.svelte`; the reader's cache, which is
  keyed by the block's hash and holds what a read would give.
* **Lean proof bridge**: a pure view function; the registry's `Certified` and
  `Provable` stand for what it accepts.
* **API server**: the sessions are in `WebClient`, the jobs in `ProofJobs`.
  Each other handler changes a Map or the JSON file in one synchronous step;
  what is left is input validation and I/O.
* **Deployment**: a descriptor cut short by a crash, which makes every start
  fail; an explicit `npm run deploy` over an existing descriptor; the V2
  deployment; the comparison of a running API's configuration.
* **Web application**: public pages other than discussions, forms and drafts,
  several tabs with one cookie, the public mode.
* **Public surface**: the tests of hosts, origins and routes, and what a
  handler reads beside the write check.
* **Governance**: changes of membership, delegation, batches about contracts
  other than the reward programs.
* **Pilot migration**: one-off plans for a single running chain.
* **SDK**: apart from the batches for governance and the discussions, it builds transactions and
  reads the chain.
* **Operations**: install and supervise services; operating-system calls and
  file layout. The supervisor appears as the restart of the API.
* **Vendored code, frozen prototypes, zero-knowledge tools**: third-party or
  kept for reference. Vendored contracts appear as external definitions where
  the project's code calls them, the prototypes as other holders of the
  worker lock (`OtherWorker`).
