------------------------------- MODULE ProofJobs -------------------------------
(***************************************************************************)
(* The queue of Lean proof jobs of the API (server/proof-jobs.mjs) with    *)
(* the worker trees it starts: proof/resource-guard.py watching            *)
(* proof/runner.mjs, whose commands each run under an inner guard that     *)
(* holds the machine-wide worker lock.                                     *)
(*                                                                         *)
(* An event's JavaScript, with the microtasks it leads to, runs without    *)
(* interruption, so it is one step, and the file written by save() is      *)
(* never behind the state that the next step finds.  When PQueue starts a  *)
(* waiting task is left open.  A stop of the API, orderly or not, loses    *)
(* the queue but neither the file nor the worker trees.                    *)
(***************************************************************************)
EXTENDS Integers, Sequences, FiniteSets

CONSTANTS
  Owners, Inputs,
  MaxPending, MaxPerOwner,  \* createProofJobs' options
  MaxJobs,                  \* bound: jobs ever submitted
  MaxStops                  \* bound: crashes and shutdowns of the API

ASSUME ProofJobsAssumption ==
  /\ MaxPending \in Nat /\ MaxPerOwner \in Nat
  /\ MaxJobs \in Nat /\ MaxStops \in Nat

Ids == 1..MaxJobs
None == 0          \* no job, and the free lock
Other == -1        \* the lock is held by a program that is not ours

VARIABLES
  jobs,        \* db.jobs, as saved
  active,      \* ids of the entries in the Map "active"
  identities,  \* <<owner, input>> |-> id: the Map "identities"
  aborted,     \* ids whose AbortController has fired
  waiting,     \* ids in PQueue, not started
  running,     \* the id PQueue is running, or None
  api,         \* "open", "closing" (after close()) or "down"
  tree,        \* id |-> the guard process of the job and what is below it
  lock,        \* holder of the flock on oncm-worker: an id, Other or None
  stops        \* crashes and shutdowns so far

memory == <<active, identities, aborted, waiting, running>>
vars == <<jobs, memory, api, tree, lock, stops>>

LiveStatus == {"queued", "running", "cancelling"}
Terminal == {"completed", "failed", "cancelled"}

Live == {id \in DOMAIN jobs : jobs[id].status \in LiveStatus}
Key(id) == <<jobs[id].owner, jobs[id].input>>
SetStatus(id, status) == jobs' = [jobs EXCEPT ![id].status = status]

Without(f, keys) == [k \in DOMAIN f \ keys |-> f[k]]

NoTree == [phase |-> "none", computing |-> FALSE, result |-> "none", orphan |-> FALSE]

-----------------------------------------------------------------------------
(* The API's handlers *)

(* A cancelled job counts until the queue has dropped it. *)
HasRoom(owner) ==
  /\ Cardinality(active) < MaxPending
  /\ Cardinality({id \in active : jobs[id].owner = owner}) < MaxPerOwner

(* A request equal to one that is pending returns that one's job.          *)
Submit(owner, input) ==
  LET id == Len(jobs) + 1
  IN /\ api = "open"
     /\ <<owner, input>> \notin DOMAIN identities
     /\ HasRoom(owner)
     /\ Len(jobs) < MaxJobs
     /\ jobs' = Append(jobs, [owner |-> owner, input |-> input, status |-> "queued"])
     /\ active' = active \cup {id}
     /\ identities' = [k \in DOMAIN identities \cup {<<owner, input>>} |->
                        IF k = <<owner, input>> THEN id ELSE identities[k]]
     /\ waiting' = Append(waiting, id)
     /\ UNCHANGED <<aborted, running, api, tree, lock, stops>>

(* cancel, up to its first await, for each of ids.  A queued job is        *)
(* cancelled at once and its request may be made anew, but its place in    *)
(* the queue stays taken; a running one waits for its worker.              *)
CancelAll(ids) ==
  LET queued == {id \in ids : jobs[id].status = "queued"}
  IN /\ jobs' = [id \in DOMAIN jobs |->
                  IF id \in queued THEN [jobs[id] EXCEPT !.status = "cancelled"]
                  ELSE IF id \in ids THEN [jobs[id] EXCEPT !.status = "cancelling"]
                  ELSE jobs[id]]
     /\ identities' = Without(identities, {k \in DOMAIN identities : identities[k] \in queued})
     /\ aborted' = aborted \cup ids
     /\ UNCHANGED <<active, waiting, running>>

(* Mutant: cancelling the running job lets the queue go on. *)
Cancel_FreesSlot(id) ==
  /\ api # "down"
  /\ id \in Live \cap active
  /\ jobs' = [jobs EXCEPT ![id].status = "cancelled"]
  /\ identities' = Without(identities, {k \in DOMAIN identities : identities[k] = id})
  /\ aborted' = aborted \cup {id}
  /\ running' = IF running = id THEN None ELSE running
  /\ UNCHANGED <<active, waiting, api, tree, lock, stops>>

Cancel(id) ==
  /\ api # "down"
  /\ id \in Live \cap active
  /\ CancelAll({id})
  /\ UNCHANGED <<api, tree, lock, stops>>

Close ==
  /\ api = "open"
  /\ stops < MaxStops
  /\ stops' = stops + 1
  /\ api' = "closing"
  /\ CancelAll(Live \cap active)
  /\ UNCHANGED <<tree, lock>>

-----------------------------------------------------------------------------
(* The task given to PQueue, which runs one at a time *)

(* Mutant: the request's entry is removed, whichever job it now names. *)
Forget_ByKey(id) ==
  /\ active' = active \ {id}
  /\ identities' = Without(identities, {Key(id)})

(* finally *)
Forget(id) ==
  /\ active' = active \ {id}
  /\ identities' = Without(identities, {k \in DOMAIN identities : identities[k] = id})

NextTask(id) == api # "down" /\ running = None /\ waiting # << >> /\ id = Head(waiting)

(* Mutant: the abort is left to the worker. *)
Start_Unchecked(id) ==
  /\ NextTask(id)
  /\ SetStatus(id, "running")
  /\ waiting' = Tail(waiting)
  /\ running' = id
  /\ UNCHANGED <<active, identities, aborted, api, tree, lock, stops>>

Start(id) ==
  /\ NextTask(id)
  /\ id \notin aborted
  /\ SetStatus(id, "running")
  /\ waiting' = Tail(waiting)
  /\ running' = id
  /\ UNCHANGED <<active, identities, aborted, api, tree, lock, stops>>

(* A job cancelled while it waited returns at once. *)
Drain(id) ==
  /\ NextTask(id)
  /\ id \in aborted
  /\ waiting' = Tail(waiting)
  /\ Forget(id)
  /\ UNCHANGED <<jobs, aborted, running, api, tree, lock, stops>>

Settle(id, status) ==
  /\ SetStatus(id, status)
  /\ Forget(id)
  /\ running' = None
  /\ tree' = [tree EXCEPT ![id] = NoTree]
  /\ UNCHANGED <<aborted, waiting, api, lock, stops>>

(* Before the guard is spawned there are awaits: the abort may come first, *)
(* or a file may be missing.                                               *)
NotSpawned(id) ==
  /\ running = id
  /\ tree[id] = NoTree
  /\ Settle(id, IF id \in aborted THEN "cancelled" ELSE "failed")

Spawn(id) ==
  /\ running = id
  /\ tree[id] = NoTree
  /\ id \notin aborted
  /\ tree' = [tree EXCEPT ![id].phase = "watching"]
  /\ UNCHANGED <<jobs, memory, api, lock, stops>>

(* The child's "close" event. *)
WorkerClosed(id) ==
  /\ running = id
  /\ tree[id].phase = "closed"
  /\ Settle(id, IF id \in aborted THEN "cancelled"
                ELSE IF tree[id].result = "ok" THEN "completed" ELSE "failed")

-----------------------------------------------------------------------------
(* The worker tree.  It goes on when the API is gone. *)

Worker(id) == tree[id].phase = "watching"

(* A command starts under an inner guard, which gives up if the lock is    *)
(* taken; the runner then fails.                                           *)
BeginCommand(id) ==
  /\ Worker(id) /\ ~tree[id].computing
  /\ IF lock = None
     THEN /\ lock' = id
          /\ tree' = [tree EXCEPT ![id].computing = TRUE]
     ELSE /\ tree' = [tree EXCEPT ![id].phase = "stopping", ![id].result = "failed"]
          /\ UNCHANGED lock
  /\ UNCHANGED <<jobs, memory, api, stops>>

(* The inner guard stops what the command left behind, then unlocks.  The  *)
(* runner goes on with its next command or ends with a result.             *)
EndCommand(id) ==
  /\ Worker(id) /\ tree[id].computing
  /\ lock' = None
  /\ \/ tree' = [tree EXCEPT ![id].computing = FALSE]
     \/ \E result \in {"ok", "failed"} :
          tree' = [tree EXCEPT ![id] = [@ EXCEPT !.computing = FALSE, !.phase = "stopping",
                                                 !.result = result]]
  /\ UNCHANGED <<jobs, memory, api, stops>>

(* Mutant: the lock is given back before the tree is stopped. *)
Interrupt_Unlocks(id) ==
  /\ Worker(id)
  /\ tree' = [tree EXCEPT ![id].phase = "stopping", ![id].result = "failed"]
  /\ lock' = IF lock = id THEN None ELSE lock
  /\ UNCHANGED <<jobs, memory, api, stops>>

(* The guard's loop ends: a signal from the API's abort, a parent that is  *)
(* gone, the memory limit or, at any moment, the deadline.                 *)
Interrupt(id) ==
  /\ Worker(id)
  /\ tree' = [tree EXCEPT ![id].phase = "stopping", ![id].result = "failed"]
  /\ UNCHANGED <<jobs, memory, api, lock, stops>>

(* stop_tree: the guard exits only when everything below it is gone.       *)
StopTree(id) ==
  /\ tree[id].phase = "stopping"
  /\ tree' = [tree EXCEPT ![id] = IF @.orphan THEN NoTree
                                  ELSE [@ EXCEPT !.phase = "closed", !.computing = FALSE]]
  /\ lock' = IF lock = id THEN None ELSE lock
  /\ UNCHANGED <<jobs, memory, api, stops>>

(* Other programs of the machine use the same lock. *)
OtherWorker ==
  /\ \/ lock = None /\ lock' = Other
     \/ lock = Other /\ lock' = None
  /\ UNCHANGED <<jobs, memory, api, tree, stops>>

-----------------------------------------------------------------------------
(* The end and the start of the API process *)

LoseMemory ==
  /\ active' = {} /\ aborted' = {}
  /\ identities' = [k \in {} |-> None]
  /\ waiting' = << >> /\ running' = None
  /\ tree' = [id \in Ids |->
               IF tree[id].phase \in {"none", "closed"} THEN NoTree
               ELSE [tree[id] EXCEPT !.orphan = TRUE]]

Exit ==
  /\ api = "closing" /\ running = None /\ waiting = << >>
  /\ api' = "down"
  /\ LoseMemory
  /\ UNCHANGED <<jobs, lock, stops>>

Crash ==
  /\ api # "down"
  /\ stops < MaxStops
  /\ stops' = stops + 1
  /\ api' = "down"
  /\ LoseMemory
  /\ UNCHANGED <<jobs, lock>>

(* Mutant: jobs that were being cancelled are left as they are. *)
Interrupted_NotCancelling == {"queued", "running"}

Interrupted == LiveStatus

(* What was interrupted is failed, never run again. *)
Restart ==
  /\ api = "down"
  /\ api' = "open"
  /\ jobs' = [id \in DOMAIN jobs |->
               IF jobs[id].status \in Interrupted THEN [jobs[id] EXCEPT !.status = "failed"]
               ELSE jobs[id]]
  /\ UNCHANGED <<memory, tree, lock, stops>>

-----------------------------------------------------------------------------
Init ==
  /\ jobs = << >>
  /\ active = {} /\ aborted = {}
  /\ identities = [k \in {} |-> None]
  /\ waiting = << >> /\ running = None
  /\ api = "open"
  /\ tree = [id \in Ids |-> NoTree]
  /\ lock = None
  /\ stops = 0

Task(id) == Start(id) \/ Drain(id) \/ NotSpawned(id) \/ Spawn(id) \/ WorkerClosed(id)

Next ==
  \/ \E owner \in Owners, input \in Inputs : Submit(owner, input)
  \/ \E id \in Ids : Cancel(id) \/ Task(id)
  \/ \E id \in Ids : BeginCommand(id) \/ EndCommand(id) \/ Interrupt(id) \/ StopTree(id)
  \/ OtherWorker
  \/ Close \/ Exit \/ Crash \/ Restart

Spec == Init /\ [][Next]_vars

(* The event loop runs what is ready; the guard has a deadline and stops   *)
(* its tree with SIGKILL; a stopped API is started again.                  *)
Fairness ==
  /\ \A id \in Ids : WF_vars(Task(id)) /\ WF_vars(Interrupt(id)) /\ WF_vars(StopTree(id))
  /\ WF_vars(Exit) /\ WF_vars(Restart)

FairSpec == Spec /\ Fairness

-----------------------------------------------------------------------------
(* Properties *)

(* The maps, the queue and the saved file refer to the same jobs: what     *)
(* PQueue holds is what "active" counts, each once.                        *)
TypeOK ==
  /\ jobs \in Seq([owner : Owners, input : Inputs, status : LiveStatus \cup Terminal])
  /\ active \subseteq DOMAIN jobs /\ aborted \subseteq DOMAIN jobs
  /\ \A k \in DOMAIN identities : identities[k] \in active /\ Key(identities[k]) = k
  /\ active = {waiting[i] : i \in DOMAIN waiting} \cup ({running} \ {None})
  /\ Cardinality(active) = Len(waiting) + (IF running = None THEN 0 ELSE 1)
  /\ api \in {"open", "closing", "down"}
  /\ tree \in [Ids -> [phase : {"none", "watching", "stopping", "closed"},
                       computing : BOOLEAN, result : {"none", "ok", "failed"},
                       orphan : BOOLEAN]]
  /\ lock \in Ids \cup {None, Other}
  /\ stops \in 0..MaxStops

(* The machine never computes two proofs at once, whatever is cancelled,   *)
(* killed or restarted: a worker left behind by a crashed API and one of   *)
(* the new API, or of another program, exclude each other.                 *)
OneComputation ==
  \A id \in Ids : tree[id].computing =>
    /\ lock = id
    /\ \A other \in Ids : tree[other].computing => other = id

(* A slot of the queue is held until its worker's cleanup is acknowledged: *)
(* while the API runs, every worker it has started belongs to the running  *)
(* task, so a job never finds the lock taken by its predecessor.           *)
SlotCoversCleanup ==
  \A id \in Ids : tree[id].phase # "none" /\ ~tree[id].orphan => running = id

(* Repeating submit and cancel does not grow PQueue beyond the limits, for *)
(* all owners together and for each.                                       *)
QueueIsBounded ==
  /\ Len(waiting) + (IF running = None THEN 0 ELSE 1) <= MaxPending
  /\ \A owner \in Owners :
       Cardinality({i \in DOMAIN waiting : jobs[waiting[i]].owner = owner}) <= MaxPerOwner

(* One pending job per request: retrying a submission, also after a        *)
(* cancellation and while the cancelled entry still drains, never makes    *)
(* two live jobs for the same owner and input.                             *)
OneJobPerRequest ==
  \A a, b \in Live : Key(a) = Key(b) => a = b

(* The queue through every repetition of submit, cancel, run and restart:  *)
(* its maps name the jobs it holds and no others, cancelled ones that      *)
(* still drain included, it stays within its limits, and it never holds    *)
(* two live jobs for one request.                                          *)
QueueIsSound == TypeOK /\ QueueIsBounded /\ OneJobPerRequest

(* A job that ended stays as it ended: a job cancelled in the queue is     *)
(* never run, and neither a late result nor a restart rewrites a status.   *)
(* A job being cancelled is not completed by a result that comes after.    *)
EndedJobsStayEnded ==
  [][\A id \in DOMAIN jobs :
       /\ jobs[id].status \in Terminal => jobs'[id].status = jobs[id].status
       /\ jobs[id].status = "cancelling" => jobs'[id].status # "completed"]_vars

(* Every accepted job ends, through cancellations, crashes and shutdowns.  *)
EveryJobEnds ==
  \A id \in Ids : (id \in Live) ~> (id \in DOMAIN jobs /\ id \notin Live)
=============================================================================
