----------------------------- MODULE ProofServiceProofs -----------------------------
(***************************************************************************)
(* The two ways to have a proof computed: by the API's own queue and       *)
(* workers (ProofJobs), and by a remote run that applications share        *)
(* through a slot (RemoteProof).                                           *)
(***************************************************************************)
EXTENDS ProofJobs, RemoteProof, SequenceTheorems, FiniteSetTheorems, TLAPS

-----------------------------------------------------------------------------
(***************************************************************************)
(* Whatever the API does, and however often it stops, the machine computes *)
(* at most one proof, and the queue waits for each worker it has started.  *)
(***************************************************************************)

Trees == [phase : {"none", "watching", "stopping", "closed"},
          computing : BOOLEAN, result : {"none", "ok", "failed"}, orphan : BOOLEAN]

TreesOK == tree \in [Ids -> Trees]

(* Who computes holds the lock. *)
Locked == \A id \in Ids : tree[id].computing => lock = id

Inv == TreesOK /\ Locked /\ SlotCoversCleanup

LEMMA NoTreeIsTree == NoTree \in Trees
BY DEF NoTree, Trees

(* The initial state. *)
LEMMA InitInv == Init => Inv
BY DEF Init, Inv, TreesOK, Trees, Locked, SlotCoversCleanup, NoTree

(* The handlers that touch neither a worker nor the lock nor the running   *)
(* task.                                                                   *)
LEMMA QuietSteps ==
  ASSUME Inv, UNCHANGED <<tree, lock, running>>
  PROVE  Inv'
BY DEF Inv, TreesOK, Locked, SlotCoversCleanup

(* A job that starts finds no worker of the queue's: the one before has    *)
(* been cleaned up.                                                        *)
LEMMA StartInv ==
  ASSUME Inv, running = None, running' \in Ids, UNCHANGED <<tree, lock>>
  PROVE  Inv'
<1>1. \A id \in Ids : tree[id].phase # "none" => tree[id].orphan
  BY DEF Inv, SlotCoversCleanup, Ids, None
<1> QED
  BY <1>1 DEF Inv, TreesOK, Locked, SlotCoversCleanup

(* The end of the running task clears its worker; there is no other that   *)
(* the queue would have to wait for.                                       *)
LEMMA SettleInv ==
  ASSUME Inv, NEW id \in Ids, NEW status, running = id, Settle(id, status)
  PROVE  Inv'
<1>1. tree' = [tree EXCEPT ![id] = NoTree] /\ lock' = lock
  BY DEF Settle
<1>2. TreesOK'
  BY <1>1, NoTreeIsTree DEF Inv, TreesOK
<1>3. \A other \in Ids : tree'[other] = IF other = id THEN NoTree ELSE tree[other]
  BY <1>1 DEF Inv, TreesOK
<1>4. Locked'
  BY <1>1, <1>3 DEF Inv, Locked, NoTree
<1>5. SlotCoversCleanup'
  BY <1>3 DEF Inv, SlotCoversCleanup, NoTree
<1> QED
  BY <1>2, <1>4, <1>5 DEF Inv

LEMMA SpawnInv ==
  ASSUME Inv, NEW id \in Ids, Spawn(id)
  PROVE  Inv'
<1>1. /\ tree' = [tree EXCEPT ![id].phase = "watching"]
      /\ running = id /\ running' = running /\ lock' = lock
  BY DEF Spawn, memory
<1>2. TreesOK'
  BY <1>1 DEF Inv, TreesOK, Trees
<1>3. \A other \in Ids : other # id => tree'[other] = tree[other]
  BY <1>1 DEF Inv, TreesOK
<1>4. tree'[id].computing = tree[id].computing /\ tree'[id].orphan = tree[id].orphan
  BY <1>1 DEF Inv, TreesOK, Trees
<1> QED
  BY <1>1, <1>2, <1>3, <1>4 DEF Inv, Locked, SlotCoversCleanup

(* The steps of the workers themselves.  Only the holder of the lock gives *)
(* it back, and no longer computes then.                                   *)
LEMMA WorkerInv ==
  ASSUME Inv, NEW id \in Ids,
         UNCHANGED running,
         tree' \in [Ids -> Trees],
         \A other \in Ids : other # id => tree'[other] = tree[other],
         tree[id].phase # "none",
         tree'[id].phase = "none" \/ tree'[id].orphan = tree[id].orphan,
         \/ UNCHANGED lock /\ (tree'[id].computing => tree[id].computing)
         \/ lock = None /\ lock' = id
         \/ lock = id /\ lock' = None /\ ~tree'[id].computing
  PROVE  Inv'
<1>1. TreesOK'
  BY DEF TreesOK
<1>2. SlotCoversCleanup'
  BY DEF Inv, SlotCoversCleanup
<1>3. \A other \in Ids : tree[other].computing => lock = other
  BY DEF Inv, Locked
<1>4. \A other \in Ids : tree'[other].computing => lock' = other
  <2>1. CASE UNCHANGED lock /\ (tree'[id].computing => tree[id].computing)
    BY <1>3, <2>1
  <2>2. CASE lock = None /\ lock' = id
    BY <1>3, <2>2 DEF None, Ids
  <2>3. CASE lock = id /\ lock' = None /\ ~tree'[id].computing
    BY <1>3, <2>3
  <2> QED
    BY <2>1, <2>2, <2>3
<1> QED
  BY <1>1, <1>2, <1>4 DEF Inv, Locked

LEMMA BeginCommandInv ==
  ASSUME Inv, NEW id \in Ids, BeginCommand(id)
  PROVE  Inv'
<1>1. /\ tree[id].phase = "watching" /\ ~tree[id].computing /\ UNCHANGED running
      /\ tree \in [Ids -> Trees]
  BY DEF BeginCommand, Worker, memory, Inv, TreesOK
<1>2. CASE lock = None
  <2>1. tree' = [tree EXCEPT ![id].computing = TRUE] /\ lock' = id
    BY <1>2 DEF BeginCommand
  <2>2. tree' \in [Ids -> Trees]
    BY <1>1, <2>1 DEF Trees
  <2>3. tree'[id].orphan = tree[id].orphan
    BY <1>1, <2>1 DEF Trees
  <2>4. \A other \in Ids : other # id => tree'[other] = tree[other]
    BY <1>1, <2>1
  <2> QED
    BY <1>1, <1>2, <2>1, <2>2, <2>3, <2>4, WorkerInv
<1>3. CASE lock # None
  <2>1. /\ tree' = [tree EXCEPT ![id].phase = "stopping", ![id].result = "failed"]
        /\ UNCHANGED lock
    BY <1>3 DEF BeginCommand
  <2>2. tree' \in [Ids -> Trees]
    BY <1>1, <2>1 DEF Trees
  <2>3. tree'[id].orphan = tree[id].orphan /\ tree'[id].computing = tree[id].computing
    BY <1>1, <2>1 DEF Trees
  <2>4. \A other \in Ids : other # id => tree'[other] = tree[other]
    BY <1>1, <2>1
  <2> QED
    BY <1>1, <2>1, <2>2, <2>3, <2>4, WorkerInv
<1> QED
  BY <1>2, <1>3

LEMMA EndCommandInv ==
  ASSUME Inv, NEW id \in Ids, EndCommand(id)
  PROVE  Inv'
<1>1. /\ tree[id].phase = "watching" /\ tree[id].computing /\ UNCHANGED running
      /\ tree \in [Ids -> Trees] /\ lock' = None
  BY DEF EndCommand, Worker, memory, Inv, TreesOK
<1>2. lock = id
  BY <1>1 DEF Inv, Locked
<1>3. \E node \in Trees :
        /\ tree' = [tree EXCEPT ![id] = node]
        /\ ~node.computing /\ node.orphan = tree[id].orphan
  <2>1. CASE tree' = [tree EXCEPT ![id].computing = FALSE]
    <3>1. [tree[id] EXCEPT !.computing = FALSE] \in Trees
      BY <1>1 DEF Trees
    <3>2. tree' = [tree EXCEPT ![id] = [tree[id] EXCEPT !.computing = FALSE]]
      BY <2>1
    <3> QED
      BY <1>1, <3>1, <3>2 DEF Trees
  <2>2. CASE \E result \in {"ok", "failed"} :
               tree' = [tree EXCEPT ![id] = [@ EXCEPT !.computing = FALSE, !.phase = "stopping",
                                                      !.result = result]]
    <3>1. PICK result \in {"ok", "failed"} :
            tree' = [tree EXCEPT ![id] = [@ EXCEPT !.computing = FALSE, !.phase = "stopping",
                                                   !.result = result]]
      BY <2>2
    <3>2. [tree[id] EXCEPT !.computing = FALSE, !.phase = "stopping", !.result = result] \in Trees
      BY <1>1 DEF Trees
    <3> QED
      BY <1>1, <3>1, <3>2 DEF Trees
  <2> QED
    BY <2>1, <2>2 DEF EndCommand
<1>4. PICK node \in Trees : /\ tree' = [tree EXCEPT ![id] = node]
                            /\ ~node.computing /\ node.orphan = tree[id].orphan
  BY <1>3
<1>5. tree' \in [Ids -> Trees] /\ tree'[id] = node
  BY <1>1, <1>4
<1>6. \A other \in Ids : other # id => tree'[other] = tree[other]
  BY <1>1, <1>4
<1> QED
  BY <1>1, <1>2, <1>4, <1>5, <1>6, WorkerInv

LEMMA InterruptInv ==
  ASSUME Inv, NEW id \in Ids, Interrupt(id)
  PROVE  Inv'
<1>1. /\ tree[id].phase = "watching" /\ UNCHANGED <<running, lock>>
      /\ tree \in [Ids -> Trees]
      /\ tree' = [tree EXCEPT ![id].phase = "stopping", ![id].result = "failed"]
  BY DEF Interrupt, Worker, memory, Inv, TreesOK
<1>2. tree' \in [Ids -> Trees]
  BY <1>1 DEF Trees
<1>3. tree'[id].orphan = tree[id].orphan /\ tree'[id].computing = tree[id].computing
  BY <1>1 DEF Trees
<1>4. \A other \in Ids : other # id => tree'[other] = tree[other]
  BY <1>1
<1> QED
  BY <1>1, <1>2, <1>3, <1>4, WorkerInv

LEMMA StopTreeInv ==
  ASSUME Inv, NEW id \in Ids, StopTree(id)
  PROVE  Inv'
<1>1. /\ tree[id].phase = "stopping" /\ UNCHANGED running
      /\ tree \in [Ids -> Trees]
      /\ lock' = IF lock = id THEN None ELSE lock
      /\ tree' = [tree EXCEPT ![id] = IF tree[id].orphan THEN NoTree
                     ELSE [tree[id] EXCEPT !.phase = "closed", !.computing = FALSE]]
  BY DEF StopTree, memory, Inv, TreesOK
<1>2. [tree[id] EXCEPT !.phase = "closed", !.computing = FALSE] \in Trees
  BY <1>1 DEF Trees
<1>3. tree' \in [Ids -> Trees]
  BY <1>1, <1>2, NoTreeIsTree
<1>4. ~tree'[id].computing /\ (tree'[id].phase = "none" \/ tree'[id].orphan = tree[id].orphan)
  BY <1>1 DEF Trees, NoTree
<1>5. \A other \in Ids : other # id => tree'[other] = tree[other]
  BY <1>1
<1> QED
  BY <1>1, <1>3, <1>4, <1>5, WorkerInv

LEMMA OtherWorkerInv ==
  ASSUME Inv, OtherWorker
  PROVE  Inv'
<1>1. UNCHANGED <<tree, running>> /\ lock \in {None, Other}
  BY DEF OtherWorker, memory
<1>2. \A id \in Ids : ~tree[id].computing
  BY <1>1 DEF Inv, Locked, Ids, None, Other
<1> QED
  BY <1>1, <1>2 DEF Inv, TreesOK, Locked, SlotCoversCleanup

(* The queue forgets its workers; they are nobody's then. *)
LEMMA LoseMemoryInv ==
  ASSUME Inv, LoseMemory, UNCHANGED lock
  PROVE  Inv'
<1>1. tree' = [id \in Ids |->
                IF tree[id].phase \in {"none", "closed"} THEN NoTree
                ELSE [tree[id] EXCEPT !.orphan = TRUE]]
  BY DEF LoseMemory
<1>2. \A id \in Ids : [tree[id] EXCEPT !.orphan = TRUE] \in Trees
  BY DEF Inv, TreesOK, Trees
<1>3. TreesOK'
  BY <1>1, <1>2, NoTreeIsTree DEF TreesOK
<1>4. \A id \in Ids :
        /\ tree'[id].computing => tree[id].computing
        /\ tree'[id].phase # "none" => tree'[id].orphan
  BY <1>1 DEF Inv, TreesOK, Trees, NoTree
<1> QED
  BY <1>3, <1>4 DEF Inv, Locked, SlotCoversCleanup

LEMMA StepInv ==
  ASSUME Inv, [Next]_vars
  PROVE  Inv'
<1>1. ASSUME NEW owner \in Owners, NEW input \in Inputs, Submit(owner, input)
      PROVE  Inv'
  BY <1>1, QuietSteps DEF Submit
<1>2. ASSUME NEW id \in Ids, Cancel(id)
      PROVE  Inv'
  BY <1>2, QuietSteps DEF Cancel, CancelAll
<1>3. ASSUME NEW id \in Ids, Task(id)
      PROVE  Inv'
  <2>1. CASE Start(id)
    BY <2>1, StartInv DEF Start, NextTask
  <2>2. CASE Drain(id)
    BY <2>2, QuietSteps DEF Drain
  <2>3. CASE NotSpawned(id)
    BY <2>3, SettleInv DEF NotSpawned
  <2>4. CASE Spawn(id)
    BY <2>4, SpawnInv
  <2>5. CASE WorkerClosed(id)
    BY <2>5, SettleInv DEF WorkerClosed
  <2> QED
    BY <1>3, <2>1, <2>2, <2>3, <2>4, <2>5 DEF Task
<1>4. ASSUME NEW id \in Ids, BeginCommand(id) \/ EndCommand(id) \/ Interrupt(id) \/ StopTree(id)
      PROVE  Inv'
  BY <1>4, BeginCommandInv, EndCommandInv, InterruptInv, StopTreeInv
<1>5. ASSUME OtherWorker
      PROVE  Inv'
  BY <1>5, OtherWorkerInv
<1>6. ASSUME Close
      PROVE  Inv'
  BY <1>6, QuietSteps DEF Close, CancelAll
<1>7. ASSUME Exit \/ Crash
      PROVE  Inv'
  BY <1>7, LoseMemoryInv DEF Exit, Crash
<1>8. ASSUME Restart
      PROVE  Inv'
  BY <1>8, QuietSteps DEF Restart, memory
<1>9. ASSUME UNCHANGED vars
      PROVE  Inv'
  BY <1>9, QuietSteps DEF vars, memory
<1> QED
  BY <1>1, <1>2, <1>3, <1>4, <1>5, <1>6, <1>7, <1>8, <1>9 DEF Next

(* The machine never computes two proofs at once (resource-guard.py's lock *)
(* and the order of its finally blocks), for every number of jobs, owners  *)
(* and stops of the API.                                                   *)
THEOREM ComputationsExclude == Spec => []OneComputation
<1>1. Inv => OneComputation
  BY DEF Inv, Locked, OneComputation
<1> QED
  BY <1>1, InitInv, StepInv, PTL DEF Spec

(* A slot of the queue is held until its worker's cleanup is acknowledged  *)
(* (proof-jobs.mjs waits for the child's "close"), for every number of     *)
(* jobs, owners and stops of the API.                                      *)
THEOREM SlotsOutliveWorkers == Spec => []SlotCoversCleanup
<1>1. Inv => SlotCoversCleanup
  BY DEF Inv
<1> QED
  BY <1>1, InitInv, StepInv, PTL DEF Spec

-----------------------------------------------------------------------------
(* The queue.  Its maps change together, so the invariant says how they    *)
(* agree: what waits is queued or was cancelled there, what is live is     *)
(* active and named by its request, and the active jobs are counted.       *)

Elements(s) == {s[i] : i \in DOMAIN s}

NoRepeat(s) == \A i, j \in DOMAIN s : s[i] = s[j] => i = j

LEMMA AppendElements ==
  ASSUME NEW s \in Seq(Nat), NEW e \in Nat
  PROVE  /\ Append(s, e) \in Seq(Nat)
         /\ Len(Append(s, e)) = Len(s) + 1
         /\ Elements(Append(s, e)) = Elements(s) \cup {e}
         /\ NoRepeat(s) /\ e \notin Elements(s) => NoRepeat(Append(s, e))
<1> DEFINE t == Append(s, e)
<1>1. /\ t \in Seq(Nat) /\ Len(t) = Len(s) + 1
      /\ \A i \in 1..Len(s) : t[i] = s[i]
      /\ t[Len(s) + 1] = e
  BY AppendProperties
<1>2. Len(s) \in Nat /\ DOMAIN s = 1..Len(s) /\ DOMAIN t = 1..(Len(s) + 1)
  BY <1>1, LenProperties
<1> HIDE DEF t
<1>3. DOMAIN t = DOMAIN s \cup {Len(s) + 1} /\ Len(s) + 1 \notin DOMAIN s
  BY <1>2
<1>4. Elements(t) = Elements(s) \cup {e}
  BY <1>1, <1>2, <1>3 DEF Elements
<1>5. ASSUME NoRepeat(s), e \notin Elements(s) PROVE NoRepeat(t)
  BY <1>1, <1>2, <1>3, <1>5 DEF NoRepeat, Elements
<1> QED
  BY <1>1, <1>4, <1>5 DEF t

LEMMA TailElements ==
  ASSUME NEW s \in Seq(Nat), s # << >>, NoRepeat(s)
  PROVE  /\ Tail(s) \in Seq(Nat)
         /\ Len(Tail(s)) = Len(s) - 1
         /\ Head(s) \in Elements(s)
         /\ Elements(Tail(s)) = Elements(s) \ {Head(s)}
         /\ NoRepeat(Tail(s))
<1> DEFINE t == Tail(s)
<1>1. /\ t \in Seq(Nat) /\ Len(t) = Len(s) - 1
      /\ \A i \in 1..Len(t) : t[i] = s[i + 1]
  BY HeadTailProperties
<1>2. /\ Len(s) \in Nat \ {0} /\ DOMAIN s = 1..Len(s) /\ DOMAIN t = 1..(Len(s) - 1)
      /\ Head(s) = s[1]
  <2>1. Len(s) \in Nat \ {0} /\ DOMAIN s = 1..Len(s)
    BY LenProperties, EmptySeq
  <2>2. DOMAIN t = 1..Len(t)
    BY <1>1, LenProperties
  <2>3. Head(s) = s[1]
    OBVIOUS
  <2> QED
    BY <1>1, <2>1, <2>2, <2>3
<1> HIDE DEF t
<1>3. \A i \in DOMAIN t : i + 1 \in DOMAIN s /\ i + 1 # 1 /\ t[i] = s[i + 1]
  BY <1>1, <1>2
<1>4. \A j \in DOMAIN s : j # 1 => j - 1 \in DOMAIN t /\ t[j - 1] = s[j]
  <2> TAKE j \in DOMAIN s
  <2> HAVE j # 1
  <2>1. j - 1 \in DOMAIN t /\ (j - 1) + 1 = j
    BY <1>2
  <2> QED
    BY <1>3, <2>1
<1>5. 1 \in DOMAIN s
  BY <1>2
<1>6. Elements(t) \subseteq Elements(s) \ {s[1]}
  BY <1>3, <1>5 DEF Elements, NoRepeat
<1>7. Elements(s) \ {s[1]} \subseteq Elements(t)
  BY <1>4 DEF Elements
<1>8. NoRepeat(t)
  <2> SUFFICES ASSUME NEW i \in DOMAIN t, NEW j \in DOMAIN t, t[i] = t[j] PROVE i = j
    BY DEF NoRepeat
  <2>1. i + 1 = j + 1
    BY <1>3 DEF NoRepeat
  <2> QED
    BY <1>2, <2>1
<1>9. Head(s) \in Elements(s)
  BY <1>2, <1>5 DEF Elements
<1>10. Elements(t) = Elements(s) \ {Head(s)}
  BY <1>2, <1>6, <1>7
<1> QED
  BY <1>1, <1>8, <1>9, <1>10 DEF t

JobShape == [owner : Owners, input : Inputs, status : LiveStatus \cup Terminal]

QueueTypes ==
  /\ jobs \in Seq(JobShape)
  /\ waiting \in Seq(Nat) /\ NoRepeat(waiting)
  /\ running \in Nat
  /\ active \subseteq DOMAIN jobs /\ aborted \subseteq DOMAIN jobs
  /\ api \in {"open", "closing", "down"}
  /\ stops \in 0..MaxStops

Listed ==
  /\ active = Elements(waiting) \cup ({running} \ {None})
  /\ running \notin Elements(waiting)
  /\ api = "down" => active = {}

Named == \A k \in DOMAIN identities : identities[k] \in active /\ Key(identities[k]) = k

Fresh ==
  \A id \in Elements(waiting) :
    jobs[id].status = IF id \in aborted THEN "cancelled" ELSE "queued"

Alive ==
  api # "down" =>
    \A id \in Live : id \in active /\ Key(id) \in DOMAIN identities /\ identities[Key(id)] = id

OwnedBy(owner) == {id \in active : jobs[id].owner = owner}

Counted ==
  /\ IsFiniteSet(active)
  /\ Cardinality(active) = Len(waiting) + (IF running = None THEN 0 ELSE 1)
  /\ Cardinality(active) <= MaxPending
  /\ \A owner \in Owners : Cardinality(OwnedBy(owner)) <= MaxPerOwner

QInv == QueueTypes /\ Listed /\ Named /\ Fresh /\ Alive /\ Counted /\ OneJobPerRequest

(* Steps that end jobs or change their status keep whose they are.         *)
SameRequests ==
  /\ DOMAIN jobs' = DOMAIN jobs
  /\ \A id \in DOMAIN jobs : jobs'[id].owner = jobs[id].owner /\ jobs'[id].input = jobs[id].input

LEMMA QInitHolds == Init => QInv
<1> SUFFICES ASSUME Init PROVE QInv
  OBVIOUS
<1>1. jobs = << >> /\ waiting = << >> /\ active = {} /\ aborted = {} /\ running = None /\ DOMAIN identities = {}
  BY DEF Init
<1>2. DOMAIN << >> = {} /\ Len(<< >>) = 0 /\ << >> \in Seq(Nat) /\ << >> \in Seq(JobShape)
  BY EmptySeq
<1>3. QueueTypes
  BY <1>1, <1>2, ProofJobsAssumption DEF QueueTypes, NoRepeat, Init, None, ProofJobsAssumption
<1>4. Listed /\ Named /\ Fresh /\ Alive /\ OneJobPerRequest
  BY <1>1, <1>2 DEF Listed, Named, Fresh, Alive, OneJobPerRequest, Elements, Live
<1>5. \A owner : OwnedBy(owner) = {}
  BY <1>1 DEF OwnedBy
<1>6. Counted
  BY <1>1, <1>2, <1>5, FS_EmptySet, ProofJobsAssumption DEF Counted, ProofJobsAssumption
<1> QED
  BY <1>3, <1>4, <1>6 DEF QInv

(* Fewer active jobs are within the limits if more were.                   *)
LEMMA OwnersStayBounded ==
  ASSUME QueueTypes, Counted, SameRequests, active' \subseteq active
  PROVE  \A owner \in Owners : Cardinality(OwnedBy(owner)') <= MaxPerOwner
<1> TAKE owner \in Owners
<1>1. OwnedBy(owner)' \subseteq OwnedBy(owner)
  BY DEF OwnedBy, SameRequests, QueueTypes
<1>2. IsFiniteSet(OwnedBy(owner))
  BY FS_Subset DEF Counted, OwnedBy
<1>3. IsFiniteSet(OwnedBy(owner)') /\ Cardinality(OwnedBy(owner)') <= Cardinality(OwnedBy(owner))
  BY <1>1, <1>2, FS_Subset
<1>4. Cardinality(OwnedBy(owner)) \in Nat /\ Cardinality(OwnedBy(owner)') \in Nat
  BY <1>2, <1>3, FS_CardinalityType
<1> QED
  BY <1>3, <1>4, ProofJobsAssumption DEF Counted, ProofJobsAssumption

LEMMA SubmitKeepsQueue ==
  ASSUME QInv, NEW owner \in Owners, NEW input \in Inputs, Submit(owner, input)
  PROVE  QInv'
<1> DEFINE id == Len(jobs) + 1
           key == <<owner, input>>
           job == [owner |-> owner, input |-> input, status |-> "queued"]
<1>1. /\ jobs' = Append(jobs, job) /\ active' = active \cup {id}
      /\ waiting' = Append(waiting, id)
      /\ aborted' = aborted /\ running' = running /\ api' = api /\ stops' = stops
      /\ api = "open" /\ key \notin DOMAIN identities
      /\ identities' = [k \in DOMAIN identities \cup {key} |-> IF k = key THEN id ELSE identities[k]]
  BY DEF Submit
<1>2. /\ Cardinality(active) < MaxPending
      /\ Cardinality(OwnedBy(owner)) < MaxPerOwner
  BY DEF Submit, HasRoom, OwnedBy
<1>3. job \in JobShape /\ job.owner = owner /\ job.input = input /\ job.status = "queued"
  BY DEF JobShape, LiveStatus, Terminal
<1> HIDE DEF job
<1>4. /\ jobs' \in Seq(JobShape) /\ Len(jobs') = Len(jobs) + 1
      /\ \A i \in 1..Len(jobs) : jobs'[i] = jobs[i]
      /\ jobs'[Len(jobs) + 1] = job
  BY <1>1, <1>3, AppendProperties DEF QInv, QueueTypes
<1>5. DOMAIN jobs = 1..Len(jobs) /\ DOMAIN jobs' = 1..(Len(jobs) + 1) /\ Len(jobs) \in Nat
  BY <1>4, LenProperties DEF QInv, QueueTypes
<1>6. /\ id \in Nat /\ id # None /\ id \notin DOMAIN jobs
      /\ DOMAIN jobs' = DOMAIN jobs \cup {id}
      /\ \A i \in DOMAIN jobs : jobs'[i] = jobs[i]
      /\ jobs'[id] = job
  BY <1>4, <1>5 DEF None
<1> HIDE DEF id
<1>7. id \notin active /\ id \notin aborted /\ id \notin Elements(waiting) /\ id # running
  BY <1>6 DEF QInv, QueueTypes, Listed
<1>8. /\ waiting' \in Seq(Nat) /\ NoRepeat(waiting') /\ Len(waiting') = Len(waiting) + 1
      /\ Elements(waiting') = Elements(waiting) \cup {id}
  BY <1>1, <1>6, <1>7, AppendElements DEF QInv, QueueTypes
<1>9. QueueTypes'
  BY <1>1, <1>4, <1>6, <1>8 DEF QInv, QueueTypes, NoRepeat
<1>10. Listed'
  BY <1>1, <1>7, <1>8 DEF QInv, Listed, Elements
<1>11. \A k \in DOMAIN identities' :
         \/ k = key /\ identities'[k] = id
         \/ k \in DOMAIN identities /\ k # key /\ identities'[k] = identities[k]
  BY <1>1
<1>12. Named'
  <2> SUFFICES ASSUME NEW k \in DOMAIN identities'
               PROVE  /\ identities'[k] \in active'
                      /\ <<jobs'[identities'[k]].owner, jobs'[identities'[k]].input>> = k
    BY DEF Named, Key
  <2>1. CASE k = key /\ identities'[k] = id
    BY <1>1, <1>3, <1>6, <2>1
  <2>2. CASE k \in DOMAIN identities /\ k # key /\ identities'[k] = identities[k]
    BY <1>1, <1>6, <2>2 DEF QInv, Named, Key, QueueTypes
  <2> QED
    BY <1>11, <2>1, <2>2
<1>13. Fresh'
  <2> SUFFICES ASSUME NEW i \in Elements(waiting')
               PROVE  jobs'[i].status = IF i \in aborted THEN "cancelled" ELSE "queued"
    BY <1>1 DEF Fresh, Elements
  <2>1. CASE i = id
    BY <1>3, <1>6, <1>7, <2>1
  <2>2. CASE i \in Elements(waiting)
    BY <1>6, <2>2 DEF QInv, Fresh, Listed, QueueTypes
  <2> QED
    BY <1>8, <2>1, <2>2
<1>14. Live' = Live \cup {id}
  BY <1>3, <1>6 DEF Live, LiveStatus
<1>15. ASSUME NEW i \in Live
       PROVE  /\ i \in active /\ i \in DOMAIN jobs /\ i # id /\ jobs'[i] = jobs[i]
              /\ Key(i) \in DOMAIN identities /\ Key(i) # key
              /\ identities'[Key(i)] = i
  BY <1>1, <1>6 DEF QInv, Alive, Live
<1>16. Alive'
  <2> SUFFICES ASSUME NEW i \in Live'
               PROVE  LET k == <<jobs'[i].owner, jobs'[i].input>>
                      IN  i \in active' /\ k \in DOMAIN identities' /\ identities'[k] = i
    BY DEF Alive, Key
  <2>1. CASE i = id
    BY <1>1, <1>3, <1>6, <2>1
  <2>2. CASE i \in Live
    BY <1>1, <1>15, <2>2 DEF Key
  <2> QED
    BY <1>14, <2>1, <2>2
<1>17. OneJobPerRequest'
  <2> SUFFICES ASSUME NEW a \in Live', NEW b \in Live',
                      <<jobs'[a].owner, jobs'[a].input>> = <<jobs'[b].owner, jobs'[b].input>>
               PROVE  a = b
    BY DEF OneJobPerRequest, Key
  <2>1. \A i \in Live : <<jobs'[i].owner, jobs'[i].input>> = Key(i)
    BY <1>15 DEF Key
  <2>2. <<jobs'[id].owner, jobs'[id].input>> = key
    BY <1>3, <1>6
  <2> QED
    BY <1>14, <1>15, <2>1, <2>2 DEF QInv, OneJobPerRequest
<1>18. IsFiniteSet(active') /\ Cardinality(active') = Cardinality(active) + 1
  BY <1>1, <1>7, FS_AddElement DEF QInv, Counted
<1>19. ASSUME NEW o \in Owners
       PROVE  Cardinality(OwnedBy(o)') <= MaxPerOwner
  <2>1. OwnedBy(o)' = IF o = owner THEN OwnedBy(o) \cup {id} ELSE OwnedBy(o)
    BY <1>1, <1>3, <1>6 DEF OwnedBy, QInv, QueueTypes
  <2>2. IsFiniteSet(OwnedBy(o)) /\ id \notin OwnedBy(o)
    BY <1>7, FS_Subset DEF QInv, Counted, OwnedBy
  <2>3. Cardinality(OwnedBy(o) \cup {id}) = Cardinality(OwnedBy(o)) + 1 /\ Cardinality(OwnedBy(o)) \in Nat
    BY <2>2, FS_AddElement, FS_CardinalityType
  <2> QED
    BY <1>2, <2>1, <2>3, ProofJobsAssumption DEF QInv, Counted, ProofJobsAssumption
<1>20. Counted'
  <2>1. Cardinality(active) \in Nat
    BY FS_CardinalityType DEF QInv, Counted
  <2>2. Cardinality(active') <= MaxPending
    BY <1>2, <1>18, <2>1, ProofJobsAssumption DEF ProofJobsAssumption
  <2>3. Cardinality(active') = Len(waiting') + (IF running' = None THEN 0 ELSE 1)
    <3>1. Len(waiting) \in Nat
      BY LenProperties DEF QInv, QueueTypes
    <3> QED
      BY <1>1, <1>8, <1>18, <3>1 DEF QInv, Counted
  <2> QED
    BY <1>18, <1>19, <2>2, <2>3 DEF Counted
<1> QED
  BY <1>9, <1>10, <1>12, <1>13, <1>16, <1>17, <1>20 DEF QInv

LEMMA CancelKeepsQueue ==
  ASSUME QInv, NEW ids \in SUBSET (Live \cap active), CancelAll(ids),
         api # "down", api' \in {"open", "closing"}, stops' \in 0..MaxStops
  PROVE  QInv'
<1> DEFINE queued == {id \in ids : jobs[id].status = "queued"}
<1>1. /\ jobs' = [id \in DOMAIN jobs |->
                   IF id \in queued THEN [jobs[id] EXCEPT !.status = "cancelled"]
                   ELSE IF id \in ids THEN [jobs[id] EXCEPT !.status = "cancelling"]
                   ELSE jobs[id]]
      /\ identities' = Without(identities, {k \in DOMAIN identities : identities[k] \in queued})
      /\ aborted' = aborted \cup ids
      /\ active' = active /\ waiting' = waiting /\ running' = running
  BY DEF CancelAll
<1>2. /\ ids \subseteq Live /\ ids \subseteq DOMAIN jobs /\ queued \subseteq ids
      /\ \A id \in ids : id \in queued <=> jobs[id].status = "queued"
  BY DEF Live
<1> HIDE DEF queued
<1>3. \A id \in DOMAIN jobs : jobs[id] \in JobShape
  BY LenProperties DEF QInv, QueueTypes
<1>4. \A id \in DOMAIN jobs :
        /\ jobs'[id] \in JobShape
        /\ jobs'[id].owner = jobs[id].owner /\ jobs'[id].input = jobs[id].input
        /\ jobs'[id].status = IF id \in queued THEN "cancelled"
                              ELSE IF id \in ids THEN "cancelling" ELSE jobs[id].status
  BY <1>1, <1>3 DEF JobShape, LiveStatus, Terminal
<1>5. DOMAIN jobs' = DOMAIN jobs /\ jobs' \in [DOMAIN jobs -> JobShape]
  BY <1>1, <1>4
<1>6. jobs' \in Seq(JobShape)
  <2>1. DOMAIN jobs = 1..Len(jobs) /\ Len(jobs) \in Nat
    BY LenProperties DEF QInv, QueueTypes
  <2> QED
    BY <1>5, <2>1
<1>7. SameRequests
  BY <1>4, <1>5 DEF SameRequests
<1>8. QueueTypes'
  BY <1>1, <1>2, <1>5, <1>6 DEF QInv, QueueTypes, NoRepeat
<1>9. Listed'
  BY <1>1 DEF QInv, Listed, Elements
<1>10. /\ \A k \in DOMAIN identities : identities[k] \notin queued
             => k \in DOMAIN identities' /\ identities'[k] = identities[k]
       /\ \A k \in DOMAIN identities' : k \in DOMAIN identities /\ identities'[k] = identities[k]
  BY <1>1 DEF Without
<1>11. Named'
  BY <1>1, <1>7, <1>10 DEF QInv, QueueTypes, Named, Key, SameRequests
<1>12. Fresh'
  <2> SUFFICES ASSUME NEW id \in Elements(waiting)
               PROVE  jobs'[id].status = IF id \in aborted \cup ids THEN "cancelled" ELSE "queued"
    BY <1>1 DEF Fresh, Elements
  <2>1. id \in DOMAIN jobs /\ jobs[id].status = IF id \in aborted THEN "cancelled" ELSE "queued"
    BY DEF QInv, Fresh, Listed, QueueTypes
  <2>2. id \in ids => id \in queued
    BY <1>2, <2>1 DEF Live, LiveStatus
  <2> QED
    BY <1>2, <1>4, <2>1, <2>2
<1>13. \A id \in Live' : id \in Live /\ id \in DOMAIN jobs /\ id \notin queued
  BY <1>2, <1>4, <1>5 DEF Live, LiveStatus
<1>14. \A id \in DOMAIN jobs : <<jobs'[id].owner, jobs'[id].input>> = Key(id)
  BY <1>4 DEF Key
<1>15. Alive'
  <2> SUFFICES ASSUME NEW id \in Live'
               PROVE  LET k == <<jobs'[id].owner, jobs'[id].input>>
                      IN  id \in active' /\ k \in DOMAIN identities' /\ identities'[k] = id
    BY DEF Alive, Key
  <2>1. id \in active /\ Key(id) \in DOMAIN identities /\ identities[Key(id)] = id
    BY <1>13 DEF QInv, Alive
  <2> QED
    BY <1>1, <1>10, <1>13, <1>14, <2>1
<1>16. OneJobPerRequest'
  <2> SUFFICES ASSUME NEW a \in Live', NEW b \in Live',
                      <<jobs'[a].owner, jobs'[a].input>> = <<jobs'[b].owner, jobs'[b].input>>
               PROVE  a = b
    BY DEF OneJobPerRequest, Key
  <2> QED
    BY <1>13, <1>14 DEF QInv, OneJobPerRequest
<1>17. Counted'
  <2>1. \A owner \in Owners : Cardinality(OwnedBy(owner)') <= MaxPerOwner
    BY <1>1, <1>7, OwnersStayBounded DEF QInv
  <2> QED
    BY <1>1, <2>1 DEF QInv, Counted
<1> QED
  BY <1>8, <1>9, <1>11, <1>12, <1>15, <1>16, <1>17 DEF QInv

(* One job gets another status.                                            *)
LEMMA StatusSet ==
  ASSUME QueueTypes, NEW id \in DOMAIN jobs, NEW status \in LiveStatus \cup Terminal,
         SetStatus(id, status)
  PROVE  /\ jobs' \in Seq(JobShape) /\ SameRequests
         /\ jobs'[id].status = status
         /\ \A i \in DOMAIN jobs : i # id => jobs'[i] = jobs[i]
<1> DEFINE q == [jobs[id] EXCEPT !.status = status]
<1>1. jobs' = [jobs EXCEPT ![id] = q]
  BY DEF SetStatus
<1>2. DOMAIN jobs = 1..Len(jobs) /\ Len(jobs) \in Nat /\ jobs \in [DOMAIN jobs -> JobShape]
  BY LenProperties DEF QueueTypes
<1>3. q \in JobShape /\ q.owner = jobs[id].owner /\ q.input = jobs[id].input /\ q.status = status
  BY <1>2 DEF JobShape
<1> HIDE DEF q
<1>4. jobs' \in [DOMAIN jobs -> JobShape]
  BY <1>1, <1>2, <1>3
<1>5. jobs' \in Seq(JobShape)
  BY <1>2, <1>4
<1>6. /\ jobs'[id] = q
      /\ \A i \in DOMAIN jobs : i # id => jobs'[i] = jobs[i]
  BY <1>1, <1>2
<1> QED
  BY <1>3, <1>4, <1>5, <1>6 DEF SameRequests

LEMMA StartKeepsQueue ==
  ASSUME QInv, NEW id, Start(id)
  PROVE  QInv'
<1>1. /\ api # "down" /\ running = None /\ waiting # << >> /\ id = Head(waiting)
      /\ id \notin aborted /\ SetStatus(id, "running")
      /\ waiting' = Tail(waiting) /\ running' = id
      /\ UNCHANGED <<active, identities, aborted, api, stops>>
  BY DEF Start, NextTask
<1>2. /\ waiting' \in Seq(Nat) /\ Len(waiting') = Len(waiting) - 1
      /\ id \in Elements(waiting)
      /\ Elements(waiting') = Elements(waiting) \ {id} /\ NoRepeat(waiting')
  BY <1>1, TailElements DEF QInv, QueueTypes
<1>3. id \in active /\ id \in DOMAIN jobs /\ jobs[id].status = "queued" /\ id # None
  BY <1>1, <1>2 DEF QInv, QueueTypes, Listed, Fresh
<1>4. /\ jobs' \in Seq(JobShape) /\ SameRequests
      /\ jobs'[id].status = "running"
      /\ \A i \in DOMAIN jobs : i # id => jobs'[i] = jobs[i]
  BY <1>1, <1>3, StatusSet DEF QInv, LiveStatus
<1>5. id \in Nat
  BY <1>1, HeadTailProperties DEF QInv, QueueTypes
<1>6. QueueTypes'
  BY <1>1, <1>2, <1>4, <1>5 DEF QInv, QueueTypes, SameRequests, NoRepeat
<1>7. Listed'
  BY <1>1, <1>2, <1>3 DEF QInv, Listed, Elements
<1>8. \A i \in DOMAIN jobs : <<jobs'[i].owner, jobs'[i].input>> = Key(i)
  BY <1>4 DEF Key, SameRequests
<1>9. Named'
  BY <1>1, <1>8 DEF QInv, QueueTypes, Named, Key
<1>10. Fresh'
  BY <1>1, <1>2, <1>4 DEF QInv, QueueTypes, Listed, Fresh, Elements
<1>11. Live' = Live
  BY <1>3, <1>4 DEF Live, LiveStatus, SameRequests
<1>12. Live \subseteq DOMAIN jobs
  BY DEF Live
<1>13. Alive'
  BY <1>1, <1>8, <1>11, <1>12 DEF QInv, Alive, Key
<1>14. OneJobPerRequest'
  BY <1>8, <1>11, <1>12 DEF QInv, OneJobPerRequest, Key
<1>15. Counted'
  <2>1. \A owner \in Owners : Cardinality(OwnedBy(owner)') <= MaxPerOwner
    BY <1>1, <1>4, OwnersStayBounded DEF QInv
  <2>2. Len(waiting) \in Nat
    BY LenProperties DEF QInv, QueueTypes
  <2> QED
    BY <1>1, <1>2, <1>3, <2>1, <2>2 DEF QInv, Counted
<1> QED
  BY <1>6, <1>7, <1>9, <1>10, <1>13, <1>14, <1>15 DEF QInv

(* A job that has ended leaves the maps.                                   *)
LEMMA ForgetKeepsQueue ==
  ASSUME QInv, NEW id \in active, Forget(id),
         jobs' \in Seq(JobShape), SameRequests,
         jobs'[id].status \in Terminal,
         \A i \in DOMAIN jobs : i # id => jobs'[i] = jobs[i],
         waiting' \in Seq(Nat), NoRepeat(waiting'), running' = None,
         Elements(waiting') = Elements(waiting) \ {id},
         \A i \in active : i # id => i \in Elements(waiting),
         Len(waiting') + 1 = Len(waiting) + (IF running = None THEN 0 ELSE 1),
         aborted' = aborted, api' = api, stops' = stops
  PROVE  QInv'
<1>1. /\ active' = active \ {id}
      /\ identities' = Without(identities, {k \in DOMAIN identities : identities[k] = id})
  BY DEF Forget
<1>2. /\ \A k \in DOMAIN identities : identities[k] # id
            => k \in DOMAIN identities' /\ identities'[k] = identities[k]
      /\ \A k \in DOMAIN identities' :
            k \in DOMAIN identities /\ identities'[k] = identities[k] /\ identities[k] # id
  BY <1>1 DEF Without
<1>3. QueueTypes'
  BY <1>1 DEF QInv, QueueTypes, SameRequests, None, NoRepeat
<1>4. Listed'
  <2>1. active' = Elements(waiting')
    BY <1>1 DEF QInv, Listed
  <2>2. 0 \notin Elements(waiting')
    <3>1. 0 \notin DOMAIN jobs
      BY LenProperties DEF QInv, QueueTypes
    <3> QED
      BY <1>1, <2>1, <3>1 DEF QInv, QueueTypes
  <2>3. api' = "down" => active' = {}
    BY <1>1 DEF QInv, Listed
  <2> QED
    BY <2>1, <2>2, <2>3 DEF Listed, None, Elements
<1>5. \A i \in DOMAIN jobs : <<jobs'[i].owner, jobs'[i].input>> = Key(i)
  BY DEF Key, SameRequests
<1>6. Named'
  BY <1>1, <1>2, <1>5 DEF QInv, QueueTypes, Named, Key
<1>7. Fresh'
  BY DEF QInv, QueueTypes, Listed, Fresh, Elements
<1>8. Live' = Live \ {id}
  <2>1. id \notin Live'
    BY DEF Live, LiveStatus, Terminal
  <2> QED
    BY <2>1 DEF Live, SameRequests
<1>9. Live \subseteq DOMAIN jobs
  BY DEF Live
<1>10. Alive'
  <2> SUFFICES ASSUME api # "down", NEW i \in Live'
               PROVE  LET k == <<jobs'[i].owner, jobs'[i].input>>
                      IN  i \in active' /\ k \in DOMAIN identities' /\ identities'[k] = i
    BY DEF Alive, Key
  <2>1. i \in active /\ Key(i) \in DOMAIN identities /\ identities[Key(i)] = i /\ i # id
    BY <1>8 DEF QInv, Alive
  <2> QED
    BY <1>1, <1>2, <1>5, <1>8, <1>9, <2>1
<1>11. OneJobPerRequest'
  BY <1>5, <1>8, <1>9 DEF QInv, OneJobPerRequest, Key
<1>12. Counted'
  <2>1. \A owner \in Owners : Cardinality(OwnedBy(owner)') <= MaxPerOwner
    BY <1>1, OwnersStayBounded DEF QInv
  <2>2. IsFiniteSet(active') /\ Cardinality(active') = Cardinality(active) - 1
    BY <1>1, FS_RemoveElement DEF QInv, Counted
  <2>3. Cardinality(active) \in Nat /\ Len(waiting) \in Nat /\ Len(waiting') \in Nat
    BY FS_CardinalityType, LenProperties DEF QInv, Counted, QueueTypes
  <2>4. Cardinality(active') = Len(waiting') /\ Cardinality(active') <= MaxPending
    BY <2>2, <2>3, ProofJobsAssumption DEF QInv, Counted, ProofJobsAssumption
  <2> QED
    BY <2>1, <2>2, <2>4, <2>3 DEF Counted
<1> QED
  BY <1>3, <1>4, <1>6, <1>7, <1>10, <1>11, <1>12 DEF QInv

LEMMA DrainKeepsQueue ==
  ASSUME QInv, NEW id, Drain(id)
  PROVE  QInv'
<1>1. /\ api # "down" /\ running = None /\ waiting # << >> /\ id = Head(waiting)
      /\ id \in aborted /\ Forget(id)
      /\ waiting' = Tail(waiting)
      /\ UNCHANGED <<jobs, aborted, running, api, stops>>
  BY DEF Drain, NextTask
<1>2. /\ waiting' \in Seq(Nat) /\ Len(waiting') = Len(waiting) - 1
      /\ id \in Elements(waiting)
      /\ Elements(waiting') = Elements(waiting) \ {id} /\ NoRepeat(waiting')
  BY <1>1, TailElements DEF QInv, QueueTypes
<1>3. id \in active /\ id \in DOMAIN jobs /\ jobs[id].status = "cancelled"
  BY <1>1, <1>2 DEF QInv, QueueTypes, Listed, Fresh
<1>4. jobs' \in Seq(JobShape) /\ SameRequests /\ jobs'[id].status \in Terminal
  BY <1>1, <1>3 DEF QInv, QueueTypes, SameRequests, Terminal
<1>5. active = Elements(waiting)
  BY <1>1 DEF QInv, Listed
<1>6. Len(waiting') + 1 = Len(waiting) + (IF running = None THEN 0 ELSE 1)
  BY <1>1, <1>2, LenProperties DEF QInv, QueueTypes
<1> QED
  BY <1>1, <1>2, <1>3, <1>4, <1>5, <1>6, ForgetKeepsQueue

LEMMA SettleKeepsQueue ==
  ASSUME QInv, NEW id \in Ids, NEW status \in Terminal, running = id, Settle(id, status)
  PROVE  QInv'
<1>1. /\ SetStatus(id, status) /\ Forget(id) /\ running' = None
      /\ UNCHANGED <<aborted, waiting, api, stops>>
  BY DEF Settle
<1>2. id # None
  BY DEF Ids, None
<1>3. id \in active /\ id \in DOMAIN jobs /\ id \notin Elements(waiting)
  BY <1>2 DEF QInv, QueueTypes, Listed
<1>4. /\ jobs' \in Seq(JobShape) /\ SameRequests
      /\ jobs'[id].status = status
      /\ \A i \in DOMAIN jobs : i # id => jobs'[i] = jobs[i]
  BY <1>1, <1>3, StatusSet DEF QInv
<1>5. Elements(waiting') = Elements(waiting) \ {id}
  BY <1>1, <1>3 DEF Elements
<1>6. \A i \in active : i # id => i \in Elements(waiting)
  BY DEF QInv, Listed
<1>7. waiting' \in Seq(Nat) /\ NoRepeat(waiting')
  BY <1>1 DEF QInv, QueueTypes, NoRepeat
<1>8. Len(waiting') + 1 = Len(waiting) + (IF running = None THEN 0 ELSE 1)
  BY <1>1, <1>2
<1> QED
  BY <1>1, <1>3, <1>4, <1>5, <1>6, <1>7, <1>8, ForgetKeepsQueue

LEMMA LoseMemoryKeepsQueue ==
  ASSUME QInv, LoseMemory, jobs' = jobs, api' = "down", stops' \in 0..MaxStops
  PROVE  QInv'
<1>1. /\ active' = {} /\ aborted' = {} /\ waiting' = << >> /\ running' = None
      /\ DOMAIN identities' = {}
  BY DEF LoseMemory
<1>2. DOMAIN << >> = {} /\ Len(<< >>) = 0 /\ << >> \in Seq(Nat)
  BY EmptySeq
<1>3. QueueTypes'
  BY <1>1, <1>2 DEF QInv, QueueTypes, NoRepeat, None
<1>4. Listed' /\ Named' /\ Fresh' /\ Alive'
  BY <1>1, <1>2 DEF Listed, Named, Fresh, Alive, Elements
<1>5. OneJobPerRequest'
  BY DEF QInv, OneJobPerRequest, Live, Key
<1>6. SameRequests
  BY DEF SameRequests
<1>7. \A owner \in Owners : Cardinality(OwnedBy(owner)') <= MaxPerOwner
  BY <1>1, <1>6, OwnersStayBounded DEF QInv
<1>8. IsFiniteSet(active') /\ Cardinality(active') = 0
  BY <1>1, FS_EmptySet
<1>9. /\ Cardinality(active') = Len(waiting') + (IF running' = None THEN 0 ELSE 1)
      /\ Cardinality(active') <= MaxPending
  BY <1>1, <1>2, <1>8, ProofJobsAssumption DEF ProofJobsAssumption
<1>10. Counted'
  BY <1>7, <1>8, <1>9 DEF Counted
<1> QED
  BY <1>3, <1>4, <1>5, <1>10 DEF QInv

LEMMA RestartKeepsQueue ==
  ASSUME QInv, Restart
  PROVE  QInv'
<1>1. /\ api = "down" /\ api' = "open" /\ UNCHANGED <<memory, stops>>
      /\ jobs' = [id \in DOMAIN jobs |->
                   IF jobs[id].status \in LiveStatus THEN [jobs[id] EXCEPT !.status = "failed"]
                   ELSE jobs[id]]
  BY DEF Restart, Interrupted
<1>2. \A id \in DOMAIN jobs : jobs[id] \in JobShape
  BY LenProperties DEF QInv, QueueTypes
<1>3. \A id \in DOMAIN jobs :
        /\ jobs'[id] \in JobShape /\ jobs'[id].status \notin LiveStatus
        /\ jobs'[id].owner = jobs[id].owner /\ jobs'[id].input = jobs[id].input
  BY <1>1, <1>2 DEF JobShape, LiveStatus, Terminal
<1>4. DOMAIN jobs' = DOMAIN jobs /\ jobs' \in [DOMAIN jobs -> JobShape]
  BY <1>1, <1>3
<1>5. jobs' \in Seq(JobShape)
  <2>1. DOMAIN jobs = 1..Len(jobs) /\ Len(jobs) \in Nat
    BY LenProperties DEF QInv, QueueTypes
  <2> QED
    BY <1>4, <2>1
<1>6. /\ active' = active /\ waiting' = waiting /\ running' = running /\ aborted' = aborted
      /\ identities' = identities
  BY <1>1 DEF memory
<1>7. active = {} /\ Elements(waiting) = {} /\ Live' = {}
  BY <1>1, <1>3, <1>4 DEF QInv, Listed, Live
<1>8. QueueTypes'
  BY <1>1, <1>4, <1>5, <1>6 DEF QInv, QueueTypes, NoRepeat
<1>9. Listed' /\ Alive' /\ OneJobPerRequest'
  BY <1>6, <1>7 DEF QInv, Listed, Alive, OneJobPerRequest, Elements
<1>10. Named' /\ Fresh'
  BY <1>6, <1>7 DEF QInv, Named, Fresh, Elements
<1>11. SameRequests
  BY <1>3, <1>4 DEF SameRequests
<1>12. Counted'
  <2>1. \A owner \in Owners : Cardinality(OwnedBy(owner)') <= MaxPerOwner
    BY <1>6, <1>11, OwnersStayBounded DEF QInv
  <2> QED
    BY <1>6, <2>1 DEF QInv, Counted
<1> QED
  BY <1>8, <1>9, <1>10, <1>12 DEF QInv

(* The workers and the lock are not the queue's.                           *)
LEMMA OthersKeepQueue ==
  ASSUME QInv, UNCHANGED <<jobs, memory, api, stops>>
  PROVE  QInv'
<1>1. UNCHANGED <<jobs, active, identities, aborted, waiting, running, api, stops>>
  BY DEF memory
<1>2. QueueTypes' /\ Listed'
  BY <1>1 DEF QInv, QueueTypes, Listed, NoRepeat, Elements
<1>3. Named' /\ Fresh'
  BY <1>1 DEF QInv, Named, Key, Fresh, Elements
<1>4. Alive' /\ OneJobPerRequest'
  BY <1>1 DEF QInv, Alive, OneJobPerRequest, Live, Key
<1>5. Counted'
  BY <1>1 DEF QInv, Counted, OwnedBy
<1> QED
  BY <1>2, <1>3, <1>4, <1>5 DEF QInv

LEMMA QStep ==
  ASSUME QInv, [Next]_vars
  PROVE  QInv'
<1>1. ASSUME NEW owner \in Owners, NEW input \in Inputs, Submit(owner, input) PROVE QInv'
  BY <1>1, SubmitKeepsQueue
<1>2. stops \in 0..MaxStops /\ api \in {"open", "closing", "down"}
  BY DEF QInv, QueueTypes
<1>3. ASSUME NEW id \in Ids, Cancel(id) PROVE QInv'
  <2>1. /\ {id} \in SUBSET (Live \cap active) /\ CancelAll({id}) /\ api # "down"
        /\ api' = api /\ stops' = stops
    BY <1>3 DEF Cancel
  <2>2. api' \in {"open", "closing"} /\ stops' \in 0..MaxStops
    BY <1>2, <2>1
  <2> QED
    BY <2>1, <2>2, CancelKeepsQueue
<1>4. ASSUME Close PROVE QInv'
  <2>1. CancelAll(Live \cap active) /\ api # "down" /\ api' = "closing" /\ stops' \in 0..MaxStops
    BY <1>2, <1>4, ProofJobsAssumption DEF Close, ProofJobsAssumption
  <2> QED
    BY <2>1, CancelKeepsQueue
<1>5. ASSUME NEW id \in Ids, Task(id) PROVE QInv'
  <2>1. CASE Start(id)
    BY <2>1, StartKeepsQueue
  <2>2. CASE Drain(id)
    BY <2>2, DrainKeepsQueue
  <2>3. CASE NotSpawned(id) \/ WorkerClosed(id)
    <3>1. PICK status \in Terminal : running = id /\ Settle(id, status)
      BY <2>3 DEF NotSpawned, WorkerClosed, Terminal
    <3> QED
      BY <3>1, SettleKeepsQueue
  <2>4. CASE Spawn(id)
    BY <2>4, OthersKeepQueue DEF Spawn
  <2> QED
    BY <1>5, <2>1, <2>2, <2>3, <2>4 DEF Task
<1>6. ASSUME NEW id \in Ids, BeginCommand(id) \/ EndCommand(id) \/ Interrupt(id) \/ StopTree(id)
      PROVE  QInv'
  BY <1>6, OthersKeepQueue DEF BeginCommand, EndCommand, Interrupt, StopTree
<1>7. ASSUME OtherWorker PROVE QInv'
  BY <1>7, OthersKeepQueue DEF OtherWorker
<1>8. ASSUME Exit \/ Crash PROVE QInv'
  <2>1. LoseMemory /\ jobs' = jobs /\ api' = "down" /\ stops' \in 0..MaxStops
    BY <1>2, <1>8, ProofJobsAssumption DEF Exit, Crash, ProofJobsAssumption
  <2> QED
    BY <2>1, LoseMemoryKeepsQueue
<1>9. ASSUME Restart PROVE QInv'
  BY <1>9, RestartKeepsQueue
<1>10. ASSUME UNCHANGED vars PROVE QInv'
  BY <1>10, OthersKeepQueue DEF vars
<1> QED
  BY <1>1, <1>3, <1>4, <1>5, <1>6, <1>7, <1>8, <1>9, <1>10 DEF Next

(* Whoever holds the lock is a job's worker, another program, or nobody.   *)
LockType == lock \in Ids \cup {None, Other}

LEMMA LockStep ==
  ASSUME LockType, [Next]_vars
  PROVE  LockType'
<1>1. ASSUME NEW id \in Ids, BeginCommand(id) \/ EndCommand(id) \/ Interrupt(id) \/ StopTree(id)
      PROVE  LockType'
  BY <1>1 DEF LockType, BeginCommand, EndCommand, Interrupt, StopTree
<1>2. ASSUME NEW id \in Ids, Cancel(id) \/ Task(id)
      PROVE  lock' = lock
  BY <1>2 DEF Cancel, Task, Start, Drain, NotSpawned, Spawn, WorkerClosed, Settle
<1>3. ASSUME NEW owner \in Owners, NEW input \in Inputs, Submit(owner, input)
      PROVE  lock' = lock
  BY <1>3 DEF Submit
<1>4. ASSUME OtherWorker PROVE LockType'
  BY <1>4 DEF LockType, OtherWorker
<1>5. ASSUME Close \/ Exit \/ Crash \/ Restart \/ UNCHANGED vars
      PROVE  lock' = lock
  BY <1>5 DEF Close, Exit, Crash, Restart, vars
<1> QED
  BY <1>1, <1>2, <1>3, <1>4, <1>5 DEF Next, LockType

(* The queue's places of one owner are among its active jobs.              *)
LEMMA WaitingIsOwned ==
  ASSUME QInv, NEW owner \in Owners
  PROVE  Cardinality({i \in DOMAIN waiting : jobs[waiting[i]].owner = owner}) <= MaxPerOwner
<1> DEFINE places == {i \in DOMAIN waiting : jobs[waiting[i]].owner = owner}
           place == [i \in places |-> waiting[i]]
<1>1. DOMAIN waiting = 1..Len(waiting) /\ Len(waiting) \in Nat
  BY LenProperties DEF QInv, QueueTypes
<1>2. IsFiniteSet(OwnedBy(owner)) /\ Cardinality(OwnedBy(owner)) <= MaxPerOwner
  BY FS_Subset DEF QInv, Counted, OwnedBy
<1>3. \A i \in places : waiting[i] \in OwnedBy(owner)
  BY DEF QInv, Listed, OwnedBy, Elements
<1>4. place \in [places -> OwnedBy(owner)]
  BY <1>3
<1>5. \A a, b \in places : place[a] = place[b] => a = b
  BY DEF QInv, QueueTypes, NoRepeat
<1> HIDE DEF place
<1>6. place \in Injection(places, OwnedBy(owner))
  BY <1>4, <1>5 DEF Injection, IsInjective
<1>7. Cardinality(places) <= Cardinality(OwnedBy(owner)) /\ IsFiniteSet(places)
  BY <1>2, <1>6, FS_Injection
<1>8. Cardinality(places) \in Nat /\ Cardinality(OwnedBy(owner)) \in Nat
  BY <1>2, <1>7, FS_CardinalityType
<1> QED
  BY <1>2, <1>7, <1>8, ProofJobsAssumption DEF ProofJobsAssumption

LEMMA QueueFollows == QInv /\ Inv /\ LockType => QueueIsSound
<1> SUFFICES ASSUME QInv, Inv, LockType PROVE QueueIsSound
  OBVIOUS
<1>1. TypeOK
  <2>1. jobs \in Seq([owner : Owners, input : Inputs, status : LiveStatus \cup Terminal])
    BY DEF QInv, QueueTypes, JobShape
  <2>2. /\ active \subseteq DOMAIN jobs /\ aborted \subseteq DOMAIN jobs
        /\ api \in {"open", "closing", "down"} /\ stops \in 0..MaxStops
    BY DEF QInv, QueueTypes
  <2>3. \A k \in DOMAIN identities : identities[k] \in active /\ Key(identities[k]) = k
    BY DEF QInv, Named
  <2>4. active = {waiting[i] : i \in DOMAIN waiting} \cup ({running} \ {None})
    BY DEF QInv, Listed, Elements
  <2>5. Cardinality(active) = Len(waiting) + (IF running = None THEN 0 ELSE 1)
    BY DEF QInv, Counted
  <2>6. tree \in [Ids -> [phase : {"none", "watching", "stopping", "closed"},
                         computing : BOOLEAN, result : {"none", "ok", "failed"},
                         orphan : BOOLEAN]]
    BY DEF Inv, TreesOK, Trees
  <2>7. lock \in Ids \cup {None, Other}
    BY DEF LockType
  <2> QED
    BY <2>1, <2>2, <2>3, <2>4, <2>5, <2>6, <2>7 DEF TypeOK
<1>2. QueueIsBounded
  <2>1. Len(waiting) + (IF running = None THEN 0 ELSE 1) <= MaxPending
    BY DEF QInv, Counted
  <2> QED
    BY <2>1, WaitingIsOwned DEF QueueIsBounded
<1>3. OneJobPerRequest
  BY DEF QInv
<1> QED
  BY <1>1, <1>2, <1>3 DEF QueueIsSound

(* The maps of the queue (proof-jobs.mjs's active, identities and PQueue)  *)
(* agree with the saved jobs, stay within both limits and never hold two   *)
(* live jobs for one request, for every number of owners, inputs, jobs and *)
(* stops of the API.                                                       *)
THEOREM QueueStaysSound == Spec => []QueueIsSound
<1>1. Init => LockType
  BY DEF Init, LockType
<1> QED
  BY <1>1, QInitHolds, QStep, LockStep, InitInv, StepInv, QueueFollows, PTL DEF Spec

-----------------------------------------------------------------------------
(* What ended stays as it ended.  The task that runs shows in its job's    *)
(* status whether it was cancelled.                                        *)

RunsOn == running # None =>
            jobs[running].status = IF running \in aborted THEN "cancelling" ELSE "running"

StaysEnded ==
  \A id \in DOMAIN jobs :
    /\ jobs[id].status \in Terminal => jobs'[id].status = jobs[id].status
    /\ jobs[id].status = "cancelling" => jobs'[id].status # "completed"

LEMMA UnchangedStaysEnded ==
  ASSUME RunsOn, UNCHANGED <<jobs, aborted>>, running' \in {None, running}
  PROVE  RunsOn' /\ StaysEnded
BY DEF RunsOn, StaysEnded, Terminal

LEMMA SubmitStaysEnded ==
  ASSUME QInv, RunsOn, NEW owner \in Owners, NEW input \in Inputs, Submit(owner, input)
  PROVE  RunsOn' /\ StaysEnded
<1> DEFINE job == [owner |-> owner, input |-> input, status |-> "queued"]
<1>1. jobs' = Append(jobs, job) /\ running' = running /\ aborted' = aborted
  BY DEF Submit
<1>2. job \in JobShape
  BY DEF JobShape, LiveStatus, Terminal
<1> HIDE DEF job
<1>3. \A i \in 1..Len(jobs) : jobs'[i] = jobs[i]
  BY <1>1, <1>2, AppendProperties DEF QInv, QueueTypes
<1>4. DOMAIN jobs = 1..Len(jobs)
  BY LenProperties DEF QInv, QueueTypes
<1>5. running # None => running \in DOMAIN jobs
  BY DEF QInv, QueueTypes, Listed
<1> QED
  BY <1>1, <1>3, <1>4, <1>5 DEF RunsOn, StaysEnded, Terminal

LEMMA CancelStaysEnded ==
  ASSUME QInv, RunsOn, NEW ids \in SUBSET (Live \cap active), CancelAll(ids)
  PROVE  RunsOn' /\ StaysEnded
<1> DEFINE queued == {id \in ids : jobs[id].status = "queued"}
<1>1. /\ jobs' = [id \in DOMAIN jobs |->
                   IF id \in queued THEN [jobs[id] EXCEPT !.status = "cancelled"]
                   ELSE IF id \in ids THEN [jobs[id] EXCEPT !.status = "cancelling"]
                   ELSE jobs[id]]
      /\ aborted' = aborted \cup ids /\ running' = running
  BY DEF CancelAll
<1>2. \A id \in ids : jobs[id].status \notin Terminal
  BY DEF Live, LiveStatus, Terminal
<1>3. \A id \in DOMAIN jobs : jobs[id] \in JobShape
  BY LenProperties DEF QInv, QueueTypes
<1>4. \A id \in DOMAIN jobs :
        jobs'[id].status = IF id \in queued THEN "cancelled"
                           ELSE IF id \in ids THEN "cancelling" ELSE jobs[id].status
  BY <1>1, <1>3 DEF JobShape
<1>5. StaysEnded
  BY <1>2, <1>4 DEF StaysEnded, Terminal
<1>6. running # None => running \in DOMAIN jobs
  BY DEF QInv, QueueTypes, Listed
<1>7. RunsOn'
  BY <1>1, <1>4, <1>6 DEF RunsOn
<1> QED
  BY <1>5, <1>7

LEMMA StartStaysEnded ==
  ASSUME QInv, NEW id, Start(id)
  PROVE  RunsOn' /\ StaysEnded
<1>1. /\ running = None /\ waiting # << >> /\ id = Head(waiting) /\ id \notin aborted
      /\ SetStatus(id, "running") /\ running' = id /\ aborted' = aborted
  BY DEF Start, NextTask
<1>2. id \in Elements(waiting)
  BY <1>1, TailElements DEF QInv, QueueTypes
<1>3. id \in DOMAIN jobs /\ jobs[id].status = "queued"
  BY <1>1, <1>2 DEF QInv, QueueTypes, Listed, Fresh
<1>4. jobs'[id].status = "running" /\ \A i \in DOMAIN jobs : i # id => jobs'[i] = jobs[i]
  BY <1>1, <1>3, StatusSet DEF QInv, LiveStatus
<1> QED
  BY <1>1, <1>3, <1>4 DEF RunsOn, StaysEnded, Terminal

LEMMA SettleStaysEnded ==
  ASSUME QInv, RunsOn, NEW id \in Ids, NEW status \in Terminal, running = id,
         Settle(id, status), id \in aborted => status = "cancelled"
  PROVE  RunsOn' /\ StaysEnded
<1>1. SetStatus(id, status) /\ running' = None
  BY DEF Settle
<1>2. id # None
  BY DEF Ids, None
<1>3. id \in DOMAIN jobs
  BY <1>2 DEF QInv, QueueTypes, Listed
<1>4. jobs[id].status = IF id \in aborted THEN "cancelling" ELSE "running"
  BY <1>2 DEF RunsOn
<1>5. jobs'[id].status = status /\ \A i \in DOMAIN jobs : i # id => jobs'[i] = jobs[i]
  BY <1>1, <1>3, StatusSet DEF QInv
<1> QED
  BY <1>1, <1>4, <1>5 DEF RunsOn, StaysEnded, Terminal

LEMMA RestartStaysEnded ==
  ASSUME QInv, Restart
  PROVE  RunsOn' /\ StaysEnded
<1>1. /\ api = "down" /\ running' = running
      /\ jobs' = [id \in DOMAIN jobs |->
                   IF jobs[id].status \in LiveStatus THEN [jobs[id] EXCEPT !.status = "failed"]
                   ELSE jobs[id]]
  BY DEF Restart, Interrupted, memory
<1>2. running = None
  BY <1>1 DEF QInv, Listed
<1>3. \A id \in DOMAIN jobs : jobs[id] \in JobShape
  BY LenProperties DEF QInv, QueueTypes
<1>4. \A id \in DOMAIN jobs :
        jobs'[id].status = IF jobs[id].status \in LiveStatus THEN "failed" ELSE jobs[id].status
  BY <1>1, <1>3 DEF JobShape
<1> QED
  BY <1>1, <1>2, <1>4 DEF RunsOn, StaysEnded, LiveStatus, Terminal

LEMMA StepStaysEnded ==
  ASSUME QInv, RunsOn, [Next]_vars
  PROVE  RunsOn' /\ StaysEnded
<1>1. ASSUME NEW owner \in Owners, NEW input \in Inputs, Submit(owner, input)
      PROVE  RunsOn' /\ StaysEnded
  BY <1>1, SubmitStaysEnded
<1>2. ASSUME NEW id \in Ids, Cancel(id)
      PROVE  RunsOn' /\ StaysEnded
  <2>1. {id} \in SUBSET (Live \cap active) /\ CancelAll({id})
    BY <1>2 DEF Cancel
  <2> QED
    BY <2>1, CancelStaysEnded
<1>3. ASSUME NEW id \in Ids, Task(id)
      PROVE  RunsOn' /\ StaysEnded
  <2>1. CASE Start(id)
    BY <2>1, StartStaysEnded
  <2>2. CASE Drain(id)
    BY <2>2, UnchangedStaysEnded DEF Drain
  <2>3. CASE NotSpawned(id) \/ WorkerClosed(id)
    <3>1. PICK status \in Terminal :
            running = id /\ Settle(id, status) /\ (id \in aborted => status = "cancelled")
      BY <2>3 DEF NotSpawned, WorkerClosed, Terminal
    <3> QED
      BY <3>1, SettleStaysEnded
  <2>4. CASE Spawn(id)
    BY <2>4, UnchangedStaysEnded DEF Spawn, memory
  <2> QED
    BY <1>3, <2>1, <2>2, <2>3, <2>4 DEF Task
<1>4. ASSUME NEW id \in Ids, BeginCommand(id) \/ EndCommand(id) \/ Interrupt(id) \/ StopTree(id)
      PROVE  RunsOn' /\ StaysEnded
  BY <1>4, UnchangedStaysEnded DEF BeginCommand, EndCommand, Interrupt, StopTree, memory
<1>5. ASSUME OtherWorker \/ UNCHANGED vars
      PROVE  RunsOn' /\ StaysEnded
  BY <1>5, UnchangedStaysEnded DEF OtherWorker, vars, memory
<1>6. ASSUME Close
      PROVE  RunsOn' /\ StaysEnded
  BY <1>6, CancelStaysEnded DEF Close
<1>7. ASSUME Exit \/ Crash
      PROVE  RunsOn' /\ StaysEnded
  BY <1>7 DEF Exit, Crash, LoseMemory, RunsOn, StaysEnded, Terminal
<1>8. ASSUME Restart
      PROVE  RunsOn' /\ StaysEnded
  BY <1>8, RestartStaysEnded
<1> QED
  BY <1>1, <1>2, <1>3, <1>4, <1>5, <1>6, <1>7, <1>8 DEF Next

(* No later step changes how a job ended (proof-jobs.mjs: neither a result *)
(* that comes after the cancellation nor the start that fails what was     *)
(* interrupted), for every number of owners, jobs and stops of the API.    *)
THEOREM VerdictsOnJobsStand == Spec => EndedJobsStayEnded
<1>1. Init => RunsOn
  BY DEF Init, RunsOn
<1>2. QInv /\ RunsOn /\ [Next]_vars => QInv' /\ RunsOn' /\ [StaysEnded]_vars
  BY QStep, StepStaysEnded
<1>3. StaysEnded <=> \A id \in DOMAIN jobs :
        /\ jobs[id].status \in Terminal => jobs'[id].status = jobs[id].status
        /\ jobs[id].status = "cancelling" => jobs'[id].status # "completed"
  BY DEF StaysEnded
<1> QED
  BY <1>1, <1>2, <1>3, QInitHolds, PTL DEF Spec, EndedJobsStayEnded

-----------------------------------------------------------------------------
(***************************************************************************)
(* The slot of remote proofs and the request commits, for every number of  *)
(* applications, jobs, faults and reruns.                                  *)
(***************************************************************************)

Holding == {"claimed", "slot", "look", "push", "pushed", "mark"}
GivingBack == {"release", "releasing", "released", "free"}

(* A record has its commit from the moment it exists. *)
RecordOK(j) ==
  /\ record[j].commit = 0 => record[j] = Blank
  /\ record[j].status = "none" => record[j] = Blank

(* GitHub knows of a job through its branch, and its first run begins with it. *)
GitHubOK(j) ==
  /\ ref[j] # 0 => record[j].commit = ref[j]
  /\ ref[j] = 0 => run[j] = NoRun
  /\ ref[j] # 0 => run[j].attempt >= 1
  /\ run[j].state = "none" => run[j].attempt = 0

PushesOK == \A push \in inflight : push.commit # 0 /\ record[push.job].commit = push.commit

(* The first attempt is over. *)
FirstAttemptOver(j) == ref[j] # 0 /\ (run[j].attempt = 1 => RunOver(run[j]))

SlotOf(o) == [job |-> o.job, commit |-> o.rec.commit, token |-> o.rec.slot]

(* What the place of an operation says about its copy of the record, the   *)
(* slot and the run.                                                       *)
OpOK(a) ==
  LET o == op[a]
  IN /\ o.pc # "idle" => o.job \in Jobs /\ AppOf[o.job] = a
     /\ o.pc = "prepared" => /\ record[o.job] = Blank
                             /\ o.rec.status = "prepared" /\ o.rec.commit > 0 /\ o.rec.slot = 0
     /\ o.pc \in Submitting => /\ record[o.job].status = "prepared" /\ o.rec.status = "prepared"
                               /\ o.rec.commit = record[o.job].commit
     /\ o.pc \in Submitting \ {"claimed", "slot"} => o.rec = record[o.job]
     /\ o.pc \in Holding => activeSlot = SlotOf(o)
     /\ o.pc \in Collecting => o.rec = record[o.job] /\ o.rec.status \in {"submitted", "verified"}
     /\ o.pc \in GivingBack => FirstAttemptOver(o.job)
     /\ o.pc \in {"released", "free"} => activeSlot.job # o.job

(* A slot in use belongs to a job and has a token of its own. *)
SlotOK == activeSlot # NoSlot => activeSlot.job \in Jobs /\ activeSlot.token > 0

RemoteInv ==
  /\ RemoteTypeOK
  /\ \A j \in Jobs : RecordOK(j) /\ GitHubOK(j)
  /\ PushesOK
  /\ SlotOK
  /\ \A a \in Apps : OpOK(a)
  /\ SlotIsSound

-----------------------------------------------------------------------------
(* Types. *)

LEMMA OpChanged ==
  ASSUME RemoteTypeOK, NEW a \in Apps, NEW o \in Operations, op' = [op EXCEPT ![a] = o]
  PROVE  op' \in [Apps -> Operations]
BY DEF RemoteTypeOK

LEMMA BlankType == Blank \in Records /\ NoResult \in Results
BY DEF Blank, NoResult, Records, Results

LEMMA IdleType == Idle \in Operations
BY BlankType DEF Idle, Operations, Places

LEMMA OpFields ==
  ASSUME RemoteTypeOK, NEW a \in Apps
  PROVE  /\ op[a].pc \in Places /\ op[a].job \in Jobs \union {NoJob}
         /\ op[a].rec \in Records /\ op[a].res \in Results
<1>1. op[a] \in Operations
  BY DEF RemoteTypeOK
<1> QED
  BY <1>1 DEF Operations

LEMMA Began ==
  ASSUME RemoteTypeOK, NEW a \in Apps, NEW pc \in Places, NEW j \in Jobs, NEW rec \in Records,
         NEW o, o = [Idle EXCEPT !.pc = pc, !.job = j, !.rec = rec],
         op' = [op EXCEPT ![a] = o]
  PROVE  /\ op' \in [Apps -> Operations]
         /\ op'[a].pc = pc /\ op'[a].job = j /\ op'[a].rec = rec
         /\ \A b \in Apps \ {a} : op'[b] = op[b]
<1>1. Idle \in Operations
  BY IdleType
<1>2. o \in Operations /\ o.pc = pc /\ o.job = j /\ o.rec = rec
  BY <1>1 DEF Operations
<1>3. op' \in [Apps -> Operations]
  BY <1>2, OpChanged
<1>4. op'[a] = o /\ \A b \in Apps \ {a} : op'[b] = op[b]
  BY DEF RemoteTypeOK
<1> QED
  BY <1>2, <1>3, <1>4

LEMMA GotoType ==
  ASSUME RemoteTypeOK, NEW a \in Apps, NEW pc \in Places, Goto(a, pc)
  PROVE  /\ op' \in [Apps -> Operations]
         /\ op'[a].pc = pc /\ op'[a].job = op[a].job
         /\ op'[a].rec = op[a].rec /\ op'[a].res = op[a].res
         /\ \A b \in Apps \ {a} : op'[b] = op[b]
<1>1. op[a] \in Operations
  BY DEF RemoteTypeOK
<1>2. [op[a] EXCEPT !.pc = pc] \in Operations
  BY <1>1 DEF Operations
<1>3. op' = [op EXCEPT ![a] = [op[a] EXCEPT !.pc = pc]]
  BY DEF Goto, RemoteTypeOK
<1>4. op' \in [Apps -> Operations]
  BY <1>2, <1>3, OpChanged
<1>5. op'[a] = [op[a] EXCEPT !.pc = pc] /\ \A b \in Apps \ {a} : op'[b] = op[b]
  BY <1>3 DEF RemoteTypeOK
<1> QED
  BY <1>1, <1>4, <1>5 DEF Operations

LEMMA ReturnType ==
  ASSUME RemoteTypeOK, NEW a \in Apps, Return(a)
  PROVE  /\ op' \in [Apps -> Operations]
         /\ op'[a] = Idle
         /\ \A b \in Apps \ {a} : op'[b] = op[b]
BY IdleType, OpChanged DEF Return, RemoteTypeOK

LEMMA RemoteStart == RemoteInit => RemoteInv
<1> SUFFICES ASSUME RemoteInit PROVE RemoteInv
  OBVIOUS
<1> USE DEF RemoteInit
<1>1. RemoteTypeOK
  <2>1. /\ Blank \in Records
        /\ NoRun \in Runs
        /\ NoSlot \in [job : Jobs \union {NoJob}, commit : Nat, token : Nat]
    BY BlankType DEF NoRun, Runs, NoSlot
  <2> QED
    BY <2>1, IdleType DEF RemoteTypeOK
<1>2. \A j \in Jobs : RecordOK(j) /\ GitHubOK(j)
  BY DEF RecordOK, GitHubOK, Blank, NoRun
<1>3. \A a \in Apps : OpOK(a)
  BY DEF OpOK, Idle, Submitting, Holding, Collecting, GivingBack
<1>4. PushesOK /\ SlotOK /\ SlotIsSound
  BY DEF PushesOK, SlotOK, SlotIsSound, SlotCoversRun, SlotIsNotOrphaned, Computing, NoRun
<1> QED
  BY <1>1, <1>2, <1>3, <1>4 DEF RemoteInv

-----------------------------------------------------------------------------
(* What a step of one provider, or of GitHub, leaves alone. *)

(* The invariant without the operations and the types. *)
SharedInv ==
  /\ \A j \in Jobs : RecordOK(j) /\ GitHubOK(j)
  /\ PushesOK
  /\ SlotOK
  /\ SlotIsSound

(* A step that only moves an operation on. *)
LEMMA SharedKept ==
  ASSUME RemoteInv, UNCHANGED <<record, activeSlot, githubVars>>
  PROVE  SharedInv'
BY DEF RemoteInv, SharedInv, githubVars, RecordOK, GitHubOK, PushesOK, SlotOK, SlotIsSound,
       SlotCoversRun, SlotIsNotOrphaned, Computing

(* The slot is only taken and given back by the provider of its job. *)
SlotMovedBy(a) ==
  \/ activeSlot' = activeSlot
  \/ activeSlot = NoSlot /\ activeSlot'.job \in Jobs /\ AppOf[activeSlot'.job] = a
  \/ activeSlot.job \in Jobs /\ AppOf[activeSlot.job] = a /\ activeSlot' = NoSlot

LEMMA OthersKept ==
  ASSUME RemoteInv, NEW a \in Apps,
         \A b \in Apps \ {a} : op'[b] = op[b],
         \A j \in Jobs : AppOf[j] # a => record'[j] = record[j],
         SlotMovedBy(a), UNCHANGED <<ref, run>>
  PROVE  \A b \in Apps \ {a} : OpOK(b)'
<1> SUFFICES ASSUME NEW b \in Apps \ {a} PROVE OpOK(b)'
  OBVIOUS
<1>1. OpOK(b) /\ op'[b] = op[b]
  BY DEF RemoteInv
<1>2. op[b].pc # "idle" => op[b].job \in Jobs /\ AppOf[op[b].job] # a
                           /\ record'[op[b].job] = record[op[b].job]
  BY <1>1 DEF OpOK
<1>3. op[b].pc \in Holding => activeSlot' = activeSlot
  BY <1>1, <1>2, JobsAssumption DEF OpOK, Holding, SlotOf, SlotMovedBy, NoSlot
<1>4. op[b].pc \in {"released", "free"} => activeSlot'.job # op[b].job
  BY <1>1, <1>2, JobsAssumption DEF OpOK, SlotMovedBy, NoSlot
<1>5. op[b].pc \in GivingBack => FirstAttemptOver(op[b].job)'
  BY <1>1 DEF OpOK, FirstAttemptOver, RunOver
<1>6. op[b].pc \in Submitting \cup Collecting \cup {"prepared"} => op[b].pc # "idle"
  BY DEF Submitting, Collecting
<1> QED
  BY <1>1, <1>2, <1>3, <1>4, <1>5, <1>6 DEF OpOK, SlotOf

(* One provider's step, put together. *)
LEMMA ProviderStepKeeps ==
  ASSUME RemoteInv, NEW a \in Apps, RemoteTypeOK', SharedInv', OpOK(a)',
         \A b \in Apps \ {a} : op'[b] = op[b],
         \A j \in Jobs : AppOf[j] # a => record'[j] = record[j],
         SlotMovedBy(a), UNCHANGED <<ref, run>>
  PROVE  RemoteInv'
BY OthersKept DEF RemoteInv, SharedInv

(* A step that only moves its operation on, or ends it.                    *)
LEMMA GotoKeeps ==
  ASSUME RemoteInv, NEW a \in Apps, NEW pc \in Places, Goto(a, pc),
         UNCHANGED <<record, activeSlot, commits, tokens, githubVars>>,
         mutex' \in Apps \union {"free"}, faults' \in Nat, reruns' \in Nat, OpOK(a)'
  PROVE  RemoteInv'
<1>1. RemoteTypeOK
  BY DEF RemoteInv
<1>2. op' \in [Apps -> Operations] /\ \A b \in Apps \ {a} : op'[b] = op[b]
  BY <1>1, GotoType
<1>3. RemoteTypeOK'
  BY <1>1, <1>2 DEF RemoteTypeOK, githubVars
<1>4. SharedInv'
  BY SharedKept
<1> QED
  BY <1>2, <1>3, <1>4, ProviderStepKeeps DEF SlotMovedBy, githubVars

LEMMA IdleIsOK ==
  ASSUME NEW a \in Apps, op'[a] = Idle
  PROVE  OpOK(a)'
BY DEF OpOK, Idle, Submitting, Holding, Collecting, GivingBack

LEMMA ReturnKeeps ==
  ASSUME RemoteInv, NEW a \in Apps, Return(a),
         UNCHANGED <<record, activeSlot, commits, tokens, githubVars>>,
         mutex' \in Apps \union {"free"}, faults' \in Nat, reruns' \in Nat
  PROVE  RemoteInv'
<1>1. RemoteTypeOK
  BY DEF RemoteInv
<1>2. /\ op' \in [Apps -> Operations] /\ op'[a] = Idle
      /\ \A b \in Apps \ {a} : op'[b] = op[b]
  BY <1>1, ReturnType
<1>3. RemoteTypeOK'
  BY <1>1, <1>2 DEF RemoteTypeOK, githubVars
<1>4. SharedInv'
  BY SharedKept
<1>5. OpOK(a)'
  BY <1>2, IdleIsOK
<1> QED
  BY <1>2, <1>3, <1>4, <1>5, ProviderStepKeeps DEF SlotMovedBy, githubVars

(* What holds for an operation, by name. *)
LEMMA OwnOp ==
  ASSUME RemoteInv, NEW a \in Apps
  PROVE  /\ RemoteTypeOK /\ OpOK(a)
         /\ op[a].pc \in Places /\ op[a].rec \in Records /\ op[a].res \in Results
         /\ op[a].pc # "idle" => op[a].job \in Jobs /\ AppOf[op[a].job] = a
         /\ mutex \in Apps \union {"free"} /\ faults \in Nat /\ reruns \in Nat
BY OpFields DEF RemoteInv, OpOK, RemoteTypeOK

-----------------------------------------------------------------------------
(* submit *)

LEMMA CommitTreeKeeps ==
  ASSUME RemoteInv, NEW a \in Apps, NEW j \in Jobs, CommitTree(a, j)
  PROVE  RemoteInv'
<1> USE DEF CommitTree
<1> DEFINE n == commits[j] + 1
           rec == [status |-> "prepared", commit |-> n, slot |-> 0]
<1>1. commits[j] \in Nat /\ n \in Nat /\ n > 0
  BY DEF RemoteInv, RemoteTypeOK
<1>2. commits' \in [Jobs -> Nat] /\ commits'[j] = n
  BY <1>1 DEF RemoteInv, RemoteTypeOK
<1>3. PICK o : /\ o = [Idle EXCEPT !.pc = "prepared", !.job = j, !.rec = rec]
               /\ op' = [op EXCEPT ![a] = o]
  BY <1>2
<1>4. rec \in Records /\ "prepared" \in Places
  BY <1>1 DEF Records, Places
<1>5. /\ op' \in [Apps -> Operations]
      /\ op'[a].pc = "prepared" /\ op'[a].job = j /\ op'[a].rec = rec
      /\ \A b \in Apps \ {a} : op'[b] = op[b]
  <2>1. RemoteTypeOK
    BY DEF RemoteInv
  <2> HIDE DEF CommitTree, rec
  <2> QED
    BY <1>3, <1>4, <2>1, Began
<1>6. RemoteTypeOK'
  BY <1>2, <1>5 DEF RemoteInv, RemoteTypeOK, githubVars
<1>7. OpOK(a)'
  BY <1>1, <1>5 DEF OpOK, Submitting, Holding, Collecting, GivingBack
<1>8. SharedInv'
  BY SharedKept
<1> QED
  BY <1>5, <1>6, <1>7, <1>8, ProviderStepKeeps DEF SlotMovedBy, githubVars

(* A blank record has neither a branch nor a push. *)
LEMMA BlankIsUnknown ==
  ASSUME RemoteInv, NEW j \in Jobs, record[j] = Blank
  PROVE  /\ ref[j] = 0
         /\ \A push \in inflight : push.job # j
         /\ activeSlot # NoSlot => activeSlot.job # j
<1>1. record[j].commit = 0 /\ record[j].slot = 0 /\ record[j].status = "none"
  BY DEF Blank
<1>2. ref[j] = 0
  BY <1>1 DEF RemoteInv, GitHubOK
<1>3. \A push \in inflight : push.job # j
  BY <1>1 DEF RemoteInv, PushesOK
<1>4. activeSlot # NoSlot => activeSlot.job # j
  BY <1>1 DEF RemoteInv, SlotIsSound, SlotIsNotOrphaned, SlotOK, RemoteTypeOK
<1> QED
  BY <1>2, <1>3, <1>4

(* The record of one's own job is saved. *)
LEMMA RecordSaved ==
  ASSUME RemoteTypeOK, NEW j \in Jobs, NEW rec \in Records, record' = [record EXCEPT ![j] = rec]
  PROVE  /\ record' \in [Jobs -> Records]
         /\ record'[j] = rec
         /\ \A k \in Jobs \ {j} : record'[k] = record[k]
BY DEF RemoteTypeOK

(* Saving a record under the commit it had, or the first one. *)
LEMMA SharedSaved ==
  ASSUME RemoteInv, NEW j \in Jobs, NEW rec \in Records,
         record' = [record EXCEPT ![j] = rec], UNCHANGED <<activeSlot, githubVars>>,
         rec.commit > 0, rec.status # "none",
         record[j] = Blank \/ record[j].commit = rec.commit,
         activeSlot.job = j => rec.slot = activeSlot.token \/ (rec.status = record[j].status /\ rec.slot = record[j].slot)
  PROVE  SharedInv'
<1>1. record'[j] = rec /\ \A k \in Jobs \ {j} : record'[k] = record[k]
  BY RecordSaved DEF RemoteInv
<1>2. rec.commit \in Nat /\ ref[j] \in Nat /\ \A push \in inflight : push.job \in Jobs /\ push.commit \in Nat
  BY DEF RemoteInv, RemoteTypeOK, Records
<1>3. \A k \in Jobs : RecordOK(k)'
  BY <1>1, <1>2 DEF RemoteInv, RecordOK
<1>4. \A k \in Jobs : GitHubOK(k)'
  <2>1. ref[j] # 0 => rec.commit = ref[j]
    BY BlankIsUnknown DEF RemoteInv, GitHubOK
  <2> QED
    BY <1>1, <2>1 DEF RemoteInv, GitHubOK, githubVars
<1>5. PushesOK'
  BY <1>1, <1>2, BlankIsUnknown DEF RemoteInv, PushesOK, githubVars
<1>6. SlotOK' /\ SlotCoversRun'
  BY DEF RemoteInv, SlotOK, SlotIsSound, SlotCoversRun, Computing, githubVars
<1>7. SlotIsNotOrphaned'
  <2>1. CASE activeSlot.job # j
    BY <1>1, <2>1 DEF RemoteInv, SlotIsSound, SlotIsNotOrphaned, SlotOK
  <2>2. CASE activeSlot.job = j /\ activeSlot # NoSlot
    <3>1. record[j] # Blank
      BY <2>2, BlankIsUnknown
    <3> QED
      BY <1>1, <2>2, <3>1 DEF RemoteInv, SlotIsSound, SlotIsNotOrphaned
  <2> QED
    BY <2>1, <2>2 DEF SlotIsNotOrphaned
<1> QED
  BY <1>3, <1>4, <1>5, <1>6, <1>7 DEF SharedInv, SlotIsSound

LEMMA SavePreparedKeeps ==
  ASSUME RemoteInv, NEW a \in Apps, SavePrepared(a)
  PROVE  RemoteInv'
<1> DEFINE j == op[a].job
<1>1. /\ j \in Jobs /\ AppOf[j] = a /\ record[j] = Blank
      /\ op[a].rec.status = "prepared" /\ op[a].rec.commit > 0 /\ op[a].rec.slot = 0
  BY DEF RemoteInv, OpOK, SavePrepared
<1>2. op[a].rec \in Records
  BY OpFields DEF RemoteInv
<1>3. record' = [record EXCEPT ![j] = op[a].rec] /\ UNCHANGED <<activeSlot, githubVars>>
  BY DEF SavePrepared
<1>4. SharedInv'
  <2>1. activeSlot.job # j
    BY <1>1, BlankIsUnknown, JobsAssumption DEF NoSlot
  <2> QED
    BY <1>1, <1>2, <1>3, <2>1, SharedSaved
<1>5. /\ op' \in [Apps -> Operations]
      /\ op'[a].pc = "claim" /\ op'[a].job = j /\ op'[a].rec = op[a].rec
      /\ \A b \in Apps \ {a} : op'[b] = op[b]
  BY GotoType DEF RemoteInv, SavePrepared, Places, Submitting
<1>6. /\ record' \in [Jobs -> Records] /\ record'[j] = op[a].rec
      /\ \A k \in Jobs : AppOf[k] # a => record'[k] = record[k]
  BY <1>1, <1>2, <1>3, RecordSaved DEF RemoteInv
<1>7. RemoteTypeOK'
  BY <1>5, <1>6 DEF RemoteInv, RemoteTypeOK, githubVars, SavePrepared
<1>8. OpOK(a)'
  BY <1>1, <1>5, <1>6 DEF OpOK, Submitting, Holding, Collecting, GivingBack
<1> QED
  BY <1>4, <1>5, <1>6, <1>7, <1>8, ProviderStepKeeps DEF SlotMovedBy, githubVars, SavePrepared

LEMMA ResumeKeeps ==
  ASSUME RemoteInv, NEW a \in Apps, NEW j \in Jobs, Resume(a, j)
  PROVE  RemoteInv'
<1> USE DEF Resume
<1>1. record[j] \in Records /\ "claim" \in Places
  BY DEF RemoteInv, RemoteTypeOK, Places, Submitting
<1>2. /\ op' \in [Apps -> Operations]
      /\ op'[a].pc = "claim" /\ op'[a].job = j /\ op'[a].rec = record[j]
      /\ \A b \in Apps \ {a} : op'[b] = op[b]
  <2>1. PICK o : /\ o = [Idle EXCEPT !.pc = "claim", !.job = j, !.rec = record[j]]
                 /\ op' = [op EXCEPT ![a] = o]
    OBVIOUS
  <2>2. RemoteTypeOK
    BY DEF RemoteInv
  <2> HIDE DEF Resume
  <2> QED
    BY <1>1, <2>1, <2>2, Began
<1>3. RemoteTypeOK'
  BY <1>2 DEF RemoteInv, RemoteTypeOK, githubVars
<1>4. OpOK(a)'
  BY <1>2 DEF OpOK, Submitting, Holding, Collecting, GivingBack
<1>5. SharedInv'
  BY SharedKept
<1> QED
  BY <1>2, <1>3, <1>4, <1>5, ProviderStepKeeps DEF SlotMovedBy, githubVars

LEMMA LockKeeps ==
  ASSUME RemoteInv, NEW a \in Apps, Lock(a)
  PROVE  RemoteInv'
<1>1. PICK pc \in {"claiming", "releasing"} :
        /\ Goto(a, pc)
        /\ op[a].pc = IF pc = "claiming" THEN "claim" ELSE "release"
  BY DEF Lock
<1>2. pc \in Places
  BY <1>1 DEF Places, Submitting, Collecting
<1>3. /\ op'[a].pc = pc /\ op'[a].job = op[a].job /\ op'[a].rec = op[a].rec
  BY <1>1, <1>2, GotoType, OwnOp
<1>4. UNCHANGED <<record, activeSlot, ref, run>>
  BY DEF Lock, githubVars
<1>5. OpOK(a)'
  <2>1. OpOK(a)
    BY OwnOp
  <2> QED
    BY <1>1, <1>3, <1>4, <2>1
    DEF OpOK, Submitting, Holding, Collecting, GivingBack, FirstAttemptOver, RunOver
<1> QED
  BY <1>1, <1>2, <1>5, OwnOp, GotoKeeps DEF Lock

LEMMA LockRefusedKeeps ==
  ASSUME RemoteInv, NEW a \in Apps, LockRefused(a)
  PROVE  RemoteInv'
<1>1. faults' \in Nat
  BY OwnOp DEF LockRefused
<1> QED
  BY <1>1, OwnOp, ReturnKeeps DEF LockRefused

LEMMA InterruptedKeeps ==
  ASSUME RemoteInv, NEW a \in Apps, Interruption(a)
  PROVE  RemoteInv'
BY OwnOp, ReturnKeeps DEF Interruption

LEMMA UnlockKeeps ==
  ASSUME RemoteInv, NEW a \in Apps, Unlock(a)
  PROVE  RemoteInv'
<1>1. CASE op[a].pc = "thrown"
  <2>1. Return(a)
    BY <1>1 DEF Unlock
  <2> QED
    BY <2>1, OwnOp, ReturnKeeps DEF Unlock
<1>2. CASE op[a].pc \in {"claimed", "released"}
  <2>1. PICK pc \in {"slot", "free"} :
          /\ Goto(a, pc)
          /\ op[a].pc = IF pc = "slot" THEN "claimed" ELSE "released"
    BY <1>2 DEF Unlock
  <2>2. pc \in Places
    BY <2>1 DEF Places, Submitting, Collecting
  <2>3. /\ op'[a].pc = pc /\ op'[a].job = op[a].job /\ op'[a].rec = op[a].rec
    BY <2>1, <2>2, GotoType, OwnOp
  <2>4. UNCHANGED <<record, activeSlot, ref, run>>
    BY DEF Unlock, githubVars
  <2>5. OpOK(a)'
    <3>1. OpOK(a)
      BY OwnOp
    <3> QED
      BY <2>1, <2>3, <2>4, <3>1
      DEF OpOK, SlotOf, Submitting, Holding, Collecting, GivingBack, FirstAttemptOver, RunOver
  <2> QED
    BY <2>1, <2>2, <2>5, OwnOp, GotoKeeps DEF Unlock
<1> QED
  BY <1>1, <1>2 DEF Unlock

(* A step along the submission from one place that holds the slot to another. *)
LEMMA HoldingMovesOn ==
  ASSUME RemoteInv, NEW a \in Apps, op[a].pc \in {"look", "push", "pushed"},
         NEW pc \in {"push", "pushed", "mark"}, Goto(a, pc), UNCHANGED <<record, activeSlot>>
  PROVE  OpOK(a)'
<1>1. op[a].pc \in Submitting /\ op[a].pc \in Holding /\ pc \in Places
  BY DEF Submitting, Holding, Places
<1>2. /\ op'[a].pc = pc /\ op'[a].job = op[a].job /\ op'[a].rec = op[a].rec
  BY <1>1, GotoType, OwnOp
<1>3. OpOK(a)
  BY OwnOp
<1> QED
  BY <1>1, <1>2, <1>3 DEF OpOK, SlotOf, Submitting, Holding, Collecting, GivingBack

LEMMA LsRemoteKeeps ==
  ASSUME RemoteInv, NEW a \in Apps, LsRemote(a)
  PROVE  RemoteInv'
<1>1. CASE Return(a)
  BY <1>1, OwnOp, ReturnKeeps DEF LsRemote
<1>2. CASE \E pc \in {"push", "mark"} : Goto(a, pc)
  <2>1. PICK pc \in {"push", "mark"} : Goto(a, pc)
    BY <1>2
  <2>2. pc \in Places
    BY DEF Places, Submitting
  <2>3. OpOK(a)'
    BY <2>1, HoldingMovesOn DEF LsRemote
  <2> QED
    BY <2>1, <2>2, <2>3, OwnOp, GotoKeeps DEF LsRemote
<1> QED
  BY <1>1, <1>2 DEF LsRemote

LEMMA PushedKeeps ==
  ASSUME RemoteInv, NEW a \in Apps, Pushed(a)
  PROVE  RemoteInv'
<1>1. "mark" \in Places
  BY DEF Places, Submitting
<1>2. OpOK(a)'
  BY HoldingMovesOn DEF Pushed
<1> QED
  BY <1>1, <1>2, OwnOp, GotoKeeps DEF Pushed

(* The push leaves only while the slot names its job and its commit is saved. *)
LEMMA PushKeeps ==
  ASSUME RemoteInv, NEW a \in Apps, Push(a)
  PROVE  RemoteInv'
<1> DEFINE j == op[a].job
           push == [job |-> j, commit |-> op[a].rec.commit]
<1>1. op[a].pc = "push" /\ Goto(a, "pushed")
  BY DEF Push
<1>2. OpOK(a)'
  BY <1>1, HoldingMovesOn DEF Push
<1>3. "pushed" \in Places
  BY DEF Places, Submitting
<1>4. op' \in [Apps -> Operations] /\ \A b \in Apps \ {a} : op'[b] = op[b]
  BY <1>1, <1>3, GotoType, OwnOp
<1>5. /\ j \in Jobs /\ AppOf[j] = a /\ activeSlot = SlotOf(op[a])
      /\ record[j].commit = op[a].rec.commit /\ record[j].status = "prepared"
  BY <1>1, OwnOp DEF OpOK, Submitting, Holding
<1>6. record[j].commit # 0
  BY <1>5 DEF RemoteInv, RecordOK, Blank
<1>7. inflight' = inflight \union {push} /\ push.job = j /\ push.commit = op[a].rec.commit
  BY DEF Push
<1>8. push \in [job : Jobs, commit : Nat]
  BY <1>5, OwnOp DEF Records
<1>9. RemoteTypeOK'
  BY <1>4, <1>7, <1>8, OwnOp DEF RemoteTypeOK, Push
<1>10. SharedInv'
  <2>1. \A k \in Jobs : RecordOK(k)' /\ GitHubOK(k)'
    BY DEF RemoteInv, RecordOK, GitHubOK, Push
  <2>2. PushesOK'
    BY <1>5, <1>6, <1>7 DEF RemoteInv, PushesOK, Push
  <2>3. SlotOK' /\ SlotIsNotOrphaned'
    BY DEF RemoteInv, SlotOK, SlotIsSound, SlotIsNotOrphaned, Push
  <2>4. SlotCoversRun'
    <3>1. activeSlot.job = j
      BY <1>5 DEF SlotOf
    <3> QED
      BY <1>7, <3>1 DEF RemoteInv, SlotIsSound, SlotCoversRun, Computing, Push
  <2> QED
    BY <2>1, <2>2, <2>3, <2>4 DEF SharedInv, SlotIsSound
<1> QED
  BY <1>2, <1>4, <1>9, <1>10, ProviderStepKeeps DEF SlotMovedBy, Push

-----------------------------------------------------------------------------
(* The slot is taken and given back. *)

(* The copy of the record with the slot it was given. *)
LEMMA TakenType ==
  ASSUME RemoteTypeOK, NEW a \in Apps, NEW token \in Nat,
         op' = [op EXCEPT ![a].pc = "claimed", ![a].rec.slot = token]
  PROVE  /\ op' \in [Apps -> Operations]
         /\ op'[a].pc = "claimed" /\ op'[a].job = op[a].job
         /\ op'[a].rec \in Records /\ op'[a].rec.slot = token
         /\ op'[a].rec.commit = op[a].rec.commit /\ op'[a].rec.status = op[a].rec.status
         /\ \A b \in Apps \ {a} : op'[b] = op[b]
<1> DEFINE rec == [op[a].rec EXCEPT !.slot = token]
           o == [op[a] EXCEPT !.pc = "claimed", !.rec = rec]
<1>1. op[a] \in Operations /\ op[a].rec \in Records
  BY OpFields DEF RemoteTypeOK
<1>2. /\ rec \in Records /\ rec.slot = token
      /\ rec.commit = op[a].rec.commit /\ rec.status = op[a].rec.status
  BY <1>1 DEF Records
<1>3. "claimed" \in Places
  BY DEF Places, Submitting
<1> HIDE DEF rec
<1>4. o \in Operations /\ o.pc = "claimed" /\ o.job = op[a].job /\ o.rec = rec
  BY <1>1, <1>2, <1>3 DEF Operations
<1>5. op' = [op EXCEPT ![a] = o]
  BY DEF rec, RemoteTypeOK
<1>6. op' \in [Apps -> Operations]
  BY <1>4, <1>5, OpChanged
<1>7. op'[a] = o /\ \A b \in Apps \ {a} : op'[b] = op[b]
  BY <1>5 DEF RemoteTypeOK
<1> QED
  BY <1>2, <1>4, <1>6, <1>7

LEMMA ClaimKeeps ==
  ASSUME RemoteInv, NEW a \in Apps, Claim(a)
  PROVE  RemoteInv'
<1> DEFINE j == op[a].job
<1>1. op[a].pc = "claiming" /\ UNCHANGED <<record, mutex, commits, githubVars, faults, reruns>>
  BY DEF Claim
<1>2. /\ j \in Jobs /\ AppOf[j] = a /\ record[j].status = "prepared"
      /\ op[a].rec = record[j] /\ op[a].rec \in Records
  BY <1>1, OwnOp DEF OpOK, Submitting, Holding
<1>3. CASE Goto(a, "thrown") /\ UNCHANGED <<activeSlot, tokens>>
  <2>1. "thrown" \in Places
    BY DEF Places
  <2>2. /\ op'[a].pc = "thrown" /\ op'[a].job = op[a].job /\ op'[a].rec = op[a].rec
    BY <1>3, <2>1, GotoType, OwnOp
  <2>3. OpOK(a)'
    BY <1>2, <2>2 DEF OpOK, Submitting, Holding, Collecting, GivingBack
  <2> QED
    BY <1>1, <1>3, <2>1, <2>3, OwnOp, GotoKeeps
<1>4. CASE /\ tokens' \in Nat
           /\ activeSlot' = [job |-> j, commit |-> op[a].rec.commit, token |-> activeSlot'.token]
           /\ activeSlot'.token \in Nat
           /\ activeSlot'.token > 0
           /\ op' = [op EXCEPT ![a].pc = "claimed", ![a].rec.slot = activeSlot'.token]
           /\ activeSlot = NoSlot \/ activeSlot' = activeSlot
  <2>1. /\ op' \in [Apps -> Operations]
        /\ op'[a].pc = "claimed" /\ op'[a].job = op[a].job
        /\ op'[a].rec.slot = activeSlot'.token
        /\ op'[a].rec.commit = op[a].rec.commit /\ op'[a].rec.status = op[a].rec.status
        /\ \A b \in Apps \ {a} : op'[b] = op[b]
    BY <1>4, TakenType, OwnOp
  <2>2. activeSlot' \in [job : Jobs \union {NoJob}, commit : Nat, token : Nat] /\ activeSlot'.job = j
        /\ activeSlot'.commit = op[a].rec.commit
    BY <1>2, <1>4 DEF Records
  <2>3. RemoteTypeOK'
    BY <1>1, <1>4, <2>1, <2>2, OwnOp DEF RemoteTypeOK, githubVars
  <2>4. OpOK(a)'
    BY <1>1, <1>2, <1>4, <2>1 DEF OpOK, SlotOf, Submitting, Holding, Collecting, GivingBack
  <2>5. SharedInv'
    <3>1. (\A k \in Jobs : RecordOK(k)' /\ GitHubOK(k)') /\ PushesOK'
      BY <1>1 DEF RemoteInv, RecordOK, GitHubOK, PushesOK, githubVars
    <3>2. SlotOK'
      BY <1>2, <1>4, <2>2 DEF SlotOK
    <3>3. SlotCoversRun'
      BY <1>1, <1>4, <2>2, JobsAssumption
      DEF RemoteInv, SlotIsSound, SlotCoversRun, Computing, githubVars, NoSlot
    <3>4. SlotIsNotOrphaned'
      BY <1>1, <1>2, <2>2 DEF SlotIsNotOrphaned
    <3> QED
      BY <3>1, <3>2, <3>3, <3>4 DEF SharedInv, SlotIsSound
  <2>6. SlotMovedBy(a)
    BY <1>2, <1>4, <2>2 DEF SlotMovedBy
  <2> QED
    BY <1>1, <2>1, <2>3, <2>4, <2>5, <2>6, ProviderStepKeeps DEF githubVars
<1>5. CASE /\ activeSlot = NoSlot
           /\ tokens' = tokens + 1
           /\ activeSlot' = [job |-> j, commit |-> op[a].rec.commit, token |-> tokens']
           /\ op' = [op EXCEPT ![a].pc = "claimed", ![a].rec.slot = activeSlot'.token]
  <2>1. tokens' \in Nat /\ tokens' > 0
    BY <1>5, OwnOp DEF RemoteTypeOK
  <2>2. activeSlot'.token = tokens'
    BY <1>5
  <2> QED
    BY <1>4, <1>5, <2>1, <2>2
<1>6. CASE /\ activeSlot.job = j /\ activeSlot.commit = op[a].rec.commit
           /\ op' = [op EXCEPT ![a].pc = "claimed", ![a].rec.slot = activeSlot.token]
           /\ UNCHANGED <<activeSlot, tokens>>
  <2>1. activeSlot \in [job : Jobs \union {NoJob}, commit : Nat, token : Nat] /\ tokens \in Nat
    BY OwnOp DEF RemoteTypeOK
  <2>2. activeSlot.token > 0
    BY <1>2, <1>6, JobsAssumption DEF RemoteInv, SlotOK, NoSlot
  <2>3. activeSlot = [job |-> j, commit |-> op[a].rec.commit, token |-> activeSlot.token]
    BY <1>6, <2>1
  <2> QED
    BY <1>4, <1>6, <2>1, <2>2, <2>3
<1> QED
  BY <1>3, <1>5, <1>6 DEF Claim

(* A slot that is given back covers no computation. *)
LEMMA ReleaseKeeps ==
  ASSUME RemoteInv, NEW a \in Apps, Release(a)
  PROVE  RemoteInv'
<1> DEFINE j == op[a].job
           mine == SlotOf(op[a])
<1>1. /\ op[a].pc = "releasing"
      /\ UNCHANGED <<record, mutex, commits, tokens, githubVars, faults, reruns>>
      /\ activeSlot' = IF activeSlot = mine THEN NoSlot ELSE activeSlot
      /\ Goto(a, IF activeSlot \in {NoSlot, mine} THEN "released" ELSE "thrown")
  BY DEF Release, SlotOf
<1>2. /\ j \in Jobs /\ AppOf[j] = a
      /\ op[a].rec = record[j] /\ op[a].rec.status \in {"submitted", "verified"}
      /\ FirstAttemptOver(j)
  BY <1>1, OwnOp DEF OpOK, Collecting, GivingBack
<1>3. mine.job = j
  BY DEF SlotOf
<1>4. PICK pc \in {"released", "thrown"} :
        Goto(a, pc) /\ (pc = "released" <=> activeSlot \in {NoSlot, mine})
  BY <1>1
<1>5. pc \in Places
  BY <1>4 DEF Places, Collecting
<1>6. /\ op' \in [Apps -> Operations]
      /\ op'[a].pc = pc /\ op'[a].job = op[a].job /\ op'[a].rec = op[a].rec
      /\ \A b \in Apps \ {a} : op'[b] = op[b]
  BY <1>4, <1>5, GotoType, OwnOp
<1>7. activeSlot' \in [job : Jobs \union {NoJob}, commit : Nat, token : Nat]
  BY <1>1, OwnOp DEF RemoteTypeOK, NoSlot
<1>8. RemoteTypeOK'
  BY <1>1, <1>6, <1>7, OwnOp DEF RemoteTypeOK, githubVars
<1>9. SlotMovedBy(a)
  BY <1>1, <1>2, <1>3 DEF SlotMovedBy
<1>10. OpOK(a)'
  <2>1. pc = "released" => activeSlot'.job # j
    BY <1>1, <1>2, <1>4, JobsAssumption DEF NoSlot
  <2>2. FirstAttemptOver(j)'
    BY <1>1, <1>2, <1>6 DEF FirstAttemptOver, RunOver, githubVars
  <2> HIDE DEF mine
  <2> QED
    BY <1>1, <1>2, <1>4, <1>6, <2>1, <2>2
    DEF OpOK, Submitting, Holding, Collecting, GivingBack, FirstAttemptOver, RunOver
<1>11. SharedInv'
  <2>1. (\A k \in Jobs : RecordOK(k)' /\ GitHubOK(k)') /\ PushesOK'
    BY <1>1 DEF RemoteInv, RecordOK, GitHubOK, PushesOK, githubVars
  <2>2. SlotOK' /\ SlotIsNotOrphaned'
    BY <1>1 DEF RemoteInv, SlotOK, SlotIsSound, SlotIsNotOrphaned
  <2>3. ~Computing(j)
    BY <1>2 DEF FirstAttemptOver, Computing
  <2>4. SlotCoversRun'
    BY <1>1, <1>3, <2>3 DEF RemoteInv, SlotIsSound, SlotCoversRun, Computing, githubVars
  <2> QED
    BY <2>1, <2>2, <2>4 DEF SharedInv, SlotIsSound
<1> QED
  BY <1>1, <1>6, <1>8, <1>9, <1>10, <1>11, ProviderStepKeeps DEF githubVars

-----------------------------------------------------------------------------
(* The record follows its operation. *)

(* A step that saves the record of its own job and moves on. *)
LEMMA SaveKeeps ==
  ASSUME RemoteInv, NEW a \in Apps, op[a].pc # "idle", NEW rec \in Records,
         record' = [record EXCEPT ![op[a].job] = rec],
         op' \in [Apps -> Operations], \A b \in Apps \ {a} : op'[b] = op[b],
         UNCHANGED <<activeSlot, mutex, commits, tokens, githubVars, faults, reruns>>,
         rec.commit > 0, rec.status # "none", record[op[a].job].commit = rec.commit,
         activeSlot.job = op[a].job =>
           \/ rec.slot = activeSlot.token
           \/ rec.status = record[op[a].job].status /\ rec.slot = record[op[a].job].slot,
         OpOK(a)'
  PROVE  RemoteInv'
<1> DEFINE j == op[a].job
<1>1. j \in Jobs /\ AppOf[j] = a
  BY OwnOp
<1>2. SharedInv'
  BY <1>1, SharedSaved
<1>3. /\ record' \in [Jobs -> Records] /\ record'[j] = rec
      /\ \A k \in Jobs : AppOf[k] # a => record'[k] = record[k]
  BY <1>1, OwnOp, RecordSaved
<1>4. RemoteTypeOK'
  BY <1>3, OwnOp DEF RemoteTypeOK, githubVars
<1> QED
  BY <1>2, <1>3, <1>4, ProviderStepKeeps DEF SlotMovedBy, githubVars

(* A saved record has a commit. *)
LEMMA SavedCommit ==
  ASSUME RemoteInv, NEW j \in Jobs, record[j].status # "none"
  PROVE  record[j].commit > 0 /\ record[j] \in Records
<1>1. record[j] \in Records
  BY DEF RemoteInv, RemoteTypeOK
<1>2. record[j].commit # 0
  BY DEF RemoteInv, RecordOK, Blank
<1> QED
  BY <1>1, <1>2 DEF Records

LEMMA SaveSlotKeeps ==
  ASSUME RemoteInv, NEW a \in Apps, SaveSlot(a)
  PROVE  RemoteInv'
<1> DEFINE j == op[a].job
           rec == op[a].rec
<1>1. op[a].pc = "slot" /\ record' = [record EXCEPT ![j] = rec] /\ Goto(a, "look")
  BY DEF SaveSlot
<1>2. /\ j \in Jobs /\ rec \in Records /\ rec.status = "prepared"
      /\ record[j].status = "prepared" /\ rec.commit = record[j].commit
      /\ activeSlot = SlotOf(op[a])
  BY <1>1, OwnOp DEF OpOK, Submitting, Holding
<1>3. rec.commit > 0 /\ rec.slot = activeSlot.token
  BY <1>2, SavedCommit DEF SlotOf
<1>4. "look" \in Places
  BY DEF Places, Submitting
<1>5. /\ op' \in [Apps -> Operations]
      /\ op'[a].pc = "look" /\ op'[a].job = j /\ op'[a].rec = rec
      /\ \A b \in Apps \ {a} : op'[b] = op[b]
  BY <1>1, <1>4, GotoType, OwnOp
<1>6. record'[j] = rec
  BY <1>1, <1>2, OwnOp, RecordSaved
<1>7. OpOK(a)'
  <2>1. AppOf[j] = a /\ activeSlot' = SlotOf(op'[a])
    BY <1>1, <1>2, <1>5, OwnOp DEF SaveSlot, SlotOf
  <2> QED
    BY <1>2, <1>5, <1>6, <2>1 DEF OpOK, Submitting, Holding, Collecting, GivingBack
<1> QED
  BY <1>1, <1>2, <1>3, <1>5, <1>7, SaveKeeps DEF SaveSlot

LEMMA MarkSubmittedKeeps ==
  ASSUME RemoteInv, NEW a \in Apps, MarkSubmitted(a)
  PROVE  RemoteInv'
<1> DEFINE j == op[a].job
           rec == [op[a].rec EXCEPT !.status = "submitted"]
<1>1. op[a].pc = "mark" /\ record' = [record EXCEPT ![j] = rec] /\ Return(a)
  BY DEF MarkSubmitted
<1>2. /\ j \in Jobs /\ op[a].rec \in Records /\ record[j].status = "prepared"
      /\ op[a].rec = record[j] /\ activeSlot = SlotOf(op[a])
  BY <1>1, OwnOp DEF OpOK, Submitting, Holding
<1>3. /\ rec \in Records /\ rec.status = "submitted"
      /\ rec.commit = record[j].commit /\ rec.slot = op[a].rec.slot
  BY <1>2 DEF Records
<1>4. rec.commit > 0 /\ rec.slot = activeSlot.token
  BY <1>2, <1>3, SavedCommit DEF SlotOf
<1>5. op' \in [Apps -> Operations] /\ op'[a] = Idle /\ \A b \in Apps \ {a} : op'[b] = op[b]
  BY <1>1, ReturnType, OwnOp
<1>6. OpOK(a)'
  BY <1>5, IdleIsOK
<1> QED
  BY <1>1, <1>3, <1>4, <1>5, <1>6, SaveKeeps DEF MarkSubmitted

-----------------------------------------------------------------------------
(* status *)

LEMMA FetchKeeps ==
  ASSUME RemoteInv, NEW a \in Apps, NEW j \in Jobs, NEW v \in 1..Latest(j), Fetch(a, j, v)
  PROVE  RemoteInv'
<1> DEFINE res == published[j][v]
<1>1. PICK pc \in {"run", "verify"} :
        op' = [op EXCEPT ![a] = [pc |-> pc, job |-> j, rec |-> record[j], res |-> res]]
  BY DEF Fetch
<1>2. /\ AppOf[j] = a /\ record[j].status \in {"submitted", "verified"}
      /\ UNCHANGED <<record, activeSlot, mutex, commits, tokens, githubVars, faults, reruns>>
  BY DEF Fetch
<1>3. record[j] \in Records /\ published[j] \in Seq(Results) /\ v \in 1..Len(published[j])
  BY OwnOp DEF RemoteTypeOK, Latest
<1>4. res \in Results
  BY <1>3
<1>5. pc \in Places
  BY DEF Places, Collecting
<1> DEFINE o == [pc |-> pc, job |-> j, rec |-> record[j], res |-> res]
<1> HIDE DEF res
<1>6. o \in Operations /\ o.pc = pc /\ o.job = j /\ o.rec = record[j]
  BY <1>3, <1>4, <1>5 DEF Operations
<1>7. op' = [op EXCEPT ![a] = o]
  BY <1>1
<1> HIDE DEF o
<1>8. op' \in [Apps -> Operations]
  BY <1>6, <1>7, OpChanged, OwnOp
<1>9. op'[a] = o /\ \A b \in Apps \ {a} : op'[b] = op[b]
  BY <1>7, OwnOp DEF RemoteTypeOK
<1>10. RemoteTypeOK'
  BY <1>2, <1>8, OwnOp DEF RemoteTypeOK, githubVars
<1>11. OpOK(a)'
  BY <1>2, <1>6, <1>9 DEF OpOK, Submitting, Holding, Collecting, GivingBack
<1>12. SharedInv'
  BY <1>2, SharedKept
<1> QED
  BY <1>2, <1>9, <1>10, <1>11, <1>12, ProviderStepKeeps DEF SlotMovedBy, githubVars

(* A completed run belongs to a branch: the request reached GitHub. *)
LEMMA CheckRunKeeps ==
  ASSUME RemoteInv, NEW a \in Apps, CheckRun(a)
  PROVE  RemoteInv'
<1> DEFINE j == op[a].job
<1>1. CASE Return(a)
  BY <1>1, OwnOp, ReturnKeeps DEF CheckRun
<1>2. CASE RunOver(run[j]) /\ Goto(a, "release")
  <2>1. op[a].pc = "run" /\ UNCHANGED <<record, activeSlot, githubVars>>
    BY DEF CheckRun
  <2>2. /\ j \in Jobs /\ AppOf[j] = a
        /\ op[a].rec = record[j] /\ op[a].rec.status \in {"submitted", "verified"}
    BY <2>1, OwnOp DEF OpOK, Collecting
  <2>3. FirstAttemptOver(j)
    BY <1>2, <2>2 DEF RemoteInv, GitHubOK, FirstAttemptOver, RunOver, NoRun
  <2>4. "release" \in Places
    BY DEF Places, Collecting
  <2>5. /\ op'[a].pc = "release" /\ op'[a].job = op[a].job /\ op'[a].rec = op[a].rec
    BY <1>2, <2>4, GotoType, OwnOp
  <2>6. FirstAttemptOver(j)'
    BY <2>1, <2>3, <2>5 DEF FirstAttemptOver, RunOver, githubVars
  <2>7. OpOK(a)'
    BY <2>1, <2>2, <2>5, <2>6 DEF OpOK, Submitting, Holding, Collecting, GivingBack
  <2> QED
    BY <1>2, <2>4, <2>7, OwnOp, GotoKeeps DEF CheckRun
<1> QED
  BY <1>1, <1>2 DEF CheckRun

(* The slot is no longer the job's when its record forgets the token. *)
LEMMA SaveReleasedKeeps ==
  ASSUME RemoteInv, NEW a \in Apps, SaveReleased(a)
  PROVE  RemoteInv'
<1> DEFINE j == op[a].job
           rec == [op[a].rec EXCEPT !.slot = 0]
<1>1. /\ op[a].pc = "free" /\ record' = [record EXCEPT ![j] = rec]
      /\ UNCHANGED <<activeSlot, mutex, commits, tokens, githubVars, faults, reruns>>
  BY DEF SaveReleased
<1>2. /\ j \in Jobs /\ AppOf[j] = a /\ op[a].rec \in Records
      /\ op[a].rec = record[j] /\ op[a].rec.status \in {"submitted", "verified"}
      /\ activeSlot.job # j
  BY <1>1, OwnOp DEF OpOK, Collecting
<1>3. rec \in Records /\ rec.commit = record[j].commit /\ rec.status = record[j].status
  BY <1>2 DEF Records
<1>4. rec.commit > 0
  BY <1>2, <1>3, SavedCommit
<1>5. record'[j] = rec
  BY <1>1, <1>2, <1>3, OwnOp, RecordSaved
<1> HIDE DEF rec
<1>6. CASE Return(a)
  <2>1. op' \in [Apps -> Operations] /\ op'[a] = Idle /\ \A b \in Apps \ {a} : op'[b] = op[b]
    BY <1>6, ReturnType, OwnOp
  <2>2. OpOK(a)'
    BY <2>1, IdleIsOK
  <2> QED
    BY <1>1, <1>2, <1>3, <1>4, <2>1, <2>2, SaveKeeps
<1>7. CASE op' = [op EXCEPT ![a].pc = "verify", ![a].rec = rec]
  <2> DEFINE o == [op[a] EXCEPT !.pc = "verify", !.rec = rec]
  <2>1. op[a] \in Operations /\ "verify" \in Places
    BY OwnOp DEF RemoteTypeOK, Places, Collecting
  <2>2. o \in Operations /\ o.pc = "verify" /\ o.job = j /\ o.rec = rec
    BY <1>3, <2>1 DEF Operations
  <2>3. op' = [op EXCEPT ![a] = o]
    BY <1>7, OwnOp DEF RemoteTypeOK
  <2>4. op' \in [Apps -> Operations]
    BY <2>2, <2>3, OpChanged, OwnOp
  <2>5. op'[a] = o /\ \A b \in Apps \ {a} : op'[b] = op[b]
    BY <2>3, OwnOp DEF RemoteTypeOK
  <2>6. OpOK(a)'
    BY <1>2, <1>3, <1>5, <2>2, <2>5 DEF OpOK, Submitting, Holding, Collecting, GivingBack
  <2> QED
    BY ZenonT(40), <1>1, <1>2, <1>3, <1>4, <2>4, <2>5, <2>6, SaveKeeps
<1> QED
  BY <1>6, <1>7 DEF SaveReleased, rec

LEMMA VerifyKeeps ==
  ASSUME RemoteInv, NEW a \in Apps, Verify(a)
  PROVE  RemoteInv'
<1> DEFINE j == op[a].job
           rec == [op[a].rec EXCEPT !.status = "verified"]
<1>1. /\ op[a].pc = "verify" /\ Return(a)
      /\ UNCHANGED <<activeSlot, mutex, commits, tokens, githubVars, faults, reruns>>
  BY DEF Verify
<1>2. /\ j \in Jobs /\ op[a].rec \in Records /\ op[a].rec = record[j]
      /\ record[j].status \in {"submitted", "verified"}
  BY <1>1, OwnOp DEF OpOK, Collecting
<1>3. CASE UNCHANGED record
  BY <1>1, <1>3, OwnOp, ReturnKeeps
<1>4. CASE record' = [record EXCEPT ![j] = rec]
  <2>1. /\ rec \in Records /\ rec.status = "verified"
        /\ rec.commit = record[j].commit /\ rec.slot = record[j].slot
    BY <1>2 DEF Records
  <2>2. rec.commit > 0
    BY <1>2, <2>1, SavedCommit
  <2>3. activeSlot.job = j => rec.slot = activeSlot.token
    BY <1>2, <2>1, JobsAssumption DEF RemoteInv, SlotIsSound, SlotIsNotOrphaned, NoSlot
  <2>4. op' \in [Apps -> Operations] /\ op'[a] = Idle /\ \A b \in Apps \ {a} : op'[b] = op[b]
    BY <1>1, ReturnType, OwnOp
  <2>5. OpOK(a)'
    BY <2>4, IdleIsOK
  <2> HIDE DEF rec
  <2> QED
    BY <1>1, <1>4, <2>1, <2>2, <2>3, <2>4, <2>5, SaveKeeps
<1> QED
  BY <1>3, <1>4 DEF Verify

-----------------------------------------------------------------------------
(* GitHub *)

(* What GitHub does to a run never reopens a first attempt. *)
LEMMA GitHubKeeps ==
  ASSUME RemoteInv, RemoteTypeOK', UNCHANGED localVars, inflight' \subseteq inflight,
         \A j \in Jobs : GitHubOK(j)',
         \A j \in Jobs : FirstAttemptOver(j) => FirstAttemptOver(j)',
         \A j \in Jobs : Computing(j)' => Computing(j)
  PROVE  RemoteInv'
<1> USE DEF localVars
<1>1. \A j \in Jobs : RecordOK(j)'
  BY DEF RemoteInv, RecordOK
<1>2. PushesOK' /\ SlotOK'
  BY DEF RemoteInv, PushesOK, SlotOK
<1>3. SlotIsSound'
  BY DEF RemoteInv, SlotIsSound, SlotCoversRun, SlotIsNotOrphaned
<1>4. ASSUME NEW a \in Apps PROVE OpOK(a)'
  <2>1. OpOK(a) /\ (op[a].pc \in GivingBack => op[a].pc # "idle")
    BY DEF RemoteInv, GivingBack
  <2>2. op[a].pc \in GivingBack => FirstAttemptOver(op[a].job)'
    BY <2>1 DEF OpOK
  <2> QED
    BY <2>1, <2>2 DEF OpOK
<1> QED
  BY <1>1, <1>2, <1>3, <1>4 DEF RemoteInv

LEMMA LandKeeps ==
  ASSUME RemoteInv, NEW push \in inflight, Land(push)
  PROVE  RemoteInv'
<1> DEFINE j == push.job
<1>1. /\ inflight' = inflight \ {push} /\ UNCHANGED <<localVars, published, faults, reruns>>
  BY DEF Land
<1>2. RemoteTypeOK /\ j \in Jobs /\ push.commit \in Nat /\ push.commit # 0 /\ record[j].commit = push.commit
  BY DEF RemoteInv, RemoteTypeOK, PushesOK
<1>3. CASE ref[j] # 0
  <2>1. UNCHANGED <<ref, run>>
    BY <1>3 DEF Land
  <2>2. RemoteTypeOK'
    BY <1>1, <1>2, <2>1 DEF RemoteTypeOK, localVars
  <2>3. \A k \in Jobs : GitHubOK(k)' /\ (FirstAttemptOver(k) => FirstAttemptOver(k)')
    BY <1>1, <2>1 DEF RemoteInv, GitHubOK, FirstAttemptOver, RunOver, localVars
  <2>4. \A k \in Jobs : Computing(k)' => Computing(k)
    BY <1>1, <2>1 DEF Computing, RunOver
  <2> QED
    BY <1>1, <2>2, <2>3, <2>4, GitHubKeeps
<1>4. CASE ref[j] = 0
  <2> DEFINE r == [NoRun EXCEPT !.state = "pending", !.attempt = 1]
  <2>1. ref' = [ref EXCEPT ![j] = push.commit] /\ run' = [run EXCEPT ![j] = r]
    BY <1>4 DEF Land
  <2>2. NoRun \in Runs
    BY DEF NoRun, Runs
  <2>3. r \in Runs /\ r.state = "pending" /\ r.attempt = 1
    BY <2>2 DEF Runs
  <2> HIDE DEF r
  <2>4. /\ ref' \in [Jobs -> Nat] /\ run' \in [Jobs -> Runs]
        /\ ref'[j] = push.commit /\ run'[j] = r
        /\ \A k \in Jobs \ {j} : ref'[k] = ref[k] /\ run'[k] = run[k]
    BY <1>2, <2>1, <2>3 DEF RemoteTypeOK
  <2>5. RemoteTypeOK'
    BY <1>1, <1>2, <2>4 DEF RemoteTypeOK, localVars
  <2>6. \A k \in Jobs : GitHubOK(k)'
    BY <1>1, <1>2, <2>3, <2>4 DEF RemoteInv, GitHubOK, localVars
  <2>7. \A k \in Jobs : FirstAttemptOver(k) => FirstAttemptOver(k)'
    BY <1>4, <2>4 DEF FirstAttemptOver, RunOver
  <2>8. \A k \in Jobs : Computing(k)' => Computing(k)
    BY <1>1, <1>4, <2>4 DEF Computing, RunOver
  <2> QED
    BY <1>1, <2>5, <2>6, <2>7, <2>8, GitHubKeeps
<1> QED
  BY <1>3, <1>4

(* A run that goes on, in its attempt or in a later one. *)
LEMMA RunGoesOn ==
  ASSUME RemoteInv, NEW j \in Jobs, NEW r \in Runs, run' = [run EXCEPT ![j] = r],
         published' \in [Jobs -> Seq(Results)],
         UNCHANGED <<localVars, inflight, ref>>, faults' \in Nat, reruns' \in Nat,
         run[j].state # "none", r.state # "none",
         \/ r.attempt = run[j].attempt /\ ~RunOver(run[j])
         \/ r.attempt = run[j].attempt + 1
  PROVE  RemoteInv'
<1>1. RemoteTypeOK /\ run[j] \in Runs /\ GitHubOK(j)
  BY DEF RemoteInv, RemoteTypeOK
<1>2. run[j].attempt \in Nat /\ r.attempt \in Nat
  BY <1>1 DEF Runs
<1>3. ref[j] # 0 /\ run[j].attempt >= 1
  BY <1>1 DEF GitHubOK, NoRun
<1>4. /\ run' \in [Jobs -> Runs] /\ run'[j] = r /\ \A k \in Jobs \ {j} : run'[k] = run[k]
  BY <1>1 DEF RemoteTypeOK
<1>5. RemoteTypeOK'
  BY <1>1, <1>4 DEF RemoteTypeOK, localVars
<1>6. \A k \in Jobs : GitHubOK(k)'
  BY <1>2, <1>3, <1>4 DEF RemoteInv, GitHubOK, localVars
<1>7. \A k \in Jobs : FirstAttemptOver(k) => FirstAttemptOver(k)'
  BY <1>2, <1>3, <1>4 DEF FirstAttemptOver
<1>8. \A k \in Jobs : Computing(k)' => Computing(k)
  BY <1>2, <1>3, <1>4 DEF Computing
<1> QED
  BY <1>5, <1>6, <1>7, <1>8, GitHubKeeps

(* The run before a step of it. *)
LEMMA RunFields ==
  ASSUME RemoteInv, NEW j \in Jobs
  PROVE  /\ run[j] \in Runs /\ run[j].attempt \in Nat
         /\ run \in [Jobs -> Runs] /\ published \in [Jobs -> Seq(Results)]
         /\ published[j] \in Seq(Results) /\ faults \in Nat /\ reruns \in Nat
<1>1. run[j] \in Runs
  BY DEF RemoteInv, RemoteTypeOK
<1> QED
  BY <1>1 DEF RemoteInv, RemoteTypeOK, Runs

LEMMA RunStartsKeeps ==
  ASSUME RemoteInv, NEW j \in Jobs, RunStarts(j)
  PROVE  RemoteInv'
<1> DEFINE r == [run[j] EXCEPT !.state = "running"]
<1>1. r \in Runs /\ r.state = "running" /\ r.attempt = run[j].attempt
  BY RunFields DEF Runs
<1>2. run' = [run EXCEPT ![j] = r]
  BY RunFields DEF RunStarts
<1> HIDE DEF r
<1> QED
  BY <1>1, <1>2, RunFields, RunGoesOn DEF RunStarts, RunOver

LEMMA ProofJobEndsKeeps ==
  ASSUME RemoteInv, NEW j \in Jobs, ProofJobEnds(j)
  PROVE  RemoteInv'
<1>1. PICK artifact \in {"verified", "none"} :
        run' = [run EXCEPT ![j].state = "publishing", ![j].artifact = artifact]
  BY DEF ProofJobEnds
<1> DEFINE r == [run[j] EXCEPT !.state = "publishing", !.artifact = artifact]
<1>2. r \in Runs /\ r.state = "publishing" /\ r.attempt = run[j].attempt
  BY RunFields DEF Runs
<1>3. run' = [run EXCEPT ![j] = r]
  BY <1>1, RunFields
<1> HIDE DEF r
<1> QED
  BY <1>2, <1>3, RunFields, RunGoesOn DEF ProofJobEnds, RunOver

LEMMA PublishKeeps ==
  ASSUME RemoteInv, NEW j \in Jobs, Publish(j)
  PROVE  RemoteInv'
<1> DEFINE r == [run[j] EXCEPT !.state = "published", !.artifact = "none"]
<1>1. r \in Runs /\ r.state = "published" /\ r.attempt = run[j].attempt
  BY RunFields DEF Runs
<1>2. run' = [run EXCEPT ![j] = r]
  BY RunFields DEF Publish
<1>3. published' \in [Jobs -> Seq(Results)]
  <2>1. PICK status \in {"failed", "verified"} :
          \/ published' = published
          \/ published' = [published EXCEPT ![j] =
               Append(published[j], [status |-> status, attempt |-> run[j].attempt])]
    BY RunFields DEF Publish
  <2>2. [status |-> status, attempt |-> run[j].attempt] \in Results
    BY RunFields DEF Results
  <2>3. Append(published[j], [status |-> status, attempt |-> run[j].attempt]) \in Seq(Results)
    BY <2>2, RunFields
  <2> QED
    BY <2>1, <2>3, RunFields
<1> HIDE DEF r
<1> QED
  BY <1>1, <1>2, <1>3, RunFields, RunGoesOn DEF Publish, RunOver

LEMMA RunCompletesKeeps ==
  ASSUME RemoteInv, NEW j \in Jobs, RunCompletes(j)
  PROVE  RemoteInv'
<1> DEFINE r == [run[j] EXCEPT !.state = "completed"]
<1>1. r \in Runs /\ r.state = "completed" /\ r.attempt = run[j].attempt
  BY RunFields DEF Runs
<1>2. run' = [run EXCEPT ![j] = r]
  BY RunFields DEF RunCompletes
<1> HIDE DEF r
<1> QED
  BY <1>1, <1>2, RunFields, RunGoesOn DEF RunCompletes, RunOver

LEMMA RunLostKeeps ==
  ASSUME RemoteInv, NEW j \in Jobs, RunLost(j)
  PROVE  RemoteInv'
<1> DEFINE r == [run[j] EXCEPT !.state = "completed", !.artifact = "none"]
<1>1. r \in Runs /\ r.state = "completed" /\ r.attempt = run[j].attempt
  BY RunFields DEF Runs
<1>2. run' = [run EXCEPT ![j] = r]
  BY RunFields DEF RunLost
<1> HIDE DEF r
<1>3. /\ faults' \in Nat /\ published' \in [Jobs -> Seq(Results)]
      /\ run[j].state # "none" /\ ~RunOver(run[j])
  BY RunFields DEF RunLost, RunOver
<1> QED
  BY <1>1, <1>2, <1>3, RunFields, RunGoesOn DEF RunLost

LEMMA RerunKeeps ==
  ASSUME RemoteInv, NEW j \in Jobs, Rerun(j)
  PROVE  RemoteInv'
<1>1. PICK state \in {"pending", "publishing"} :
        run' = [run EXCEPT ![j] = [state |-> state, attempt |-> @.attempt + 1, artifact |-> "none"]]
  BY DEF Rerun
<1> DEFINE r == [state |-> state, attempt |-> run[j].attempt + 1, artifact |-> "none"]
<1>2. r \in Runs /\ r.state # "none" /\ r.attempt = run[j].attempt + 1
  BY RunFields DEF Runs
<1>3. run' = [run EXCEPT ![j] = r]
  BY <1>1
<1>4. reruns' \in Nat
  BY RunFields DEF Rerun
<1> HIDE DEF r
<1> QED
  BY <1>2, <1>3, <1>4, RunFields, RunGoesOn DEF Rerun, RunOver

-----------------------------------------------------------------------------

LEMMA RemoteStep == RemoteInv /\ [RemoteNext]_remoteVars => RemoteInv'
<1> SUFFICES ASSUME RemoteInv, [RemoteNext]_remoteVars PROVE RemoteInv'
  OBVIOUS
<1>1. ASSUME NEW a \in Apps, ProviderStep(a) PROVE RemoteInv'
  BY <1>1, SavePreparedKeeps, LockKeeps, ClaimKeeps, ReleaseKeeps, UnlockKeeps, SaveSlotKeeps,
     LsRemoteKeeps, PushKeeps, PushedKeeps, MarkSubmittedKeeps, CheckRunKeeps,
     SaveReleasedKeeps, VerifyKeeps DEF ProviderStep
<1>2. ASSUME NEW a \in Apps, Provider(a) PROVE RemoteInv'
  BY <1>1, <1>2, LockRefusedKeeps, InterruptedKeeps, CommitTreeKeeps, ResumeKeeps, FetchKeeps
  DEF Provider
<1>3. ASSUME GitHub PROVE RemoteInv'
  BY <1>3, LandKeeps, RunStartsKeeps, ProofJobEndsKeeps, PublishKeeps, RunCompletesKeeps,
     RunLostKeeps, RerunKeeps DEF GitHub, RunStep
<1>4. CASE UNCHANGED remoteVars
  <2>1. RemoteTypeOK'
    BY <1>4 DEF RemoteInv, RemoteTypeOK, remoteVars, localVars, githubVars
  <2>2. SharedInv'
    BY <1>4, SharedKept DEF remoteVars, localVars
  <2>3. \A a \in Apps : OpOK(a)'
    BY <1>4 DEF RemoteInv, OpOK, FirstAttemptOver, RunOver, remoteVars, localVars, githubVars
  <2> QED
    BY <2>1, <2>2, <2>3 DEF RemoteInv, SharedInv
<1> QED
  BY <1>2, <1>3, <1>4 DEF RemoteNext

LEMMA RemoteInvariant == RemoteSpec => []RemoteInv
BY RemoteStart, RemoteStep, PTL DEF RemoteSpec

(* The variables of remote proofs keep their types. *)
THEOREM RemoteTypes == RemoteSpec => []RemoteTypeOK
<1>1. RemoteInv => RemoteTypeOK
  BY DEF RemoteInv
<1> QED
  BY <1>1, RemoteInvariant, PTL

(* While GitHub computes for a job no other application gets the slot, and *)
(* a slot in use can always be given back by the job it names, for any     *)
(* number of applications, jobs, interruptions, lost runs and reruns       *)
(* (github-provider.mjs submit and status, remote-slot.mjs).               *)
THEOREM SlotSound == RemoteSpec => []SlotIsSound
<1>1. RemoteInv => SlotIsSound
  BY DEF RemoteInv
<1> QED
  BY <1>1, RemoteInvariant, PTL

(* What GitHub holds of a job is always the commit its saved record names: *)
(* every retry meets its own submission (github-provider.mjs submit).      *)
THEOREM RetriesMeetTheirCommit == RemoteSpec => []RetryFindsItsCommit
<1>1. RemoteInv => RetryFindsItsCommit
  BY DEF RemoteInv, RetryFindsItsCommit, GitHubOK, PushesOK
<1> QED
  BY <1>1, RemoteInvariant, PTL
=============================================================================
