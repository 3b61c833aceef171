------------------------------ MODULE RemoteProof ------------------------------
(***************************************************************************)
(* Proof requests computed on GitHub: the per-application provider         *)
(* (tools/lean-zk/remote/github-provider.mjs), the slot the three          *)
(* applications share (remote-slot.mjs), and the publisher of results      *)
(* (ci/publish_request.py).  GitHub itself - the ref created by a push,    *)
(* the workflow run it starts, operator reruns, the cached raw file - is   *)
(* external and modelled from how these files use it.                      *)
(*                                                                         *)
(* A provider runs one submit or status at a time (serial).  Between two   *)
(* awaits it may be interrupted: a crash, an abort or a network error      *)
(* leaves what is on disk and forgets the rest.                            *)
(***************************************************************************)
EXTENDS Naturals, FiniteSets, Sequences

CONSTANTS Jobs,         \* proof requests; a job fixes the request's bytes and digest
          Apps,         \* providers sharing one slot directory
          AppOf,        \* the application that owns each job
          MaxFaults,    \* interruptions, lost runs and refused metadata locks
          MaxReruns     \* reruns an operator asks for, over all jobs

ASSUME AppOfAssumption == AppOf \in [Jobs -> Apps]

NoJob == "no job"
\* A job is named by the digest of its request, never by the sentinel.
ASSUME JobsAssumption == NoJob \notin Jobs

NoResult == [status |-> "none", attempt |-> 0]
NoSlot == [job |-> NoJob, commit |-> 0, token |-> 0]
Blank == [status |-> "none", commit |-> 0, slot |-> 0]

VARIABLES
  record,      \* jobs/<id>.json: status, request commit, token of the slot (0: none)
  activeSlot,      \* activeSlot.json of the shared slot directory
  mutex,       \* metadata-lock: the application that made it, or "free"
  op,          \* the operation each provider is in, with its copy of the record
  commits,     \* commits made so far for each job (commit-tree is timestamped)
  tokens,      \* slot tokens drawn so far
  inflight,    \* jobs with a push on its way to GitHub
  ref,         \* commit of the job's request branch, 0 before it exists
  run,         \* the workflow run of each job
  published,   \* versions of result.json on the job's result branch
  faults, reruns

localVars == <<record, activeSlot, mutex, op, commits, tokens>>
githubVars == <<inflight, ref, run, published>>
remoteVars == <<localVars, githubVars, faults, reruns>>

Idle == [pc |-> "idle", job |-> NoJob, rec |-> Blank, res |-> NoResult]
NoRun == [state |-> "none", attempt |-> 0, artifact |-> "none"]

RemoteInit ==
  /\ record = [j \in Jobs |-> Blank]
  /\ activeSlot = NoSlot
  /\ mutex = "free"
  /\ op = [a \in Apps |-> Idle]
  /\ commits = [j \in Jobs |-> 0]
  /\ tokens = 0
  /\ inflight = {}
  /\ ref = [j \in Jobs |-> 0]
  /\ run = [j \in Jobs |-> NoRun]
  /\ published = [j \in Jobs |-> <<>>]
  /\ faults = 0
  /\ reruns = 0

Goto(a, pc) == op' = [op EXCEPT ![a].pc = pc]
Return(a) == op' = [op EXCEPT ![a] = Idle]

--------------------------------------------------------------------------------
(* submit *)

\* Mutant: the commit is pushed before its record is saved.
CommitTree_PushesFirst(a, j) ==
  /\ op[a].pc = "idle" /\ AppOf[j] = a
  /\ record[j] = Blank
  /\ commits' = [commits EXCEPT ![j] = @ + 1]
  /\ op' = [op EXCEPT ![a] =
       [Idle EXCEPT !.pc = "look", !.job = j,
                    !.rec = [status |-> "prepared", commit |-> commits'[j], slot |-> 0]]]
  /\ UNCHANGED <<record, activeSlot, mutex, tokens, githubVars, faults, reruns>>

\* A job without a record: the request commit is made, nothing is saved yet.
CommitTree(a, j) ==
  /\ op[a].pc = "idle" /\ AppOf[j] = a
  /\ record[j] = Blank
  /\ commits' = [commits EXCEPT ![j] = @ + 1]
  /\ op' = [op EXCEPT ![a] =
       [Idle EXCEPT !.pc = "prepared", !.job = j,
                    !.rec = [status |-> "prepared", commit |-> commits'[j], slot |-> 0]]]
  /\ UNCHANGED <<record, activeSlot, mutex, tokens, githubVars, faults, reruns>>

SavePrepared(a) ==
  /\ op[a].pc = "prepared"
  /\ record' = [record EXCEPT ![op[a].job] = op[a].rec]
  /\ Goto(a, "claim")
  /\ UNCHANGED <<activeSlot, mutex, commits, tokens, githubVars, faults, reruns>>

\* A retry of a prepared job goes on with the saved record.  A submitted or
\* verified job is only viewed.
Resume(a, j) ==
  /\ op[a].pc = "idle" /\ AppOf[j] = a
  /\ record[j].status = "prepared"
  /\ op' = [op EXCEPT ![a] = [Idle EXCEPT !.pc = "claim", !.job = j, !.rec = record[j]]]
  /\ UNCHANGED <<record, activeSlot, mutex, commits, tokens, githubVars, faults, reruns>>

\* transaction(): mkdir of metadata-lock.
Lock(a) ==
  /\ op[a].pc \in {"claim", "release"}
  /\ mutex = "free"
  /\ mutex' = a
  /\ Goto(a, IF op[a].pc = "claim" THEN "claiming" ELSE "releasing")
  /\ UNCHANGED <<record, activeSlot, commits, tokens, githubVars, faults, reruns>>

\* A directory left by a crash is nobody's: its maker is not in a transaction.
Abandoned == mutex # "free" /\ op[mutex].pc \notin {"claiming", "releasing", "claimed", "released", "thrown"}

\* mkdir finds the directory: RemoteSlotBusy.
LockRefused(a) ==
  /\ op[a].pc \in {"claim", "release"}
  /\ mutex # "free"
  /\ IF Abandoned THEN UNCHANGED faults ELSE faults < MaxFaults /\ faults' = faults + 1
  /\ Return(a)
  /\ UNCHANGED <<record, activeSlot, mutex, commits, tokens, githubVars, reruns>>

\* claimRemoteSlot: take a free slot, keep one's own, or throw RemoteSlotBusy.
Claim(a) ==
  LET j == op[a].job
      taken(slot) == op' = [op EXCEPT ![a].pc = "claimed", ![a].rec.slot = slot.token]
  IN /\ op[a].pc = "claiming"
     /\ \/ /\ activeSlot = NoSlot
           /\ tokens' = tokens + 1
           /\ activeSlot' = [job |-> j, commit |-> op[a].rec.commit, token |-> tokens']
           /\ taken(activeSlot')
        \/ /\ activeSlot.job = j /\ activeSlot.commit = op[a].rec.commit
           /\ taken(activeSlot)
           /\ UNCHANGED <<activeSlot, tokens>>
        \/ /\ activeSlot # NoSlot
           /\ <<activeSlot.job, activeSlot.commit>> # <<j, op[a].rec.commit>>
           /\ Goto(a, "thrown")
           /\ UNCHANGED <<activeSlot, tokens>>
     /\ UNCHANGED <<record, mutex, commits, githubVars, faults, reruns>>

\* releaseRemoteSlot: an empty slot is fine, another's slot throws.
Release(a) ==
  LET j == op[a].job
      mine == [job |-> j, commit |-> op[a].rec.commit, token |-> op[a].rec.slot]
  IN /\ op[a].pc = "releasing"
     /\ activeSlot' = IF activeSlot = mine THEN NoSlot ELSE activeSlot
     /\ Goto(a, IF activeSlot \in {NoSlot, mine} THEN "released" ELSE "thrown")
     /\ UNCHANGED <<record, mutex, commits, tokens, githubVars, faults, reruns>>

\* finally: rmdir of metadata-lock; an exception ends the operation.
Unlock(a) ==
  /\ op[a].pc \in {"claimed", "released", "thrown"}
  /\ mutex' = "free"
  /\ CASE op[a].pc = "claimed" -> Goto(a, "slot")
       [] op[a].pc = "released" -> Goto(a, "free")
       [] op[a].pc = "thrown" -> Return(a)
  /\ UNCHANGED <<record, activeSlot, commits, tokens, githubVars, faults, reruns>>

\* Mutant: the record does not keep the slot it was given.
SaveSlot_Forgets(a) ==
  /\ op[a].pc = "slot"
  /\ op' = [op EXCEPT ![a].pc = "look", ![a].rec.slot = 0]
  /\ UNCHANGED <<record, activeSlot, mutex, commits, tokens, githubVars, faults, reruns>>

SaveSlot(a) ==
  /\ op[a].pc = "slot"
  /\ record' = [record EXCEPT ![op[a].job] = op[a].rec]
  /\ Goto(a, "look")
  /\ UNCHANGED <<activeSlot, mutex, commits, tokens, githubVars, faults, reruns>>

\* ls-remote of the exact branch.  An unexpected commit there is an error.
LsRemote(a) ==
  LET found == ref[op[a].job]
  IN /\ op[a].pc = "look"
     /\ CASE found = 0 -> Goto(a, "push")
          [] found = op[a].rec.commit -> Goto(a, "mark")
          [] OTHER -> Return(a)
     /\ UNCHANGED <<record, activeSlot, mutex, commits, tokens, githubVars, faults, reruns>>

Push(a) ==
  /\ op[a].pc = "push"
  /\ inflight' = inflight \union {[job |-> op[a].job, commit |-> op[a].rec.commit]}
  /\ Goto(a, "pushed")
  /\ UNCHANGED <<record, activeSlot, mutex, commits, tokens, ref, run, published, faults, reruns>>

\* The push is acknowledged once the branch holds the commit.
Pushed(a) ==
  /\ op[a].pc = "pushed"
  /\ ref[op[a].job] = op[a].rec.commit
  /\ Goto(a, "mark")
  /\ UNCHANGED <<record, activeSlot, mutex, commits, tokens, githubVars, faults, reruns>>

MarkSubmitted(a) ==
  /\ op[a].pc = "mark"
  /\ record' = [record EXCEPT ![op[a].job] = [op[a].rec EXCEPT !.status = "submitted"]]
  /\ Return(a)
  /\ UNCHANGED <<activeSlot, mutex, commits, tokens, githubVars, faults, reruns>>

--------------------------------------------------------------------------------
(* status *)

\* result.json is read from a cache: the current version or an older one.  A
\* missing file or, once the slot is back, a failed result only answers the caller.
Fetch(a, j, version) ==
  LET res == published[j][version]
  IN /\ op[a].pc = "idle" /\ AppOf[j] = a
     /\ record[j].status \in {"submitted", "verified"}
     /\ record[j].slot # 0 \/ (res.status = "verified" /\ record[j].status = "submitted")
     /\ op' = [op EXCEPT ![a] = [pc |-> IF record[j].slot # 0 THEN "run" ELSE "verify",
                                 job |-> j, rec |-> record[j], res |-> res]]
     /\ UNCHANGED <<record, activeSlot, mutex, commits, tokens, githubVars, faults, reruns>>

RunOver(r) == r.state = "completed"

\* Mutant: a published result is taken for the end of the run.
CheckRun_ArtifactOnly(a) ==
  /\ op[a].pc = "run"
  /\ Goto(a, "release")
  /\ UNCHANGED <<record, activeSlot, mutex, commits, tokens, githubVars, faults, reruns>>

\* The run must have completed in the very attempt that published the result.
CheckRun(a) ==
  LET r == run[op[a].job]
  IN /\ op[a].pc = "run"
     /\ IF RunOver(r) /\ r.attempt = op[a].res.attempt THEN Goto(a, "release") ELSE Return(a)
     /\ UNCHANGED <<record, activeSlot, mutex, commits, tokens, githubVars, faults, reruns>>

SaveReleased(a) ==
  LET rec == [op[a].rec EXCEPT !.slot = 0]
  IN /\ op[a].pc = "free"
     /\ record' = [record EXCEPT ![op[a].job] = rec]
     /\ IF op[a].res.status = "verified"
          THEN op' = [op EXCEPT ![a].pc = "verify", ![a].rec = rec]
          ELSE Return(a)
     /\ UNCHANGED <<activeSlot, mutex, commits, tokens, githubVars, faults, reruns>>

\* The application's own verifier decides; a refusal throws and changes nothing.
Verify(a) ==
  /\ op[a].pc = "verify"
  /\ \/ record' = [record EXCEPT ![op[a].job] = [op[a].rec EXCEPT !.status = "verified"]]
     \/ UNCHANGED record
  /\ Return(a)
  /\ UNCHANGED <<activeSlot, mutex, commits, tokens, githubVars, faults, reruns>>

\* A crash, an abort or a network error.  The mutex, if held, stays behind.
Interruption(a) ==
  /\ op[a].pc # "idle"
  /\ faults < MaxFaults
  /\ faults' = faults + 1
  /\ Return(a)
  /\ UNCHANGED <<record, activeSlot, mutex, commits, tokens, githubVars, reruns>>

--------------------------------------------------------------------------------
(* GitHub and the workflow *)

\* The first push to arrive creates the branch and starts the run.  A second
\* one with the same commit finds it up to date; another commit is rejected.
Land(push) ==
  /\ push \in inflight
  /\ inflight' = inflight \ {push}
  /\ IF ref[push.job] = 0
       THEN /\ ref' = [ref EXCEPT ![push.job] = push.commit]
            /\ run' = [run EXCEPT ![push.job] = [NoRun EXCEPT !.state = "pending", !.attempt = 1]]
       ELSE UNCHANGED <<ref, run>>
  /\ UNCHANGED <<localVars, published, faults, reruns>>

InRun(state) == state \in {"running", "publishing", "published"}

\* One run of the concurrency group at a time.
RunStarts(j) ==
  /\ run[j].state = "pending"
  /\ \A k \in Jobs : ~InRun(run[k].state)
  /\ run' = [run EXCEPT ![j].state = "running"]
  /\ UNCHANGED <<localVars, inflight, ref, published, faults, reruns>>

\* request_job.py leaves a verified artifact, or a failed one or none.
ProofJobEnds(j) ==
  /\ run[j].state = "running"
  /\ \E artifact \in {"verified", "none"} :
       run' = [run EXCEPT ![j].state = "publishing", ![j].artifact = artifact]
  /\ UNCHANGED <<localVars, inflight, ref, published, faults, reruns>>

\* publish(): the first verified result stays; otherwise only a newer attempt
\* is appended.  An artifact that is missing or does not verify again is
\* published as a failure.
Publish(j) ==
  LET old == published[j]
      last == old[Len(old)]
      kept == old # <<>> /\ (last.status = "verified" \/ last.attempt >= run[j].attempt)
  IN /\ run[j].state = "publishing"
     /\ \E status \in {"failed", "verified"} :
          /\ status = "verified" => run[j].artifact = "verified"
          /\ published' = IF kept THEN published
               ELSE [published EXCEPT ![j] = Append(@, [status |-> status, attempt |-> run[j].attempt])]
     /\ run' = [run EXCEPT ![j].state = "published", ![j].artifact = "none"]
     /\ UNCHANGED <<localVars, inflight, ref, faults, reruns>>

RunCompletes(j) ==
  /\ run[j].state = "published"
  /\ run' = [run EXCEPT ![j].state = "completed"]
  /\ UNCHANGED <<localVars, inflight, ref, published, faults, reruns>>

\* A lost runner, a job timeout, a cancelled pending run, a failed publisher.
RunLost(j) ==
  /\ run[j].state \in {"pending", "running", "publishing"}
  /\ faults < MaxFaults
  /\ faults' = faults + 1
  /\ run' = [run EXCEPT ![j].state = "completed", ![j].artifact = "none"]
  /\ UNCHANGED <<localVars, inflight, ref, published, reruns>>

\* An operator reruns everything, or only the publisher: the artifact's name
\* holds the attempt, so a rerun publisher finds none.
Rerun(j) ==
  /\ run[j].state = "completed"
  /\ reruns < MaxReruns
  /\ reruns' = reruns + 1
  /\ \E state \in {"pending", "publishing"} :
       /\ state = "publishing" => \A k \in Jobs : ~InRun(run[k].state)
       /\ run' = [run EXCEPT ![j] = [state |-> state, attempt |-> @.attempt + 1, artifact |-> "none"]]
  /\ UNCHANGED <<localVars, inflight, ref, published, faults>>

--------------------------------------------------------------------------------
Latest(j) == Len(published[j])

ProviderStep(a) ==
  \/ SavePrepared(a) \/ Lock(a) \/ Claim(a) \/ Release(a) \/ Unlock(a) \/ SaveSlot(a)
  \/ LsRemote(a) \/ Push(a) \/ Pushed(a) \/ MarkSubmitted(a)
  \/ CheckRun(a) \/ SaveReleased(a) \/ Verify(a)

Provider(a) ==
  \/ ProviderStep(a)
  \/ LockRefused(a)
  \/ Interruption(a)
  \/ \E j \in Jobs : CommitTree(a, j) \/ Resume(a, j) \/ \E v \in 1..Latest(j) : Fetch(a, j, v)

RunStep(j) == RunStarts(j) \/ ProofJobEnds(j) \/ Publish(j) \/ RunCompletes(j)

GitHub ==
  \/ \E push \in inflight : Land(push)
  \/ \E j \in Jobs : RunStep(j) \/ RunLost(j) \/ Rerun(j)

RemoteNext == (\E a \in Apps : Provider(a)) \/ GitHub

\* A provider finishes what it began unless interrupted; its application retries
\* a prepared job and polls a submitted one, and the cache catches up; GitHub
\* delivers pushes and works its runs off.
RemoteFairness ==
  /\ \A a \in Apps : WF_remoteVars(ProviderStep(a)) /\ SF_remoteVars(Lock(a))
  /\ \A j \in Jobs : /\ WF_remoteVars(Resume(AppOf[j], j))
                     /\ SF_remoteVars(Latest(j) > 0 /\ Fetch(AppOf[j], j, Latest(j)))
                     /\ WF_remoteVars(RunStep(j))
  /\ WF_remoteVars(\E push \in inflight : Land(push))

RemoteSpec == RemoteInit /\ [][RemoteNext]_remoteVars /\ RemoteFairness

--------------------------------------------------------------------------------
Records == [status : {"none", "prepared", "submitted", "verified"}, commit : Nat, slot : Nat]
Results == [status : {"none", "failed", "verified"}, attempt : Nat]
Submitting == {"claim", "claiming", "claimed", "slot", "look", "push", "pushed", "mark"}
Collecting == {"run", "release", "releasing", "released", "free", "verify"}
Places == {"idle", "prepared", "thrown"} \union Submitting \union Collecting
Operations == [pc : Places, job : Jobs \union {NoJob}, rec : Records, res : Results]
Runs == [state : {"none", "pending", "running", "publishing", "published", "completed"},
         attempt : Nat, artifact : {"none", "verified"}]

RemoteTypeOK ==
  /\ record \in [Jobs -> Records]
  /\ activeSlot \in [job : Jobs \union {NoJob}, commit : Nat, token : Nat]
  /\ mutex \in Apps \union {"free"}
  /\ op \in [Apps -> Operations]
  /\ commits \in [Jobs -> Nat] /\ tokens \in Nat
  /\ inflight \subseteq [job : Jobs, commit : Nat]
  /\ ref \in [Jobs -> Nat]
  /\ run \in [Jobs -> Runs]
  /\ published \in [Jobs -> Seq(Results)]
  /\ faults \in Nat /\ reruns \in Nat

\* The first attempt of a job's run may still compute, or may still begin.
Computing(j) ==
  \/ run[j].attempt = 1 /\ ~RunOver(run[j])
  \/ ref[j] = 0 /\ \E push \in inflight : push.job = j

\* From the moment a push leaves until its run has completed, the shared slot
\* names that job: whatever is interrupted, released late or answered twice, no
\* second application submits beside it (github-provider.mjs 135-142, 160-175).
SlotCoversRun == \A j \in Jobs : Computing(j) => activeSlot.job = j

\* What GitHub holds of a job is the commit its saved record names, so a retry
\* recognises its own submission and no job ever has a second request commit
\* (github-provider.mjs 131-141: persist before network submission).
RetryFindsItsCommit ==
  /\ \A j \in Jobs : ref[j] # 0 => record[j].commit = ref[j]
  /\ \A push \in inflight : record[push.job].commit = push.commit

\* The slot on disk can always be given back: its job is still to be retried, or
\* its record holds the very token (github-provider.mjs 135, remote-slot.mjs 51-57).
SlotIsNotOrphaned ==
  activeSlot # NoSlot =>
    \/ record[activeSlot.job].status = "prepared" /\ record[activeSlot.job].commit = activeSlot.commit
    \/ record[activeSlot.job].slot = activeSlot.token

\* The slot and the computation it stands for never lose each other: nothing
\* computes without it, and nothing keeps it that could not give it back.
SlotIsSound == SlotCoversRun /\ SlotIsNotOrphaned

\* The attempt in which the run completed has published nothing: no evidence
\* will ever come unless the operator reruns it.
Silent(j) ==
  /\ RunOver(run[j])
  /\ \A v \in 1..Latest(j) : published[j][v].attempt # run[j].attempt

\* The slot is given back, unless a crash left the metadata lock behind or the
\* run ended without a result of its last attempt - the two cases the README
\* leaves to the operator (remote/README.md, "requires reconciliation").
SlotIsFreed ==
  \A j \in Jobs : (activeSlot.job = j) ~> (activeSlot.job # j \/ Abandoned \/ Silent(j))
================================================================================
