----------------------------- MODULE PublicWrites -----------------------------
(***************************************************************************)
(* How a signed transaction passes the public RPC gateway                  *)
(* (server/rpc-gateway.mjs, createRpcGateway) to the node: a bounded slot, *)
(* a live check that no public development key holds authority             *)
(* (server/public-write-readiness.mjs, createPublicReadinessVerifier),     *)
(* then the broadcast.  The API's public routes that report whether        *)
(* writes are open make the same check in slots of their own               *)
(* (server/public-surface.mjs, publicRouteWrapper).                        *)
(*                                                                         *)
(* The authority of a deployment is what the full audit reads in a block;  *)
(* it is kept with the block, as the set of deployments found ready there, *)
(* beside the set of those with an event that the verifier's log filters   *)
(* match.  A node that starts from an older snapshot replaces blocks by    *)
(* new ones with other hashes.  Every await of a read is one step; the     *)
(* code between two awaits is part of the step before.  The validation of  *)
(* envelopes and the rate limit are choices.                               *)
(***************************************************************************)
EXTENDS Integers, Sequences, FiniteSets

CONSTANTS
  MaxRequests,   \* bound: requests that arrive, numbered in their order
  Deployments,   \* contents of the deployment descriptor
  First,         \* the one on disk when the API starts
  Authorities,   \* sets of deployments that may be in order together
  Events,        \* sets of deployments that a block's events may be about
  MaxInflight,   \* RPC_LIMITS.inflight
  MaxActive,     \* publicRouteWrapper's maxInflight
  MaxBlocks,     \* bound: blocks ever mined
  MaxSwitches    \* bound: changes of the descriptor

ASSUME PublicWritesAssumption ==
  /\ Deployments \subseteq Nat \ {0} /\ First \in Deployments
  /\ Authorities \subseteq SUBSET Deployments /\ Events \subseteq SUBSET Deployments
  /\ MaxRequests \in Nat /\ MaxInflight \in Nat /\ MaxActive \in Nat
  /\ MaxBlocks \in Nat \ {0}
  /\ MaxSwitches \in Nat

Requests == 1..MaxRequests

VARIABLES
  chain,       \* the node's blocks: number, hash, authority and events
  mined,       \* the last hash used
  deployment,  \* the descriptor on disk
  switches,    \* times it has changed
  entry,       \* the verifier's entry for the provider
  task,        \* entry.task: its next read, and the block read last
  request,     \* the calls of dispatch and of the route handlers
  inflight,    \* the gateway's counter
  active,      \* the route wrapper's counter
  received     \* writes that reached the node

node == <<chain, mined>>
gateway == <<request, inflight, active, received>>
vars == <<node, deployment, switches, entry, task, gateway>>

Block == [number : 1..MaxBlocks, hash : 1..MaxBlocks, ready : Authorities,
          touched : SUBSET Deployments]
NoBlock == [number |-> 0, hash |-> 0, ready |-> {}, touched |-> {}]

Latest == chain[Len(chain)]
OnChain(block) == block.number \in DOMAIN chain /\ chain[block.number] = block

Idle == [step |-> "idle", block |-> NoBlock, seen |-> FALSE]

(* A request is an envelope at the gateway, a read or a write, or a call   *)
(* of a public route ("config").  reading is the deployment whose check it *)
(* still awaits, or 0; it outlives the answer.                             *)
New == [phase |-> "new", kind |-> "read", reading |-> 0, answer |-> "none"]

-----------------------------------------------------------------------------
(* The node *)

(* A deployment is found out of order only after an event: members, roles, *)
(* owners, bindings and beneficiaries change with one.  It may come into   *)
(* order without: a proposal from before the cutover that is defeated at   *)
(* the end of its voting period is no longer actionable, by the number of  *)
(* the block alone.  Many an event changes nothing that is audited.        *)
Mine(ready, touched) ==
  /\ mined < MaxBlocks
  /\ Latest.ready \ ready \subseteq touched
  /\ mined' = mined + 1
  /\ chain' = Append(chain, [number |-> Len(chain) + 1, hash |-> mined + 1, ready |-> ready,
                             touched |-> touched])
  /\ UNCHANGED <<deployment, switches, entry, task, gateway>>

(* A restart from a snapshot that is behind. *)
Rollback(length) ==
  /\ length \in 1..Len(chain) - 1
  /\ chain' = SubSeq(chain, 1, length)
  /\ UNCHANGED <<mined, deployment, switches, entry, task, gateway>>

Switch(to) ==
  /\ switches < MaxSwitches /\ to # deployment
  /\ switches' = switches + 1
  /\ deployment' = to
  /\ UNCHANGED <<node, entry, task, gateway>>

-----------------------------------------------------------------------------
(* The verifier.  A caller joins the task of its own deployment; it waits  *)
(* for the end of another's and then asks again.                           *)

EntryFor(identity) ==
  IF entry.identity = identity THEN entry
  ELSE [identity |-> identity, state |-> "none", checked |-> NoBlock]

StartTask(identity) ==
  /\ entry' = EntryFor(identity)
  /\ task' = [Idle EXCEPT !.step = "head"]

Ask(identity) ==
  IF task.step = "idle" THEN StartTask(identity) ELSE UNCHANGED <<entry, task>>

Handlers == {r \in Requests : request[r].kind = "config"}

(* An envelope that is let through keeps its slot; a timed-out request had *)
(* kept it until now.                                                      *)
Release(joined, verdict) ==
  /\ inflight' = inflight - Cardinality({r \in joined \ Handlers :
                                          request[r].phase = "asking" => ~verdict})
  /\ active' = active - Cardinality(joined \cap Handlers)

(* The task ends.  All who joined go on at once; with the verdict a write  *)
(* is broadcast, unless it has timed out.  A route's call is over, and the *)
(* page may make it again.  Of those who waited for another deployment,    *)
(* one starts the next task.                                               *)
Settle(newEntry, verdict) ==
  LET joined == {r \in Requests : request[r].reading = entry.identity}
      waiting == {r \in Requests : request[r].reading \notin {0, entry.identity}}
      Resumed(r) ==
        IF r \in Handlers THEN New
        ELSE IF request[r].phase # "asking" THEN [request[r] EXCEPT !.reading = 0]
        ELSE IF verdict THEN [request[r] EXCEPT !.reading = 0, !.phase = "sent"]
        ELSE [request[r] EXCEPT !.reading = 0, !.phase = "answered", !.answer = "refused"]
  IN /\ Release(joined, verdict)
     /\ request' = [r \in Requests |-> IF r \in joined THEN Resumed(r) ELSE request[r]]
     /\ IF waiting = {} THEN entry' = newEntry /\ task' = Idle
        ELSE \E r \in waiting : StartTask(request[r].reading)
     /\ UNCHANGED <<node, deployment, switches, received>>

Step(step, block) ==
  /\ task' = [task EXCEPT !.step = step, !.block = block]
  /\ UNCHANGED <<node, deployment, switches, entry, gateway>>

(* No authority event since the checked block: its state is taken for that *)
(* of block.                                                               *)
Validated(block) ==
  Settle([entry EXCEPT !.checked = block], entry.state = "ready")

(* Mutant: an audit younger than the time to live is good enough. *)
ReadHead_Blind ==
  /\ task.step = "head"
  /\ IF entry.state = "none" THEN Step("audit", Latest)
     ELSE \/ Step("audit", Latest)
          \/ Validated(Latest)

(* The time to live may have passed. *)
ReadHead ==
  /\ task.step = "head"
  /\ \/ Step("audit", Latest)
     \/ /\ entry.state # "none" /\ Latest.number >= entry.checked.number
        /\ Step("previous", Latest)

ReadPrevious ==
  /\ task.step = "previous"
  /\ IF ~OnChain(entry.checked) THEN Step("audit", task.block)
     ELSE IF task.block.number > entry.checked.number THEN Step("logs", task.block)
     ELSE Validated(task.block)

EventsUpTo(number) ==
  \E i \in (entry.checked.number + 1)..number :
    i \in DOMAIN chain /\ entry.identity \in chain[i].touched

ReadLogs ==
  /\ task.step = "logs"
  /\ IF EventsUpTo(task.block.number) THEN Step("audit", task.block)
     ELSE Validated(task.block)

(* readPublicPilotControlState takes the latest block, reads by its number *)
(* and compares its hash at the end.                                       *)
AuditHead ==
  /\ task.step = "audit"
  /\ Step("state", Latest)

(* The audit that succeeded last may have been of this very block; it is   *)
(* left open whether it was.                                               *)
AuditCached ==
  LET ready == entry.identity \in Latest.ready
  IN /\ task.step = "audit"
     /\ Settle([entry EXCEPT !.state = IF ready THEN "ready" ELSE "closed",
                             !.checked = Latest], ready)

AuditState ==
  /\ task.step = "state"
  /\ task.block.number \in DOMAIN chain
  /\ task' = [task EXCEPT !.step = "tail",
                          !.seen = entry.identity \in chain[task.block.number].ready]
  /\ UNCHANGED <<node, deployment, switches, entry, gateway>>

AuditTail ==
  /\ task.step = "tail"
  /\ OnChain(task.block)
  /\ Settle([entry EXCEPT !.state = IF task.seen THEN "ready" ELSE "closed",
                          !.checked = task.block], task.seen)

(* A read that fails, or an audited block that is gone; the next task      *)
(* audits anew and does not look at the block checked before.              *)
ReadFails ==
  /\ task.step # "idle"
  /\ Settle([entry EXCEPT !.state = "none", !.checked = NoBlock], FALSE)

-----------------------------------------------------------------------------
(* The gateway *)

Arrives(r) ==
  request[r].phase = "new" /\ \A earlier \in 1..r-1 : request[earlier].phase # "new"

(* 400 or 429: an envelope that is not valid, the rate limit, or no slot.  *)
TurnAway(r) ==
  /\ Arrives(r)
  /\ request' = [request EXCEPT ![r].phase = "answered", ![r].answer = "rejected"]
  /\ UNCHANGED <<node, deployment, switches, entry, task, inflight, active, received>>

AdmitRead(r) ==
  /\ Arrives(r)
  /\ inflight < MaxInflight
  /\ inflight' = inflight + 1
  /\ request' = [request EXCEPT ![r].phase = "sent"]
  /\ UNCHANGED <<node, deployment, switches, entry, task, active, received>>

Asking(kind) == [New EXCEPT !.phase = "asking", !.kind = kind, !.reading = deployment]

AdmitWrite(r) ==
  /\ Arrives(r)
  /\ inflight < MaxInflight
  /\ inflight' = inflight + 1
  /\ request' = [request EXCEPT ![r] = Asking("write")]
  /\ Ask(deployment)
  /\ UNCHANGED <<node, deployment, switches, active, received>>

(* GET /api/config and /api/snapshot ask the verifier too. *)
AdmitConfig(r) ==
  /\ Arrives(r)
  /\ active < MaxActive
  /\ active' = active + 1
  /\ request' = [request EXCEPT ![r] = Asking("config")]
  /\ Ask(deployment)
  /\ UNCHANGED <<node, deployment, switches, inflight, received>>

(* The transaction may reach the node after the gateway has given up. *)
Deliver(r) ==
  /\ request[r].kind = "write"
  /\ request[r].phase = "sent" \/ request[r].answer = "unknown"
  /\ received' = received \cup {r}
  /\ UNCHANGED <<node, deployment, switches, entry, task, request, inflight, active>>

Reply(r) ==
  /\ request[r].phase = "sent"
  /\ request[r].kind = "write" => r \in received
  /\ request' = [request EXCEPT ![r].phase = "answered", ![r].answer = "ok"]
  /\ inflight' = inflight - 1
  /\ UNCHANGED <<node, deployment, switches, entry, task, active, received>>

(* Mutant: an error is an error. *)
ErrorAnswer_Plain(r) == "failed"

ErrorAnswer(r) ==
  IF request[r].kind = "write" /\ request[r].phase = "sent" THEN "unknown" ELSE "failed"

(* The connection breaks, or the response is refused. *)
UpstreamFails(r) ==
  /\ request[r].phase = "sent"
  /\ request' = [request EXCEPT ![r].phase = "answered", ![r].answer = ErrorAnswer(r)]
  /\ inflight' = inflight - 1
  /\ UNCHANGED <<node, deployment, switches, entry, task, active, received>>

(* Mutant: the slot is free once the client has its answer. *)
Deadline_FreesSlot(r) ==
  /\ request[r].phase \in {"asking", "sent"}
  /\ request' = [request EXCEPT ![r].phase = "answered", ![r].answer = ErrorAnswer(r)]
  /\ inflight' = inflight - 1
  /\ UNCHANGED <<node, deployment, switches, entry, task, active, received>>

(* Mutant: the deadline is for the check only. *)
Deadline_AskingOnly(r) ==
  /\ request[r].phase = "asking"
  /\ request' = [request EXCEPT ![r].phase = "answered", ![r].answer = ErrorAnswer(r)]
  /\ UNCHANGED <<node, deployment, switches, entry, task, inflight, active, received>>

(* The client has its answer, a 504 of the route wrapper or an error of    *)
(* the gateway.  The slot of a check that is still being read is kept.     *)
Deadline(r) ==
  /\ request[r].phase \in {"asking", "sent"}
  /\ request' = [request EXCEPT ![r].phase = "answered", ![r].answer = ErrorAnswer(r)]
  /\ inflight' = IF request[r].reading = 0 THEN inflight - 1 ELSE inflight
  /\ UNCHANGED <<node, deployment, switches, entry, task, active, received>>

-----------------------------------------------------------------------------
Init ==
  /\ \E ready \in Authorities :
       chain = <<[number |-> 1, hash |-> 1, ready |-> ready, touched |-> {}]>>
  /\ mined = 1
  /\ deployment = First
  /\ switches = 0
  /\ entry = [identity |-> 0, state |-> "none", checked |-> NoBlock]
  /\ task = Idle
  /\ request = [r \in Requests |-> New]
  /\ inflight = 0 /\ active = 0
  /\ received = {}

Verify ==
  \/ ReadHead \/ ReadPrevious \/ ReadLogs
  \/ AuditHead \/ AuditCached \/ AuditState \/ AuditTail
  \/ ReadFails

Next ==
  \/ \E ready \in Authorities, touched \in Events : Mine(ready, touched)
  \/ \E length \in 1..MaxBlocks : Rollback(length)
  \/ \E to \in Deployments : Switch(to)
  \/ Verify
  \/ \E r \in Requests : TurnAway(r) \/ AdmitRead(r) \/ AdmitWrite(r) \/ AdmitConfig(r)
  \/ \E r \in Requests : Deliver(r) \/ Reply(r) \/ UpstreamFails(r) \/ Deadline(r)

Spec == Init /\ [][Next]_vars

(* Timers fire; a read of the provider ends, with its own timeout. *)
Fairness ==
  /\ \A r \in Requests : WF_vars(Deadline(r))
  /\ WF_vars(Verify)

FairSpec == Spec /\ Fairness

-----------------------------------------------------------------------------
(* Properties *)

Working(r) == request[r].phase \in {"asking", "sent"} \/ request[r].reading # 0

(* The records keep their fields, and a request waits for a verdict only   *)
(* while the verifier is at work.                                          *)
TypeOK ==
  /\ \A i \in DOMAIN chain : chain[i] \in Block /\ chain[i].number = i
  /\ mined \in 1..MaxBlocks /\ deployment \in Deployments /\ switches \in 0..MaxSwitches
  /\ entry \in [identity : Deployments \cup {0}, state : {"none", "ready", "closed"},
                checked : Block \cup {NoBlock}]
  /\ task.step \in {"idle", "head", "previous", "logs", "audit", "state", "tail"}
  /\ request \in [Requests -> [phase : {"new", "asking", "sent", "answered"},
                               kind : {"read", "write", "config"}, reading : Deployments \cup {0},
                               answer : {"none", "ok", "rejected", "refused", "failed", "unknown"}]]
  /\ \A r \in Requests : request[r].reading # 0 => task.step # "idle"
  /\ inflight \in Nat /\ active \in Nat
  /\ received \subseteq Requests

(* No slot is lost and none is given back twice: the counter of the        *)
(* gateway, and that of the route wrapper, is the number of its requests   *)
(* with work under way, within its limit.  Reads that cannot be aborted    *)
(* count until they end, so timed-out requests do not pile up work behind  *)
(* the limits.                                                             *)
AdmissionIsBounded ==
  /\ inflight = Cardinality({r \in Requests \ Handlers : Working(r)}) /\ inflight <= MaxInflight
  /\ active = Cardinality({r \in Handlers : Working(r)}) /\ active <= MaxActive

(* A cached verdict that allows is what a full audit of the block checked  *)
(* last would find, as long as the chain has that block; after a rollback  *)
(* the next request audits anew.  One that refuses may be out of date, but *)
(* only where nothing could tell: an audit of some block up to there would *)
(* refuse, and no event has followed.                                      *)
CacheIsRight ==
  OnChain(entry.checked) =>
    /\ entry.state = "ready" => entry.identity \in entry.checked.ready
    /\ entry.state = "closed" =>
         \E audited \in 1..entry.checked.number :
           /\ entry.identity \notin chain[audited].ready
           /\ \A i \in (audited + 1)..entry.checked.number :
                entry.identity \notin chain[i].touched

(* A write is broadcast only on a verdict on its own deployment, at a      *)
(* block at which the authority is in order and that is no older than the  *)
(* head when the check began: a change of authority shuts out the checks   *)
(* that begin after it, and what was cached allows nothing that an audit   *)
(* of that block would refuse, after any step.                             *)
WritesNeedAuthority ==
  [][/\ CacheIsRight'
     /\ \A r \in Requests :
          request[r].phase = "asking" /\ request'[r].phase = "sent" =>
            \E block \in IF task'.step = "idle" THEN {entry'.checked} ELSE {task.block, Latest} :
              /\ OnChain(block) => request[r].reading \in block.ready
              /\ OnChain(task.block) => block.number >= task.block.number]_vars

(* A client that is told of a plain failure may send again: its            *)
(* transaction has not reached the node and never will.  Whenever it       *)
(* might have, the answer says that the outcome is unknown.                *)
RetryIsSafe ==
  \A r \in received : request[r].answer \notin {"rejected", "refused", "failed"}

(* Every admitted request is answered and gives its slot back, also when   *)
(* the node never answers and when the check outlives the answer.          *)
EveryRequestEnds ==
  \A r \in Requests : []<>~Working(r)
=============================================================================
