----------------------------- MODULE PublicAccessProofs -----------------------------
(***************************************************************************)
(* The public ends of the service: the gateway that admits reads and       *)
(* writes (PublicWrites), and the page a visitor uses (WebClient).         *)
(***************************************************************************)
EXTENDS PublicWrites, WebClient, Sums, TLAPS

-----------------------------------------------------------------------------
(***************************************************************************)
(* The gateway's slots and answers, for every number of requests, slots,   *)
(* deployments and blocks.                                                 *)
(***************************************************************************)

Record == [phase : {"new", "asking", "sent", "answered"},
           kind : {"read", "write", "config"}, reading : Deployments \cup {0},
           answer : {"none", "ok", "rejected", "refused", "failed", "unknown"}]

(* The records keep their fields. *)
RequestsOK == request \in [Requests -> Record]

TaskOK ==
  /\ task = [step |-> task.step, block |-> task.block, seen |-> task.seen]
  /\ task.seen \in BOOLEAN
  /\ entry = [identity |-> entry.identity, state |-> entry.state, checked |-> entry.checked]
  /\ task.step # "idle" => entry.identity \in Deployments
  /\ deployment \in Deployments

(* What a request's phase says about its reads and its answer. *)
PhaseOK(r) ==
  /\ request[r].phase \in {"new", "sent"} => request[r].reading = 0
  /\ request[r].phase = "asking" => request[r].reading # 0 /\ request[r].kind # "read"
  /\ request[r].kind = "config" =>
       request[r].reading # 0 /\ request[r].phase \in {"asking", "answered"}
  /\ request[r].phase # "answered" => request[r].answer = "none"
  /\ request[r].phase = "new" => request[r].kind = "read"

(* A transaction at the node was broadcast, and its answer, if there is    *)
(* one, does not deny it.                                                  *)
ReceivedOK(r) ==
  r \in received =>
    /\ request[r].kind = "write"
    /\ \/ request[r].phase = "sent"
       \/ request[r].phase = "answered" /\ request[r].answer \in {"ok", "unknown"}

RequestInv == \A r \in Requests : PhaseOK(r) /\ ReceivedOK(r)

WorkingSet == {r \in Requests \ Handlers : Working(r)}

SlotsOK ==
  /\ inflight = Cardinality(WorkingSet) /\ inflight <= MaxInflight
  /\ active = Cardinality(Handlers) /\ active <= MaxActive

Inv == RequestsOK /\ TaskOK /\ received \subseteq Requests /\ RequestInv /\ SlotsOK

LEMMA RequestsFinite == IsFiniteSet(Requests)
BY PublicWritesAssumption, FS_Interval DEF Requests, PublicWritesAssumption

LEMMA WorkingFinite ==
  /\ IsFiniteSet(WorkingSet) /\ WorkingSet \subseteq Requests
  /\ IsFiniteSet(Handlers) /\ Handlers \subseteq Requests
<1>1. WorkingSet \subseteq Requests /\ Handlers \subseteq Requests
  BY DEF WorkingSet, Handlers
<1> QED
  BY <1>1, RequestsFinite, FS_Subset

-----------------------------------------------------------------------------
(* The counters follow the sets of requests at work. *)

LEMMA CountTaken ==
  ASSUME NEW S, IsFiniteSet(S), NEW r, r \notin S, NEW limit \in Nat, Cardinality(S) < limit
  PROVE  Cardinality(S \cup {r}) = Cardinality(S) + 1 /\ Cardinality(S) + 1 <= limit
<1>1. Cardinality(S \cup {r}) = Cardinality(S) + 1
  BY FS_AddElement
<1>2. Cardinality(S) \in Nat
  BY FS_CardinalityType
<1> QED
  BY <1>1, <1>2

LEMMA CountReturned ==
  ASSUME NEW S, IsFiniteSet(S), NEW R, R \subseteq S, NEW limit \in Nat, Cardinality(S) <= limit
  PROVE  Cardinality(S \ R) = Cardinality(S) - Cardinality(R)
         /\ Cardinality(S) - Cardinality(R) <= limit
<1>1. IsFiniteSet(R)
  BY FS_Subset
<1>2. Cardinality(S \ R) = Cardinality(S) - Cardinality(S \cap R)
  BY <1>1, FS_Difference
<1>3. S \cap R = R
  OBVIOUS
<1>4. Cardinality(S) \in Nat /\ Cardinality(R) \in Nat
  BY <1>1, FS_CardinalityType
<1> QED
  BY <1>2, <1>3, <1>4

LEMMA Limits == MaxInflight \in Nat /\ MaxActive \in Nat
BY PublicWritesAssumption DEF PublicWritesAssumption

LEMMA SlotTaken ==
  ASSUME SlotsOK, NEW r \in Requests, r \notin WorkingSet, inflight < MaxInflight,
         inflight' = inflight + 1, WorkingSet' = WorkingSet \cup {r},
         UNCHANGED active, Handlers' = Handlers
  PROVE  SlotsOK'
BY WorkingFinite, CountTaken, Limits DEF SlotsOK

LEMMA CallTaken ==
  ASSUME SlotsOK, NEW r \in Requests, r \notin Handlers, active < MaxActive,
         active' = active + 1, Handlers' = Handlers \cup {r},
         UNCHANGED inflight, WorkingSet' = WorkingSet
  PROVE  SlotsOK'
BY WorkingFinite, CountTaken, Limits DEF SlotsOK

LEMMA SlotsReturned ==
  ASSUME SlotsOK, NEW released, released \subseteq WorkingSet,
         NEW ended, ended \subseteq Handlers,
         inflight' = inflight - Cardinality(released), WorkingSet' = WorkingSet \ released,
         active' = active - Cardinality(ended), Handlers' = Handlers \ ended
  PROVE  SlotsOK'
<1>1. inflight' = Cardinality(WorkingSet') /\ inflight' <= MaxInflight
  BY WorkingFinite, CountReturned, Limits DEF SlotsOK
<1>2. active' = Cardinality(Handlers') /\ active' <= MaxActive
  BY WorkingFinite, CountReturned, Limits DEF SlotsOK
<1> QED
  BY <1>1, <1>2 DEF SlotsOK

LEMMA SlotReturned ==
  ASSUME SlotsOK, NEW r \in WorkingSet,
         inflight' = inflight - 1, WorkingSet' = WorkingSet \ {r},
         UNCHANGED active, Handlers' = Handlers
  PROVE  SlotsOK'
<1>1. Cardinality({r}) = 1
  BY FS_Singleton
<1> QED
  BY <1>1, WorkingFinite, CountReturned, Limits DEF SlotsOK

LEMMA SlotsSame ==
  ASSUME SlotsOK, UNCHANGED <<inflight, active>>, WorkingSet' = WorkingSet, Handlers' = Handlers
  PROVE  SlotsOK'
BY DEF SlotsOK

-----------------------------------------------------------------------------
(* The verifier *)

LEMMA EntryUpdate ==
  ASSUME NEW e, NEW s, NEW c, e = [identity |-> e.identity, state |-> e.state, checked |-> e.checked]
  PROVE  [e EXCEPT !.state = s, !.checked = c] = [identity |-> e.identity, state |-> s, checked |-> c]
<1> DEFINE new == [e EXCEPT !.state = s, !.checked = c]
<1>1. new = [f \in {"identity", "state", "checked"} |-> new[f]]
  OBVIOUS
<1>2. new["identity"] = e.identity /\ new["state"] = s /\ new["checked"] = c
  OBVIOUS
<1> HIDE DEF new
<1> QED
  BY <1>1, <1>2

LEMMA EntryForOther ==
  ASSUME TaskOK, NEW identity \in Deployments
  PROVE  /\ EntryFor(identity) = [identity |-> identity, state |-> EntryFor(identity).state,
                                  checked |-> EntryFor(identity).checked]
         /\ EntryFor(identity).identity = identity
BY DEF TaskOK, EntryFor

LEMMA StartTaskOK ==
  ASSUME TaskOK, NEW identity \in Deployments, StartTask(identity), deployment' \in Deployments
  PROVE  TaskOK'
<1>1. entry' = EntryFor(identity) /\ task' = [Idle EXCEPT !.step = "head"]
  BY DEF StartTask
<1>2. /\ entry' = [identity |-> entry'.identity, state |-> entry'.state, checked |-> entry'.checked]
      /\ entry'.identity \in Deployments
  BY <1>1, EntryForOther
<1>3. task' = [step |-> "head", block |-> NoBlock, seen |-> FALSE]
  BY <1>1 DEF Idle
<1> QED
  BY <1>2, <1>3 DEF TaskOK

(* Those who joined are the callers under the entry's deployment. *)
LEMMA SettleInv ==
  ASSUME Inv, task.step # "idle", NEW newEntry, NEW verdict \in BOOLEAN,
         newEntry = [identity |-> newEntry.identity, state |-> newEntry.state,
                     checked |-> newEntry.checked],
         Settle(newEntry, verdict)
  PROVE  Inv'
<1> DEFINE joined == {r \in Requests : request[r].reading = entry.identity}
           released == {r \in joined \ Handlers : request[r].phase = "asking" => ~verdict}
           ended == joined \cap Handlers
           Resumed(r) ==
             IF r \in Handlers THEN New
             ELSE IF request[r].phase # "asking" THEN [request[r] EXCEPT !.reading = 0]
             ELSE IF verdict THEN [request[r] EXCEPT !.reading = 0, !.phase = "sent"]
             ELSE [request[r] EXCEPT !.reading = 0, !.phase = "answered", !.answer = "refused"]
<1>1. /\ inflight' = inflight - Cardinality(released)
      /\ active' = active - Cardinality(ended)
      /\ request' = [r \in Requests |-> IF r \in joined THEN Resumed(r) ELSE request[r]]
      /\ UNCHANGED <<received, deployment>>
  BY DEF Settle, Release
<1>2. entry.identity \in Deployments /\ 0 \notin Deployments
  BY PublicWritesAssumption DEF Inv, TaskOK, PublicWritesAssumption
<1>3. \A r \in joined :
        /\ request[r].reading # 0
        /\ request[r].phase \in {"asking", "answered"}
  BY SMTT(30), <1>2 DEF Inv, RequestsOK, Record, RequestInv, PhaseOK
<1>4. \A r \in Requests \ joined : request'[r] = request[r]
  BY <1>1
<1>5. ASSUME NEW r \in joined, r \notin Handlers
      PROVE  /\ request'[r] \in Record
             /\ request'[r].reading = 0
             /\ request'[r].kind = request[r].kind
             /\ request[r].phase # "asking" =>
                  request'[r].phase = request[r].phase /\ request'[r].answer = request[r].answer
             /\ request[r].phase = "asking" /\ verdict =>
                  request'[r].phase = "sent" /\ request'[r].answer = request[r].answer
             /\ request[r].phase = "asking" /\ ~verdict =>
                  request'[r].phase = "answered"
  <2>1. request'[r] = Resumed(r) /\ r \notin Handlers
    BY <1>1, <1>5
  <2>2. request[r] \in Record
    BY <1>5 DEF Inv, RequestsOK, Record
  <2>3. CASE request[r].phase # "asking"
    BY <2>1, <2>2, <2>3 DEF Record
  <2>4. CASE request[r].phase = "asking" /\ verdict
    BY <2>1, <2>2, <2>4 DEF Record
  <2>5. CASE request[r].phase = "asking" /\ ~verdict
    BY <2>1, <2>2, <2>5 DEF Record
  <2> QED
    BY SMTT(30), <2>3, <2>4, <2>5
<1>6. \A r \in ended : request'[r] = New
  BY <1>1
<1>7. New \in Record /\ New.phase = "new" /\ New.reading = 0 /\ New.kind = "read" /\ New.answer = "none"
  BY DEF New, Record
<1>8. RequestsOK'
  <2>1. \A r \in Requests :
          request'[r] \in Record
    BY SMTT(30), <1>4, <1>5, <1>6, <1>7 DEF Inv, RequestsOK, Record
  <2>2. request' = [r \in Requests |-> request'[r]]
    BY <1>1
  <2> QED
    BY <2>1, <2>2 DEF RequestsOK, Record
<1> HIDE DEF Resumed
<1>9. RequestInv'
  <2>1. ASSUME NEW r \in Requests \ joined
        PROVE  PhaseOK(r)' /\ ReceivedOK(r)'
    BY <1>1, <1>4, <2>1 DEF Inv, RequestInv, PhaseOK, ReceivedOK
  <2>2. ASSUME NEW r \in joined, r \notin Handlers
        PROVE  PhaseOK(r)' /\ ReceivedOK(r)'
    <3>1. PhaseOK(r) /\ ReceivedOK(r) /\ request[r].kind # "config"
      BY <2>2 DEF Inv, RequestInv, Handlers
    <3> QED
      BY <1>1, <1>3, <1>5, <2>2, <3>1 DEF PhaseOK, ReceivedOK
  <2>3. ASSUME NEW r \in ended
        PROVE  PhaseOK(r)' /\ ReceivedOK(r)'
    <3>1. r \notin received
      BY <2>3 DEF Inv, RequestInv, ReceivedOK, Handlers
    <3> QED
      BY <1>1, <1>6, <1>7, <2>3, <3>1 DEF PhaseOK, ReceivedOK
  <2> QED
    BY <2>1, <2>2, <2>3 DEF RequestInv
<1>10. Handlers' = Handlers \ ended
  BY <1>4, <1>5, <1>6, <1>7 DEF Handlers
<1>11. WorkingSet' = WorkingSet \ released /\ released \subseteq WorkingSet
  <2>1. \A r \in Requests \ joined : Working(r)' <=> Working(r)
    BY <1>4 DEF Working
  <2>2. \A r \in joined : r \notin Handlers => Working(r) /\ (Working(r)' <=> r \notin released)
    BY <1>3, <1>5 DEF Working
  <2>3. \A r \in ended : ~Working(r)'
    BY <1>6, <1>7 DEF Working
  <2> QED
    BY <1>10, <2>1, <2>2, <2>3 DEF WorkingSet
<1>12. SlotsOK'
  BY SMTT(30), <1>1, <1>10, <1>11, SlotsReturned DEF Inv
<1>13. TaskOK'
  <2>1. CASE entry' = newEntry /\ task' = Idle
    BY <1>1, <2>1 DEF Inv, TaskOK, Idle
  <2>2. CASE \E r \in Requests : /\ request[r].reading \notin {0, entry.identity}
                                 /\ StartTask(request[r].reading)
    <3>1. PICK r \in Requests : request[r].reading \notin {0, entry.identity}
                                /\ StartTask(request[r].reading)
      BY <2>2
    <3>2. request[r].reading \in Deployments
      BY <3>1 DEF Inv, RequestsOK, Record
    <3> QED
      BY <1>1, <3>1, <3>2, StartTaskOK DEF Inv, TaskOK
  <2> QED
    BY <2>1, <2>2 DEF Settle
<1> QED
  BY <1>1, <1>8, <1>9, <1>12, <1>13 DEF Inv

(* Steps that leave the gateway alone. *)
LEMMA GatewaySame ==
  ASSUME Inv, UNCHANGED gateway, TaskOK'
  PROVE  Inv'
<1>1. UNCHANGED <<request, inflight, active, received>>
  BY DEF gateway
<1>2. RequestInv'
  BY <1>1 DEF Inv, RequestInv, PhaseOK, ReceivedOK
<1>3. WorkingSet' = WorkingSet /\ Handlers' = Handlers
  BY <1>1 DEF WorkingSet, Handlers, Working
<1> QED
  BY <1>1, <1>2, <1>3, SlotsSame DEF Inv, RequestsOK, Record

LEMMA StepOK ==
  ASSUME Inv, task.step # "idle", NEW step, NEW block, Step(step, block)
  PROVE  Inv'
<1>1. /\ task' = [task EXCEPT !.step = step, !.block = block]
      /\ UNCHANGED <<gateway, entry, deployment>>
  BY DEF Step
<1>2. task' = [step |-> step, block |-> block, seen |-> task.seen]
  BY <1>1 DEF Inv, TaskOK
<1>3. TaskOK'
  BY <1>1, <1>2 DEF Inv, TaskOK
<1> QED
  BY <1>1, <1>3, GatewaySame

LEMMA VerifyInv ==
  ASSUME Inv, Verify
  PROVE  Inv'
<1>1. task.seen \in BOOLEAN
      /\ entry = [identity |-> entry.identity, state |-> entry.state, checked |-> entry.checked]
  BY DEF Inv, TaskOK
<1>2. \A state, checked :
        [entry EXCEPT !.state = state, !.checked = checked]
          = [identity |-> entry.identity, state |-> state, checked |-> checked]
  BY <1>1, EntryUpdate
<1>3. ASSUME NEW block, task.step # "idle", Validated(block)
      PROVE  Inv'
  <2>1. [entry EXCEPT !.checked = block]
          = [identity |-> entry.identity, state |-> entry.state, checked |-> block]
    BY <1>1
  <2>2. Settle([identity |-> entry.identity, state |-> entry.state, checked |-> block],
               entry.state = "ready")
    BY <1>3, <2>1 DEF Validated
  <2> QED
    BY <1>3, <2>2, SettleInv
<1>4. ASSUME ReadHead
      PROVE  Inv'
  BY <1>4, StepOK DEF ReadHead
<1>5. ASSUME ReadPrevious
      PROVE  Inv'
  BY <1>3, <1>5, StepOK DEF ReadPrevious
<1>6. ASSUME ReadLogs
      PROVE  Inv'
  BY <1>3, <1>6, StepOK DEF ReadLogs
<1>7. ASSUME AuditHead
      PROVE  Inv'
  BY <1>7, StepOK DEF AuditHead
<1>8. ASSUME AuditCached
      PROVE  Inv'
  <2> DEFINE ready == entry.identity \in Latest.ready
             state == IF ready THEN "ready" ELSE "closed"
  <2>1. Settle([entry EXCEPT !.state = state, !.checked = Latest], ready) /\ task.step # "idle"
    BY <1>8 DEF AuditCached
  <2>2. [entry EXCEPT !.state = state, !.checked = Latest]
          = [identity |-> entry.identity, state |-> state, checked |-> Latest]
    BY <1>2
  <2>3. ready \in BOOLEAN
    OBVIOUS
  <2> HIDE DEF ready, state
  <2> QED
    BY <2>1, <2>2, <2>3, SettleInv
<1>9. ASSUME AuditState
      PROVE  Inv'
  <2> DEFINE seen == entry.identity \in chain[task.block.number].ready
  <2>1. /\ task.step # "idle"
        /\ task' = [task EXCEPT !.step = "tail", !.seen = seen]
        /\ UNCHANGED <<gateway, entry, deployment>>
    BY <1>9 DEF AuditState
  <2>2. seen \in BOOLEAN
    OBVIOUS
  <2> HIDE DEF seen
  <2>3. task' = [step |-> "tail", block |-> task.block, seen |-> seen]
    BY <2>1 DEF Inv, TaskOK
  <2>4. TaskOK'
    BY <2>1, <2>2, <2>3 DEF Inv, TaskOK
  <2> QED
    BY <2>1, <2>4, GatewaySame
<1>10. ASSUME AuditTail
       PROVE  Inv'
  <2> DEFINE state == IF task.seen THEN "ready" ELSE "closed"
  <2>1. Settle([entry EXCEPT !.state = state, !.checked = task.block], task.seen)
        /\ task.step # "idle"
    BY <1>10 DEF AuditTail
  <2>2. [entry EXCEPT !.state = state, !.checked = task.block]
          = [identity |-> entry.identity, state |-> state, checked |-> task.block]
    BY <1>2
  <2> HIDE DEF state
  <2> QED
    BY <1>1, <2>1, <2>2, SettleInv
<1>11. ASSUME ReadFails
       PROVE  Inv'
  <2>1. Settle([entry EXCEPT !.state = "none", !.checked = NoBlock], FALSE) /\ task.step # "idle"
    BY <1>11 DEF ReadFails
  <2>2. [entry EXCEPT !.state = "none", !.checked = NoBlock]
          = [identity |-> entry.identity, state |-> "none", checked |-> NoBlock]
    BY <1>2
  <2> QED
    BY <2>1, <2>2, SettleInv
<1> QED
  BY <1>4, <1>5, <1>6, <1>7, <1>8, <1>9, <1>10, <1>11 DEF Verify

-----------------------------------------------------------------------------
(* The gateway *)

(* One request changes; the others and what they hold stay. *)
LEMMA OthersSame ==
  ASSUME Inv, NEW r \in Requests, request' \in [Requests -> Record],
         \A q \in Requests : q # r => request'[q] = request[q],
         received' \subseteq received \cup {r}, received \subseteq received',
         PhaseOK(r)', ReceivedOK(r)', TaskOK', SlotsOK'
  PROVE  Inv'
<1>1. ASSUME NEW q \in Requests, q # r
      PROVE  PhaseOK(q)' /\ ReceivedOK(q)'
  BY <1>1 DEF Inv, RequestInv, PhaseOK, ReceivedOK
<1>2. RequestInv'
  BY <1>1 DEF RequestInv
<1> QED
  BY <1>2 DEF Inv, RequestsOK, Record

LEMMA ArriveInv ==
  ASSUME Inv, NEW r \in Requests, AdmitRead(r) \/ AdmitWrite(r) \/ AdmitConfig(r) \/ TurnAway(r)
  PROVE  Inv'
<1> DEFINE read == [request[r] EXCEPT !.phase = "sent"]
           turned == [request[r] EXCEPT !.phase = "answered", !.answer = "rejected"]
<1>1. /\ request \in [Requests -> Record] /\ request[r].phase = "new" /\ request[r].reading = 0
      /\ request[r].answer = "none" /\ request[r].kind = "read" /\ r \notin received
  BY DEF Inv, RequestsOK, Record, RequestInv, PhaseOK, ReceivedOK, AdmitRead, AdmitWrite, AdmitConfig, TurnAway, Arrives
<1>2. deployment \in Deployments /\ deployment # 0
  BY PublicWritesAssumption DEF Inv, TaskOK, PublicWritesAssumption
<1>3. r \notin WorkingSet /\ r \notin Handlers
  BY <1>1 DEF WorkingSet, Handlers, Working
<1>4. UNCHANGED <<received, deployment>>
  BY DEF AdmitRead, AdmitWrite, AdmitConfig, TurnAway
<1>5. CASE AdmitRead(r)
  <2>1. request' = [request EXCEPT ![r] = read]
    BY <1>5 DEF AdmitRead
  <2>2. /\ read \in Record /\ read.phase = "sent" /\ read.reading = 0 /\ read.answer = "none"
        /\ read.kind = "read"
    BY <1>1 DEF Record
  <2> HIDE DEF read
  <2>3. /\ request' \in [Requests -> Record] /\ request'[r] = read
        /\ \A q \in Requests : q # r => request'[q] = request[q]
    BY <1>1, <2>1, <2>2
  <2>4. WorkingSet' = WorkingSet \cup {r} /\ Handlers' = Handlers
    BY <1>3, <2>2, <2>3 DEF WorkingSet, Handlers, Working
  <2>5. SlotsOK'
    BY <1>3, <1>5, <2>4, SlotTaken DEF Inv, AdmitRead
  <2>6. PhaseOK(r)' /\ ReceivedOK(r)'
    BY <1>1, <1>4, <2>2, <2>3 DEF PhaseOK, ReceivedOK
  <2>7. TaskOK'
    BY <1>5 DEF Inv, TaskOK, AdmitRead
  <2> QED
    BY <1>4, <2>3, <2>5, <2>6, <2>7, OthersSame
<1>6. CASE AdmitWrite(r) \/ AdmitConfig(r)
  <2>1. PICK kind \in {"write", "config"} :
          /\ request' = [request EXCEPT ![r] = Asking(kind)] /\ Ask(deployment)
          /\ kind = "write" => AdmitWrite(r)
          /\ kind = "config" => AdmitConfig(r)
    BY <1>6 DEF AdmitWrite, AdmitConfig
  <2> DEFINE asked == Asking(kind)
  <2>2. /\ asked \in Record /\ asked.phase = "asking" /\ asked.reading = deployment
        /\ asked.answer = "none" /\ asked.kind = kind
    BY <1>2 DEF Record, New, Asking
  <2> HIDE DEF asked
  <2>3. /\ request' \in [Requests -> Record] /\ request'[r] = asked
        /\ \A q \in Requests : q # r => request'[q] = request[q]
    BY <1>1, <2>1, <2>2 DEF asked
  <2>4. SlotsOK'
    <3>1. CASE kind = "write"
      <4>1. WorkingSet' = WorkingSet \cup {r} /\ Handlers' = Handlers
        BY <1>3, <2>2, <2>3, <3>1 DEF WorkingSet, Handlers, Working
      <4> QED
        BY <1>3, <2>1, <3>1, <4>1, SlotTaken DEF Inv, AdmitWrite
    <3>2. CASE kind = "config"
      <4>1. Handlers' = Handlers \cup {r}
        BY <1>3, <2>2, <2>3, <3>2 DEF Handlers
      <4>2. WorkingSet' = WorkingSet
        BY <1>3, <2>3, <4>1 DEF WorkingSet, Working
      <4> QED
        BY <1>3, <2>1, <3>2, <4>1, <4>2, CallTaken DEF Inv, AdmitConfig
    <3> QED
      BY <3>1, <3>2
  <2>5. PhaseOK(r)' /\ ReceivedOK(r)'
    BY <1>1, <1>2, <1>4, <2>2, <2>3 DEF PhaseOK, ReceivedOK
  <2>6. TaskOK'
    <3>1. CASE task.step = "idle"
      BY <1>2, <1>4, <2>1, <3>1, StartTaskOK DEF Inv, Ask
    <3>2. CASE task.step # "idle"
      BY <1>4, <2>1, <3>2 DEF Inv, TaskOK, Ask
    <3> QED
      BY <3>1, <3>2
  <2> QED
    BY <1>4, <2>3, <2>4, <2>5, <2>6, OthersSame
<1>7. CASE TurnAway(r)
  <2>1. request' = [request EXCEPT ![r] = turned]
    BY <1>7 DEF TurnAway
  <2>2. /\ turned \in Record /\ turned.phase = "answered" /\ turned.reading = 0
        /\ turned.kind = "read"
    BY <1>1 DEF Record
  <2> HIDE DEF turned
  <2>3. /\ request' \in [Requests -> Record] /\ request'[r] = turned
        /\ \A q \in Requests : q # r => request'[q] = request[q]
    BY <1>1, <2>1, <2>2
  <2>4. WorkingSet' = WorkingSet /\ Handlers' = Handlers
    BY <1>3, <2>2, <2>3 DEF WorkingSet, Handlers, Working
  <2>5. SlotsOK'
    BY <1>7, <2>4, SlotsSame DEF Inv, TurnAway
  <2>6. PhaseOK(r)' /\ ReceivedOK(r)'
    BY <1>1, <1>4, <2>2, <2>3 DEF PhaseOK, ReceivedOK
  <2>7. TaskOK'
    BY <1>7 DEF Inv, TaskOK, TurnAway
  <2> QED
    BY <1>4, <2>3, <2>5, <2>6, <2>7, OthersSame
<1> QED
  BY <1>5, <1>6, <1>7

(* A request ends with an answer; its slot is returned unless its check is *)
(* still being read.                                                       *)
LEMMA AnswerInv ==
  ASSUME Inv, NEW r \in Requests,
         NEW answer \in {"ok", "failed", "unknown"},
         request[r].phase \in {"asking", "sent"},
         request' = [request EXCEPT ![r].phase = "answered", ![r].answer = answer],
         r \in received => answer \in {"ok", "unknown"},
         inflight' = IF request[r].reading = 0 THEN inflight - 1 ELSE inflight,
         UNCHANGED <<deployment, entry, task, received, active>>
  PROVE  Inv'
<1> DEFINE answered == [request[r] EXCEPT !.phase = "answered", !.answer = answer]
<1>1. request \in [Requests -> Record] /\ request' = [request EXCEPT ![r] = answered]
  BY DEF Inv, RequestsOK, Record
<1>2. /\ answered \in Record /\ answered.phase = "answered" /\ answered.answer = answer
      /\ answered.reading = request[r].reading /\ answered.kind = request[r].kind
  BY <1>1 DEF Record
<1> HIDE DEF answered
<1>3. /\ request' \in [Requests -> Record] /\ request'[r] = answered
      /\ \A q \in Requests : q # r => request'[q] = request[q]
  BY <1>1, <1>2
<1>4. PhaseOK(r)' /\ ReceivedOK(r)'
  <2>1. PhaseOK(r) /\ ReceivedOK(r)
    BY DEF Inv, RequestInv
  <2> QED
    BY <1>2, <1>3, <2>1 DEF PhaseOK, ReceivedOK
<1>5. Working(r) /\ Handlers' = Handlers
  BY <1>2, <1>3 DEF Handlers, Working
<1>6. SlotsOK'
  <2>1. CASE request[r].reading = 0
    <3>1. r \notin Handlers
      BY <2>1 DEF Inv, RequestInv, PhaseOK, Handlers
    <3>2. r \in WorkingSet
      BY <1>5, <3>1 DEF WorkingSet
    <3>3. WorkingSet' = WorkingSet \ {r}
      BY <1>2, <1>3, <1>5, <2>1 DEF WorkingSet, Working
    <3> QED
      BY <1>5, <2>1, <3>2, <3>3, SlotReturned DEF Inv
  <2>2. CASE request[r].reading # 0
    <3>1. WorkingSet' = WorkingSet /\ Handlers' = Handlers
      BY <1>2, <1>3, <1>5, <2>2 DEF WorkingSet, Working
    <3> QED
      BY <2>2, <3>1, SlotsSame DEF Inv
  <2> QED
    BY <2>1, <2>2
<1>7. TaskOK'
  BY DEF Inv, TaskOK
<1> QED
  BY <1>3, <1>4, <1>6, <1>7, OthersSame

LEMMA EndInv ==
  ASSUME Inv, NEW r \in Requests, Reply(r) \/ UpstreamFails(r) \/ Deadline(r)
  PROVE  Inv'
<1>1. PhaseOK(r) /\ ReceivedOK(r)
  BY DEF Inv, RequestInv
<1>2. CASE Reply(r)
  <2>1. request[r].reading = 0
    BY <1>1, <1>2 DEF PhaseOK, Reply
  <2> QED
    BY <1>2, <2>1, AnswerInv DEF Reply
<1>3. CASE UpstreamFails(r) \/ Deadline(r)
  <2>1. ErrorAnswer(r) \in {"failed", "unknown"}
    BY DEF ErrorAnswer
  <2>2. r \in received => ErrorAnswer(r) = "unknown"
    BY <1>1, <1>3 DEF ErrorAnswer, ReceivedOK, UpstreamFails, Deadline
  <2>3. inflight' = IF request[r].reading = 0 THEN inflight - 1 ELSE inflight
    BY <1>1, <1>3 DEF UpstreamFails, Deadline, PhaseOK
  <2> QED
    BY <1>3, <2>1, <2>2, <2>3, AnswerInv DEF UpstreamFails, Deadline
<1> QED
  BY <1>2, <1>3

LEMMA DeliverInv ==
  ASSUME Inv, NEW r \in Requests, Deliver(r)
  PROVE  Inv'
<1>1. /\ request[r].kind = "write" /\ (request[r].phase = "sent" \/ request[r].answer = "unknown")
      /\ received' = received \cup {r}
      /\ UNCHANGED <<request, inflight, active, entry, task, deployment>>
  BY DEF Deliver
<1>2. PhaseOK(r) /\ request[r].phase \in {"new", "asking", "sent", "answered"}
  BY DEF Inv, RequestInv, RequestsOK, Record
<1>3. PhaseOK(r)' /\ ReceivedOK(r)'
  BY <1>1, <1>2 DEF PhaseOK, ReceivedOK
<1>4. WorkingSet' = WorkingSet /\ Handlers' = Handlers
  BY <1>1 DEF WorkingSet, Handlers, Working
<1>5. SlotsOK'
  BY <1>1, <1>4, SlotsSame DEF Inv
<1>6. TaskOK'
  BY <1>1 DEF Inv, TaskOK
<1>7. request' \in [Requests -> Record]
  BY <1>1 DEF Inv, RequestsOK, Record
<1> QED
  BY <1>1, <1>3, <1>5, <1>6, <1>7, OthersSame

-----------------------------------------------------------------------------
LEMMA InitInv == Init => Inv
<1> SUFFICES ASSUME Init
             PROVE  Inv
  OBVIOUS
<1>1. /\ request = [r \in Requests |-> New] /\ inflight = 0 /\ active = 0
      /\ received = {}
      /\ entry = [identity |-> 0, state |-> "none", checked |-> NoBlock]
      /\ task = Idle /\ deployment = First
  BY DEF Init
<1>2. New \in Record
  BY DEF New, Record
<1>3. RequestsOK
  BY <1>1, <1>2 DEF RequestsOK, Record
<1>4. TaskOK
  BY <1>1, PublicWritesAssumption DEF TaskOK, Idle, PublicWritesAssumption
<1>5. RequestInv
  BY <1>1 DEF RequestInv, PhaseOK, ReceivedOK, New
<1>6. WorkingSet = {} /\ Handlers = {}
  BY <1>1 DEF WorkingSet, Handlers, Working, New
<1>7. SlotsOK
  BY <1>1, <1>6, FS_EmptySet, Limits DEF SlotsOK
<1> QED
  BY <1>1, <1>3, <1>4, <1>5, <1>7 DEF Inv

LEMMA StepInv ==
  ASSUME Inv, [Next]_vars
  PROVE  Inv'
<1>1. ASSUME UNCHANGED <<gateway, entry, task>>, deployment' \in Deployments
      PROVE  Inv'
  BY <1>1, GatewaySame DEF Inv, TaskOK
<1>2. deployment \in Deployments
  BY DEF Inv, TaskOK
<1>3. ASSUME NEW ready \in Authorities, NEW touched \in Events, Mine(ready, touched)
      PROVE  Inv'
  BY <1>1, <1>2, <1>3 DEF Mine
<1>4. ASSUME NEW length \in 1..MaxBlocks, Rollback(length)
      PROVE  Inv'
  BY <1>1, <1>2, <1>4 DEF Rollback
<1>5. ASSUME NEW to \in Deployments, Switch(to)
      PROVE  Inv'
  BY <1>1, <1>5 DEF Switch
<1>6. ASSUME Verify
      PROVE  Inv'
  BY <1>6, VerifyInv
<1>7. ASSUME NEW r \in Requests, TurnAway(r) \/ AdmitRead(r) \/ AdmitWrite(r) \/ AdmitConfig(r)
      PROVE  Inv'
  BY <1>7, ArriveInv
<1>8. ASSUME NEW r \in Requests, Deliver(r) \/ Reply(r) \/ UpstreamFails(r) \/ Deadline(r)
      PROVE  Inv'
  BY <1>8, DeliverInv, EndInv
<1>9. ASSUME UNCHANGED vars
      PROVE  Inv'
  BY <1>1, <1>2, <1>9 DEF vars, gateway
<1> QED
  BY <1>3, <1>4, <1>5, <1>6, <1>7, <1>8, <1>9 DEF Next

(* Timed-out requests do not pile up work behind the limits: the gateway's *)
(* counter (rpc-gateway.mjs, inflight) is exactly the number of envelopes  *)
(* with a fetch or a readiness read under way, and the route wrapper's     *)
(* (public-surface.mjs, active) that of the handlers that have not ended.  *)
THEOREM SlotsAreCounted == Spec => []AdmissionIsBounded
<1>1. Inv => AdmissionIsBounded
  <2> SUFFICES ASSUME Inv PROVE AdmissionIsBounded
    OBVIOUS
  <2>1. {r \in Handlers : Working(r)} = Handlers
    BY DEF Inv, RequestInv, PhaseOK, Handlers, Working
  <2> QED
    BY <2>1 DEF Inv, SlotsOK, WorkingSet, AdmissionIsBounded
<1> QED
  BY <1>1, InitInv, StepInv, PTL DEF Spec

(* A plain failure answer of the gateway means that the transaction has    *)
(* not reached the node and never will; the client may send it again.      *)
THEOREM FailuresAreFinal == Spec => []RetryIsSafe
<1>1. Inv => RetryIsSafe
  BY DEF Inv, RequestInv, ReceivedOK, PhaseOK, RetryIsSafe
<1> QED
  BY <1>1, InitInv, StepInv, PTL DEF Spec

-----------------------------------------------------------------------------
(* The types of the node and of the verifier *)

NodeTypes ==
  /\ chain \in Seq(Block)
  /\ Len(chain) \in 1..mined
  /\ \A i \in DOMAIN chain : chain[i].number = i
  /\ mined \in 1..MaxBlocks
  /\ switches \in 0..MaxSwitches

AnyBlock == Block \cup {NoBlock}

ReadTypes ==
  /\ entry.identity \in Deployments \cup {0}
  /\ entry.state \in {"none", "ready", "closed"}
  /\ entry.checked \in AnyBlock
  /\ task.step \in {"idle", "head", "previous", "logs", "audit", "state", "tail"}
  /\ task.block \in AnyBlock

(* A check is under way as long as someone waits for one. *)
Awaited == \A r \in Requests : request[r].reading # 0 => task.step # "idle"

TypeInv == NodeTypes /\ ReadTypes /\ Awaited

LEMMA LatestIsBlock == NodeTypes => Latest \in Block
<1> SUFFICES ASSUME NodeTypes
             PROVE  Latest \in Block
  OBVIOUS
<1>1. Len(chain) \in DOMAIN chain
  BY PublicWritesAssumption DEF NodeTypes, PublicWritesAssumption
<1> QED
  BY <1>1 DEF NodeTypes, Latest

LEMMA MineTypes ==
  ASSUME NodeTypes, NEW ready \in Authorities, NEW touched \in Events, Mine(ready, touched)
  PROVE  NodeTypes'
<1> DEFINE block == [number |-> Len(chain) + 1, hash |-> mined + 1, ready |-> ready,
                     touched |-> touched]
<1>1. chain' = Append(chain, block) /\ mined' = mined + 1 /\ mined < MaxBlocks
      /\ switches' = switches
  BY DEF Mine
<1>2. Len(chain) \in Nat /\ mined \in Nat /\ MaxBlocks \in Nat /\ Len(chain) <= mined
  BY PublicWritesAssumption DEF NodeTypes, PublicWritesAssumption
<1>3. block \in Block /\ block.number = Len(chain) + 1
  BY <1>1, <1>2, PublicWritesAssumption DEF Block, PublicWritesAssumption
<1> HIDE DEF block
<1>4. chain \in Seq(Block)
  BY DEF NodeTypes
<1>5. /\ chain' \in Seq(Block) /\ Len(chain') = Len(chain) + 1
      /\ \A i \in 1..Len(chain) : chain'[i] = chain[i]
      /\ chain'[Len(chain) + 1] = block
  BY <1>1, <1>3, <1>4
<1>6. \A i \in DOMAIN chain' : chain'[i].number = i
  <2> SUFFICES ASSUME NEW i \in 1..Len(chain) + 1
               PROVE  chain'[i].number = i
    BY <1>5
  <2>1. CASE i = Len(chain) + 1
    BY <1>3, <1>5, <2>1
  <2>2. CASE i \in 1..Len(chain)
    BY <1>4, <1>5, <2>2 DEF NodeTypes
  <2> QED
    BY <1>2, <2>1, <2>2
<1>7. Len(chain') \in 1..mined' /\ mined' \in 1..MaxBlocks
  BY <1>1, <1>2, <1>5
<1> QED
  BY <1>1, <1>5, <1>6, <1>7 DEF NodeTypes

LEMMA RollbackTypes ==
  ASSUME NodeTypes, NEW length \in 1..MaxBlocks, Rollback(length)
  PROVE  NodeTypes'
<1>1. chain' = SubSeq(chain, 1, length) /\ mined' = mined /\ switches' = switches
      /\ length \in 1..Len(chain) - 1
  BY DEF Rollback
<1>2. chain \in Seq(Block) /\ Len(chain) \in Nat /\ Len(chain) <= mined /\ mined \in Nat
  BY PublicWritesAssumption DEF NodeTypes, PublicWritesAssumption
<1>3. /\ chain' \in Seq(Block) /\ Len(chain') = length
      /\ \A i \in 1..length : chain'[i] = chain[i]
  BY <1>1, <1>2
<1>4. \A i \in DOMAIN chain' : chain'[i].number = i
  BY <1>1, <1>2, <1>3 DEF NodeTypes
<1> QED
  BY <1>1, <1>2, <1>3, <1>4 DEF NodeTypes

LEMMA StartTypes ==
  ASSUME NodeTypes, ReadTypes, NEW identity \in Deployments, StartTask(identity)
  PROVE  ReadTypes' /\ task'.step = "head"
<1>1. entry' = EntryFor(identity) /\ task' = [Idle EXCEPT !.step = "head"]
  BY DEF StartTask
<1>2. task'.step = "head" /\ task'.block = NoBlock
  BY <1>1 DEF Idle
<1>3. /\ entry'.identity \in Deployments \cup {0}
      /\ entry'.state \in {"none", "ready", "closed"} /\ entry'.checked \in AnyBlock
  BY <1>1 DEF EntryFor, ReadTypes, AnyBlock
<1> QED
  BY <1>2, <1>3 DEF ReadTypes, AnyBlock

LEMMA SettleTypes ==
  ASSUME Inv, TypeInv, NEW newEntry, NEW verdict,
         newEntry.identity \in Deployments \cup {0},
         newEntry.state \in {"none", "ready", "closed"},
         newEntry.checked \in AnyBlock,
         Settle(newEntry, verdict)
  PROVE  TypeInv'
<1> DEFINE waiting == {r \in Requests : request[r].reading \notin {0, entry.identity}}
<1>1. NodeTypes'
  BY DEF TypeInv, NodeTypes, Settle, node
<1>2. CASE waiting = {}
  <2>1. entry' = newEntry /\ task' = Idle
    BY <1>2 DEF Settle
  <2>2. ReadTypes'
    BY <2>1 DEF ReadTypes, Idle, AnyBlock
  <2>3. ASSUME NEW r \in Requests
        PROVE  request'[r].reading = 0
    <3>1. request[r].reading \in {0, entry.identity} /\ request[r] \in Record
      BY <1>2 DEF Inv, RequestsOK, Record
    <3>2. CASE request[r].reading = entry.identity
      BY ZenonT(40), <3>1, <3>2 DEF Settle, Record, New
    <3>3. CASE request[r].reading # entry.identity
      BY <3>1, <3>3 DEF Settle
    <3> QED
      BY <3>2, <3>3
  <2> QED
    BY SMTT(30), <1>1, <2>2, <2>3 DEF TypeInv, Awaited
<1>3. CASE waiting # {}
  <2>1. PICK r \in waiting : StartTask(request[r].reading)
    BY <1>3 DEF Settle
  <2>2. request[r].reading \in Deployments
    BY <2>1 DEF Inv, RequestsOK, Record
  <2>3. ReadTypes' /\ task'.step = "head"
    BY <2>1, <2>2, StartTypes DEF TypeInv
  <2> QED
    BY SMTT(30), <1>1, <2>3 DEF TypeInv, Awaited
<1> QED
  BY SMTT(30), <1>2, <1>3

LEMMA MoveTypes ==
  ASSUME Inv, TypeInv, NEW block \in AnyBlock,
         NEW step \in {"head", "previous", "logs", "audit", "state", "tail"}, Step(step, block)
  PROVE  TypeInv'
<1>1. task' = [task EXCEPT !.step = step, !.block = block] /\ UNCHANGED <<node, switches, entry, request>>
  BY DEF Step, gateway
<1>2. task'.step = step /\ task'.block = block
  BY <1>1 DEF Inv, TaskOK
<1> QED
  BY <1>1, <1>2 DEF TypeInv, NodeTypes, ReadTypes, Awaited, node

LEMMA VerifyTypes ==
  ASSUME Inv, TypeInv, Verify
  PROVE  TypeInv'
<1>1. Latest \in AnyBlock /\ task.block \in AnyBlock /\ ReadTypes
  BY LatestIsBlock DEF TypeInv, ReadTypes, AnyBlock
<1>2. entry = [identity |-> entry.identity, state |-> entry.state, checked |-> entry.checked]
  BY DEF Inv, TaskOK
<1>3. \A state, checked :
        [entry EXCEPT !.state = state, !.checked = checked]
          = [identity |-> entry.identity, state |-> state, checked |-> checked]
  BY <1>2, EntryUpdate
<1>4. ASSUME NEW verdict, NEW state \in {"none", "ready", "closed"}, NEW checked \in AnyBlock,
             Settle([identity |-> entry.identity, state |-> state, checked |-> checked], verdict)
      PROVE  TypeInv'
  BY <1>1, <1>4, SettleTypes DEF ReadTypes
<1>5. ASSUME NEW block \in AnyBlock, Validated(block)
      PROVE  TypeInv'
  <2>1. [entry EXCEPT !.checked = block]
          = [identity |-> entry.identity, state |-> entry.state, checked |-> block]
    BY <1>2
  <2>2. Settle([identity |-> entry.identity, state |-> entry.state, checked |-> block],
               entry.state = "ready")
    BY <1>5, <2>1 DEF Validated
  <2> QED
    BY <1>1, <1>4, <2>2 DEF ReadTypes
<1>6. CASE ReadHead \/ ReadPrevious \/ ReadLogs \/ AuditHead
  <2>1. \/ \E block \in AnyBlock, step \in {"previous", "logs", "audit", "state"} : Step(step, block)
        \/ \E block \in AnyBlock : Validated(block)
    BY <1>1, <1>6 DEF ReadHead, ReadPrevious, ReadLogs, AuditHead
  <2> QED
    BY <1>5, <2>1, MoveTypes
<1>7. CASE AuditCached
  <2> DEFINE ready == entry.identity \in Latest.ready
             state == IF ready THEN "ready" ELSE "closed"
  <2>1. Settle([entry EXCEPT !.state = state, !.checked = Latest], ready)
    BY <1>7 DEF AuditCached
  <2>2. [entry EXCEPT !.state = state, !.checked = Latest]
          = [identity |-> entry.identity, state |-> state, checked |-> Latest]
    BY <1>3
  <2>3. state \in {"none", "ready", "closed"}
    OBVIOUS
  <2> HIDE DEF ready, state
  <2> QED
    BY <1>1, <1>4, <2>1, <2>2, <2>3
<1>8. CASE AuditState
  <2> DEFINE seen == entry.identity \in chain[task.block.number].ready
  <2>1. /\ task' = [task EXCEPT !.step = "tail", !.seen = seen]
        /\ task.step # "idle" /\ UNCHANGED <<node, switches, entry, request>>
    BY <1>8 DEF AuditState, gateway
  <2> HIDE DEF seen
  <2>2. task'.step = "tail" /\ task'.block = task.block
    BY <2>1 DEF Inv, TaskOK
  <2> QED
    BY <2>1, <2>2 DEF TypeInv, NodeTypes, ReadTypes, Awaited, node
<1>9. CASE AuditTail
  <2> DEFINE state == IF task.seen THEN "ready" ELSE "closed"
  <2>1. Settle([entry EXCEPT !.state = state, !.checked = task.block], task.seen)
    BY <1>9 DEF AuditTail
  <2>2. [entry EXCEPT !.state = state, !.checked = task.block]
          = [identity |-> entry.identity, state |-> state, checked |-> task.block]
    BY <1>3
  <2>3. state \in {"none", "ready", "closed"}
    OBVIOUS
  <2> HIDE DEF state
  <2> QED
    BY <1>1, <1>4, <2>1, <2>2, <2>3
<1>10. CASE ReadFails
  <2>1. Settle([entry EXCEPT !.state = "none", !.checked = NoBlock], FALSE)
    BY <1>10 DEF ReadFails
  <2>2. [entry EXCEPT !.state = "none", !.checked = NoBlock]
          = [identity |-> entry.identity, state |-> "none", checked |-> NoBlock]
    BY <1>3
  <2>3. Settle([identity |-> entry.identity, state |-> "none", checked |-> NoBlock], FALSE)
    BY <2>1, <2>2
  <2>4. NoBlock \in AnyBlock
    BY DEF AnyBlock
  <2> QED
    BY <1>4, <2>3, <2>4
<1> QED
  BY <1>6, <1>7, <1>8, <1>9, <1>10 DEF Verify

(* What a request does leaves the node alone, and only a new write waits   *)
(* for a check that did not exist.                                         *)
LEMMA RequestTypes ==
  ASSUME Inv, TypeInv, NEW r \in Requests,
         \/ TurnAway(r) \/ AdmitRead(r) \/ AdmitWrite(r) \/ AdmitConfig(r)
         \/ Deliver(r) \/ Reply(r) \/ UpstreamFails(r) \/ Deadline(r)
  PROVE  TypeInv'
<1>1. NodeTypes'
  BY DEF TypeInv, NodeTypes, node, TurnAway, AdmitRead, AdmitWrite, AdmitConfig, Deliver, Reply, UpstreamFails, Deadline
<1>2. CASE AdmitWrite(r) \/ AdmitConfig(r)
  <2>1. Ask(deployment)
    BY <1>2 DEF AdmitWrite, AdmitConfig
  <2>2. CASE task.step = "idle"
    <3>1. deployment \in Deployments /\ StartTask(deployment)
      BY <2>1, <2>2 DEF Inv, TaskOK, Ask
    <3>2. ReadTypes' /\ task'.step = "head"
      BY <3>1, StartTypes DEF TypeInv
    <3> QED
      BY <1>1, <3>2 DEF TypeInv, Awaited
  <2>3. CASE task.step # "idle"
    BY <1>1, <2>1, <2>3 DEF TypeInv, ReadTypes, Awaited, Ask
  <2> QED
    BY <2>2, <2>3
<1>3. CASE ~AdmitWrite(r) /\ ~AdmitConfig(r)
  <2>1. UNCHANGED <<entry, task>>
    BY <1>3 DEF TurnAway, AdmitRead, Deliver, Reply, UpstreamFails, Deadline
  <2>2. \A q \in Requests : request'[q].reading = request[q].reading
    BY <1>3 DEF Inv, RequestsOK, Record, TurnAway, AdmitRead, Deliver, Reply, UpstreamFails, Deadline
  <2> QED
    BY <1>1, <2>1, <2>2 DEF TypeInv, ReadTypes, Awaited
<1> QED
  BY <1>2, <1>3

LEMMA InitTypes == Init => TypeInv
<1> SUFFICES ASSUME Init
             PROVE  TypeInv
  OBVIOUS
<1>1. PICK ready \in Authorities : chain = <<[number |-> 1, hash |-> 1, ready |-> ready, touched |-> {}]>>
  BY DEF Init
<1>2. MaxBlocks \in Nat \ {0} /\ MaxSwitches \in Nat
  BY PublicWritesAssumption DEF PublicWritesAssumption
<1>3. [number |-> 1, hash |-> 1, ready |-> ready, touched |-> {}] \in Block
  BY <1>2 DEF Block
<1>4. NodeTypes
  BY <1>1, <1>2, <1>3 DEF NodeTypes, Init
<1>5. ReadTypes
  BY DEF Init, ReadTypes, Idle, AnyBlock
<1>6. Awaited
  BY DEF Init, Awaited, New
<1> QED
  BY <1>4, <1>5, <1>6 DEF TypeInv

LEMMA StepTypes ==
  ASSUME Inv, TypeInv, [Next]_vars
  PROVE  TypeInv'
<1>1. ASSUME UNCHANGED <<entry, task, gateway>>, NodeTypes'
      PROVE  TypeInv'
  BY <1>1 DEF TypeInv, ReadTypes, Awaited, gateway
<1>2. ASSUME NEW ready \in Authorities, NEW touched \in Events, Mine(ready, touched)
      PROVE  TypeInv'
  BY <1>1, <1>2, MineTypes DEF TypeInv, Mine
<1>3. ASSUME NEW length \in 1..MaxBlocks, Rollback(length)
      PROVE  TypeInv'
  BY <1>1, <1>3, RollbackTypes DEF TypeInv, Rollback
<1>4. ASSUME NEW to \in Deployments, Switch(to)
      PROVE  TypeInv'
  <2>1. NodeTypes'
    BY <1>4, PublicWritesAssumption DEF TypeInv, NodeTypes, Switch, node, PublicWritesAssumption
  <2> QED
    BY <1>1, <1>4, <2>1 DEF Switch
<1>5. ASSUME UNCHANGED vars
      PROVE  TypeInv'
  <2>1. NodeTypes'
    BY <1>5 DEF TypeInv, NodeTypes, vars, node
  <2> QED
    BY <1>1, <1>5, <2>1 DEF vars
<1> QED
  BY <1>2, <1>3, <1>4, <1>5, VerifyTypes, RequestTypes DEF Next

(* The verifier's entry and task and the gateway's records keep their      *)
(* types, and nobody waits for a verifier that does nothing.               *)
THEOREM TypeCorrect == Spec => []TypeOK
<1>1. Inv /\ TypeInv => TypeOK
  <2> SUFFICES ASSUME Inv, TypeInv
               PROVE  TypeOK
    OBVIOUS
  <2>1. \A i \in DOMAIN chain : chain[i] \in Block /\ chain[i].number = i
    BY DEF TypeInv, NodeTypes
  <2>2. entry \in [identity : Deployments \cup {0}, state : {"none", "ready", "closed"},
                   checked : Block \cup {NoBlock}]
    BY DEF Inv, TaskOK, TypeInv, ReadTypes, AnyBlock
  <2>3. inflight \in Nat /\ active \in Nat
    BY WorkingFinite, FS_CardinalityType DEF Inv, SlotsOK
  <2>4. deployment \in Deployments /\ received \subseteq Requests /\ request \in [Requests -> Record]
    BY DEF Inv, TaskOK, RequestsOK
  <2>5. mined \in 1..MaxBlocks /\ switches \in 0..MaxSwitches
    BY DEF TypeInv, NodeTypes
  <2> QED
    BY <2>1, <2>2, <2>3, <2>4, <2>5 DEF TypeOK, TypeInv, ReadTypes, Awaited, Record
<1> QED
  BY <1>1, InitInv, StepInv, InitTypes, StepTypes, PTL DEF Spec

-----------------------------------------------------------------------------
(***************************************************************************)
(* The verdicts, for every set of deployments, every order of blocks and   *)
(* rollbacks, and any number of callers.                                   *)
(***************************************************************************)

(* A block the node has had by now, whether it still has it or not. *)
Known(block) == block \in Block /\ block.hash <= mined

(* In chain c, an audit of some block up to b would refuse the deployment, *)
(* and no event about it has followed.                                     *)
Refused(c, identity, b) ==
  \E audited \in 1..b.number :
    /\ identity \notin c[audited].ready
    /\ \A i \in (audited + 1)..b.number : identity \notin c[i].touched

Agrees(c, e) ==
  e.checked.number \in DOMAIN c /\ c[e.checked.number] = e.checked =>
    /\ e.state = "ready" => e.identity \in e.checked.ready
    /\ e.state = "closed" => Refused(c, e.identity, e.checked)

(* The entry is right about the block checked last, if that is there. *)
EntryInv == entry.state # "none" => Known(entry.checked) /\ Agrees(chain, entry)

(* What the task has read holds as long as its block is there: with it,    *)
(* the whole chain up to it is the one that was read.                      *)
TaskInv ==
  /\ task.step \notin {"idle", "head"} => Known(task.block)
  /\ task.step \in {"previous", "logs"} =>
       entry.state # "none" /\ entry.checked.number <= task.block.number
  /\ task.step = "logs" /\ OnChain(task.block) => OnChain(entry.checked)
  /\ task.step = "tail" /\ OnChain(task.block) =>
       task.seen = (entry.identity \in task.block.ready)

(* The hashes of the chain are used up, and a deployment is found ready in *)
(* a block and not in the next only if the next has an event about it.     *)
ChainOK ==
  /\ \A i \in DOMAIN chain : chain[i].hash <= mined
  /\ \A i \in DOMAIN chain :
       i # 1 => chain[i-1].ready \ chain[i].ready \subseteq chain[i].touched

AuthInv == ChainOK /\ EntryInv /\ TaskInv

(* A block that is gone does not come back, and a block that stays keeps   *)
(* those below it.                                                         *)
LEMMA BlocksStayBelow ==
  ASSUME NodeTypes, ChainOK,
         \/ \E ready \in Authorities, touched \in Events : Mine(ready, touched)
         \/ \E length \in 1..MaxBlocks : Rollback(length)
  PROVE  /\ ChainOK' /\ mined <= mined'
         /\ \A b \in Block : b.hash <= mined /\ OnChain(b)' =>
              OnChain(b) /\ \A i \in 1..b.number : chain'[i] = chain[i]
         /\ \A b, c \in Block : OnChain(b)' /\ c.number <= b.number /\ OnChain(c) => OnChain(c)'
<1>1. /\ chain \in Seq(Block) /\ Len(chain) \in Nat \ {0} /\ mined \in Nat
      /\ \A b \in Block : b.number \in Nat /\ b.hash \in Nat
  BY PublicWritesAssumption DEF NodeTypes, Block, PublicWritesAssumption
<1>2. CASE \E ready \in Authorities, touched \in Events : Mine(ready, touched)
  <2>1. PICK ready \in Authorities, touched \in Events : Mine(ready, touched)
    BY <1>2
  <2> DEFINE new == [number |-> Len(chain) + 1, hash |-> mined + 1, ready |-> ready,
                     touched |-> touched]
  <2>2. /\ chain' = Append(chain, new) /\ mined' = mined + 1 /\ new.hash = mined + 1
        /\ chain[Len(chain)].ready \ new.ready \subseteq new.touched
    BY <2>1 DEF Mine, Latest
  <2>3. /\ DOMAIN chain = 1..Len(chain) /\ DOMAIN chain' = 1..Len(chain) + 1
        /\ \A i \in 1..Len(chain) : chain'[i] = chain[i]
        /\ chain'[Len(chain) + 1] = new
    BY <1>1, <2>2
  <2> HIDE DEF new
  <2>4. ChainOK'
    <3> SUFFICES ASSUME NEW i \in 1..Len(chain) + 1
                 PROVE  /\ chain'[i].hash <= mined'
                        /\ i # 1 => chain'[i-1].ready \ chain'[i].ready \subseteq chain'[i].touched
      BY <2>3 DEF ChainOK
    <3>1. CASE i = Len(chain) + 1
      <4>1. i - 1 = Len(chain) /\ chain'[i] = new /\ chain'[i-1] = chain[Len(chain)]
        BY <1>1, <2>3, <3>1
      <4>2. new.hash <= mined'
        BY <1>1, <2>2
      <4> QED
        BY <2>2, <4>1, <4>2
    <3>2. CASE i # Len(chain) + 1
      <4>1. i \in 1..Len(chain) /\ chain[i] \in Block
        BY <1>1, <3>2
      <4>2. chain'[i].hash <= mined /\ chain'[i].hash \in Nat
        BY <1>1, <2>3, <4>1 DEF ChainOK
      <4>3. chain'[i].hash <= mined'
        BY <1>1, <2>2, <4>2
      <4>4. i # 1 => i - 1 \in 1..Len(chain)
        BY <1>1, <4>1
      <4>5. i # 1 => chain'[i-1] = chain[i-1] /\ chain'[i] = chain[i]
        BY <2>3, <4>1, <4>4
      <4> QED
        BY <2>3, <4>1, <4>3, <4>5 DEF ChainOK
    <3> QED
      BY <3>1, <3>2
  <2>5. ASSUME NEW b \in Block, b.hash <= mined, OnChain(b)'
        PROVE  OnChain(b) /\ \A i \in 1..b.number : chain'[i] = chain[i]
    <3>1. b.number \in 1..Len(chain) + 1 /\ chain'[b.number] = b
      BY <2>3, <2>5 DEF OnChain
    <3>2. b.number # Len(chain) + 1
      BY <1>1, <2>2, <2>3, <2>5, <3>1
    <3>3. \A i \in 1..b.number : i \in 1..Len(chain)
      BY <1>1, <3>1, <3>2
    <3> QED
      BY <1>1, <2>3, <3>1, <3>2, <3>3 DEF OnChain
  <2>6. ASSUME NEW c \in Block, OnChain(c)
        PROVE  OnChain(c)'
    BY <1>1, <2>3, <2>6 DEF OnChain
  <2>7. mined <= mined'
    BY <1>1, <2>2
  <2>8. \A b, c \in Block : OnChain(b)' /\ c.number <= b.number /\ OnChain(c) => OnChain(c)'
    BY <2>6
  <2>9. \A b \in Block : b.hash <= mined /\ OnChain(b)' =>
          OnChain(b) /\ \A i \in 1..b.number : chain'[i] = chain[i]
    BY <2>5
  <2> QED
    BY <2>4, <2>7, <2>8, <2>9
<1>3. CASE \E length \in 1..MaxBlocks : Rollback(length)
  <2>1. PICK length \in 1..MaxBlocks : Rollback(length)
    BY <1>3
  <2>2. chain' = SubSeq(chain, 1, length) /\ mined' = mined /\ length \in 1..Len(chain) - 1
    BY <2>1 DEF Rollback
  <2>3. /\ DOMAIN chain = 1..Len(chain) /\ DOMAIN chain' = 1..length
        /\ \A i \in 1..length : chain'[i] = chain[i] /\ i \in 1..Len(chain)
    BY <1>1, <2>2
  <2>4. ChainOK'
    <3> SUFFICES ASSUME NEW i \in 1..length
                 PROVE  /\ chain'[i].hash <= mined'
                        /\ i # 1 => chain'[i-1].ready \ chain'[i].ready \subseteq chain'[i].touched
      BY <2>3 DEF ChainOK
    <3>1. i \in DOMAIN chain /\ chain'[i] = chain[i]
      BY <2>3
    <3>2. i # 1 => chain'[i-1] = chain[i-1]
      BY <1>1, <2>2, <2>3
    <3> QED
      BY <2>2, <3>1, <3>2 DEF ChainOK
  <2>5. ASSUME NEW b \in Block, OnChain(b)'
        PROVE  OnChain(b) /\ \A i \in 1..b.number : chain'[i] = chain[i]
    <3>1. b.number \in 1..length /\ chain'[b.number] = b
      BY <2>3, <2>5 DEF OnChain
    <3>2. \A i \in 1..b.number : i \in 1..length
      BY <1>1, <2>2, <3>1
    <3> QED
      BY <2>3, <3>1, <3>2 DEF OnChain
  <2>6. ASSUME NEW b \in Block, NEW c \in Block, OnChain(b)', c.number <= b.number, OnChain(c)
        PROVE  OnChain(c)'
    <3>1. b.number \in 1..length /\ c.number \in 1..Len(chain) /\ chain[c.number] = c
      BY <2>3, <2>6 DEF OnChain
    <3>2. c.number \in 1..length
      BY <1>1, <2>2, <2>6, <3>1
    <3> QED
      BY <2>3, <3>1, <3>2 DEF OnChain
  <2>7. mined <= mined'
    BY <1>1, <2>2
  <2>8. \A b, c \in Block : OnChain(b)' /\ c.number <= b.number /\ OnChain(c) => OnChain(c)'
    BY <2>6
  <2>9. \A b \in Block : b.hash <= mined /\ OnChain(b)' =>
          OnChain(b) /\ \A i \in 1..b.number : chain'[i] = chain[i]
    BY <2>5
  <2> QED
    BY <2>4, <2>7, <2>8, <2>9
<1> QED
  BY <1>2, <1>3

(* What the entry says is decided by the blocks up to the one it checked. *)
LEMMA SameBelow ==
  ASSUME NEW c, NEW d, NEW e, e.checked.number \in Nat, Agrees(c, e),
         e.checked.number \in DOMAIN d /\ d[e.checked.number] = e.checked =>
           /\ e.checked.number \in DOMAIN c /\ c[e.checked.number] = e.checked
           /\ \A i \in 1..e.checked.number : d[i] = c[i]
  PROVE  Agrees(d, e)
<1> SUFFICES ASSUME e.checked.number \in DOMAIN d, d[e.checked.number] = e.checked
             PROVE  /\ e.state = "ready" => e.identity \in e.checked.ready
                    /\ e.state = "closed" => Refused(d, e.identity, e.checked)
  BY DEF Agrees
<1>1. \A i \in 1..e.checked.number : d[i] = c[i]
  OBVIOUS
<1>2. Refused(c, e.identity, e.checked) => Refused(d, e.identity, e.checked)
  <2> SUFFICES ASSUME NEW audited \in 1..e.checked.number,
                      e.identity \notin c[audited].ready,
                      \A i \in (audited + 1)..e.checked.number : e.identity \notin c[i].touched
               PROVE  Refused(d, e.identity, e.checked)
    BY DEF Refused
  <2>1. \A i \in (audited + 1)..e.checked.number : i \in 1..e.checked.number
    OBVIOUS
  <2> QED
    BY <1>1, <2>1 DEF Refused
<1> QED
  BY <1>2 DEF Agrees

LEMMA NodeKeepsVerdicts ==
  ASSUME TypeInv, AuthInv, NodeTypes',
         \/ \E ready \in Authorities, touched \in Events : Mine(ready, touched)
         \/ \E length \in 1..MaxBlocks : Rollback(length)
  PROVE  AuthInv'
<1>1. entry' = entry /\ task' = task
  BY DEF Mine, Rollback
<1>2. /\ ChainOK' /\ mined <= mined'
      /\ \A b \in Block : b.hash <= mined /\ OnChain(b)' =>
           OnChain(b) /\ \A i \in 1..b.number : chain'[i] = chain[i]
      /\ \A b, c \in Block : OnChain(b)' /\ c.number <= b.number /\ OnChain(c) => OnChain(c)'
  BY BlocksStayBelow DEF TypeInv, AuthInv
<1>3. mined \in Nat /\ mined' \in Nat /\ \A b \in Block : b.hash \in Nat
  BY PublicWritesAssumption DEF TypeInv, NodeTypes, Block, PublicWritesAssumption
<1>4. \A b : Known(b) =>
        Known(b)' /\ (OnChain(b)' => OnChain(b) /\ \A i \in 1..b.number : chain'[i] = chain[i])
  BY <1>2, <1>3 DEF Known
<1>5. EntryInv'
  <2> SUFFICES ASSUME entry.state # "none"
               PROVE  Known(entry.checked)' /\ Agrees(chain', entry)
    BY <1>1 DEF EntryInv
  <2>1. Known(entry.checked) /\ Agrees(chain, entry)
    BY DEF AuthInv, EntryInv
  <2>2. Known(entry.checked)'
    BY <1>1, <1>4, <2>1 DEF Known
  <2>3. entry.checked.number \in DOMAIN chain' /\ chain'[entry.checked.number] = entry.checked
          => OnChain(entry.checked) /\ \A i \in 1..entry.checked.number : chain'[i] = chain[i]
    BY <1>1, <1>4, <2>1 DEF OnChain
  <2>4. entry.checked.number \in Nat
    BY <2>1, PublicWritesAssumption DEF Known, Block, PublicWritesAssumption
  <2> QED
    BY <2>1, <2>2, <2>3, <2>4, SameBelow DEF OnChain
<1>6. TaskInv'
  <2>1. TaskInv
    BY DEF AuthInv
  <2>2. task.step \notin {"idle", "head"} =>
          Known(task.block)' /\ (OnChain(task.block)' => OnChain(task.block))
    BY <1>1, <1>4, <2>1 DEF TaskInv, Known, OnChain
  <2>3. ASSUME task.step = "logs", OnChain(task.block)'
        PROVE  OnChain(entry.checked)'
    <3>1. /\ OnChain(entry.checked) /\ entry.checked.number <= task.block.number
          /\ task.block \in Block /\ entry.checked \in Block
      BY <2>1, <2>2, <2>3 DEF TaskInv, AuthInv, EntryInv, Known
    <3>2. OnChain(entry.checked)' <=> (entry.checked.number \in DOMAIN chain'
                                         /\ chain'[entry.checked.number] = entry.checked)
      BY <1>1 DEF OnChain
    <3>3. task.block.number \in DOMAIN chain' /\ chain'[task.block.number] = task.block
      BY <1>1, <2>3 DEF OnChain
    <3> QED
      BY <1>2, <3>1, <3>2, <3>3 DEF OnChain
  <2> QED
    BY <1>1, <2>1, <2>2, <2>3 DEF TaskInv
<1> QED
  BY <1>2, <1>5, <1>6 DEF AuthInv

-----------------------------------------------------------------------------
(* The verifier's steps *)

(* What the end of a task must bring. *)
Verdict(newEntry, verdict) ==
  /\ newEntry.state # "none" => Known(newEntry.checked) /\ Agrees(chain, newEntry)
  /\ verdict => /\ newEntry.identity = entry.identity /\ newEntry.state = "ready"
                /\ newEntry.checked \in {task.block, Latest}

LEMMA HeadKnown ==
  ASSUME NodeTypes, ChainOK
  PROVE  /\ Known(Latest) /\ OnChain(Latest)
         /\ \A b : OnChain(b) => b.number <= Latest.number
<1>1. Len(chain) \in DOMAIN chain /\ DOMAIN chain = 1..Len(chain) /\ Len(chain) \in Nat
  BY PublicWritesAssumption DEF NodeTypes, PublicWritesAssumption
<1>2. Latest = chain[Len(chain)] /\ Latest.number = Len(chain) /\ Latest.hash <= mined
  BY <1>1 DEF NodeTypes, ChainOK, Latest
<1> QED
  BY <1>1, <1>2, LatestIsBlock DEF Known, OnChain

LEMMA StartKnown ==
  ASSUME AuthInv, NEW identity, StartTask(identity), UNCHANGED node
  PROVE  AuthInv' /\ task'.step = "head"
<1>1. entry' = EntryFor(identity) /\ task'.step = "head"
  BY DEF StartTask, Idle
<1>2. EntryInv'
  BY <1>1 DEF EntryFor, AuthInv, EntryInv, Known, node
<1>3. TaskInv'
  BY <1>1 DEF TaskInv
<1> QED
  BY <1>1, <1>2, <1>3 DEF AuthInv, ChainOK, node

LEMMA SettleKeepsVerdicts ==
  ASSUME TypeInv, AuthInv, NEW newEntry, NEW verdict,
         Verdict(newEntry, verdict), Settle(newEntry, verdict)
  PROVE  AuthInv'
<1> DEFINE waiting == {r \in Requests : request[r].reading \notin {0, entry.identity}}
<1>1. UNCHANGED node
  BY DEF Settle, node
<1>2. CASE waiting = {}
  <2>1. entry' = newEntry /\ task' = Idle
    BY <1>2 DEF Settle
  <2>2. EntryInv'
    BY <1>1, <2>1 DEF Verdict, EntryInv, Known, node
  <2>3. TaskInv'
    BY SMTT(30), <2>1 DEF TaskInv, Idle
  <2> QED
    BY SMTT(30), <1>1, <2>2, <2>3 DEF AuthInv, ChainOK, node
<1>3. CASE waiting # {}
  BY <1>1, <1>3, StartKnown DEF Settle, TypeInv
<1> QED
  BY SMTT(30), <1>2, <1>3

(* The step that WritesNeedAuthority speaks of. *)
Authorised ==
  \A r \in Requests :
    request[r].phase = "asking" /\ request'[r].phase = "sent" =>
      \E block \in IF task'.step = "idle" THEN {entry'.checked} ELSE {task.block, Latest} :
        /\ OnChain(block) => request[r].reading \in block.ready
        /\ OnChain(task.block) => block.number >= task.block.number

LEMMA SettleAuthorises ==
  ASSUME Inv, TypeInv, AuthInv, task.step # "idle", NEW newEntry, NEW verdict \in BOOLEAN,
         Verdict(newEntry, verdict), Settle(newEntry, verdict)
  PROVE  Authorised
<1> SUFFICES ASSUME NEW r \in Requests, request[r].phase = "asking", request'[r].phase = "sent"
             PROVE  \E block \in IF task'.step = "idle" THEN {entry'.checked} ELSE {task.block, Latest} :
                      /\ OnChain(block) => request[r].reading \in block.ready
                      /\ OnChain(task.block) => block.number >= task.block.number
  BY DEF Authorised
<1>1. request[r].reading = entry.identity /\ verdict
  <2>1. request[r] \in Record /\ Requests = DOMAIN request
    BY DEF Inv, RequestsOK
  <2> QED
    BY <2>1 DEF Settle, Record, New
<1>2. /\ newEntry.checked \in {task.block, Latest}
      /\ OnChain(newEntry.checked) => request[r].reading \in newEntry.checked.ready
  BY <1>1, PublicWritesAssumption DEF Verdict, Agrees, OnChain, Known, Block, PublicWritesAssumption
<1>3. OnChain(task.block) => newEntry.checked.number >= task.block.number
  <2>1. task.block.number \in Nat /\ Latest.number \in Nat
    BY SMTT(30), HeadKnown, PublicWritesAssumption
    DEF AuthInv, TypeInv, ReadTypes, AnyBlock, NoBlock, Known, Block, PublicWritesAssumption
  <2> QED
    BY <1>2, <2>1, HeadKnown DEF AuthInv, TypeInv
<1>4. entry' = newEntry \/ task'.step # "idle"
  <2>1. \A identity : StartTask(identity) => task'.step # "idle"
    BY DEF StartTask, Idle
  <2> QED
    BY <2>1 DEF Settle
<1> QED
  BY <1>2, <1>3, <1>4

(* A deployment that no event of a stretch of the chain is about stays     *)
(* ready through it. *)
LEMMA NothingLost ==
  ASSUME NodeTypes, ChainOK, NEW from \in DOMAIN chain, NEW to \in DOMAIN chain, from <= to,
         NEW identity, identity \in chain[from].ready,
         \A i \in (from + 1)..to : identity \notin chain[i].touched
  PROVE  identity \in chain[to].ready
<1> DEFINE S == {i \in from..to : identity \notin chain[i].ready}
<1>1. from \in Nat \ {0} /\ to \in Nat /\ DOMAIN chain = 1..Len(chain) /\ Len(chain) \in Nat
  BY DEF NodeTypes
<1>2. S \in SUBSET Nat
  BY <1>1
<1>3. ASSUME S # {}
      PROVE  FALSE
  <2>1. PICK n \in S : \A k \in S : n <= k
    <3> HIDE DEF S
    <3> QED
      BY <1>2, <1>3, LeastNatural
  <2>2. n \in from..to /\ n # from /\ n \in Nat
    BY <1>1
  <2>3. n - 1 \in from..to /\ n \in (from + 1)..to /\ ~ (n <= n - 1) /\ n \in DOMAIN chain /\ n # 1
    BY <1>1, <2>2
  <2>4. n - 1 \notin S
    BY <2>1, <2>3
  <2>5. identity \in chain[n-1].ready /\ identity \notin chain[n].touched
    BY <2>3, <2>4
  <2> QED
    BY <2>1, <2>3, <2>5 DEF ChainOK
<1> QED
  BY <1>1, <1>3

(* No event about the deployment since the checked block. *)
Quiet ==
  OnChain(task.block) =>
    /\ OnChain(entry.checked) /\ entry.checked.number <= task.block.number
    /\ \A i \in (entry.checked.number + 1)..task.block.number : entry.identity \notin chain[i].touched

(* Validated(block) is right about the block. *)
LEMMA Revalidates ==
  ASSUME Inv, TypeInv, AuthInv, entry.state # "none", Known(task.block), Quiet
  PROVE  Verdict([entry EXCEPT !.checked = task.block], entry.state = "ready")
<1> DEFINE new == [identity |-> entry.identity, state |-> entry.state, checked |-> task.block]
           from == entry.checked.number
           to == task.block.number
<1>1. [entry EXCEPT !.checked = task.block] = new
  BY DEF Inv, TaskOK
<1>2. ASSUME OnChain(task.block)
      PROVE  /\ entry.state = "ready" => entry.identity \in task.block.ready
             /\ entry.state = "closed" => Refused(chain, entry.identity, task.block)
  <2>1. /\ from \in DOMAIN chain /\ to \in DOMAIN chain /\ from <= to
        /\ chain[from] = entry.checked /\ chain[to] = task.block
        /\ \A i \in (from + 1)..to : entry.identity \notin chain[i].touched
    BY <1>2 DEF Quiet, OnChain
  <2>2. from \in Nat \ {0} /\ to \in Nat
    BY <2>1 DEF TypeInv, NodeTypes
  <2>3. /\ entry.state = "ready" => entry.identity \in entry.checked.ready
        /\ entry.state = "closed" => Refused(chain, entry.identity, entry.checked)
    BY <2>1 DEF AuthInv, EntryInv, Agrees
  <2> HIDE DEF from, to
  <2>4. entry.state = "ready" => entry.identity \in task.block.ready
    BY <2>1, <2>3, NothingLost DEF TypeInv, AuthInv
  <2>5. ASSUME entry.state = "closed"
        PROVE  Refused(chain, entry.identity, task.block)
    <3>1. PICK audited \in 1..from :
            /\ entry.identity \notin chain[audited].ready
            /\ \A i \in (audited + 1)..from : entry.identity \notin chain[i].touched
      BY <2>3, <2>5 DEF Refused, from
    <3>2. audited \in 1..to
      BY <2>1, <2>2
    <3>3. \A i \in (audited + 1)..to : i \in (audited + 1)..from \/ i \in (from + 1)..to
      BY <2>2
    <3> QED
      BY <2>1, <3>1, <3>2, <3>3 DEF Refused, to
  <2> QED
    BY <2>4, <2>5
<1>3. Agrees(chain, new)
  BY <1>2 DEF Agrees, OnChain
<1> QED
  BY <1>1, <1>3 DEF Verdict

(* A verdict read from a block of the chain. *)
LEMMA AuditAgrees ==
  ASSUME NodeTypes, NEW identity, NEW b
  PROVE  Agrees(chain, [identity |-> identity, state |-> IF identity \in b.ready THEN "ready" ELSE "closed",
                        checked |-> b])
<1> DEFINE e == [identity |-> identity, state |-> IF identity \in b.ready THEN "ready" ELSE "closed",
                 checked |-> b]
<1>1. ASSUME b.number \in DOMAIN chain, chain[b.number] = b, identity \notin b.ready
      PROVE  Refused(chain, identity, b)
  <2>1. b.number \in 1..b.number /\ (b.number + 1)..b.number = {}
    BY <1>1 DEF NodeTypes
  <2> QED
    BY <1>1, <2>1 DEF Refused
<1>2. /\ e.identity = identity /\ e.checked = b
      /\ identity \in b.ready => e.state = "ready"
      /\ identity \notin b.ready => e.state = "closed"
  OBVIOUS
<1> HIDE DEF e
<1>3. Agrees(chain, e)
  BY <1>1, <1>2 DEF Agrees
<1> QED
  BY <1>3 DEF e

Good == AuthInv' /\ Authorised

LEMMA EndIsGood ==
  ASSUME Inv, TypeInv, AuthInv, task.step # "idle", NEW newEntry, NEW verdict \in BOOLEAN,
         Verdict(newEntry, verdict), Settle(newEntry, verdict)
  PROVE  Good
BY SettleKeepsVerdicts, SettleAuthorises DEF Good

LEMMA MoveIsGood ==
  ASSUME Inv, TypeInv, AuthInv, NEW step, NEW block, Step(step, block), Known(block),
         step \notin {"idle", "head", "tail"},
         step \in {"previous", "logs"} =>
           entry.state # "none" /\ entry.checked.number <= block.number,
         step = "logs" => OnChain(entry.checked)
  PROVE  Good
<1>1. task' = [task EXCEPT !.step = step, !.block = block]
      /\ UNCHANGED <<node, entry, request>>
  BY DEF Step, gateway
<1>2. task'.step = step /\ task'.block = block
  BY <1>1 DEF Inv, TaskOK
<1>3. TaskInv'
  BY <1>1, <1>2 DEF TaskInv, Known, OnChain, node
<1>4. ChainOK' /\ EntryInv'
  BY <1>1 DEF AuthInv, ChainOK, EntryInv, Known, node
<1>5. Authorised
  BY <1>1 DEF Authorised
<1> QED
  BY <1>3, <1>4, <1>5 DEF Good, AuthInv

LEMMA VerifyIsGood ==
  ASSUME Inv, TypeInv, AuthInv, Verify
  PROVE  Good
<1>1. /\ Known(Latest) /\ OnChain(Latest)
      /\ task.step \notin {"idle", "head"} => Known(task.block)
      /\ NodeTypes /\ ChainOK /\ EntryInv /\ TaskInv
  BY HeadKnown DEF AuthInv, TypeInv, TaskInv
<1>2. \A state, checked :
        [entry EXCEPT !.state = state, !.checked = checked]
          = [identity |-> entry.identity, state |-> state, checked |-> checked]
  BY EntryUpdate DEF Inv, TaskOK
<1>3. \A block : Known(block) => block.number \in Nat /\ block \in Block
  BY PublicWritesAssumption DEF Known, Block, PublicWritesAssumption
<1>4. CASE ReadHead
  <2>1. CASE Step("audit", Latest)
    BY <1>1, <2>1, MoveIsGood
  <2>2. CASE entry.state # "none" /\ Latest.number >= entry.checked.number /\ Step("previous", Latest)
    <3>1. entry.checked.number <= Latest.number
      BY <1>1, <1>3, <2>2 DEF EntryInv
    <3> QED
      BY <1>1, <2>2, <3>1, MoveIsGood
  <2> QED
    BY <1>4, <2>1, <2>2 DEF ReadHead
<1>5. CASE ReadPrevious
  <2>1. /\ Known(task.block) /\ Known(entry.checked) /\ entry.state # "none"
        /\ entry.checked.number <= task.block.number
    BY <1>1, <1>5 DEF ReadPrevious, TaskInv, EntryInv
  <2>2. CASE Step("audit", task.block)
    BY <2>1, <2>2, MoveIsGood
  <2>3. CASE OnChain(entry.checked) /\ Step("logs", task.block)
    BY <2>1, <2>3, MoveIsGood
  <2>4. CASE OnChain(entry.checked) /\ ~ (task.block.number > entry.checked.number)
             /\ Validated(task.block)
    <3>1. task.block.number = entry.checked.number
      BY <1>3, <2>1, <2>4
    <3>2. OnChain(task.block) => task.block = entry.checked
      BY <2>4, <3>1 DEF OnChain
    <3>3. Quiet
      BY <1>3, <2>1, <2>4, <3>1, <3>2 DEF Quiet
    <3>4. Verdict([entry EXCEPT !.checked = task.block], entry.state = "ready")
      BY <2>1, <3>3, Revalidates
    <3> QED
      BY <1>5, <2>4, <3>4, EndIsGood DEF Validated, ReadPrevious
  <2> QED
    BY <1>5, <2>2, <2>3, <2>4 DEF ReadPrevious
<1>6. CASE ReadLogs
  <2>1. /\ Known(task.block) /\ Known(entry.checked) /\ entry.state # "none"
        /\ entry.checked.number <= task.block.number
        /\ OnChain(task.block) => OnChain(entry.checked)
    BY <1>1, <1>6 DEF ReadLogs, TaskInv, EntryInv
  <2>2. CASE Step("audit", task.block)
    BY <2>1, <2>2, MoveIsGood
  <2>3. CASE ~ EventsUpTo(task.block.number) /\ Validated(task.block)
    <3>1. Quiet
      <4> SUFFICES ASSUME OnChain(task.block),
                          NEW i \in (entry.checked.number + 1)..task.block.number
                   PROVE  entry.identity \notin chain[i].touched
        BY <2>1 DEF Quiet
      <4>1. entry.checked.number \in Nat \ {0} /\ task.block.number \in 1..Len(chain) /\ Len(chain) \in Nat
        BY <1>1, <2>1 DEF NodeTypes, OnChain
      <4>2. i \in DOMAIN chain
        BY <1>1, <4>1 DEF NodeTypes
      <4> QED
        BY <2>3, <4>2 DEF EventsUpTo
    <3>2. Verdict([entry EXCEPT !.checked = task.block], entry.state = "ready")
      BY <2>1, <3>1, Revalidates
    <3> QED
      BY <1>6, <2>3, <3>2, EndIsGood DEF Validated, ReadLogs
  <2> QED
    BY <1>6, <2>2, <2>3 DEF ReadLogs
<1>7. CASE AuditHead
  BY <1>1, <1>7, MoveIsGood DEF AuditHead
<1>8. CASE AuditCached
  <2> DEFINE ready == entry.identity \in Latest.ready
             new == [identity |-> entry.identity, state |-> IF ready THEN "ready" ELSE "closed",
                     checked |-> Latest]
  <2>1. Settle(new, ready) /\ task.step # "idle"
    BY <1>2, <1>8 DEF AuditCached
  <2>2. Verdict(new, ready)
    BY <1>1, AuditAgrees DEF Verdict
  <2>3. ready \in BOOLEAN
    OBVIOUS
  <2> HIDE DEF ready, new
  <2> QED
    BY <2>1, <2>2, <2>3, EndIsGood
<1>9. CASE AuditState
  <2>1. /\ task.step = "state" /\ task.block.number \in DOMAIN chain
        /\ task' = [task EXCEPT !.step = "tail",
                                !.seen = entry.identity \in chain[task.block.number].ready]
        /\ UNCHANGED <<node, entry, request>>
    BY <1>9 DEF AuditState, gateway
  <2>2. /\ task'.step = "tail" /\ task'.block = task.block
        /\ task'.seen = (entry.identity \in chain[task.block.number].ready)
    BY <2>1 DEF Inv, TaskOK
  <2>3. TaskInv'
    BY <1>1, <2>1, <2>2 DEF TaskInv, Known, OnChain, node
  <2>4. ChainOK' /\ EntryInv'
    BY <1>1, <2>1 DEF ChainOK, EntryInv, Known, node
  <2>5. Authorised
    BY <2>1 DEF Authorised
  <2> QED
    BY <2>3, <2>4, <2>5 DEF Good, AuthInv
<1>10. CASE AuditTail
  <2> DEFINE new == [identity |-> entry.identity, state |-> IF task.seen THEN "ready" ELSE "closed",
                     checked |-> task.block]
  <2>1. Settle(new, task.seen) /\ task.step # "idle"
    BY <1>2, <1>10 DEF AuditTail
  <2>2. Known(task.block) /\ task.seen = (entry.identity \in task.block.ready) /\ task.seen \in BOOLEAN
    BY <1>1, <1>10 DEF AuditTail, TaskInv, Inv, TaskOK
  <2>3. new = [identity |-> entry.identity,
               state |-> IF entry.identity \in task.block.ready THEN "ready" ELSE "closed",
               checked |-> task.block]
    BY <2>2
  <2>4. Agrees(chain, new)
    BY <1>1, <2>3, AuditAgrees
  <2>5. Verdict(new, task.seen)
    BY <2>2, <2>4 DEF Verdict
  <2> HIDE DEF new
  <2> QED
    BY <2>1, <2>2, <2>5, EndIsGood
<1>11. CASE ReadFails
  <2> DEFINE new == [entry EXCEPT !.state = "none", !.checked = NoBlock]
  <2>1. Settle(new, FALSE) /\ task.step # "idle"
    BY <1>11 DEF ReadFails
  <2>2. new.state = "none"
    BY DEF Inv, TaskOK
  <2> HIDE DEF new
  <2>3. Verdict(new, FALSE)
    BY <2>2 DEF Verdict
  <2> QED
    BY <2>1, <2>3, EndIsGood
<1> QED
  BY <1>4, <1>5, <1>6, <1>7, <1>8, <1>9, <1>10, <1>11 DEF Verify

-----------------------------------------------------------------------------
(* The gateway's steps *)

(* No request is sent by what a request does, but a read. *)
LEMMA RequestIsGood ==
  ASSUME Inv, TypeInv, AuthInv, NEW r \in Requests,
         \/ TurnAway(r) \/ AdmitRead(r) \/ AdmitWrite(r) \/ AdmitConfig(r)
         \/ Deliver(r) \/ Reply(r) \/ UpstreamFails(r) \/ Deadline(r)
  PROVE  Good
<1>1. UNCHANGED node
  BY DEF TurnAway, AdmitRead, AdmitWrite, AdmitConfig, Deliver, Reply, UpstreamFails, Deadline
<1>2. ASSUME UNCHANGED <<node, entry, task>>
      PROVE  AuthInv'
  BY <1>2 DEF AuthInv, ChainOK, EntryInv, TaskInv, Known, OnChain, node
<1>3. AuthInv'
  <2>1. CASE AdmitWrite(r) \/ AdmitConfig(r)
    <3>1. Ask(deployment)
      BY <2>1 DEF AdmitWrite, AdmitConfig
    <3> QED
      BY <1>1, <1>2, <3>1, StartKnown DEF Ask, TypeInv
  <2>2. CASE ~ AdmitWrite(r) /\ ~ AdmitConfig(r)
    BY <1>1, <1>2, <2>2 DEF TurnAway, AdmitRead, Deliver, Reply, UpstreamFails, Deadline
  <2> QED
    BY <2>1, <2>2
<1>4. ASSUME NEW q \in Requests, request[q].phase = "asking"
      PROVE  request'[q].phase # "sent"
  <2>1. request \in [Requests -> Record]
    BY DEF Inv, RequestsOK
  <2>2. CASE q # r
    BY <1>4, <2>1, <2>2
    DEF TurnAway, AdmitRead, AdmitWrite, AdmitConfig, Deliver, Reply, UpstreamFails, Deadline
  <2>3. CASE q = r
    BY <1>4, <2>1, <2>3
    DEF TurnAway, AdmitRead, AdmitWrite, AdmitConfig, Deliver, Reply, UpstreamFails, Deadline,
        Arrives, Asking, New, Record
  <2> QED
    BY <2>2, <2>3
<1> QED
  BY <1>3, <1>4 DEF Good, Authorised

LEMMA InitVerdicts == Init => AuthInv
<1> SUFFICES ASSUME Init
             PROVE  AuthInv
  OBVIOUS
<1>1. ChainOK
  BY DEF Init, ChainOK
<1> QED
  BY <1>1 DEF Init, AuthInv, EntryInv, TaskInv, Idle

LEMMA StepIsGood ==
  ASSUME Inv, TypeInv, AuthInv, [Next]_vars
  PROVE  AuthInv' /\ (Authorised \/ UNCHANGED vars)
<1>1. ASSUME UNCHANGED <<node, entry, task>>
      PROVE  AuthInv'
  BY <1>1 DEF AuthInv, ChainOK, EntryInv, TaskInv, Known, OnChain, node
<1>2. UNCHANGED request => Authorised
  BY DEF Authorised
<1>3. CASE \/ \E ready \in Authorities, touched \in Events : Mine(ready, touched)
           \/ \E length \in 1..MaxBlocks : Rollback(length)
  <2>1. TypeInv'
    BY StepTypes
  <2>2. AuthInv'
    BY <1>3, <2>1, NodeKeepsVerdicts DEF TypeInv
  <2>3. UNCHANGED request
    BY <1>3 DEF Mine, Rollback, gateway
  <2> QED
    BY <1>2, <2>2, <2>3
<1>4. CASE \E to \in Deployments : Switch(to)
  BY <1>1, <1>2, <1>4 DEF Switch, gateway
<1>5. CASE UNCHANGED vars
  BY <1>1, <1>5 DEF vars
<1>6. CASE Verify
  BY <1>6, VerifyIsGood DEF Good
<1>7. CASE \E r \in Requests :
             \/ TurnAway(r) \/ AdmitRead(r) \/ AdmitWrite(r) \/ AdmitConfig(r)
             \/ Deliver(r) \/ Reply(r) \/ UpstreamFails(r) \/ Deadline(r)
  BY <1>7, RequestIsGood DEF Good
<1> QED
  BY <1>3, <1>4, <1>5, <1>6, <1>7 DEF Next

(* A cached verdict that allows is what an audit of the block checked last *)
(* would find, and one that refuses is out of date only where no event     *)
(* could tell; a write goes to the node only on a verdict on its own       *)
(* deployment at a block no older than the check: whatever blocks come and *)
(* go, and however the deployments change, between two reads.              *)
THEOREM WritesAreAuthorised == Spec => WritesNeedAuthority
<1>1. (Inv /\ TypeInv /\ AuthInv)' => CacheIsRight'
  BY DEF AuthInv, EntryInv, Agrees, Refused, CacheIsRight, OnChain
<1>2. Inv /\ TypeInv /\ AuthInv /\ [Next]_vars /\ (Inv /\ TypeInv /\ AuthInv)' =>
        [/\ CacheIsRight'
         /\ \A r \in Requests :
              request[r].phase = "asking" /\ request'[r].phase = "sent" =>
                \E block \in IF task'.step = "idle" THEN {entry'.checked} ELSE {task.block, Latest} :
                  /\ OnChain(block) => request[r].reading \in block.ready
                  /\ OnChain(task.block) => block.number >= task.block.number]_vars
  BY <1>1, StepIsGood DEF Authorised
<1>3. Spec => [](Inv /\ TypeInv /\ AuthInv)
  <2>1. Inv /\ TypeInv /\ AuthInv /\ [Next]_vars => AuthInv'
    BY StepIsGood
  <2> QED
    BY <2>1, InitInv, StepInv, InitTypes, StepTypes, InitVerdicts, PTL DEF Spec
<1>4. Spec => [][Next]_vars
  BY PTL DEF Spec
<1> QED
  BY <1>2, <1>3, <1>4, PTL DEF WritesNeedAuthority

-----------------------------------------------------------------------------
(***************************************************************************)
(* The private state of the page, for every set of accounts and any number *)
(* of sessions and of calls under way.                                     *)
(***************************************************************************)

(* One task at a time, and none but a connection has to do with the wallet's *)
(* consent.  Until the account is checked nobody is connected, and the       *)
(* session, if there is one, is the consenting account's.                    *)
PageTaskOK(t) ==
  /\ t.at \in {"approve", "login", "check", "network"} => account = None
  /\ t.at = "login" => cookie = NoCookie
  /\ t.at \in {"check", "network"} => (cookie \in sessions => cookie.address = t.who)

TasksOK ==
  /\ \A t \in tasks : PageTaskOK(t)
  /\ \A t, u \in tasks : t = u

(* Chain data asked for by address is answered for that address. *)
CallsOK == \A c \in calls : c.kind \in ByAddress => c.served /\ c.answer = c.owner

ClientInv ==
  /\ ClientTypeOK /\ TasksOK /\ CallsOK
  /\ signer = account
  /\ \A s \in sessions : s.id # 0
  /\ ShownIsOwn /\ SessionIsAccounts /\ SenderIsAsker

-----------------------------------------------------------------------------
(* Types. *)

Screens == [ByAddress \union ByCookie -> Some]

LEMMA NobodyTypes == None \in Some /\ NoCookie \in Cookies /\ NoCookie.id = 0
BY DEF Some, Cookies, NoCookie

LEMMA BlankType == Blank \in Screens /\ \A kind \in ByAddress : Blank[kind] = None
BY NobodyTypes DEF Blank, Screens, ByAddress, ByCookie

LEMMA CallType ==
  /\ Call.kind = "" /\ Call.owner = None /\ Call.sameClient = FALSE
  /\ Call.cookie = NoCookie /\ Call.served = FALSE /\ Call.answer = None
  /\ Call \in [kind : {""}, owner : Some, sameClient : BOOLEAN,
               cookie : Cookies, served : BOOLEAN, answer : Some]
BY NobodyTypes DEF Call

LEMMA LogoutType ==
  ASSUME ClientTypeOK
  PROVE  LogoutCall \in Calls /\ LogoutCall.kind = "logout"
<1>1. cookie \in Cookies
  BY DEF ClientTypeOK
<1> QED
  BY <1>1, CallType DEF LogoutCall, Calls

LEMMA OutdatedType ==
  ASSUME ClientInv
  PROVE  /\ Outdated \subseteq Calls
         /\ \A c \in Outdated : c.kind \in ByAddress => c.served /\ c.answer = c.owner
<1> SUFFICES ASSUME NEW c \in Outdated
             PROVE  c \in Calls /\ (c.kind \in ByAddress => c.served /\ c.answer = c.owner)
  OBVIOUS
<1>1. PICK d \in calls : c = [d EXCEPT !.sameClient = FALSE]
  BY DEF Outdated
<1>2. d \in Calls /\ (d.kind \in ByAddress => d.served /\ d.answer = d.owner)
  BY DEF ClientInv, ClientTypeOK, CallsOK
<1> QED
  BY <1>1, <1>2 DEF Calls

LEMMA ClientStart == ClientInit => ClientInv
<1> SUFFICES ASSUME ClientInit PROVE ClientInv
  OBVIOUS
<1>1. ClientTypeOK
  BY NobodyTypes, BlankType DEF ClientInit, ClientTypeOK, Screens
<1>2. TasksOK /\ CallsOK /\ SenderIsAsker /\ SessionIsAccounts
  BY DEF ClientInit, TasksOK, CallsOK, SenderIsAsker, SessionIsAccounts
<1>3. ShownIsOwn
  BY BlankType DEF ClientInit, ShownIsOwn
<1> QED
  BY <1>1, <1>2, <1>3 DEF ClientInit, ClientInv

-----------------------------------------------------------------------------
(* Reads and their answers. *)

(* What happens to the calls leaves the connection and its task alone. *)
LEMMA QuietStepKeeps ==
  ASSUME ClientInv, UNCHANGED <<wallet, connection, tasks, cookie, logins>>,
         calls' \subseteq Calls, CallsOK', sessions' \subseteq sessions,
         screen' \in Screens, ShownIsOwn'
  PROVE  ClientInv'
<1> USE DEF connection
<1>1. ClientTypeOK'
  BY DEF ClientInv, ClientTypeOK, Screens
<1>2. TasksOK'
  BY DEF ClientInv, TasksOK, PageTaskOK
<1>3. signer' = account' /\ (\A s \in sessions' : s.id # 0) /\ SenderIsAsker'
  BY DEF ClientInv, SenderIsAsker
<1>4. SessionIsAccounts'
  BY DEF ClientInv, SessionIsAccounts
<1> QED
  BY <1>1, <1>2, <1>3, <1>4 DEF ClientInv

LEMMA ScreenKept ==
  ASSUME ClientInv, UNCHANGED <<screen, account>>
  PROVE  screen' \in Screens /\ ShownIsOwn'
BY DEF ClientInv, ClientTypeOK, Screens, ShownIsOwn

LEMMA ReadKeeps ==
  ASSUME ClientInv, NEW kind \in ByAddress \union ByCookie, Read(kind)
  PROVE  ClientInv'
<1>1. account \in Some /\ cookie \in Cookies
  BY DEF ClientInv, ClientTypeOK
<1>2. PICK c : /\ calls' = calls \union {c} /\ c \in Calls
               /\ c.kind \in ByAddress => c.served /\ c.answer = c.owner
  <2>1. CASE kind = "balances"
    <3> DEFINE c == [Call EXCEPT !.kind = kind, !.owner = account, !.answer = account, !.served = TRUE]
    <3>1. c \in Calls /\ c.served /\ c.answer = c.owner
      BY <1>1, <2>1, CallType DEF Calls, ByAddress
    <3>2. calls' = calls \union {c}
      BY <2>1 DEF Read, Send
    <3> QED
      BY <3>1, <3>2
  <2>2. CASE kind = "gov"
    <3> DEFINE c == [Call EXCEPT !.kind = kind, !.owner = account, !.answer = account,
                                 !.served = TRUE, !.sameClient = TRUE]
    <3>1. c \in Calls /\ c.served /\ c.answer = c.owner
      BY <1>1, <2>2, CallType DEF Calls, ByAddress
    <3>2. calls' = calls \union {c}
      BY <2>2 DEF Read, Send
    <3> QED
      BY <3>1, <3>2
  <2>3. CASE kind = "latest"
    <3> DEFINE c == [Call EXCEPT !.kind = kind, !.owner = account, !.cookie = cookie]
    <3>1. c \in Calls /\ c.kind \notin ByAddress
      BY <1>1, <2>3, CallType DEF Calls, ByAddress, ByCookie
    <3>2. calls' = calls \union {c}
      BY <2>3 DEF Read, Send
    <3> QED
      BY <3>1, <3>2
  <2>4. CASE kind = "jobs"
    <3> DEFINE c == [Call EXCEPT !.kind = kind, !.cookie = cookie]
    <3>1. c \in Calls /\ c.kind \notin ByAddress
      BY <1>1, <2>4, CallType DEF Calls, ByAddress, ByCookie
    <3>2. calls' = calls \union {c}
      BY <2>4 DEF Read, Send
    <3> QED
      BY <3>1, <3>2
  <2> QED
    BY <2>1, <2>2, <2>3, <2>4 DEF ByAddress, ByCookie
<1>3. calls' \subseteq Calls /\ CallsOK'
  BY <1>2 DEF ClientInv, ClientTypeOK, CallsOK
<1>4. UNCHANGED <<wallet, connection, screen, tasks, cookie, sessions, logins>>
  BY DEF Read, serverVars
<1>5. screen' \in Screens /\ ShownIsOwn'
  BY <1>4, ScreenKept DEF connection
<1> QED
  BY <1>3, <1>4, <1>5, QuietStepKeeps

LEMMA ServeKeeps ==
  ASSUME ClientInv, NEW c \in calls, Serve(c)
  PROVE  ClientInv'
<1>1. c \in Calls /\ c.kind \notin ByAddress
  BY DEF ClientInv, ClientTypeOK, CallsOK, Serve
<1>2. PICK owner \in Some :
        calls' = Replace(calls, c, [c EXCEPT !.served = TRUE, !.cookie = NoCookie, !.answer = owner])
  <2>1. c.cookie.address \in Some /\ None \in Some
    BY <1>1, NobodyTypes DEF Calls, Cookies
  <2> DEFINE answer == IF c.kind = "logout" THEN None ELSE SessionOwner(c.cookie)
  <2>2. answer \in Some
    BY <2>1 DEF SessionOwner
  <2> QED
    BY <2>2 DEF Serve
<1> DEFINE d == [c EXCEPT !.served = TRUE, !.cookie = NoCookie, !.answer = owner]
<1>3. d \in Calls /\ d.kind \notin ByAddress
  BY <1>1, NobodyTypes DEF Calls
<1> HIDE DEF d
<1>4. calls' = (calls \ {c}) \union {d}
  BY <1>2 DEF Replace, d
<1>5. calls' \subseteq Calls /\ CallsOK'
  BY <1>3, <1>4 DEF ClientInv, ClientTypeOK, CallsOK
<1>6. UNCHANGED <<wallet, connection, screen, tasks, cookie, logins>> /\ sessions' \subseteq sessions
  BY DEF Serve
<1>7. screen' \in Screens /\ ShownIsOwn'
  BY <1>6, ScreenKept DEF connection
<1> QED
  BY <1>5, <1>6, <1>7, QuietStepKeeps

LEMMA FewerCalls ==
  ASSUME ClientInv, calls' \subseteq calls
  PROVE  calls' \subseteq Calls /\ CallsOK'
BY DEF ClientInv, ClientTypeOK, CallsOK

LEMMA FailKeeps ==
  ASSUME ClientInv, NEW c \in calls, Fail(c)
  PROVE  ClientInv'
<1>1. /\ UNCHANGED <<wallet, connection, screen, tasks, cookie, sessions, logins>>
      /\ calls' \subseteq calls
  BY DEF Fail, serverVars
<1>2. screen' \in Screens /\ ShownIsOwn'
  BY <1>1, ScreenKept DEF connection
<1> QED
  BY <1>1, <1>2, FewerCalls, QuietStepKeeps

(* Chain data is shown only to the account it was asked for. *)
LEMMA DeliverKeeps ==
  ASSUME ClientInv, NEW c \in calls, DeliverAnswer(c)
  PROVE  ClientInv'
<1>1. /\ UNCHANGED <<wallet, connection, tasks, cookie, sessions, logins>>
      /\ calls' \subseteq calls /\ Show(c) /\ c.kind # "logout"
  BY DEF DeliverAnswer, serverVars
<1>2. c \in Calls /\ (c.kind \in ByAddress => c.answer = c.owner)
  BY DEF ClientInv, ClientTypeOK, CallsOK
<1>3. c.kind \in ByAddress \union ByCookie /\ c.answer \in Some
  BY <1>1, <1>2 DEF Calls
<1>4. CASE UNCHANGED screen
  <2>1. screen' \in Screens /\ ShownIsOwn'
    BY <1>1, <1>4, ScreenKept DEF connection
  <2> QED
    BY <1>1, <2>1, FewerCalls, QuietStepKeeps
<1>5. CASE Accepted(c) /\ screen' = [screen EXCEPT ![c.kind] = c.answer]
  <2>1. screen \in Screens
    BY DEF ClientInv, ClientTypeOK, Screens
  <2>2. screen' \in Screens /\ screen'[c.kind] = c.answer
        /\ \A kind \in ByAddress : kind # c.kind => screen'[kind] = screen[kind]
    BY <1>3, <1>5, <2>1 DEF Screens
  <2>3. c.kind \in ByAddress => c.owner = account
    BY <1>5 DEF Accepted, ByAddress
  <2>4. ShownIsOwn'
    BY <1>1, <1>2, <2>2, <2>3 DEF ClientInv, ShownIsOwn, connection
  <2> QED
    BY <1>1, <2>2, <2>4, FewerCalls, QuietStepKeeps
<1> QED
  BY <1>1, <1>4, <1>5 DEF Show

LEMMA LoggedOutKeeps ==
  ASSUME ClientInv, NEW c \in calls, LoggedOut(c)
  PROVE  ClientInv'
<1>1. /\ UNCHANGED <<wallet, account, signer, watching, screen, tasks, sessions, logins>>
      /\ calls' \subseteq calls /\ cookie' = NoCookie
  BY DEF LoggedOut, connection
<1>2. NoCookie \notin sessions
  BY NobodyTypes DEF ClientInv
<1>3. ClientTypeOK'
  BY <1>1, FewerCalls, NobodyTypes DEF ClientInv, ClientTypeOK
<1>4. TasksOK'
  BY <1>1, <1>2 DEF ClientInv, TasksOK, PageTaskOK
<1>5. SessionIsAccounts'
  BY <1>1, <1>2 DEF SessionIsAccounts
<1>6. ShownIsOwn' /\ SenderIsAsker' /\ signer' = account' /\ \A s \in sessions' : s.id # 0
  BY <1>1 DEF ClientInv, ShownIsOwn, SenderIsAsker
<1> QED
  BY <1>1, <1>3, <1>4, <1>5, <1>6, FewerCalls DEF ClientInv

-----------------------------------------------------------------------------
(* Clearing and disconnecting. *)

(* A cleared page belongs to nobody, whatever is still under way. *)
LEMMA ClearKeeps ==
  ASSUME ClientInv, Clear, calls' \subseteq Outdated \union {LogoutCall},
         wallet' \in Accounts, UNCHANGED serverVars,
         tasks' = tasks \/ tasks' = {Task("connect", "approve", None)}
  PROVE  ClientInv'
<1>1. /\ account' = None /\ signer' = None /\ watching' = FALSE /\ screen' = Blank
      /\ UNCHANGED <<cookie, sessions, logins>>
  BY DEF Clear, serverVars
<1>2. calls' \subseteq Calls /\ CallsOK'
  BY OutdatedType, LogoutType DEF ClientInv, CallsOK, ByAddress
<1> DEFINE new == Task("connect", "approve", None)
<1>3. new \in Tasks /\ new.at = "approve" /\ new.kind = "connect"
  BY NobodyTypes DEF Task, Tasks
<1> HIDE DEF new
<1>4. tasks' \subseteq Tasks
  BY <1>3 DEF ClientInv, ClientTypeOK, new
<1>5. ClientTypeOK'
  BY <1>1, <1>2, <1>4, NobodyTypes, BlankType DEF ClientInv, ClientTypeOK, Screens
<1>6. TasksOK'
  <2>1. CASE tasks' = tasks
    BY <1>1, <2>1 DEF ClientInv, TasksOK, PageTaskOK
  <2>2. CASE tasks' = {new}
    BY <1>1, <1>3, <2>2 DEF TasksOK, PageTaskOK
  <2> QED
    BY <2>1, <2>2 DEF new
<1>7. ShownIsOwn' /\ SessionIsAccounts' /\ SenderIsAsker'
  BY <1>1, BlankType DEF ShownIsOwn, SessionIsAccounts, SenderIsAsker
<1> QED
  BY <1>1, <1>2, <1>5, <1>6, <1>7 DEF ClientInv

LEMMA DisconnectKeeps ==
  ASSUME ClientInv, Disconnect
  PROVE  ClientInv'
BY ClearKeeps DEF ClientInv, ClientTypeOK, Disconnect

LEMMA ConfigChangedKeeps ==
  ASSUME ClientInv, ConfigChanged
  PROVE  ClientInv'
BY ClearKeeps DEF ClientInv, ClientTypeOK, ConfigChanged

LEMMA WalletSwitchesKeeps ==
  ASSUME ClientInv, NEW other \in Accounts, WalletSwitches(other)
  PROVE  ClientInv'
<1>1. wallet' \in Accounts /\ UNCHANGED <<tasks, serverVars>>
  BY DEF WalletSwitches
<1>2. CASE watching
  BY <1>1, <1>2, ClearKeeps DEF WalletSwitches
<1>3. CASE UNCHANGED <<connection, screen, calls>>
  <2> USE <1>1, <1>3 DEF connection, serverVars
  <2>1. ClientTypeOK' /\ TasksOK' /\ CallsOK'
    BY DEF ClientInv, ClientTypeOK, TasksOK, PageTaskOK, CallsOK
  <2>2. ShownIsOwn' /\ SessionIsAccounts' /\ SenderIsAsker'
    BY DEF ClientInv, ShownIsOwn, SessionIsAccounts, SenderIsAsker
  <2> QED
    BY <2>1, <2>2 DEF ClientInv
<1> QED
  BY <1>2, <1>3 DEF WalletSwitches

-----------------------------------------------------------------------------
(* Tasks. *)

LEMMA OneTask ==
  ASSUME ClientInv, NEW t \in tasks
  PROVE  /\ t \in Tasks /\ PageTaskOK(t)
         /\ tasks = {t} /\ tasks \ {t} = {}
         /\ \A u : Replace(tasks, t, u) = {u}
BY DEF ClientInv, ClientTypeOK, TasksOK, Replace

(* A step of the task that leaves the connection and the session alone. *)
LEMMA TaskMovesOn ==
  ASSUME ClientInv, UNCHANGED <<wallet, connection, calls, serverVars>>,
         screen' \in Screens, ShownIsOwn',
         \/ tasks' = {}
         \/ \E u \in Tasks : /\ tasks' = {u} /\ u.at \in {"chain", "post", "list"}
                             /\ u.kind = "send" => signer \in {None, u.who}
  PROVE  ClientInv'
<1> USE DEF connection, serverVars
<1>1. ClientTypeOK'
  BY DEF ClientInv, ClientTypeOK, Screens
<1>2. TasksOK' /\ SenderIsAsker'
  BY DEF TasksOK, PageTaskOK, SenderIsAsker
<1>3. CallsOK' /\ SessionIsAccounts'
  BY DEF ClientInv, CallsOK, SessionIsAccounts
<1> QED
  BY <1>1, <1>2, <1>3 DEF ClientInv

LEMMA ConnectKeeps ==
  ASSUME ClientInv, Connect
  PROVE  ClientInv'
<1>1. tasks' = {Task("connect", "approve", None)} /\ UNCHANGED <<wallet, serverVars>>
  BY DEF Connect, Busy
<1>2. CASE Clear /\ calls' = Outdated
  BY <1>1, <1>2, ClearKeeps DEF ClientInv, ClientTypeOK
<1>3. CASE account = None /\ UNCHANGED <<connection, screen, calls>>
  <2> DEFINE new == Task("connect", "approve", None)
  <2>1. new \in Tasks /\ new.at = "approve" /\ new.kind = "connect"
    BY NobodyTypes DEF Task, Tasks
  <2>2. tasks' = {new}
    BY <1>1
  <2> HIDE DEF new
  <2> USE <1>1, <1>3 DEF connection, serverVars
  <2>3. ClientTypeOK' /\ CallsOK'
    BY <2>1, <2>2 DEF ClientInv, ClientTypeOK, CallsOK
  <2>4. TasksOK' /\ SenderIsAsker'
    BY <2>1, <2>2 DEF TasksOK, PageTaskOK, SenderIsAsker
  <2>5. ShownIsOwn' /\ SessionIsAccounts'
    BY DEF ClientInv, ShownIsOwn, SessionIsAccounts
  <2> QED
    BY <2>3, <2>4, <2>5 DEF ClientInv
<1> QED
  BY <1>2, <1>3 DEF Connect

(* A connection under way: nobody is connected, and the session changes hands. *)
LEMMA ConnectingKeeps ==
  ASSUME ClientInv, UNCHANGED <<wallet, connection, screen, calls>>, account = None,
         \/ tasks' = {}
         \/ \E u \in Tasks : tasks' = {u} /\ PageTaskOK(u)',
         cookie' \in Cookies, sessions' \subseteq Cookies, logins' \in Nat,
         \A s \in sessions' : s.id # 0
  PROVE  ClientInv'
<1> USE DEF connection
<1>1. ClientTypeOK' /\ CallsOK'
  BY DEF ClientInv, ClientTypeOK, CallsOK
<1>2. TasksOK'
  BY DEF TasksOK
<1>3. SenderIsAsker'
  BY DEF ClientInv, SenderIsAsker
<1>4. ShownIsOwn' /\ SessionIsAccounts'
  BY DEF ClientInv, ShownIsOwn, SessionIsAccounts
<1> QED
  BY <1>1, <1>2, <1>3, <1>4 DEF ClientInv

LEMMA ApproveKeeps ==
  ASSUME ClientInv, NEW t \in tasks, Approve(t)
  PROVE  ClientInv'
<1>1. t \in Tasks /\ t.at = "approve" /\ account = None /\ wallet \in Accounts
  BY OneTask DEF PageTaskOK, Approve, ClientInv, ClientTypeOK
<1>2. PICK u \in Tasks : u.at = "login" /\ tasks' = {u}
  <2> DEFINE u == [t EXCEPT !.at = "login", !.who = wallet]
  <2>1. u \in Tasks /\ u.at = "login"
    BY <1>1 DEF Tasks, Some
  <2>2. tasks' = {u}
    BY OneTask DEF Approve
  <2> QED
    BY <2>1, <2>2
<1>3. /\ cookie' = NoCookie /\ sessions' \subseteq sessions
      /\ UNCHANGED <<wallet, connection, screen, calls, logins>>
  BY DEF Approve
<1>4. PageTaskOK(u)'
  BY <1>1, <1>2, <1>3 DEF PageTaskOK, connection
<1> QED
  BY <1>1, <1>2, <1>3, <1>4, NobodyTypes, ConnectingKeeps DEF ClientInv, ClientTypeOK

(* A session that begins now is the consenting account's. *)
LEMMA LoginKeeps ==
  ASSUME ClientInv, NEW t \in tasks, Login(t)
  PROVE  ClientInv'
<1> DEFINE u == [t EXCEPT !.at = "check"]
<1>1. /\ t \in Tasks /\ t.at = "login" /\ account = None /\ cookie = NoCookie
      /\ cookie \in Cookies /\ sessions \subseteq Cookies /\ logins \in Nat
  BY OneTask DEF PageTaskOK, Login, ClientInv, ClientTypeOK
<1>2. u \in Tasks /\ u.at = "check" /\ u.who = t.who /\ t.who \in Some
  BY <1>1 DEF Tasks
<1>3. tasks' = {u}
  BY OneTask DEF Login, Advance
<1> HIDE DEF u
<1>4. UNCHANGED <<wallet, connection, screen, calls>>
  BY DEF Login
<1>5. CASE UNCHANGED serverVars
  <2>1. PageTaskOK(u)'
    BY <1>1, <1>2, <1>4, <1>5, NobodyTypes DEF ClientInv, PageTaskOK, connection, serverVars
  <2> QED
    BY <1>1, <1>2, <1>3, <1>4, <1>5, <2>1, ConnectingKeeps DEF ClientInv, serverVars
<1>6. CASE /\ logins' = logins + 1
           /\ cookie' = [id |-> logins', address |-> t.who]
           /\ sessions' = sessions \union {cookie'}
  <2>1. cookie' \in Cookies /\ cookie'.address = t.who /\ cookie'.id # 0 /\ logins' \in Nat
    BY <1>1, <1>2, <1>6 DEF Cookies
  <2>2. PageTaskOK(u)'
    BY <1>1, <1>2, <1>4, <2>1 DEF PageTaskOK, connection
  <2>3. sessions' \subseteq Cookies /\ \A s \in sessions' : s.id # 0
    BY <1>1, <1>6, <2>1 DEF ClientInv
  <2> QED
    BY <1>1, <1>2, <1>3, <1>4, <2>1, <2>2, <2>3, ConnectingKeeps
<1> QED
  BY <1>5, <1>6 DEF Login

(* The account that is found again is the one that signed in. *)
LEMMA LogOutAgainKeeps ==
  ASSUME ClientInv, NEW t \in tasks, LogOutAgain(t), account = None, UNCHANGED <<wallet, screen>>
  PROVE  ClientInv'
<1>1. /\ tasks' = {} /\ cookie' = NoCookie /\ sessions' \subseteq sessions
      /\ UNCHANGED <<wallet, connection, screen, calls, logins>>
  BY OneTask DEF LogOutAgain, End
<1>2. sessions \subseteq Cookies /\ logins \in Nat
  BY DEF ClientInv, ClientTypeOK
<1> QED
  BY <1>1, <1>2, NobodyTypes, ConnectingKeeps DEF ClientInv

LEMMA CheckAccountKeeps ==
  ASSUME ClientInv, NEW t \in tasks, CheckAccount(t)
  PROVE  ClientInv'
<1>1. /\ t \in Tasks /\ t.at = "check" /\ account = None
      /\ cookie \in sessions => cookie.address = t.who
      /\ cookie \in Cookies /\ sessions \subseteq Cookies /\ logins \in Nat
  BY OneTask DEF PageTaskOK, CheckAccount, ClientInv, ClientTypeOK
<1>2. CASE wallet # t.who
  BY <1>1, <1>2, LogOutAgainKeeps DEF CheckAccount
<1>3. CASE wallet = t.who
  <2> DEFINE u == [t EXCEPT !.at = "network"]
  <2>1. u \in Tasks /\ u.at = "network" /\ u.who = t.who
    BY <1>1 DEF Tasks
  <2>2. tasks' = {u} /\ UNCHANGED <<wallet, connection, screen, calls, serverVars>>
    BY <1>3, OneTask DEF CheckAccount, Advance
  <2> HIDE DEF u
  <2>3. PageTaskOK(u)'
    BY <1>1, <2>1, <2>2 DEF PageTaskOK, connection, serverVars
  <2> QED
    BY <1>1, <2>1, <2>2, <2>3, ConnectingKeeps DEF ClientInv, serverVars
<1> QED
  BY <1>2, <1>3

(* The account that is connected is the one that signed in. *)
LEMMA CheckNetworkKeeps ==
  ASSUME ClientInv, NEW t \in tasks, CheckNetwork(t)
  PROVE  ClientInv'
<1>1. /\ t \in Tasks /\ t.at = "network" /\ account = None /\ t.who \in Some
      /\ cookie \in sessions => cookie.address = t.who
      /\ cookie \in Cookies /\ sessions \subseteq Cookies /\ logins \in Nat
  BY OneTask DEF PageTaskOK, CheckNetwork, ClientInv, ClientTypeOK, Tasks
<1>2. CASE LogOutAgain(t)
  BY <1>1, <1>2, LogOutAgainKeeps DEF CheckNetwork
<1>3. CASE ~LogOutAgain(t)
  <2> DEFINE u == [t EXCEPT !.at = "list", !.cookie = cookie]
  <2>1. u \in Tasks /\ u.at = "list" /\ u.who = t.who
    BY <1>1 DEF Tasks
  <2>2. tasks' = {u}
    BY <1>3, OneTask DEF CheckNetwork
  <2>3. /\ account' = t.who /\ signer' = t.who /\ watching' = TRUE /\ calls' = Outdated
        /\ UNCHANGED <<wallet, screen, cookie, sessions, logins>>
    BY <1>3 DEF CheckNetwork, serverVars
  <2> HIDE DEF u
  <2>5. ClientTypeOK'
    BY <1>1, <2>1, <2>2, <2>3, OutdatedType DEF ClientInv, ClientTypeOK
  <2>6. CallsOK'
    BY <2>3, OutdatedType DEF CallsOK
  <2>7. TasksOK'
    BY <2>1, <2>2 DEF TasksOK, PageTaskOK
  <2>8. ShownIsOwn'
    BY <1>1, <2>3 DEF ClientInv, ShownIsOwn
  <2>9. SessionIsAccounts' /\ SenderIsAsker'
    BY <1>1, <2>1, <2>2, <2>3 DEF SessionIsAccounts, SenderIsAsker
  <2> QED
    BY <2>3, <2>5, <2>6, <2>7, <2>8, <2>9 DEF ClientInv
<1> QED
  BY <1>2, <1>3

LEMMA TaskEnds ==
  ASSUME ClientInv, NEW t \in tasks, End(t),
         UNCHANGED <<wallet, connection, screen, calls, serverVars>>
  PROVE  ClientInv'
<1>1. tasks' = {}
  BY OneTask DEF End
<1>2. screen' \in Screens /\ ShownIsOwn'
  BY ScreenKept DEF connection
<1> QED
  BY <1>1, <1>2, TaskMovesOn

LEMMA TaskGoesOn ==
  ASSUME ClientInv, UNCHANGED <<wallet, connection, screen, calls, serverVars>>,
         NEW u \in Tasks, tasks' = {u}, u.at \in {"chain", "post", "list"},
         u.kind = "send" => signer \in {None, u.who}
  PROVE  ClientInv'
<1>1. screen' \in Screens /\ ShownIsOwn'
  BY ScreenKept DEF connection
<1> QED
  BY <1>1, TaskMovesOn

LEMMA AskKeeps ==
  ASSUME ClientInv, NEW kind \in {"send", "check"}, AskChain(kind)
  PROVE  ClientInv'
<1> DEFINE u == Task(kind, "chain", account)
<1>1. account \in Some /\ signer = account
  BY DEF ClientInv, ClientTypeOK
<1>2. u \in Tasks /\ u.at = "chain" /\ u.who = account
  BY <1>1, NobodyTypes DEF Task, Tasks
<1>3. tasks' = {u} /\ UNCHANGED <<wallet, connection, screen, calls, serverVars>>
  BY DEF AskChain
<1> HIDE DEF u
<1> QED
  BY <1>1, <1>2, <1>3, TaskGoesOn

LEMMA AskCancelKeeps ==
  ASSUME ClientInv, AskCancel
  PROVE  ClientInv'
<1> DEFINE v == Task("cancel", "post", account)
           u == [v EXCEPT !.cookie = cookie]
<1>1. account \in Some /\ cookie \in Cookies
  BY DEF ClientInv, ClientTypeOK
<1>2. v \in Tasks /\ v.at = "post" /\ v.kind = "cancel"
  BY <1>1, NobodyTypes DEF Task, Tasks
<1>3. tasks' = {u} /\ UNCHANGED <<wallet, connection, screen, calls, serverVars>>
  BY DEF AskCancel
<1> HIDE DEF v
<1>4. u \in Tasks /\ u.at = "post" /\ u.kind = "cancel"
  BY <1>1, <1>2 DEF Tasks
<1> HIDE DEF u
<1> QED
  BY <1>3, <1>4, TaskGoesOn

LEMMA PostJobKeeps ==
  ASSUME ClientInv, NEW t \in tasks, PostJob(t)
  PROVE  ClientInv'
<1> DEFINE u == [t EXCEPT !.at = "post", !.cookie = cookie]
<1>1. t \in Tasks /\ t.kind = "check" /\ cookie \in Cookies
  BY OneTask DEF PostJob, ClientInv, ClientTypeOK
<1>2. u \in Tasks /\ u.at = "post" /\ u.kind = "check"
  BY <1>1 DEF Tasks
<1>3. tasks' = {u} /\ UNCHANGED <<wallet, connection, screen, calls, serverVars>>
  BY OneTask DEF PostJob
<1> HIDE DEF u
<1> QED
  BY <1>2, <1>3, TaskGoesOn

(* A task beyond the wallet still has the signer it was asked under, or none. *)
LEMMA SameAsker ==
  ASSUME ClientInv, NEW t \in tasks
  PROVE  t.kind = "send" => signer \in {None, t.who}
BY DEF ClientInv, SenderIsAsker

LEMMA ServeTaskKeeps ==
  ASSUME ClientInv, NEW t \in tasks, ServeTask(t)
  PROVE  ClientInv'
<1> DEFINE owner == SessionOwner(t.cookie)
           u == [t EXCEPT !.cookie = NoCookie, !.answer = owner]
<1>1. t \in Tasks /\ t.at \in {"post", "list"}
  BY OneTask DEF ServeTask
<1>2. t.cookie.address \in Some
  BY <1>1 DEF Tasks, Cookies
<1>3. owner \in Some
  BY <1>2, NobodyTypes DEF SessionOwner
<1> HIDE DEF owner
<1>4. u \in Tasks /\ u.at = t.at /\ u.kind = t.kind /\ u.who = t.who
  BY <1>1, <1>3, NobodyTypes DEF Tasks
<1>5. UNCHANGED <<wallet, connection, screen, calls, serverVars>>
  BY DEF ServeTask
<1>6. CASE End(t)
  BY <1>5, <1>6, TaskEnds
<1>7. CASE tasks' = Replace(tasks, t, u)
  <2>1. tasks' = {u}
    BY <1>7, OneTask
  <2> HIDE DEF u
  <2> QED
    BY <1>1, <1>4, <1>5, <2>1, SameAsker, TaskGoesOn
<1> QED
  BY <1>6, <1>7 DEF ServeTask, owner

LEMMA PrivateDataShown ==
  ASSUME ClientInv, UNCHANGED account, NEW kind \in ByCookie, NEW who \in Some,
         screen' = [screen EXCEPT ![kind] = who]
  PROVE  screen' \in Screens /\ ShownIsOwn'
<1>1. screen \in Screens
  BY DEF ClientInv, ClientTypeOK, Screens
<1>2. screen' \in Screens /\ \A k \in ByAddress : screen'[k] = screen[k]
  BY <1>1 DEF Screens, ByAddress, ByCookie
<1> QED
  BY <1>2 DEF ClientInv, ShownIsOwn

LEMMA ShowJobKeeps ==
  ASSUME ClientInv, NEW t \in tasks, ShowJob(t)
  PROVE  ClientInv'
<1> DEFINE u == [t EXCEPT !.at = "list", !.cookie = cookie, !.answer = None]
<1>1. t \in Tasks /\ cookie \in Cookies /\ t.answer \in Some
  BY OneTask DEF ClientInv, ClientTypeOK, Tasks
<1>2. u \in Tasks /\ u.at = "list" /\ u.kind = t.kind /\ u.who = t.who
  BY <1>1, NobodyTypes DEF Tasks
<1>3. tasks' = {u} /\ UNCHANGED <<wallet, connection, calls, serverVars>>
  BY OneTask DEF ShowJob
<1> HIDE DEF u
<1>4. screen' = screen \/ screen' = [screen EXCEPT !["latest"] = t.answer]
  BY DEF ShowJob
<1>5. screen' \in Screens /\ ShownIsOwn'
  BY <1>1, <1>3, <1>4, ScreenKept, PrivateDataShown DEF ByCookie, connection
<1> QED
  BY <1>2, <1>3, <1>5, SameAsker, TaskMovesOn

LEMMA ShowJobsKeeps ==
  ASSUME ClientInv, NEW t \in tasks, ShowJobs(t)
  PROVE  ClientInv'
<1>1. t \in Tasks /\ t.answer \in Some
  BY OneTask DEF Tasks
<1>2. tasks' = {} /\ UNCHANGED <<wallet, connection, calls, serverVars>>
  BY OneTask DEF ShowJobs, End
<1>3. screen' = [screen EXCEPT !["jobs"] = t.answer]
  BY DEF ShowJobs
<1>4. screen' \in Screens /\ ShownIsOwn'
  BY <1>1, <1>2, <1>3, PrivateDataShown DEF ByCookie, connection
<1> QED
  BY <1>2, <1>4, TaskMovesOn

-----------------------------------------------------------------------------

LEMMA ClientStep == ClientInv /\ [ClientNext]_clientVars => ClientInv'
<1> SUFFICES ASSUME ClientInv, [ClientNext]_clientVars PROVE ClientInv'
  OBVIOUS
<1>1. ASSUME NEW c \in calls, Serve(c) \/ DeliverAnswer(c) \/ LoggedOut(c) \/ Fail(c)
      PROVE  ClientInv'
  BY <1>1, ServeKeeps, DeliverKeeps, LoggedOutKeeps, FailKeeps
<1>2. ASSUME NEW t \in tasks, WalletTimeout(t) \/ SkipList(t) \/ SendTransaction(t)
      PROVE  ClientInv'
  BY <1>2, TaskEnds DEF WalletTimeout, SkipList, SendTransaction
<1>3. ASSUME NEW t \in tasks, Approve(t) \/ Login(t) \/ TaskStep(t)
      PROVE  ClientInv'
  BY <1>3, ApproveKeeps, LoginKeeps, CheckAccountKeeps, CheckNetworkKeeps, PostJobKeeps,
     ServeTaskKeeps, ShowJobKeeps, ShowJobsKeeps DEF TaskStep
<1>4. CASE UNCHANGED clientVars
  <2> USE <1>4 DEF clientVars, connection, serverVars
  <2>1. ClientTypeOK' /\ TasksOK' /\ CallsOK'
    BY DEF ClientInv, ClientTypeOK, TasksOK, PageTaskOK, CallsOK
  <2>2. ShownIsOwn' /\ SessionIsAccounts' /\ SenderIsAsker'
    BY DEF ClientInv, ShownIsOwn, SessionIsAccounts, SenderIsAsker
  <2> QED
    BY <2>1, <2>2 DEF ClientInv
<1> QED
  BY <1>1, <1>2, <1>3, <1>4, ReadKeeps, DisconnectKeeps, ConfigChangedKeeps,
     WalletSwitchesKeeps, ConnectKeeps, AskKeeps, AskCancelKeeps DEF ClientNext

LEMMA ClientInvariant == ClientSpec => []ClientInv
BY ClientStart, ClientStep, PTL DEF ClientSpec

(* The page's variables keep their types. *)
THEOREM ClientTypes == ClientSpec => []ClientTypeOK
<1>1. ClientInv => ClientTypeOK
  BY DEF ClientInv
<1> QED
  BY <1>1, ClientInvariant, PTL

(* Chain data on the screen is the connected account's, however many reads *)
(* of earlier accounts are answered late (App.svelte refresh,              *)
(* refreshGovernance, loadClaims).                                         *)
THEOREM OnlyOwnDataIsShown == ClientSpec => []ShownIsOwn
<1>1. ClientInv => ShownIsOwn
  BY DEF ClientInv
<1> QED
  BY <1>1, ClientInvariant, PTL

(* The browser's session is the connected account's, for any number of     *)
(* sign-ins, logouts and changes of the wallet (App.svelte connect).       *)
THEOREM SessionsFollowTheAccount == ClientSpec => []SessionIsAccounts
<1>1. ClientInv => SessionIsAccounts
  BY DEF ClientInv
<1> QED
  BY <1>1, ClientInvariant, PTL

(* A transaction is signed by the account that asked for it, or not at all *)
(* (App.svelte task, tx).                                                  *)
THEOREM AskersSign == ClientSpec => []SenderIsAsker
<1>1. ClientInv => SenderIsAsker
  BY DEF ClientInv
<1> QED
  BY <1>1, ClientInvariant, PTL
=============================================================================
