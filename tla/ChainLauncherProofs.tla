-------------------------- MODULE ChainLauncherProofs --------------------------
(***************************************************************************)
(* For any number of starts, blocks, dumps and damages: which snapshots a  *)
(* start finds, what a checkpoint publishes and what exit code 0 means;    *)
(* that the development network's scripts leave the launcher what it is,   *)
(* and that a network declared ready has the contracts of its descriptors. *)
(***************************************************************************)
EXTENDS Devnet, TLAPS

Tasks == [phase : {"idle", "copying", "copied", "valid", "kept"}, before : Nat,
          copy : Files, final : BOOLEAN, aborted : BOOLEAN]

Types ==
  /\ run \in Nat /\ version \in Nat /\ original \in Nat /\ damages \in Nat
  /\ started \in BOOLEAN
  /\ chain \in States /\ latest \in States /\ past \subseteq States
  /\ primary \in Files /\ backup \in Files /\ writing \in Files
  /\ task \in Tasks

(* Only a launcher that is up, and has marked the chain as started, has a  *)
(* checkpoint in flight; the final one follows a clean exit.               *)
Control ==
  /\ launcher = "up" => started
  /\ task.phase # "idle" => launcher = "up" /\ original < version
  /\ original <= version
  /\ task.final => task.phase # "idle" /\ exited = "clean"
  /\ launcher = "up" /\ exited # "no" => node = "down"

HasCopy == task.phase \in {"copied", "valid", "kept"}

(* Snapshots come from copies that were read as whole. *)
Whole ==
  /\ task.phase \in {"valid", "kept"} => task.copy.whole
  /\ damages = 0 => /\ primary.exists => primary.whole
                    /\ backup.exists => backup.whole

(* The primary is the checkpoint published last, if there ever was one. *)
Continues ==
  /\ primary.exists => primary.state = latest /\ started
  /\ ~started => latest = Genesis

(* From the checkpoint published last, over the copy in flight and the     *)
(* dump, to the head: all on the history of this node.                     *)
Ordered ==
  /\ latest.block <= chain.block
  /\ node # "down" => chain \in past
  /\ original < version =>
       /\ writing.state \in past
       /\ latest.block <= writing.state.block /\ writing.state.block <= chain.block
  /\ HasCopy =>
       /\ task.copy.exists /\ task.copy.state \in past
       /\ latest.block <= task.copy.state.block
       /\ task.copy.state.block <= writing.state.block

(* A node that exited by itself has left its last state in the dump. *)
Saved ==
  /\ launcher = "up" /\ exited = "clean" => writing = File(chain, TRUE)
  /\ task.final /\ HasCopy => task.copy.state = chain
  /\ status = "zero" => /\ launcher = "down" /\ node = "down"
                        /\ damages = 0 => primary.state = chain

(* A dump that was begun or ended is of this history. *)
Dumped == version # 0 => writing.exists

Inv == Types /\ Control /\ Whole /\ Continues /\ Ordered /\ Saved /\ Dumped

-----------------------------------------------------------------------------
LEMMA GenesisTypes == Genesis \in States /\ NoFile \in Files /\ Idle \in Tasks
BY DEF Genesis, States, NoFile, Files, Idle, Tasks

LEMMA FileFacts ==
  ASSUME NEW s \in States, NEW whole \in BOOLEAN
  PROVE  /\ File(s, whole) \in Files
         /\ File(s, whole).state = s /\ File(s, whole).whole = whole /\ File(s, whole).exists
BY DEF File, Files

LEMMA InitInv == Init => Inv
<1> SUFFICES ASSUME Init
             PROVE  Inv
  OBVIOUS
<1>1. Types
  BY GenesisTypes DEF Init, Types
<1>2. Control /\ Whole /\ Continues /\ Ordered /\ Saved /\ Dumped
  BY DEF Init, Control, Whole, Continues, Ordered, Saved, Dumped, HasCopy, Idle, NoFile, Genesis
<1> QED
  BY <1>1, <1>2 DEF Inv

LEMMA LaunchInv ==
  ASSUME Inv, Launch
  PROVE  Inv'
<1>1. PICK s \in {Genesis, primary.state, backup.state} :
        Restored(s) /\ chain' = s /\ past' = {s}
  BY DEF Launch
<1>2. /\ run' = run + 1 /\ launcher' = "up" /\ started' = TRUE /\ node' = "idle"
      /\ exited' = "no" /\ status' = "none" /\ original' = version /\ task' = Idle
      /\ UNCHANGED <<primary, backup, latest, damages, writing, version>>
  BY DEF Launch, dump
<1>3. s \in States /\ s = latest
  BY <1>1, GenesisTypes DEF Inv, Types, Continues, Restored, Files
<1>4. Types'
  BY <1>1, <1>2, <1>3, GenesisTypes DEF Inv, Types
<1>5. Control' /\ Whole' /\ Continues' /\ Saved' /\ Dumped'
  BY <1>2 DEF Inv, Types, Control, Whole, Continues, Saved, Dumped, HasCopy, Idle
<1>6. Ordered'
  BY <1>1, <1>2, <1>3 DEF Inv, Types, Ordered, HasCopy, Idle, States
<1> QED
  BY <1>4, <1>5, <1>6 DEF Inv

(* Steps of the node and of the launcher that touch no file and no task.   *)
LEMMA MineInv ==
  ASSUME Inv, Mine
  PROVE  Inv'
<1>1. /\ chain' = [run |-> run, block |-> chain.block + 1] /\ past' = past \cup {chain'}
      /\ node = "mining"
      /\ UNCHANGED <<run, launcher, exited, status, started, primary, backup, latest, damages,
                     writing, version, original, node, task>>
  BY DEF Mine, files, dump, seen, launcherVars
<1>2. chain' \in States /\ chain'.block = chain.block + 1
  BY <1>1 DEF Inv, Types, States
<1>3. Types'
  BY <1>1, <1>2 DEF Inv, Types
<1>4. Control' /\ Whole' /\ Continues' /\ Dumped'
  BY <1>1 DEF Inv, Control, Whole, Continues, Dumped
<1>5. Saved'
  BY <1>1 DEF Inv, Control, Saved
<1>6. Ordered'
  BY <1>1, <1>2 DEF Inv, Types, Ordered, HasCopy, States, Files
<1> QED
  BY <1>3, <1>4, <1>5, <1>6 DEF Inv

(* What is forgotten of a dump that has changed is no more than its        *)
(* identity.                                                               *)
Forgets == /\ task' \in Tasks /\ task'.phase = task.phase /\ task'.copy = task.copy
           /\ task'.final = task.final

LEMMA RewriteForgets ==
  ASSUME task \in Tasks, NEW file, Rewrite(file)
  PROVE  Forgets
BY DEF Rewrite, Tasks, Forgets

(* A dump is of the node's present state. *)
LEMMA DumpInv ==
  ASSUME Inv, BeginDump \/ ExitCleanly
  PROVE  Inv'
<1>1. PICK whole \in BOOLEAN :
        /\ writing' = File(chain, whole) /\ version' = version + 1 /\ node # "down"
        /\ exited' # exited => exited' = "clean" /\ node' = "down" /\ whole
        /\ node' # node => node' = "down"
        /\ UNCHANGED <<run, launcher, status, started, primary, backup, latest, damages,
                       original, chain, past>>
        /\ Forgets
  <2>1. CASE BeginDump
    BY <2>1, RewriteForgets DEF BeginDump, Rewrite, files, Inv, Types
  <2>2. CASE ExitCleanly
    BY <2>2, RewriteForgets DEF ExitCleanly, Rewrite, files, Inv, Types
  <2> QED
    BY <2>1, <2>2
<1>2. writing' \in Files /\ writing'.state = chain /\ writing'.exists /\ writing'.whole = whole
  BY <1>1, FileFacts DEF Inv, Types
<1>3. Types'
  BY <1>1, <1>2 DEF Inv, Types, Forgets
<1>4. Control'
  BY <1>1 DEF Inv, Types, Control, Forgets
<1>5. Whole' /\ Continues' /\ Dumped'
  BY <1>1, <1>2 DEF Inv, Whole, Continues, Dumped, Forgets
<1>6. Saved'
  <2>1. launcher = "up" => exited = "no"
    BY <1>1 DEF Inv, Control
  <2>2. task.final => exited # "no" /\ launcher = "up"
    BY DEF Inv, Control
  <2> QED
    BY <1>1, <2>1, <2>2 DEF Inv, Saved, Forgets
<1>7. Ordered'
  <2>1. chain \in past /\ latest.block <= chain.block /\ chain.block <= chain.block
    BY <1>1 DEF Inv, Types, Ordered, States
  <2>2. HasCopy' => HasCopy /\ task.copy.state.block <= chain.block
    <3>1. /\ task.copy.state.block \in Nat /\ writing.state.block \in Nat
          /\ chain.block \in Nat
      BY DEF Inv, Types, Tasks, Files, States
    <3>2. HasCopy' => HasCopy /\ original < version
      BY <1>1 DEF Inv, Control, HasCopy, Forgets
    <3> QED
      BY <3>1, <3>2 DEF Inv, Ordered
  <2> QED
    BY <1>1, <1>2, <2>1, <2>2 DEF Inv, Ordered, Forgets
<1> QED
  BY <1>3, <1>4, <1>5, <1>6, <1>7 DEF Inv

LEMMA EndDumpInv ==
  ASSUME Inv, EndDump
  PROVE  Inv'
<1>1. /\ writing' = [writing EXCEPT !.whole = TRUE] /\ version' = version + 1 /\ node # "down"
      /\ version # original
      /\ UNCHANGED <<run, launcher, exited, status, started, primary, backup, latest, damages,
                     original, chain, past, node>>
      /\ Forgets
  BY RewriteForgets DEF EndDump, Rewrite, files, Inv, Types
<1>2. writing' \in Files /\ writing'.state = writing.state /\ writing'.exists = writing.exists
  BY <1>1 DEF Inv, Types, Files
<1>3. original < version
  BY <1>1 DEF Inv, Types, Control
<1>4. Types' /\ Control' /\ Whole' /\ Continues'
  BY <1>1, <1>2 DEF Inv, Types, Control, Whole, Continues, Forgets
<1>5. Dumped'
  <2>1. version # 0
    BY <1>3 DEF Inv, Types
  <2> QED
    BY <1>1, <1>2, <2>1 DEF Inv, Dumped
<1>6. Saved'
  <2>1. launcher = "up" => exited = "no"
    BY <1>1 DEF Inv, Control
  <2>2. task.final => exited # "no" /\ launcher = "up"
    BY DEF Inv, Control
  <2> QED
    BY <1>1, <2>1, <2>2 DEF Inv, Saved, Forgets
<1>7. Ordered'
  BY <1>1, <1>2, <1>3 DEF Inv, Types, Ordered, HasCopy, Forgets
<1> QED
  BY <1>4, <1>5, <1>6, <1>7 DEF Inv

(* The node's phases and exits, and the events of the launcher.            *)
LEMMA EventInv ==
  ASSUME Inv, UNCHANGED <<run, started, primary, backup, latest, damages, writing, version,
                          original, chain, past>>,
         \/ UNCHANGED task
         \/ task' = Idle
         \/ \E aborted \in BOOLEAN : task' = [task EXCEPT !.aborted = aborted],
         launcher' = "up" => launcher = "up",
         node' # "down" => node # "down",
         launcher' = "down" => task'.phase = "idle",
         launcher' \in {launcher, "down"},
         launcher' = "up" => \/ exited' = exited
                             \/ exited = "no" /\ exited' = "failed" /\ node' = "down",
         status' \in {status, "none", "one"}
  PROVE  Inv'
<1>1. /\ task' \in Tasks /\ task'.phase \in {"idle", task.phase}
      /\ task'.phase # "idle" => task'.copy = task.copy /\ task'.final = task.final
      /\ task'.phase = "idle" => task'.final = FALSE
  BY GenesisTypes DEF Inv, Types, Control, Tasks, Idle
<1>2. Types' /\ Whole' /\ Continues' /\ Dumped'
  BY <1>1 DEF Inv, Types, Whole, Continues, Dumped
<1>3. Control'
  BY <1>1 DEF Inv, Types, Control
<1>4. Ordered'
  BY <1>1 DEF Inv, Ordered, HasCopy
<1>5. Saved'
  BY <1>1 DEF Inv, Control, Saved, HasCopy
<1> QED
  BY <1>2, <1>3, <1>4, <1>5 DEF Inv

(* Only the task changes, and the launcher stays up: a checkpoint that is  *)
(* begun, and one that goes on without the snapshots.                      *)
LEMMA BeginInv ==
  ASSUME Inv, NEW final \in BOOLEAN, Begin(final),
         launcher = "up", Fresh, final => exited = "clean",
         UNCHANGED <<run, launcher, exited, status, started, primary, backup, latest, damages,
                     writing, version, original, chain, past, node>>
  PROVE  Inv'
<1>1. /\ task' \in Tasks /\ task'.phase = "copying" /\ task'.final = final
  BY GenesisTypes DEF Begin, Inv, Types, Tasks
<1>2. original < version
  BY DEF Fresh, Inv, Types, Control
<1>3. Types' /\ Whole' /\ Continues' /\ Dumped'
  BY <1>1 DEF Inv, Types, Whole, Continues, Dumped
<1>4. Control'
  BY <1>1, <1>2 DEF Inv, Control
<1>5. Ordered' /\ Saved'
  BY <1>1 DEF Inv, Ordered, Saved, HasCopy
<1> QED
  BY <1>3, <1>4, <1>5 DEF Inv

LEMMA FailInv ==
  ASSUME Inv, Fail
  PROVE  Inv'
<1>1. /\ task' = Idle /\ launcher' \in {launcher, "down"} /\ status' \in {status, "one"}
      /\ launcher' = "up" => exited' = exited
      /\ UNCHANGED <<run, started, primary, backup, latest, damages, writing, version,
                     original, chain, past, node>>
  BY DEF Fail, End, files, dump, nodeVars, launcherVars
<1>2. task'.phase = "idle"
  BY <1>1 DEF Idle
<1>3. /\ launcher' = "up" => launcher = "up"
      /\ node' # "down" => node # "down"
      /\ launcher' = "down" => task'.phase = "idle"
  BY <1>1, <1>2
<1> QED
  BY <1>1, <1>3, EventInv

LEMMA CopyDumpInv ==
  ASSUME Inv, CopyDump
  PROVE  Inv'
<1>1. CASE task' = [task EXCEPT !.phase = "copied", !.copy = writing]
  <2>1. /\ task' = [task EXCEPT !.phase = "copied", !.copy = writing]
        /\ task.phase = "copying"
        /\ UNCHANGED <<run, launcher, exited, status, started, primary, backup, latest,
                       damages, writing, version, original, chain, past, node>>
    BY <1>1 DEF CopyDump, Fail, End, Idle, files, dump, nodeVars, seen, launcherVars
  <2>2. /\ task' \in Tasks /\ task'.phase = "copied" /\ task'.copy = writing
        /\ task'.final = task.final
    BY <2>1 DEF Inv, Types, Tasks
  <2>3. Types' /\ Whole' /\ Continues' /\ Dumped' /\ Control'
    BY <2>1, <2>2 DEF Inv, Types, Whole, Continues, Dumped, Control
  <2>4. Ordered'
    <3>1. original < version /\ version # 0
      BY <2>1 DEF Inv, Types, Control
    <3>2. writing.exists /\ writing.state.block <= writing.state.block
      BY <3>1 DEF Inv, Types, Dumped, Files, States
    <3> QED
      BY <2>1, <2>2, <3>1, <3>2 DEF Inv, Ordered
  <2>5. Saved'
    <3>1. task.final => writing.state = chain
      <4>1. task.final => writing = File(chain, TRUE)
        BY DEF Inv, Control, Saved
      <4>2. File(chain, TRUE).state = chain
        BY FileFacts DEF Inv, Types
      <4> QED
        BY <4>1, <4>2
    <3> QED
      BY <2>1, <2>2, <3>1 DEF Inv, Saved
  <2> QED
    BY <2>3, <2>4, <2>5 DEF Inv
<1>2. CASE Fail
  BY <1>2, FailInv
<1> QED
  BY <1>1, <1>2 DEF CopyDump

LEMMA PhaseInv ==
  ASSUME Inv, NEW p \in {"valid", "kept"}, task' = [task EXCEPT !.phase = p],
         HasCopy, task.copy.whole,
         backup' = backup \/ (primary.exists /\ backup' = primary),
         UNCHANGED <<run, launcher, exited, status, started, primary, latest, damages,
                     writing, version, original, chain, past, node>>
  PROVE  Inv'
<1>1. /\ task' \in Tasks /\ task'.phase = p /\ task'.copy = task.copy
      /\ task'.final = task.final
  BY DEF Inv, Types, Tasks
<1>2. Types' /\ Whole' /\ Continues' /\ Dumped'
  BY <1>1 DEF Inv, Types, Whole, Continues, Dumped
<1>3. Control'
  BY <1>1 DEF Inv, Control, HasCopy
<1>4. Ordered'
  BY <1>1 DEF Inv, Ordered, HasCopy
<1>5. Saved'
  BY <1>1 DEF Inv, Saved, HasCopy
<1> QED
  BY <1>2, <1>3, <1>4, <1>5 DEF Inv

LEMMA ValidateInv ==
  ASSUME Inv, Validate
  PROVE  Inv'
<1>1. CASE Acceptable
  <2>1. /\ task' = [task EXCEPT !.phase = "valid"] /\ HasCopy /\ task.copy.whole
        /\ UNCHANGED <<run, launcher, exited, status, started, primary, backup, latest,
                       damages, writing, version, original, chain, past, node>>
    BY <1>1 DEF Validate, Acceptable, HasCopy, files, dump, nodeVars, seen, launcherVars
  <2> QED
    BY <2>1, PhaseInv
<1>2. CASE ~Acceptable
  BY <1>2, FailInv DEF Validate
<1> QED
  BY <1>1, <1>2

LEMMA KeepPreviousInv ==
  ASSUME Inv, KeepPrevious
  PROVE  Inv'
<1>1. /\ task' = [task EXCEPT !.phase = "kept"] /\ HasCopy /\ task.copy.whole
      /\ UNCHANGED <<run, launcher, exited, status, started, primary, latest, damages,
                     writing, version, original, chain, past, node>>
  BY DEF KeepPrevious, Inv, Whole, HasCopy, dump, nodeVars, seen, launcherVars
<1>2. backup' = backup \/ (primary.exists /\ backup' = primary)
  BY DEF KeepPrevious
<1> QED
  BY <1>1, <1>2, PhaseInv

(* The copy is of a dump no older than the checkpoint it replaces. *)
LEMMA PublishInv ==
  ASSUME Inv, Publish
  PROVE  Inv'
<1>1. CASE task.aborted
  BY <1>1, FailInv DEF Publish
<1>2. CASE ~task.aborted
  <2>1. /\ primary' = task.copy /\ latest' = task.copy.state /\ task' = Idle
        /\ task.phase = "kept"
        /\ launcher' = IF task.final THEN "down" ELSE launcher
        /\ status' \in IF task.final THEN {"zero", "one"} ELSE {status}
        /\ ~task.final => exited' = exited
        /\ UNCHANGED <<run, started, backup, damages, writing, version,
                       original, chain, past, node>>
    BY <1>2 DEF Publish, End, dump, nodeVars, launcherVars
  <2>2. /\ HasCopy /\ launcher = "up" /\ original < version /\ task.copy \in Files
        /\ task.copy.state \in States /\ task.copy.exists
    BY <2>1 DEF Inv, Types, Control, Ordered, HasCopy, Tasks, Files
  <2>3. Types'
    BY <2>1, <2>2, GenesisTypes DEF Inv, Types
  <2>4. Control' /\ Whole' /\ Continues' /\ Dumped'
    BY <2>1, <2>2 DEF Inv, Control, Whole, Continues, Dumped, HasCopy, Idle
  <2>5. Ordered'
    <3>1. /\ chain.block \in Nat /\ writing.state.block \in Nat
          /\ task.copy.state.block \in Nat
      BY <2>2 DEF Inv, Types, Files, States
    <3>2. /\ task.copy.state.block <= writing.state.block
          /\ writing.state.block <= chain.block
      BY <2>2 DEF Inv, Ordered
    <3> QED
      BY <2>1, <3>1, <3>2 DEF Inv, Ordered, HasCopy, Idle
  <2>6. Saved'
    <3>1. task.final => node = "down" /\ task.copy.state = chain
      BY <2>2 DEF Inv, Control, Saved
    <3>2. ~task.final => status # "zero"
      BY <2>2 DEF Inv, Saved
    <3> QED
      BY <2>1, <2>2, <3>1, <3>2 DEF Inv, Saved, HasCopy, Idle
  <2> QED
    BY <2>3, <2>4, <2>5, <2>6 DEF Inv
<1> QED
  BY <1>1, <1>2

LEMMA DamageInv ==
  ASSUME Inv, Damage
  PROVE  Inv'
<1>1. /\ primary.exists /\ damages' = damages + 1
      /\ primary' \in {NoFile, [primary EXCEPT !.whole = FALSE]}
      /\ UNCHANGED <<run, launcher, exited, status, started, backup, latest, writing, version,
                     original, chain, past, node, task>>
  BY DEF Damage, dump, nodeVars, seen, launcherVars
<1>2. /\ primary' \in Files
      /\ primary'.exists => primary'.state = primary.state
  BY <1>1, GenesisTypes DEF Inv, Types, Files, NoFile
<1>3. damages' # 0 /\ damages' \in Nat
  BY <1>1 DEF Inv, Types
<1>4. Types' /\ Whole' /\ Continues' /\ Dumped' /\ Control'
  BY <1>1, <1>2, <1>3 DEF Inv, Types, Whole, Continues, Dumped, Control, HasCopy
<1>5. Ordered' /\ Saved'
  BY <1>1, <1>3 DEF Inv, Ordered, Saved, HasCopy
<1> QED
  BY <1>4, <1>5 DEF Inv

(* The actions that the generic lemmas cover. *)
LEMMA SmallInv ==
  ASSUME Inv,
         StartMining \/ ClockReady \/ Die \/ Kill \/ Stop \/ Abort \/ AbortInFlight
           \/ CrashLauncher
  PROVE  Inv'
<1> DEFINE Same == UNCHANGED <<run, started, primary, backup, latest, damages, writing,
                               version, original, chain, past>>
           Moved == /\ launcher' \in {launcher, "down"}
                    /\ launcher' = "up" => launcher = "up"
                    /\ node' # "down" => node # "down"
                    /\ launcher' = "up" => \/ exited' = exited
                                           \/ exited = "no" /\ exited' = "failed"
                                              /\ node' = "down"
                    /\ status' \in {status, "none", "one"}
           NoTask == launcher' = "down" => task'.phase = "idle"
<1>1. launcher \in {"up"} \/ task.phase = "idle"
  BY DEF Inv, Control
<1>2. node # "down" /\ launcher = "up" => exited = "no"
  BY DEF Inv, Control
<1>3. CASE StartMining \/ ClockReady \/ Die \/ Kill
  <2>1. Same /\ UNCHANGED task /\ UNCHANGED launcher /\ Moved
    BY <1>2, <1>3 DEF StartMining, ClockReady, Die, Kill, files, dump, nodeVars, seen,
                      launcherVars
  <2>2. NoTask
    BY <1>1, <2>1
  <2> QED
    BY <2>1, <2>2, EventInv
<1>4. CASE Stop \/ Abort \/ AbortInFlight
  <2>1. /\ Same /\ UNCHANGED launcher /\ Moved
        /\ \E aborted \in BOOLEAN : task' = [task EXCEPT !.aborted = aborted]
    BY <1>4 DEF Stop, Abort, AbortInFlight, files, dump, nodeVars, seen, launcherVars
  <2>2. NoTask
    BY <1>1, <2>1 DEF Inv, Types, Tasks
  <2> QED
    BY <2>1, <2>2, EventInv
<1>5. CASE CrashLauncher
  <2>1. Same /\ Moved /\ task' = Idle
    BY <1>5 DEF CrashLauncher, End, files, dump
  <2>2. NoTask
    BY <2>1 DEF Idle
  <2> QED
    BY <2>1, <2>2, EventInv
<1> QED
  BY <1>3, <1>4, <1>5

LEMMA PollInv ==
  ASSUME Inv, Poll
  PROVE  Inv'
<1>1. /\ launcher = "up" /\ Fresh
      /\ UNCHANGED <<run, launcher, exited, status, started, primary, backup, latest, damages,
                     writing, version, original, chain, past, node>>
  BY DEF Poll, files, dump, nodeVars, launcherVars
<1>2. CASE Begin(FALSE)
  BY <1>1, <1>2, BeginInv
<1>3. CASE UNCHANGED task
  BY <1>1, <1>3, EventInv
<1> QED
  BY <1>2, <1>3 DEF Poll

LEMMA FinishInv ==
  ASSUME Inv, Finish
  PROVE  Inv'
<1>1. CASE exited = "clean" /\ clock /\ Fresh
  <2>1. /\ launcher = "up" /\ Begin(TRUE)
        /\ UNCHANGED <<run, launcher, exited, status, started, primary, backup, latest,
                       damages, writing, version, original, chain, past, node>>
    BY <1>1 DEF Finish, files, dump, nodeVars, seen, launcherVars
  <2> QED
    BY <1>1, <2>1, BeginInv
<1>2. CASE ~(exited = "clean" /\ clock /\ Fresh)
  <2>1. /\ launcher' = "down" /\ status' = "one" /\ task' = Idle
        /\ UNCHANGED <<run, started, primary, backup, latest, damages, writing,
                       version, original, chain, past, node>>
    BY <1>2 DEF Finish, GiveUp, End, files, dump, nodeVars
  <2>2. task'.phase = "idle"
    BY <2>1 DEF Idle
  <2> QED
    BY <2>1, <2>2, EventInv
<1> QED
  BY <1>1, <1>2

LEMMA StepInv == Inv /\ [Next]_vars => Inv'
<1>1. ASSUME Inv, UNCHANGED vars
      PROVE  Inv'
  <2>1. UNCHANGED <<run, launcher, exited, status, started, primary, backup, latest, damages,
                    writing, version, original, chain, past, node, task>>
    BY <1>1 DEF vars, files, dump, nodeVars, seen, launcherVars
  <2> QED
    BY ZenonT(40), <1>1, <2>1 DEF Inv, Types, Control, Whole, Continues, Ordered, Saved, Dumped, HasCopy
<1> QED
  BY <1>1, LaunchInv, MineInv, DumpInv, EndDumpInv, SmallInv, PollInv, CopyDumpInv, ValidateInv,
     KeepPreviousInv, PublishInv, FinishInv, DamageInv
     DEF Next, Checkpoint

-----------------------------------------------------------------------------
(* What the launcher remembers of the dump is not of the future. *)
Ranges ==
  /\ launcher \in {"down", "up"} /\ node \in {"down", "idle", "mining"}
  /\ exited \in {"no", "clean", "failed"} /\ status \in {"none", "zero", "one"}
  /\ clock \in BOOLEAN /\ stopping \in BOOLEAN
  /\ observed \in 0..version /\ published \in 0..version /\ task.before \in 0..version
  /\ damages <= MaxDamage

LEMMA InitRanges == Init => Ranges
<1> SUFFICES ASSUME Init
             PROVE  Ranges
  OBVIOUS
<1>1. 0 \in 0..0 /\ 0 <= MaxDamage
  BY ChainAssumption DEF ChainAssumption
<1>2. task.before = 0
  BY DEF Init, Idle
<1> QED
  BY <1>1, <1>2 DEF Init, Ranges

LEMMA StepRanges == Types /\ Ranges /\ [Next]_vars => Ranges'
<1> SUFFICES ASSUME Types, Ranges, [Next]_vars
             PROVE  Ranges'
  OBVIOUS
<1>1. version \in Nat /\ damages \in Nat /\ task \in Tasks /\ Idle.before = 0
  BY DEF Types, Idle
<1>0. 0 \in 0..version /\ 0 \in 0..version + 1
  BY <1>1
<1>2. ASSUME Fail
      PROVE  Ranges'
  BY <1>0, <1>1, <1>2 DEF Fail, End, Ranges, files, dump, nodeVars, launcherVars
<1>3. CASE Launch
  <2>1. task'.before = 0 /\ 0 \in 0..version
    BY <1>1, <1>3 DEF Launch
  <2> QED
    BY <1>3, <2>1 DEF Launch, Ranges, dump
<1>4. CASE StartMining \/ ClockReady \/ Mine
  BY <1>4 DEF StartMining, ClockReady, Mine, Ranges, files, dump, nodeVars, seen, launcherVars
<1>5. CASE BeginDump \/ EndDump \/ ExitCleanly
  <2>1. /\ version' = version + 1 /\ node' \in {node, "down"} /\ exited' \in {exited, "clean"}
        /\ UNCHANGED <<launcher, status, clock, stopping, damages>>
        /\ observed' = 0 /\ published' = 0 /\ task'.before = 0
    BY <1>1, <1>5 DEF BeginDump, EndDump, ExitCleanly, Rewrite, Tasks, files
  <2> QED
    BY <1>0, <1>1, <2>1 DEF Ranges
<1>6. CASE Die \/ Kill
  BY <1>6 DEF Die, Kill, Ranges, files, dump, seen
<1>7. CASE Poll
  <2>1. /\ observed' \in {observed, version} /\ task'.before \in {task.before, version}
        /\ UNCHANGED <<version, published, node, launcher, exited, status, clock, stopping,
                       damages>>
    BY <1>7 DEF Poll, Begin, files, dump, nodeVars, launcherVars
  <2> QED
    BY <1>1, <2>1 DEF Ranges
<1>8. CASE CopyDump
  BY <1>1, <1>2, <1>8 DEF CopyDump, Ranges, Tasks, files, dump, nodeVars, seen, launcherVars
<1>9. CASE Validate
  BY <1>1, <1>2, <1>9 DEF Validate, Ranges, Tasks, files, dump, nodeVars, seen, launcherVars
<1>10. CASE KeepPrevious
  BY <1>1, <1>10 DEF KeepPrevious, Ranges, Tasks, dump, nodeVars, seen, launcherVars
<1>11. CASE Publish
  <2>1. CASE task.aborted
    BY <1>2, <1>11, <2>1 DEF Publish
  <2>2. CASE ~task.aborted
    BY <1>0, <1>1, <1>11, <2>2 DEF Publish, End, Ranges, dump, nodeVars, launcherVars
  <2> QED
    BY <2>1, <2>2
<1>12. CASE Abort \/ Stop \/ AbortInFlight
  <2>1. /\ task'.before = task.before
        /\ stopping' \in {stopping, TRUE}
        /\ UNCHANGED <<version, observed, published, node, launcher, exited, status, clock,
                       damages>>
    BY <1>1, <1>12 DEF Abort, Stop, AbortInFlight, Tasks, files, dump, nodeVars, seen, launcherVars
  <2> QED
    BY <2>1 DEF Ranges
<1>13. CASE Finish
  <2>1. CASE Begin(TRUE) /\ UNCHANGED <<files, dump, nodeVars, seen, launcherVars>>
    <3>1. task'.before = version
      BY <2>1 DEF Begin
    <3> QED
      BY <1>1, <2>1, <3>1 DEF Ranges, files, dump, nodeVars, seen, launcherVars
  <2>2. CASE GiveUp
    BY <1>0, <1>1, <2>2 DEF GiveUp, End, Ranges, files, dump, nodeVars
  <2> QED
    BY <1>13, <2>1, <2>2 DEF Finish
<1>14. CASE CrashLauncher
  BY <1>0, <1>1, <1>14 DEF CrashLauncher, End, Ranges, files, dump
<1>15. CASE Damage
  BY <1>1, <1>15, ChainAssumption
     DEF ChainAssumption, Damage, Ranges, dump, nodeVars, seen, launcherVars
<1>16. CASE UNCHANGED vars
  BY <1>16 DEF vars, Ranges, files, dump, nodeVars, seen, launcherVars
<1> QED
  BY <1>3, <1>4, <1>5, <1>6, <1>7, <1>8, <1>9, <1>10, <1>11, <1>12, <1>13, <1>14, <1>15, <1>16
     DEF Next, Checkpoint

(* The induction that the theorems share. *)
THEOREM Invariance == Spec => [](Inv /\ Ranges)
<1>1. Init => Inv /\ Ranges
  BY InitInv, InitRanges
<1>2. Inv /\ Ranges /\ [Next]_vars => (Inv /\ Ranges)'
  BY StepInv, StepRanges DEF Inv
<1> QED
  BY <1>1, <1>2, PTL DEF Spec

(* Types and ranges of the launcher's, the node's and the files' states;   *)
(* only a launcher that is up and heard of a clean exit has the final      *)
(* checkpoint in flight.                                                   *)
THEOREM TypeCorrect == Spec => []TypeOK
<1>1. Inv /\ Ranges => TypeOK
  <2> SUFFICES ASSUME Inv, Ranges
               PROVE  TypeOK
    OBVIOUS
  <2>1. original \in 0..version /\ damages \in 0..MaxDamage
    BY ChainAssumption DEF ChainAssumption, Inv, Types, Control, Ranges
  <2>2. task.final => launcher = "up" /\ exited = "clean"
    BY DEF Inv, Control
  <2>3. task \in [phase : {"idle", "copying", "copied", "valid", "kept"}, before : 0..version,
                  copy : Files, final : BOOLEAN, aborted : BOOLEAN]
    BY DEF Inv, Types, Tasks, Ranges
  <2> QED
    BY <2>1, <2>2, <2>3 DEF TypeOK, Inv, Types, Ranges
<1> QED
  BY <1>1, Invariance, PTL

(* backupSnapshot: without damage from outside, neither the primary nor    *)
(* the backup is ever torn or half copied.                                 *)
THEOREM WholeSnapshots == Spec => []SnapshotsAreWhole
<1>1. Inv => SnapshotsAreWhole
  BY DEF Inv, Whole, SnapshotsAreWhole
<1> QED
  BY <1>1, Invariance, PTL

(* The "close" handler: exit code 0 means that the primary holds the last  *)
(* state of the node.                                                      *)
THEOREM CleanExits == Spec => []CleanExitSavesAll
<1>1. Inv => CleanExitSavesAll
  BY DEF Inv, Saved, CleanExitSavesAll
<1> QED
  BY <1>1, Invariance, PTL

(* chain.mjs:34-38: a start restores the checkpoint published last; only a *)
(* chain never started before begins empty.                                *)
THEOREM NoRollback == Spec => StartsContinue
<1>1. Inv /\ [Next]_vars =>
        [run' # run => IF started THEN chain' = latest /\ primary.exists
                       ELSE chain' = Genesis]_vars
  <2> SUFFICES ASSUME Inv, Next, run' # run
               PROVE  IF started THEN chain' = latest /\ primary.exists
                      ELSE chain' = Genesis
    BY DEF vars
  <2>1. Launch
    BY DEF Next, Checkpoint, Fail, End, GiveUp, launcherVars, StartMining, ClockReady, Mine,
           Rewrite, BeginDump, EndDump, ExitCleanly, Die, Poll, CopyDump, Validate, KeepPrevious,
           Publish, Abort, Stop, Kill, AbortInFlight, Finish, CrashLauncher, Damage
  <2> QED
    BY <2>1 DEF Launch, Restored, Inv, Continues
<1> QED
  BY <1>1, Invariance, PTL DEF Spec, StartsContinue

(* state-snapshot.mjs and fileIdentity: the checkpoint published is of     *)
(* this node's history and no older than the one before.                   *)
THEOREM Extensions == Spec => CheckpointsExtendTheChain
<1>1. Inv /\ [Next]_vars =>
        [latest' # latest => latest' \in past /\ latest'.block >= latest.block]_vars
  <2> SUFFICES ASSUME Inv, Next, latest' # latest
               PROVE  latest' \in past /\ latest'.block >= latest.block
    BY DEF vars
  <2>1. Publish
    BY DEF Next, Checkpoint, Fail, GiveUp, files, Launch, StartMining, ClockReady, Mine,
           Rewrite, BeginDump, EndDump, ExitCleanly, Die, Poll, CopyDump, Validate, KeepPrevious,
           Abort, Stop, Kill, AbortInFlight, Finish, CrashLauncher, Damage
  <2>2. HasCopy /\ latest' = task.copy.state
    BY <2>1 DEF Publish, Fail, files, HasCopy
  <2>3. latest.block \in Nat /\ task.copy.state.block \in Nat
    BY DEF Inv, Types, Tasks, Files, States
  <2> QED
    BY <2>2, <2>3 DEF Inv, Ordered
<1> QED
  BY <1>1, Invariance, PTL DEF Spec, CheckpointsExtendTheChain

-----------------------------------------------------------------------------
(* The development network.  That a restored chain is one the present      *)
(* chain began with is a fact about the checkpoints, proved above.         *)

Chains == [run : 0..MaxRuns, block : 0..MaxBlock]
Names == {"coordinator", "handover", "social"}

(* The first sequence of contracts is how the second begins. *)
Begins(a, b) == Len(a) <= Len(b) /\ \A i \in 1..Len(a) : b[i] = a[i]

DevTypes ==
  /\ contracts \in [Chains -> Seq(Names)]
  /\ pc \in {"down", "deploy", "social", "save", "ready"}
  /\ deployed \in 0..2

(* The history of this node and the checkpoint it would be restored from   *)
(* hold contracts that the chain still has.                                *)
History ==
  /\ run \in 0..MaxRuns
  /\ chain \in Chains /\ latest \in Chains /\ past \subseteq Chains
  /\ \A s \in past \cup {latest} :
       s.block <= chain.block /\ Begins(contracts[s], contracts[chain])

(* What deploy.mjs sent stands at the end of the chain, and the address it *)
(* saved is the coordinator's on every chain that reaches as far.          *)
Saves ==
  /\ pc = "deploy" => deployment = 0
  /\ deployed # 0 =>
       /\ pc = "deploy"
       /\ deployed <= Len(contracts[chain])
       /\ contracts[chain][Len(contracts[chain]) - deployed + 1] = "coordinator"
  /\ CodeAt(deployment) \in {"none", "coordinator"}

DevInv == DevTypes /\ History /\ Saves

-----------------------------------------------------------------------------
(* The launcher's part of a step *)

LEMMA ScriptStepIsStep ==
  ASSUME [DevNext]_devVars
  PROVE  [Next]_vars
<1>1. ASSUME DeployNext \/ DeploySocial
      PROVE  Next
  BY <1>1 DEF DeployNext, DeploySocial, MineContract, Next
<1>2. ASSUME CheckDeployment \/ BeginDeploy \/ WriteDeployment \/ SaveSocial \/ VerifySocial \/ EndStart
      PROVE  UNCHANGED vars
  BY <1>2 DEF CheckDeployment, BeginDeploy, WriteDeployment, SaveSocial, VerifySocial, EndStart
<1>3. ASSUME ChainStep
      PROVE  Next
  BY <1>3 DEF ChainStep
<1>4. ASSUME UNCHANGED devVars
      PROVE  UNCHANGED vars
  BY <1>4 DEF devVars
<1> QED
  BY <1>1, <1>2, <1>3, <1>4 DEF DevNext, Script

(* Under the scripts the launcher behaves as its own specification says,   *)
(* so whatever is proved of it holds for the development network.          *)
THEOREM ScriptsUseTheLauncher == DevSpec => Spec
<1>1. DevInit => Init
  BY DEF DevInit
<1>2. [DevNext]_devVars => [Next]_vars
  BY ScriptStepIsStep
<1> QED
  BY <1>1, <1>2, PTL DEF DevSpec, Spec

(* A step of the launcher restores the last checkpoint, mines, or leaves   *)
(* the chain alone and may publish a state of its history.                 *)
Restores ==
  /\ run' = run + 1 /\ run < MaxRuns
  /\ chain' = latest /\ past' = {latest} /\ latest' = latest

Stays ==
  /\ run' = run /\ chain' = chain /\ past' = past
  /\ latest' \in past \cup {latest}

LEMMA NextSummary ==
  ASSUME Inv, Next
  PROVE  Restores \/ Mine \/ Stays
<1>1. CASE Launch
  BY <1>1 DEF Launch, Restored, Restores, Inv, Continues
<1>2. CASE Publish
  <2>1. CASE task.aborted
    BY <1>2, <2>1 DEF Publish, Fail, End, Stays, files, nodeVars, launcherVars
  <2>2. CASE ~task.aborted
    <3>1. latest' = task.copy.state /\ UNCHANGED nodeVars /\ run' = run /\ HasCopy
      BY <1>2, <2>2 DEF Publish, End, HasCopy, launcherVars
    <3> QED
      BY <3>1 DEF Inv, Ordered, Stays, nodeVars
  <2> QED
    BY <2>1, <2>2
<1>3. ASSUME StartMining \/ ClockReady \/ BeginDump \/ EndDump \/ ExitCleanly \/ Die \/ Poll
      PROVE  Stays
  BY <1>3 DEF StartMining, ClockReady, BeginDump, EndDump, ExitCleanly, Die, Poll, Stays,
              Rewrite, files, nodeVars, launcherVars
<1>4. ASSUME CopyDump \/ Validate \/ KeepPrevious \/ Abort \/ Stop \/ Kill
      PROVE  Stays
  BY <1>4 DEF CopyDump, Validate, KeepPrevious, Abort, Stop, Kill, Die, Fail, End, Stays,
              files, nodeVars, launcherVars
<1>5. ASSUME AbortInFlight \/ Finish \/ CrashLauncher \/ Damage
      PROVE  Stays
  BY <1>5 DEF AbortInFlight, Finish, CrashLauncher, Damage, GiveUp, End, Stays,
              files, nodeVars, launcherVars
<1> QED
  BY <1>1, <1>2, <1>3, <1>4, <1>5 DEF Next, Checkpoint

-----------------------------------------------------------------------------
LEMMA BeginsReflexive ==
  ASSUME NEW a \in Seq(Names)
  PROVE  Begins(a, a)
BY DEF Begins

LEMMA BeginsAppend ==
  ASSUME NEW a \in Seq(Names), NEW b \in Seq(Names), NEW n \in Names, Begins(a, b)
  PROVE  Begins(a, Append(b, n))
BY DEF Begins

(* A new block is no state seen before, so the contracts of those stay.    *)
LEMMA MineFacts ==
  ASSUME DevTypes, History, NEW n \in Names, MineContract(n)
  PROVE  /\ History'
         /\ contracts' \in [Chains -> Seq(Names)]
         /\ contracts'[chain'] = Append(contracts[chain], n)
<1>1. /\ chain' = [run |-> run, block |-> chain.block + 1] /\ past' = past \cup {chain'}
      /\ run' = run /\ latest' = latest /\ chain.block < MaxBlock
      /\ contracts' = [contracts EXCEPT ![chain'] = Append(contracts[chain], n)]
  BY DEF MineContract, Mine, files, launcherVars
<1>2. MaxRuns \in Nat /\ MaxBlock \in Nat
  BY ChainAssumption DEF ChainAssumption
<1>3. chain' \in Chains /\ chain'.block = chain.block + 1 /\ chain.block \in Nat
  BY <1>1, <1>2 DEF History, Chains
<1>4. contracts[chain] \in Seq(Names) /\ Append(contracts[chain], n) \in Seq(Names)
  BY DEF DevTypes, History
<1>5. contracts' \in [Chains -> Seq(Names)] /\ contracts'[chain'] = Append(contracts[chain], n)
  BY <1>1, <1>3, <1>4 DEF DevTypes
<1>6. ASSUME NEW s \in past \cup {latest}
      PROVE  s.block <= chain'.block /\ Begins(contracts'[s], contracts'[chain'])
  <2>1. s \in Chains /\ s.block \in Nat /\ s.block <= chain.block /\ Begins(contracts[s], contracts[chain])
    BY <1>2 DEF History, Chains
  <2>2. s # chain'
    BY <1>3, <2>1
  <2>3. contracts'[s] = contracts[s] /\ contracts[s] \in Seq(Names)
    BY <1>1, <2>1, <2>2 DEF DevTypes
  <2> QED
    BY <1>3, <1>4, <1>5, <2>1, <2>3, BeginsAppend
<1>7. chain'.block <= chain'.block /\ Begins(contracts'[chain'], contracts'[chain'])
  <2>1. chain'.block \in Nat
    BY <1>3
  <2>2. contracts'[chain'] \in Seq(Names)
    BY <1>4, <1>5
  <2>3. Begins(contracts'[chain'], contracts'[chain'])
    BY <2>2, BeginsReflexive
  <2> QED
    BY <2>1, <2>3
<1> QED
  BY <1>1, <1>3, <1>5, <1>6, <1>7 DEF History

(* The steps that leave the chain and the contracts alone. *)
LEMMA SameChain ==
  ASSUME History, Stays, contracts' = contracts
  PROVE  History'
BY DEF History, Stays

LEMMA UnchangedStays ==
  ASSUME UNCHANGED vars
  PROVE  Stays
BY DEF vars, files, nodeVars, launcherVars, Stays

LEMMA CodeFacts ==
  ASSUME DevTypes, History
  PROVE  /\ contracts[chain] \in Seq(Names)
         /\ Len(contracts[chain]) \in Nat
         /\ DOMAIN contracts[chain] = 1..Len(contracts[chain])
BY DEF DevTypes, History

(* A restored chain has the coordinator at the saved address or nothing. *)
LEMMA ChainStepInv ==
  ASSUME Inv, DevInv, ChainStep
  PROVE  DevInv'
<1>1. UNCHANGED <<contracts, pc, deployed, deployment, social>>
  BY DEF ChainStep, scriptVars
<1>2. DevTypes'
  BY <1>1 DEF DevInv, DevTypes
<1>3. CASE Restores
  <2>1. Resting /\ deployed = 0
    BY <1>3 DEF ChainStep, Restores, DevInv, Saves, History, Resting
  <2>2. latest \in Chains /\ contracts[latest] \in Seq(Names)
        /\ Begins(contracts[latest], contracts[chain])
    BY DEF DevInv, History, DevTypes
  <2>3. History'
    <3>1. run' \in 0..MaxRuns
      BY <1>3, ChainAssumption DEF ChainAssumption, Restores, DevInv, History
    <3>2. latest.block <= latest.block /\ Begins(contracts[latest], contracts[latest])
      BY <2>2, BeginsReflexive, ChainAssumption DEF ChainAssumption, Chains
    <3> QED
      BY <1>1, <1>3, <2>2, <3>1, <3>2 DEF Restores, History
  <2>4. CodeAt(deployment)' \in {"none", "coordinator"}
    <3>1. contracts'[chain'] = contracts[latest] /\ deployment' = deployment
      BY <1>1, <1>3 DEF Restores
    <3>2. deployment \in DOMAIN contracts[latest] =>
            /\ deployment \in DOMAIN contracts[chain]
            /\ contracts[latest][deployment] = contracts[chain][deployment]
      BY <2>2, CodeFacts DEF Begins, DevInv
    <3> QED
      BY <3>1, <3>2 DEF CodeAt, DevInv, Saves
  <2> QED
    BY <1>1, <1>2, <2>1, <2>3, <2>4 DEF DevInv, Saves, Resting
<1>4. CASE Stays
  <2>1. History'
    BY <1>1, <1>4, SameChain DEF DevInv
  <2> QED
    BY <1>1, <1>2, <1>4, <2>1 DEF DevInv, Saves, Stays, CodeAt
<1>5. ~Mine
  <2>1. ASSUME Mine
        PROVE  FALSE
    <3>1. chain' = [run |-> run, block |-> chain.block + 1] /\ run' = run
      BY <2>1 DEF Mine, launcherVars
    <3>2. chain.block \in Nat
      BY ChainAssumption DEF ChainAssumption, DevInv, History, Chains
    <3>3. chain' # chain
      BY <3>1, <3>2
    <3> QED
      BY <3>1, <3>3 DEF ChainStep
  <2> QED
    BY <2>1
<1> QED
  BY <1>3, <1>4, <1>5, NextSummary DEF ChainStep

-----------------------------------------------------------------------------
(* The scripts' steps *)

LEMMA DeployNextInv ==
  ASSUME DevInv, DeployNext
  PROVE  DevInv'
<1>1. /\ pc = "deploy" /\ deployed \in 0..1 /\ deployed' = deployed + 1
      /\ MineContract(Graph[deployed + 1])
      /\ UNCHANGED <<pc, deployment, social>>
  BY DEF DeployNext, DevInv, DevTypes, Graph
<1>2. Graph[deployed + 1] = IF deployed = 0 THEN "coordinator" ELSE "handover"
  BY <1>1 DEF Graph
<1> DEFINE n == Graph[deployed + 1]
           c == contracts[chain]
<1>3. n \in Names /\ DevTypes /\ History
  BY <1>2 DEF Names, DevInv
<1>4. /\ History' /\ contracts' \in [Chains -> Seq(Names)]
      /\ contracts'[chain'] = Append(c, n)
  BY <1>1, <1>3, MineFacts
<1>5. DevTypes'
  BY <1>1, <1>3, <1>4 DEF DevTypes
<1>6. /\ c \in Seq(Names) /\ Len(c) \in Nat
      /\ Len(Append(c, n)) = Len(c) + 1
      /\ Append(c, n)[Len(c) + 1] = n
      /\ \A i \in 1..Len(c) : Append(c, n)[i] = c[i]
  BY <1>3, CodeFacts
<1>7. /\ deployed' <= Len(contracts'[chain'])
      /\ contracts'[chain'][Len(contracts'[chain']) - deployed' + 1] = "coordinator"
  <2>1. CASE deployed = 0
    <3>1. n = "coordinator" /\ deployed' = 1
      BY <1>1, <1>2, <2>1
    <3> QED
      BY <1>4, <1>6, <3>1
  <2>2. CASE deployed = 1
    <3>1. 1 <= Len(c) /\ c[Len(c) - 1 + 1] = "coordinator" /\ deployed' = 2
      BY <1>1, <2>2 DEF DevInv, Saves
    <3>2. Append(c, n)[Len(c)] = "coordinator" /\ (Len(c) + 1) - 2 + 1 = Len(c)
      BY <1>6, <3>1
    <3> QED
      BY <1>4, <1>6, <3>1, <3>2
  <2> QED
    BY <1>1, <2>1, <2>2
<1>8. deployment' = 0 /\ CodeAt(deployment)' = "none"
  <2>1. deployment' = 0
    BY <1>1 DEF DevInv, Saves
  <2>2. 0 \notin DOMAIN contracts'[chain']
    BY <1>4, <1>6
  <2> QED
    BY <2>1, <2>2 DEF CodeAt
<1> QED
  BY <1>1, <1>4, <1>5, <1>7, <1>8 DEF DevInv, Saves

LEMMA DeploySocialInv ==
  ASSUME DevInv, DeploySocial
  PROVE  DevInv'
<1>1. /\ pc = "social" /\ pc' = "save" /\ CodeAt(deployment) # "none"
      /\ MineContract("social")
      /\ UNCHANGED <<deployed, deployment, social>>
  BY DEF DeploySocial
<1> DEFINE c == contracts[chain]
<1>2. "social" \in Names /\ DevTypes /\ History /\ deployed = 0
  BY <1>1 DEF Names, DevInv, Saves
<1>3. /\ History' /\ contracts' \in [Chains -> Seq(Names)]
      /\ contracts'[chain'] = Append(c, "social")
  BY <1>1, <1>2, MineFacts
<1>4. DevTypes'
  BY <1>1, <1>2, <1>3 DEF DevTypes
<1>5. /\ c \in Seq(Names) /\ DOMAIN c = 1..Len(c) /\ Len(c) \in Nat
      /\ DOMAIN Append(c, "social") = 1..(Len(c) + 1)
      /\ \A i \in 1..Len(c) : Append(c, "social")[i] = c[i]
  BY <1>2, CodeFacts
<1>6. deployment \in 1..Len(c) /\ c[deployment] = "coordinator"
  BY <1>1, <1>5 DEF CodeAt, DevInv, Saves
<1>7. CodeAt(deployment)' = "coordinator"
  BY <1>1, <1>3, <1>5, <1>6 DEF CodeAt
<1> QED
  BY <1>1, <1>2, <1>3, <1>4, <1>7 DEF DevInv, Saves

LEMMA WriteDeploymentInv ==
  ASSUME DevInv, WriteDeployment
  PROVE  DevInv'
<1>1. /\ pc = "deploy" /\ pc' = "social" /\ deployed = 2 /\ deployed' = 0
      /\ deployment' = Len(contracts[chain]) - deployed + 1
      /\ contracts' = contracts /\ Stays /\ chain' = chain
  BY UnchangedStays DEF WriteDeployment, Graph, Stays
<1>2. contracts[chain][deployment'] = "coordinator"
  BY <1>1 DEF DevInv, Saves
<1>3. CodeAt(deployment)' \in {"none", "coordinator"}
  BY <1>1, <1>2 DEF CodeAt
<1>4. History'
  BY <1>1, SameChain DEF DevInv
<1> QED
  BY <1>1, <1>3, <1>4 DEF DevInv, DevTypes, Saves

LEMMA OtherScriptInv ==
  ASSUME DevInv,
         CheckDeployment \/ BeginDeploy \/ SaveSocial \/ VerifySocial \/ EndStart
  PROVE  DevInv'
<1>1. /\ UNCHANGED vars /\ UNCHANGED <<contracts, deployment>>
      /\ pc' \in {"down", "deploy", "social", "ready"}
      /\ deployed' \in {deployed, 0}
      /\ pc' = "deploy" => deployment = 0
      /\ deployed' # 0 => pc # "deploy"
  BY DEF CheckDeployment, BeginDeploy, SaveSocial, VerifySocial, EndStart, Resting
<1>2. Stays /\ chain' = chain /\ History'
  BY <1>1, UnchangedStays, SameChain DEF DevInv, Stays
<1>3. deployed' = 0
  BY <1>1 DEF DevInv, Saves
<1> QED
  BY <1>1, <1>2, <1>3 DEF DevInv, DevTypes, Saves, CodeAt

LEMMA InitDevInv == DevInit => DevInv
<1> SUFFICES ASSUME DevInit
             PROVE  DevInv
  OBVIOUS
<1>1. MaxRuns \in Nat /\ MaxBlock \in Nat
  BY ChainAssumption DEF ChainAssumption
<1>2. chain = Genesis /\ latest = Genesis /\ past = {} /\ run = 0 /\ Genesis \in Chains
  BY <1>1 DEF DevInit, Init, Genesis, Chains
<1>3. contracts = [s \in Chains |-> <<>>] /\ <<>> \in Seq(Names)
  BY DEF DevInit, Chains
<1>4. DevTypes
  <2>1. contracts \in [Chains -> Seq(Names)]
    BY <1>3
  <2>2. pc = "down" /\ deployed = 0
    BY DEF DevInit
  <2> QED
    BY <2>1, <2>2 DEF DevTypes
<1>5. contracts[Genesis] = <<>>
  BY <1>2, <1>3
<1>6. Genesis.block <= Genesis.block /\ Begins(<<>>, <<>>)
  <2>1. Genesis.block = 0
    BY DEF Genesis
  <2>2. Begins(<<>>, <<>>)
    BY <1>3, BeginsReflexive
  <2> QED
    BY <2>1, <2>2
<1>7. History
  BY <1>1, <1>2, <1>5, <1>6 DEF History
<1>8. Saves
  BY <1>2, <1>5 DEF DevInit, Saves, CodeAt
<1> QED
  BY <1>4, <1>7, <1>8 DEF DevInv

LEMMA StepDevInv == Inv /\ DevInv /\ [DevNext]_devVars => DevInv'
<1>1. ASSUME Inv, DevInv, UNCHANGED devVars
      PROVE  DevInv'
  <2>1. Stays /\ UNCHANGED <<chain, contracts, pc, deployed, deployment>>
    BY <1>1, UnchangedStays DEF devVars, scriptVars, Stays
  <2>2. History'
    BY <1>1, <2>1, SameChain DEF DevInv
  <2> QED
    BY <1>1, <2>1, <2>2 DEF DevInv, DevTypes, Saves, CodeAt
<1> QED
  BY <1>1, ChainStepInv, DeployNextInv, DeploySocialInv, WriteDeploymentInv, OtherScriptInv
     DEF DevNext, Script

(* start.mjs:74-88: whatever was stopped and whatever the chain was rolled *)
(* back to, a network declared ready has the coordinator and the social    *)
(* contracts of its descriptors at their addresses.                        *)
THEOREM ReadyNetworks == DevSpec => ReadyIsDeployed
<1>1. Inv /\ DevInv /\ [DevNext]_devVars =>
        [pc' = "ready" /\ pc # "ready" =>
           /\ CodeAt(deployment) = "coordinator"
           /\ CodeAt(social) = "social"]_devVars
  <2> SUFFICES ASSUME DevInv, DevNext, pc' = "ready", pc # "ready"
               PROVE  CodeAt(deployment) = "coordinator" /\ CodeAt(social) = "social"
    BY DEF devVars
  <2>1. VerifySocial
    <3>1. CheckDeployment \/ WriteDeployment \/ SaveSocial => pc' = "social"
      BY DEF CheckDeployment, WriteDeployment, SaveSocial
    <3>2. BeginDeploy \/ DeploySocial \/ EndStart => pc' \in {"deploy", "save", "down"}
      BY DEF BeginDeploy, DeploySocial, EndStart
    <3>3. ChainStep \/ DeployNext => pc' = pc
      BY DEF ChainStep, DeployNext, scriptVars
    <3> QED
      BY <3>1, <3>2, <3>3 DEF DevNext, Script
  <2> QED
    BY <2>1 DEF VerifySocial, DevInv, Saves
<1>2. DevInit => Inv /\ DevInv
  BY InitInv, InitDevInv DEF DevInit
<1>3. Inv /\ DevInv /\ [DevNext]_devVars => (Inv /\ DevInv)'
  BY ScriptStepIsStep, StepInv, StepDevInv
<1> QED
  BY <1>1, <1>2, <1>3, PTL DEF DevSpec, ReadyIsDeployed
=============================================================================
