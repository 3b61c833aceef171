---------------------------- MODULE ChainLauncher ----------------------------
(***************************************************************************)
(* scripts/chain.mjs and scripts/state-snapshot.mjs: the process that      *)
(* starts the Anvil node, publishes checkpoints of its state and stops it. *)
(*                                                                         *)
(* Anvil dumps its state into the "writing" file, in place and not         *)
(* atomically.  The launcher copies a dump that has come to rest, checks   *)
(* the copy and renames it over the "primary" snapshot, from which the     *)
(* next start is restored; the snapshot it replaces becomes the "backup".  *)
(* Everything may stop at any moment.                                      *)
(*                                                                         *)
(* A state of the chain is the number of its head block and the start of   *)
(* the node that mined it, so two histories of one height differ.  A       *)
(* file's identity (inode, size and time of change) is a version number;   *)
(* a remembered one that is no longer the file's is 0, since an identity   *)
(* is only ever compared with the present one and none comes back.         *)
(***************************************************************************)
EXTENDS Integers

CONSTANTS
  MaxBlock, MaxRuns,  \* bounds: height of the chain, starts of the launcher
  MaxDumps,           \* bound: versions of the writing file
  MaxDamage           \* bound: damages to the primary by something else

ASSUME ChainAssumption ==
  MaxBlock \in Nat /\ MaxRuns \in Nat /\ MaxDumps \in Nat /\ MaxDamage \in Nat

VARIABLES
  run, launcher,     \* number of starts; "down" or "up"
  started,           \* chain-instance.json's hasStarted
  node,              \* the Anvil process: "down", "idle" (no mining) or "mining"
  exited,            \* what the launcher has heard of it: "no", "clean" or "failed"
  clock, stopping,   \* clockInitialized; stop() was called
  chain, past,       \* the node's state; history: the states it has gone through
  primary, backup,   \* the snapshots: state and whether the file is whole
  writing, version,  \* Anvil's dump file and its identity, 0 before the first
  original,          \* the identity when the launcher started
  observed, published,  \* the identities seen and published last, or 0
  task,              \* the checkpoint in flight
  status,            \* exit code of the last launcher that exited by itself
  latest,            \* history: the state published last
  damages

files == <<started, primary, backup, latest, damages>>
dump == <<writing, version>>
nodeVars == <<node, chain, past>>
seen == <<original, observed, published>>
launcherVars == <<run, launcher, exited, clock, stopping, status>>
vars == <<files, dump, nodeVars, seen, launcherVars, task>>

Genesis == [run |-> 0, block |-> 0]
NoFile == [state |-> Genesis, whole |-> FALSE, exists |-> FALSE]
File(state, whole) == [state |-> state, whole |-> whole, exists |-> TRUE]

Idle == [phase |-> "idle", before |-> 0, copy |-> NoFile, final |-> FALSE, aborted |-> FALSE]

-----------------------------------------------------------------------------
(* Start *)

(* Mutant: a damaged primary is replaced by the older backup. *)
Restored_Backup(s) ==
  \/ primary.exists /\ primary.whole /\ s = primary.state
  \/ primary.exists /\ ~primary.whole /\ backup.whole /\ s = backup.state
  \/ ~primary.exists /\ ~started /\ s = Genesis

(* A primary that does not pass validation, or one that is missing though  *)
(* the chain has been started before, stops the launcher.                  *)
Restored(s) ==
  \/ primary.exists /\ primary.whole /\ s = primary.state
  \/ ~primary.exists /\ ~started /\ s = Genesis

Launch ==
  /\ launcher = "down"
  /\ node = "down"              \* the RPC port refuses connections
  /\ run < MaxRuns
  /\ \E s \in {Genesis, primary.state, backup.state} :
       Restored(s) /\ chain' = s /\ past' = {s}
  /\ run' = run + 1
  /\ launcher' = "up"
  /\ started' = TRUE
  /\ node' = "idle"
  /\ exited' = "no" /\ clock' = FALSE /\ stopping' = FALSE /\ status' = "none"
  /\ original' = version /\ observed' = 0 /\ published' = 0
  /\ task' = Idle
  /\ UNCHANGED <<primary, backup, latest, damages, dump>>

(* initializeMiningClock, then the line after it. *)
StartMining ==
  /\ launcher = "up" /\ ~stopping
  /\ node = "idle"
  /\ node' = "mining"
  /\ UNCHANGED <<files, dump, chain, past, seen, launcherVars, task>>

ClockReady ==
  /\ launcher = "up" /\ ~stopping /\ exited = "no"
  /\ node = "mining" /\ ~clock
  /\ clock' = TRUE
  /\ UNCHANGED <<files, dump, nodeVars, seen, run, launcher, exited, stopping, status, task>>

-----------------------------------------------------------------------------
(* The node *)

Mine ==
  /\ node = "mining"
  /\ chain.block < MaxBlock
  /\ chain' = [run |-> run, block |-> chain.block + 1]
  /\ past' = past \cup {chain'}
  /\ UNCHANGED <<files, dump, node, seen, launcherVars, task>>

(* The dump file changes: nothing that is remembered is its identity.      *)
Rewrite(file) ==
  /\ version < MaxDumps
  /\ version' = version + 1
  /\ writing' = file
  /\ observed' = 0 /\ published' = 0 /\ task' = [task EXCEPT !.before = 0]
  /\ UNCHANGED <<files, chain, past, original, run, launcher, clock, stopping, status>>

(* A dump starts by emptying the file. *)
BeginDump ==
  /\ node # "down"
  /\ Rewrite(File(chain, FALSE))
  /\ UNCHANGED <<node, exited>>

EndDump ==
  /\ node # "down"
  /\ version # original /\ ~writing.whole
  /\ Rewrite([writing EXCEPT !.whole = TRUE])
  /\ UNCHANGED <<node, exited>>

(* SIGINT makes Anvil dump once more and exit. *)
ExitCleanly ==
  /\ node # "down"
  /\ Rewrite(File(chain, TRUE))
  /\ node' = "down"
  /\ exited' = IF launcher = "up" THEN "clean" ELSE exited

Die ==
  /\ node # "down"
  /\ node' = "down"
  /\ exited' = IF launcher = "up" THEN "failed" ELSE exited
  /\ UNCHANGED <<files, dump, chain, past, seen, run, launcher, clock, stopping, status, task>>

-----------------------------------------------------------------------------
(* Checkpoints: backupSnapshot is a sequence of file operations, between   *)
(* which the node goes on and the launcher may be asked to stop.           *)

(* Mutant: a dump that lay there before the start counts. *)
Fresh_Any == version # 0

Fresh == version # 0 /\ version # original

Begin(final) ==
  task' = [phase |-> "copying", before |-> version, copy |-> NoFile,
           final |-> final, aborted |-> FALSE]

(* The timer: the dump must have been seen unchanged and unpublished.      *)
Poll ==
  /\ launcher = "up" /\ clock /\ ~stopping /\ exited = "no"
  /\ task.phase = "idle"
  /\ Fresh
  /\ \/ /\ observed # version
        /\ observed' = version
        /\ UNCHANGED task
     \/ /\ observed = version /\ published # version
        /\ Begin(FALSE)
        /\ UNCHANGED observed
  /\ UNCHANGED <<files, dump, nodeVars, original, published, launcherVars>>

(* The launcher ends, and with it what it remembered.                      *)
End(code) ==
  /\ launcher' = "down" /\ status' = code
  /\ exited' = "no" /\ clock' = FALSE /\ stopping' = FALSE
  /\ observed' = 0 /\ published' = 0 /\ task' = Idle

(* Every failure removes the copy and leaves the snapshots alone.  A       *)
(* failed final checkpoint ends the launcher with an error.                *)
Fail ==
  /\ IF task.final THEN End("one")
     ELSE task' = Idle /\ UNCHANGED <<observed, published, launcherVars>>
  /\ UNCHANGED <<files, dump, nodeVars, original, run>>

(* The dump that is there now is copied, which may be a later one than was *)
(* seen; the copy is refused if it changes meanwhile.                      *)
CopyDump ==
  /\ task.phase = "copying"
  /\ \/ /\ task' = [task EXCEPT !.phase = "copied", !.copy = writing]
        /\ UNCHANGED <<files, dump, nodeVars, seen, launcherVars>>
     \/ version # task.before /\ Fail

(* Mutant: the copy is not parsed. *)
Acceptable_Unread == ~task.aborted

Acceptable == task.copy.whole /\ ~task.aborted

Validate ==
  /\ task.phase = "copied"
  /\ IF Acceptable
     THEN /\ task' = [task EXCEPT !.phase = "valid"]
          /\ UNCHANGED <<files, dump, nodeVars, seen, launcherVars>>
     ELSE Fail

(* The previous primary is copied, and the copy renamed to the backup.     *)
KeepPrevious ==
  /\ task.phase = "valid"
  /\ backup' = IF primary.exists THEN primary ELSE backup
  /\ task' = [task EXCEPT !.phase = "kept"]
  /\ UNCHANGED <<started, primary, latest, damages, dump, nodeVars, seen, launcherVars>>

(* The rename, and the report written beside the primary.  A checkpoint    *)
(* whose report cannot be written has failed, though it is in place.  The  *)
(* launcher exits with the final one.                                      *)
Publish ==
  /\ task.phase = "kept"
  /\ IF task.aborted
     THEN Fail
     ELSE /\ primary' = task.copy /\ latest' = task.copy.state
          /\ \E reported \in BOOLEAN :
               IF task.final THEN End(IF reported THEN "zero" ELSE "one")
               ELSE /\ task' = Idle
                    /\ published' = IF reported THEN task.before ELSE published
                    /\ UNCHANGED <<observed, launcherVars>>
          /\ UNCHANGED <<started, backup, damages, dump, nodeVars, original, run>>

(* The deadline of a checkpoint. *)
Abort ==
  /\ task.phase # "idle" /\ ~task.aborted
  /\ task' = [task EXCEPT !.aborted = TRUE]
  /\ UNCHANGED <<files, dump, nodeVars, seen, launcherVars>>

-----------------------------------------------------------------------------
(* Stop *)

(* stop(): a signal, or an initialization that failed. *)
Stop ==
  /\ launcher = "up" /\ ~stopping
  /\ stopping' = TRUE
  /\ task' = [task EXCEPT !.aborted = task.phase # "idle"]
  /\ UNCHANGED <<files, dump, nodeVars, seen, run, launcher, exited, clock, status>>

(* Mutant: the timer is only set for a chain that came up. *)
Kill_IfReady == stopping /\ launcher = "up" /\ clock /\ Die

(* SIGKILL, a minute after SIGINT. *)
Kill == stopping /\ launcher = "up" /\ Die

(* The "close" handler aborts the checkpoint in flight and waits for it.   *)
AbortInFlight ==
  /\ launcher = "up" /\ exited # "no"
  /\ task.phase # "idle" /\ ~task.final /\ ~task.aborted
  /\ task' = [task EXCEPT !.aborted = TRUE]
  /\ UNCHANGED <<files, dump, nodeVars, seen, launcherVars>>

GiveUp == End("one") /\ UNCHANGED <<files, dump, nodeVars, original, run>>

(* Mutant: the checkpoint published last is good enough. *)
Finish_AnyCheckpoint ==
  /\ launcher = "up" /\ exited # "no"
  /\ task.phase = "idle"
  /\ IF exited = "clean" /\ primary.exists
     THEN End("zero") /\ UNCHANGED <<files, dump, nodeVars, original, run>>
     ELSE GiveUp

(* Then the node's last dump is published, if it made one. *)
Finish ==
  /\ launcher = "up" /\ exited # "no"
  /\ task.phase = "idle"
  /\ IF exited = "clean" /\ clock /\ Fresh
     THEN /\ Begin(TRUE)
          /\ UNCHANGED <<files, dump, nodeVars, seen, launcherVars>>
     ELSE GiveUp

(* The launcher is killed, and the node with it or not.                    *)
CrashLauncher ==
  /\ launcher = "up"
  /\ End("none")
  /\ node' \in {node, "down"}
  /\ UNCHANGED <<files, dump, chain, past, original, run>>

(* Something else truncates the primary or removes it.                     *)
Damage ==
  /\ primary.exists
  /\ damages < MaxDamage
  /\ damages' = damages + 1
  /\ primary' \in {NoFile, [primary EXCEPT !.whole = FALSE]}
  /\ UNCHANGED <<started, backup, latest, dump, nodeVars, seen, launcherVars, task>>

-----------------------------------------------------------------------------
Init ==
  /\ run = 0 /\ launcher = "down" /\ started = FALSE
  /\ node = "down" /\ exited = "no" /\ clock = FALSE /\ stopping = FALSE
  /\ chain = Genesis /\ past = {}
  /\ primary = NoFile /\ backup = NoFile
  /\ writing = NoFile /\ version = 0
  /\ original = 0 /\ observed = 0 /\ published = 0
  /\ task = Idle
  /\ status = "none"
  /\ latest = Genesis
  /\ damages = 0

Checkpoint == CopyDump \/ Validate \/ KeepPrevious \/ Publish

Next ==
  \/ Launch \/ StartMining \/ ClockReady
  \/ Mine \/ BeginDump \/ EndDump \/ ExitCleanly \/ Die
  \/ Poll \/ Checkpoint \/ Abort
  \/ Stop \/ Kill \/ AbortInFlight \/ Finish
  \/ CrashLauncher \/ Damage

Spec == Init /\ [][Next]_vars

(* The launcher's own steps: file operations end, the kill timer fires.    *)
Fairness ==
  /\ WF_vars(Checkpoint) /\ WF_vars(AbortInFlight) /\ WF_vars(Finish)
  /\ WF_vars(Kill)

FairSpec == Spec /\ Fairness

-----------------------------------------------------------------------------
(* Properties *)

States == [run : Nat, block : Nat]
Files == [state : States, whole : BOOLEAN, exists : BOOLEAN]

(* The processes' and the files' states; only an unfinished stop has a     *)
(* final checkpoint in flight.                                             *)
TypeOK ==
  /\ run \in Nat /\ launcher \in {"down", "up"} /\ started \in BOOLEAN
  /\ node \in {"down", "idle", "mining"} /\ exited \in {"no", "clean", "failed"}
  /\ clock \in BOOLEAN /\ stopping \in BOOLEAN
  /\ chain \in States /\ past \subseteq States
  /\ primary \in Files /\ backup \in Files /\ writing \in Files
  /\ version \in Nat /\ original \in 0..version /\ observed \in 0..version
  /\ published \in 0..version
  /\ task \in [phase : {"idle", "copying", "copied", "valid", "kept"}, before : 0..version,
               copy : Files, final : BOOLEAN, aborted : BOOLEAN]
  /\ task.final => launcher = "up" /\ exited = "clean"
  /\ status \in {"none", "zero", "one"}
  /\ latest \in States /\ damages \in 0..MaxDamage

(* The snapshots a start can use are whole, whenever the launcher, the     *)
(* node or the machine stopped: no torn dump and no half copy is ever in   *)
(* their place.                                                            *)
SnapshotsAreWhole ==
  damages = 0 => /\ primary.exists => primary.whole
                 /\ backup.exists => backup.whole

(* No silent rollback: a start continues from the checkpoint published     *)
(* last, or the chain has never been started.  It never uses an older      *)
(* snapshot and never replaces a lost one by an empty chain.               *)
StartsContinue ==
  [][run' # run => IF started THEN chain' = latest /\ primary.exists
                   ELSE chain' = Genesis]_vars

(* A checkpoint is a state this very chain went through, and no older than *)
(* the one it replaces: what an earlier start of the node left in the      *)
(* dump file, a history that the restore abandoned, is never published.    *)
CheckpointsExtendTheChain ==
  [][latest' # latest => latest' \in past /\ latest'.block >= latest.block]_vars

(* Exit code 0 means that nothing was lost: the primary holds the last     *)
(* block the node mined.                                                   *)
CleanExitSavesAll ==
  status = "zero" /\ damages = 0 => primary.state = chain

(* A launcher that is asked to stop stops, whatever the node does.  Only   *)
(* the end of the launcher ends a stop.                                    *)
StopEnds == []<>~stopping

(* vault/README.md:50 says that the launcher uses the last good copy when  *)
(* the main snapshot is damaged: it could then start.                      *)
DamagedPrimaryFallsBack ==
  /\ launcher = "down" /\ node = "down" /\ run < MaxRuns
  /\ primary.exists /\ ~primary.whole
  /\ backup.exists /\ backup.whole
  => ENABLED Launch
=============================================================================
