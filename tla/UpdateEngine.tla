---------------------------- MODULE UpdateEngine ----------------------------
(***************************************************************************)
(* The self-update engine (UpdateOrchestrator): a run that replaces the     *)
(* application tree file by file, the rollback that puts a snapshot of the  *)
(* old tree back, the state file both leave behind, the sweeps that tidy   *)
(* the application directory, and crashes between any two of these steps.  *)
(*                                                                         *)
(* A file is a part of the application in one build; builds are numbered   *)
(* by the install that brought them.  An install is the portable swap; the *)
(* Inno Setup program and the contents of the user's data are left out.    *)
(***************************************************************************)
EXTENDS Naturals

CONSTANTS
    Part,         \* what every build of the application consists of
    MaxInstalls,  \* bound: installs explored
    MaxCrashes,   \* bound: crashes explored
    Faults        \* which faults may happen

\* io: a file operation or the network fails;  live: a gate blocks the run;
\* migration: a migration raises;  health: the new build does not answer;
\* version: it answers with another version;  locked: a directory is in use and
\* cannot be removed completely
FaultKinds == {"io", "live", "migration", "health", "version", "locked"}

ASSUME ConstantsAssumption ==
    /\ MaxInstalls \in Nat /\ MaxCrashes \in Nat
    /\ Faults \subseteq FaultKinds

VARIABLES
    tree,      \* the application: a set of files
    remains,   \* files a restore has removed in part
    prev,      \* .previous-<i>: what install i moved aside and is still there
    dirs,      \* the .previous directories that exist
    newest,    \* the one of them that was changed last, 0 for none
    gen,       \* builds installed so far; build 0 is the first
    pointer,   \* rollback-pointer.json: a .previous directory, 0 for none
    from,      \* the directory a restore takes its files from
    data,      \* user data: tree, aside (.preserve-*), stranded there, lost
    state,     \* update-state.json
    lock,      \* the marker directory: free, held, left by a dead process
    pc,        \* what the update process is about to do
    outcome,   \* how the last command ended
    checker,   \* a check (CLI or web): idle, checking
    cut,       \* history: a swap or a restore failed half-way, crashed, or left remains
    torn,      \* history: a crash cut one short and nothing was rolled back since
    checked,   \* history: a check wrote the state file since the run began
    crashes

files   == <<tree, remains, prev, dirs, newest, gen, data>>
history == <<cut, torn, checked, crashes>>
vars == <<files, pointer, from, state, lock, pc, outcome, checker, history>>

Fault(k) == k \in Faults
Gen == 0..MaxInstalls
File == Part \X Gen
Build(g) == Part \X {g}
Whole(dir) == dir \cap remains = {} /\ \E g \in Gen : dir = Build(g)

\* DOWNLOADING stands for DOWNLOADING, VERIFYING and READY, VERIFYING_INSTALL for
\* itself and HEALTH_CHECK.
State == {"IDLE", "CHECKING", "AVAILABLE", "DOWNLOADING", "QUIESCING", "BACKING_UP",
          "MIGRATING", "INSTALLING", "VERIFYING_INSTALL", "COMPLETED", "FAILED",
          "ROLLING_BACK", "ROLLED_BACK", "FAILED_SAFE"}

Step == {"idle", "discover", "gate", "download", "quiesce", "backup", "migrate", "stage",
         "out", "in", "health", "restore", "finally", "select", "rollback"}

\* Mutant of Clear: an update that stopped while installing is not a crash.
ClearWhileInstalling(s) ==
    s \in {"IDLE", "COMPLETED", "FAILED", "ROLLED_BACK", "FAILED_SAFE", "INSTALLING"}

\* recover_after_crash: the states a run may start from.
Clear(s) == s \in {"IDLE", "COMPLETED", "FAILED", "ROLLED_BACK", "FAILED_SAFE"}

Init ==
    /\ tree = Build(0) /\ remains = {} /\ gen = 0
    /\ prev = [g \in Gen |-> {}] /\ dirs = {} /\ newest = 0
    /\ pointer = 0 /\ from = 0 /\ data = "tree"
    /\ state = "IDLE" /\ lock = "free" /\ pc = "idle" /\ outcome = "none"
    /\ checker = "idle" /\ cut = FALSE /\ torn = FALSE /\ checked = FALSE /\ crashes = 0

-----------------------------------------------------------------------------
(* Directories *)

\* The snapshot a rollback takes: the recorded one, else the newest.
Chosen == IF pointer \in dirs THEN pointer ELSE newest

\* Mutant of Trusted: any snapshot will do (BUG-263).
TrustedBlindly(i) == i # 0

\* verify_snapshot: the snapshot is a complete build by its own manifest.
Trusted(i) == i # 0 /\ Whole(prev[i])

\* What the application has in the place of f.
InPlaceOf(f) == {e \in tree \ {f} : e[1] = f[1]}

\* Mutant of Placed: the old part is not removed first.
PlacedBeside(dir, f) == dir \cup {f}

\* A file moved to where the directory's own was removed.
Placed(dir, f) == {e \in dir : e[1] # f[1]} \cup {f}

\* Newest file of a directory, 0 for an empty one.
Freshness(i) ==
    CHOOSE n \in 0..(MaxInstalls + 1) :
        /\ n = 0 \/ \E f \in prev[i] : n = f[2] + 1
        /\ \A f \in prev[i] : f[2] + 1 <= n

\* Mutant of Survivor: the sort is not reversed.
SurvivorUnreversed(i) == i \in dirs /\ \A j \in dirs : Freshness(i) <= Freshness(j)

\* sweep_crash_leftovers keeps one of the directories with the newest file.
Survivor(i) == i \in dirs /\ \A j \in dirs : Freshness(j) <= Freshness(i)

Swept ==
    /\ IF dirs = {} THEN UNCHANGED <<prev, dirs, newest>>
       ELSE \E i \in dirs :
              /\ Survivor(i)
              /\ dirs' = {i} /\ newest' = i
              /\ prev' = [j \in Gen |-> IF j = i THEN prev[j] ELSE {}]
    /\ data' = IF data = "stranded" THEN "lost" ELSE data

-----------------------------------------------------------------------------
(* A run *)

RunRefused ==
    /\ pc = "idle" /\ ~Clear(state)
    /\ outcome' = "CRASH_REQUIRES_ROLLBACK"
    /\ UNCHANGED <<files, pointer, from, state, lock, pc, checker, history>>

BeginRun ==
    /\ pc = "idle" /\ Clear(state) /\ lock = "free" /\ gen < MaxInstalls
    /\ lock' = "held" /\ state' = "CHECKING" /\ pc' = "discover"
    /\ outcome' = "none" /\ torn' = FALSE /\ checked' = FALSE
    /\ UNCHANGED <<files, pointer, from, checker, cut, crashes>>

LockedOut ==
    /\ pc = "idle" /\ Clear(state) /\ lock = "left"
    /\ outcome' = "UPDATE_IN_PROGRESS"
    /\ UNCHANGED <<files, pointer, from, state, lock, pc, checker, history>>

\* Files of the application are on the move.
Swapping == pc \in {"out", "in", "restore", "rollback"}

\* The run goes on to a stage, whose name the state file gets.
Go(here, there, s) ==
    /\ pc = here /\ pc' = there /\ state' = s
    /\ UNCHANGED <<from, lock, checker, history>>

\* The run ends with outcome o and leaves s in the state file.
Stop(o, s) ==
    /\ pc' = "finally" /\ outcome' = o /\ state' = s
    /\ UNCHANGED <<pointer, from, lock, checker, torn, checked, crashes>>

Discover ==
    /\ pc = "discover"
    /\ \/ /\ Go("discover", "gate", "AVAILABLE")
          /\ UNCHANGED <<files, pointer, outcome>>
       \/ /\ \E s \in {"IDLE", "FAILED"} : Stop("none", s)
          /\ UNCHANGED <<files, cut>>

\* The LIVE gate and the compatibility gate return with the state as it is.
GateBlocks ==
    /\ pc = "gate" /\ Fault("live")
    /\ Stop("BLOCKED", state)
    /\ UNCHANGED <<files, cut>>

\* Download and verification, the quiesce protocol, the user-data backup.
Prepare ==
    /\ \/ Go("gate", "download", "DOWNLOADING")
       \/ Go("download", "quiesce", "QUIESCING")
       \/ Go("quiesce", "backup", "BACKING_UP")
    /\ UNCHANGED <<files, pointer, outcome>>

PrepareFails ==
    /\ pc \in {"download", "quiesce", "backup"} /\ Fault("io")
    /\ Stop("FAILED", "FAILED")
    /\ UNCHANGED <<files, cut>>

\* _record_backup_pointer: the newest snapshot there is before the install.
RecordPointer ==
    /\ Go("backup", "migrate", "MIGRATING")
    /\ pointer' = newest
    /\ UNCHANGED <<files, outcome>>

Migrate ==
    /\ Go("migrate", "stage", "INSTALLING")
    /\ UNCHANGED <<files, pointer, outcome>>

\* MigrationError is not among the exceptions run handles.
MigrateRaises ==
    /\ pc = "migrate" /\ Fault("migration")
    /\ Stop("RAISED", state)
    /\ UNCHANGED <<files, cut>>

\* The payload is unpacked and accepted: a .previous directory is made and the
\* user data dirs are moved to .preserve-*, unless an earlier run left them there.
StagePayload ==
    /\ Go("stage", "out", state)
    /\ gen' = gen + 1
    /\ dirs' = dirs \cup {gen + 1} /\ newest' = gen + 1
    /\ prev' = [prev EXCEPT ![gen + 1] = {}]
    /\ data' = IF data = "tree" THEN "aside" ELSE data
    /\ UNCHANGED <<tree, remains, pointer, outcome>>

\* A part leaves the application with all its directory holds.
MoveOut(f) ==
    /\ pc = "out" /\ f \in tree
    /\ tree' = tree \ (InPlaceOf(f) \cup {f})
    /\ prev' = [prev EXCEPT ![gen] = @ \cup InPlaceOf(f) \cup {f}]
    /\ UNCHANGED <<remains, dirs, newest, gen, data, pointer, from, state, lock, pc, outcome,
                   checker, history>>

MovedOut ==
    /\ tree = {}
    /\ Go("out", "in", state)
    /\ UNCHANGED <<files, pointer, outcome>>

MoveIn(f) ==
    /\ pc = "in" /\ f \in Build(gen) \ tree
    /\ tree' = tree \cup {f}
    /\ UNCHANGED <<remains, prev, dirs, newest, gen, data, pointer, from, state, lock, pc, outcome,
                   checker, history>>

\* The preserved user data goes back, over what the payload brought.
Merge ==
    /\ Build(gen) \subseteq tree
    /\ Go("in", "health", "VERIFYING_INSTALL")
    /\ data' = IF data = "aside" THEN "tree" ELSE data
    /\ UNCHANGED <<tree, remains, prev, dirs, newest, gen, pointer, outcome>>

\* install_portable removes its stage and raises; nothing is moved back.
InstallFails ==
    /\ pc \in {"stage", "out", "in"} /\ Fault("io")
    /\ Stop("FAILED", "FAILED")
    /\ cut' = (cut \/ Swapping)
    /\ data' = IF data = "aside" THEN "stranded" ELSE data
    /\ UNCHANGED <<tree, remains, prev, dirs, newest, gen>>

\* An unhealthy build fails the run and stays.
HealthFails ==
    /\ pc = "health" /\ Fault("health")
    /\ Stop("FAILED", "FAILED")
    /\ UNCHANGED <<files, cut>>

VersionMatches ==
    /\ pc = "health"
    /\ Stop("COMPLETED", "COMPLETED")
    /\ UNCHANGED <<files, cut>>

\* The run restores a snapshot itself; the state file is not written again.
VersionDiffers ==
    /\ pc = "health" /\ Fault("version")
    /\ IF Trusted(Chosen)
       THEN /\ pc' = "restore" /\ from' = Chosen /\ UNCHANGED outcome
       ELSE /\ pc' = "finally" /\ outcome' = "UPDATE_VERIFICATION_FAILED" /\ UNCHANGED from
    /\ UNCHANGED <<files, pointer, state, lock, checker, history>>

\* finally: the lock is released and the application directory swept.
EndRun ==
    /\ pc = "finally" /\ pc' = "idle" /\ lock' = "free"
    /\ Swept
    /\ UNCHANGED <<tree, remains, gen, pointer, from, state, outcome, checker, history>>

-----------------------------------------------------------------------------
(* A rollback *)

BeginRollback ==
    /\ pc = "idle" /\ lock = "free"
    /\ lock' = "held" /\ state' = "ROLLING_BACK" /\ pc' = "select"
    /\ outcome' = "none" /\ torn' = FALSE /\ checked' = FALSE
    /\ UNCHANGED <<files, pointer, from, checker, cut, crashes>>

RollbackRefused ==
    /\ pc = "select" /\ ~Trusted(Chosen)
    /\ state' = "FAILED_SAFE" /\ pc' = "idle" /\ lock' = "free" /\ outcome' = "REFUSED"
    /\ UNCHANGED <<files, pointer, from, checker, history>>

RollbackStarts ==
    /\ pc = "select" /\ Trusted(Chosen)
    /\ pc' = "rollback" /\ from' = Chosen
    /\ UNCHANGED <<files, pointer, state, lock, outcome, checker, history>>

\* restore_application moves the snapshot's entries one by one, each to where it
\* has removed what the application had.
RestoreFile(f) ==
    /\ pc \in {"restore", "rollback"} /\ f \in prev[from]
    /\ tree' = Placed(tree, f)
    /\ prev' = [prev EXCEPT ![from] = @ \ {f}]
    /\ newest' = from
    /\ UNCHANGED <<remains, dirs, gen, data, pointer, from, state, lock, pc, outcome, checker,
                   history>>

\* The old directory could not be removed, and that goes unnoticed: shutil.move
\* puts the snapshot's inside what is left of it, and the restore goes on.
RestoreInside(f) ==
    /\ Fault("locked")
    /\ pc \in {"restore", "rollback"} /\ f \in prev[from] /\ InPlaceOf(f) # {}
    /\ tree' = tree \cup {f} /\ remains' = remains \cup InPlaceOf(f)
    /\ prev' = [prev EXCEPT ![from] = @ \ {f}]
    /\ newest' = from
    /\ cut' = TRUE
    /\ UNCHANGED <<dirs, gen, data, pointer, from, state, lock, pc, outcome, checker,
                   torn, checked, crashes>>

\* A restore stops at a part whose old files it may have removed, all or some.
Interrupted ==
    \/ UNCHANGED <<tree, remains>>
    \/ \E f \in prev[from] :
          \/ tree' = tree \ InPlaceOf(f) /\ UNCHANGED remains
          \/ remains' = remains \cup InPlaceOf(f) /\ UNCHANGED tree

AutoRestored ==
    /\ pc = "restore" /\ prev[from] = {}
    /\ Stop("UPDATE_VERIFICATION_FAILED", state)
    /\ UNCHANGED <<files, cut>>

RolledBack ==
    /\ pc = "rollback" /\ prev[from] = {}
    /\ state' = "ROLLED_BACK" /\ outcome' = "ROLLED_BACK" /\ pc' = "idle" /\ lock' = "free"
    /\ UNCHANGED <<files, pointer, from, checker, history>>

\* A move fails: run handles it, rollback lets it through.
RestoreFails ==
    /\ Fault("io")
    /\ \/ pc = "restore" /\ Stop("FAILED", "FAILED")
       \/ /\ pc = "rollback" /\ pc' = "idle" /\ lock' = "free" /\ outcome' = "RAISED"
          /\ UNCHANGED <<pointer, from, state, checker, torn, checked, crashes>>
    /\ cut' = TRUE
    /\ Interrupted
    /\ UNCHANGED <<prev, dirs, newest, gen, data>>

-----------------------------------------------------------------------------
(* Checks, engine boots, crashes *)

\* check takes no lock: it writes the state file whatever else is going on.
CheckBegins ==
    /\ checker = "idle"
    /\ checker' = "checking" /\ state' = "CHECKING" /\ checked' = TRUE
    /\ UNCHANGED <<files, pointer, from, lock, pc, outcome, cut, torn, crashes>>

CheckEnds ==
    /\ checker = "checking"
    /\ checker' = "idle" /\ state' \in {"IDLE", "AVAILABLE", "FAILED"} /\ checked' = TRUE
    /\ UNCHANGED <<files, pointer, from, lock, pc, outcome, cut, torn, crashes>>

\* The engine sweeps the application directory when it boots.
BootSweep ==
    /\ pc = "idle"
    /\ Swept
    /\ UNCHANGED <<tree, remains, gen, pointer, from, state, lock, pc, outcome, checker,
                   history>>

Crash ==
    /\ pc # "idle" /\ crashes < MaxCrashes
    /\ crashes' = crashes + 1
    /\ cut' = (cut \/ Swapping) /\ torn' = (torn \/ Swapping)
    /\ data' = IF data = "aside" THEN "stranded" ELSE data
    /\ lock' = "left" /\ pc' = "idle" /\ outcome' = "none"
    /\ IF pc \in {"restore", "rollback"} THEN Interrupted ELSE UNCHANGED <<tree, remains>>
    /\ UNCHANGED <<prev, dirs, newest, gen, pointer, from, state, checker, checked>>

\* Half an hour later the marker of a dead process may be taken over.
LockExpires ==
    /\ lock = "left" /\ lock' = "free"
    /\ UNCHANGED <<files, pointer, from, state, pc, outcome, checker, history>>

-----------------------------------------------------------------------------
Run ==
    \/ RunRefused \/ BeginRun \/ LockedOut \/ Discover \/ GateBlocks \/ Prepare
    \/ PrepareFails \/ RecordPointer \/ Migrate \/ MigrateRaises \/ StagePayload
    \/ MovedOut \/ Merge \/ InstallFails \/ HealthFails \/ VersionMatches
    \/ VersionDiffers \/ EndRun

Rollback ==
    \/ BeginRollback \/ RollbackRefused \/ RollbackStarts \/ AutoRestored
    \/ RolledBack \/ RestoreFails

MoveFile == \E f \in File : MoveOut(f) \/ MoveIn(f) \/ RestoreFile(f) \/ RestoreInside(f)

Next ==
    \/ Run \/ Rollback \/ MoveFile
    \/ CheckBegins \/ CheckEnds \/ BootSweep \/ Crash \/ LockExpires

Spec == Init /\ [][Next]_vars

-----------------------------------------------------------------------------
(* Properties *)

\* Types; the application holds a part twice only if one of the two is what a
\* restore could not remove.
TypeOK ==
    /\ tree \subseteq File /\ remains \subseteq File
    /\ \A e, f \in tree \ remains : e[1] = f[1] => e = f
    /\ prev \in [Gen -> SUBSET File]
    /\ dirs \subseteq Gen \ {0} /\ newest \in dirs \cup {0}
    /\ gen \in Gen /\ pointer \in Gen /\ from \in Gen
    /\ data \in {"tree", "aside", "stranded", "lost"}
    /\ state \in State
    /\ lock \in {"free", "held", "left"}
    /\ pc \in Step
    /\ checker \in {"idle", "checking"}
    /\ cut \in BOOLEAN /\ torn \in BOOLEAN /\ checked \in BOOLEAN /\ crashes \in 0..MaxCrashes

\* What the state file says of the application (section 63, BUG-263): COMPLETED
\* means one build, whole; ROLLED_BACK one build of which every part is there,
\* whole, and beside it at most what a restore tried to remove and could not.
NeverHalfInstalled ==
    /\ state = "COMPLETED" => Whole(tree)
    /\ state = "ROLLED_BACK" =>
          \E g \in Gen : /\ Build(g) \subseteq tree /\ Build(g) \cap remains = {}
                         /\ tree \ Build(g) \subseteq remains

\* A run that reported rollback_available has left a snapshot the next rollback
\* will accept: the sweep at its end, and those of later engine boots, keep the
\* right directory.  Once a swap has failed half-way they may not, as the files of
\* half a build make its directory the newest, and once a restore has left remains
\* the next install sets these aside as its snapshot.
RollbackAvailable ==
    pc = "idle" /\ outcome = "COMPLETED" /\ ~cut => Trusted(Chosen)

\* After a crash in the middle of a swap or of a restore, no run starts before a
\* rollback was asked for, unless a check has overwritten the state file.
CrashBlocksRun == [][pc = "idle" /\ pc' = "discover" => ~torn \/ checked]_vars
=============================================================================
