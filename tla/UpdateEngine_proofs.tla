------------------------ MODULE UpdateEngine_proofs ------------------------
(***************************************************************************)
(* Proofs about UpdateEngine, for every set of parts, every number of      *)
(* installs and crashes and every choice of faults: a state file that says *)
(* COMPLETED or ROLLED_BACK never stands beside a half-installed tree, a    *)
(* crash in the middle of a swap keeps the next run from starting, and the *)
(* rollback pointer of a completed run leads to a whole snapshot           *)
(* (KeptInv: what each step leaves of the snapshots it does not use).      *)
(***************************************************************************)
EXTENDS UpdateEngine, TLAPS

-----------------------------------------------------------------------------
(* The inductive invariant *)

\* The process between two commands, or past the end of a run.
Done == {"idle", "finally"}

\* A run only starts when there is an install left to explore.
Room == pc \in {"discover", "gate", "download", "quiesce", "backup", "migrate", "stage"}
        => gen < MaxInstalls

\* What is moved in is the new build, and nothing else is there.
MovingIn == pc = "in" => tree \subseteq Build(gen)
Installed == pc = "health" => tree = Build(gen)

\* No file is newer than the last build, and none of a build on its way in has
\* been removed in part.
Dated ==
    /\ \A f \in tree \cup remains : f[2] <= gen
    /\ \A i \in Gen : \A f \in prev[i] : f[2] <= gen
Fresh == pc \in {"out", "in", "health"} => Build(gen) \cap remains = {}

\* Between them the tree and what is left of the snapshot are build g; any other
\* file of the tree is still to be replaced, or could not be removed.
Restores(g, left) ==
    /\ left \subseteq Build(g) /\ Build(g) \cap remains = {}
    /\ Build(g) \subseteq tree \cup left
    /\ \A f \in tree : f \in Build(g) \cup remains \/ \E e \in left : e[1] = f[1]
Restoring ==
    pc \in {"restore", "rollback"} =>
        from \in dirs /\ \E g \in Gen : Restores(g, prev[from])

\* While something is going on the state file does not claim success, and says
\* that something is going on unless a check has written to it.
NoClaim == pc \notin Done => state \notin {"COMPLETED", "ROLLED_BACK"}
Marked == pc \notin Done /\ ~checked => ~Clear(state)
TornMarked == torn => pc = "idle" /\ (~checked => ~Clear(state))

Core ==
    /\ TypeOK /\ Room /\ MovingIn /\ Installed /\ Restoring
    /\ NoClaim /\ Marked /\ TornMarked /\ NeverHalfInstalled
IInv == Core /\ Dated /\ Fresh

-----------------------------------------------------------------------------
(* Files and builds *)

LEMMA FilePairs ==
    \A f \in File : f = <<f[1], f[2]>> /\ f[1] \in Part /\ f[2] \in Gen
BY DEF File

LEMMA BuildOf ==
    ASSUME NEW g \in Gen
    PROVE  /\ Build(g) \subseteq File
           /\ \A f \in Build(g) : f = <<f[1], g>> /\ f[1] \in Part
           /\ \A p \in Part : <<p, g>> \in Build(g)
           /\ \A e, f \in Build(g) : e[1] = f[1] => e = f
BY DEF Build, File

LEMMA ZeroIsBuilt == 0 \in Gen
BY ConstantsAssumption DEF Gen

-----------------------------------------------------------------------------
(* Init and the steps *)

LEMMA InitIInv == Init => IInv
<1> SUFFICES ASSUME Init PROVE IInv
    OBVIOUS
<1>1. TypeOK
    <2>1. tree \subseteq File /\ \A e, f \in tree : e[1] = f[1] => e = f
        BY BuildOf, ZeroIsBuilt DEF Init
    <2>2. gen \in Gen /\ pointer \in Gen /\ from \in Gen /\ crashes \in 0..MaxCrashes
        BY ZeroIsBuilt, ConstantsAssumption DEF Init
    <2> QED
        BY <2>1, <2>2 DEF Init, TypeOK, State, Step
<1>2. NeverHalfInstalled
    BY DEF Init, NeverHalfInstalled
<1>3. Dated /\ Fresh
    <2>1. \A f \in Build(0) : f[2] = 0
        BY BuildOf, ZeroIsBuilt
    <2> QED
        BY <2>1 DEF Init, Dated, Fresh
<1>4. Core
    BY <1>1, <1>2 DEF Init, Core, Room, MovingIn, Installed, Restoring, NoClaim, Marked, TornMarked, Done
<1> QED
    BY <1>3, <1>4 DEF IInv

\* A step that moves no file, changes no directory and keeps or ends the command.
LEMMA QuietSteps ==
    ASSUME IInv,
           RunRefused \/ LockedOut \/ GateBlocks \/ PrepareFails \/ MigrateRaises
              \/ HealthFails \/ BeginRollback \/ RollbackRefused \/ LockExpires
    PROVE  Core'
<1>1. UNCHANGED <<tree, remains, prev, dirs, newest, gen, data, pointer, from, checker, cut, crashes>>
    BY DEF RunRefused, LockedOut, GateBlocks, PrepareFails, MigrateRaises, HealthFails,
       BeginRollback, RollbackRefused, LockExpires, Stop, files, history
<1>2. TypeOK'
    <2>1. /\ state' \in {state, "FAILED", "ROLLING_BACK", "FAILED_SAFE"}
          /\ lock' \in {lock, "held", "free"}
          /\ pc' \in {pc, "finally", "select", "idle"}
        BY DEF RunRefused, LockedOut, GateBlocks, PrepareFails, MigrateRaises, HealthFails,
           BeginRollback, RollbackRefused, LockExpires, Stop
    <2>2. torn' \in {torn, FALSE} /\ checked' \in {checked, FALSE}
        BY DEF RunRefused, LockedOut, GateBlocks, PrepareFails, MigrateRaises, HealthFails,
           BeginRollback, RollbackRefused, LockExpires, Stop, history
    <2>3. state' \in State /\ lock' \in {"free", "held", "left"} /\ pc' \in Step
        BY <2>1 DEF IInv, Core, TypeOK, State, Step
    <2>4. torn' \in BOOLEAN /\ checked' \in BOOLEAN
        BY <2>2 DEF IInv, Core, TypeOK
    <2> QED
        BY <1>1, <2>3, <2>4 DEF IInv, Core, TypeOK
<1>3. Room' /\ MovingIn' /\ Installed' /\ Restoring'
    BY <1>1 DEF IInv, Core, Room, MovingIn, Installed, Restoring, Restores, RunRefused, LockedOut,
       GateBlocks, PrepareFails, MigrateRaises, HealthFails, BeginRollback, RollbackRefused,
       LockExpires, Stop
<1>4. NoClaim' /\ Marked' /\ TornMarked'
    BY <1>1 DEF IInv, Core, NoClaim, Marked, TornMarked, Done, Clear, RunRefused, LockedOut,
       GateBlocks, PrepareFails, MigrateRaises, HealthFails, BeginRollback, RollbackRefused,
       LockExpires, Stop, history
<1>5. NeverHalfInstalled'
    BY <1>1 DEF IInv, Core, NeverHalfInstalled, NoClaim, Done, Whole, RunRefused, LockedOut,
       GateBlocks, PrepareFails, MigrateRaises, HealthFails, BeginRollback, RollbackRefused,
       LockExpires, Stop
<1> QED
    BY <1>2, <1>3, <1>4, <1>5 DEF IInv, Core

\* The stages before the files move.
LEMMA PreparingSteps ==
    ASSUME IInv, BeginRun \/ Discover \/ Prepare \/ RecordPointer \/ Migrate
    PROVE  Core'
<1> USE DEF BeginRun, Discover, Prepare, RecordPointer, Migrate, Go, Stop, files, history
<1>1. TypeOK'
    <2>1. newest \in Gen
        BY ZeroIsBuilt DEF IInv, Core, TypeOK
    <2> QED
        BY <2>1 DEF IInv, Core, TypeOK, State, Step
<1>2. Room' /\ MovingIn' /\ Installed' /\ Restoring'
    BY DEF IInv, Core, Room, MovingIn, Installed, Restoring, Restores
<1>3. NoClaim' /\ Marked' /\ TornMarked'
    BY DEF IInv, Core, NoClaim, Marked, TornMarked, Done, Clear
<1>4. NeverHalfInstalled'
    BY DEF IInv, Core, NeverHalfInstalled, NoClaim, Done, Whole
<1> QED
    BY <1>1, <1>2, <1>3, <1>4 DEF IInv, Core

\* A build is staged and the tree swapped for it.
LEMMA SwapSteps ==
    ASSUME IInv,
           \/ StagePayload \/ MovedOut \/ Merge \/ InstallFails
           \/ \E f \in File : MoveOut(f) \/ MoveIn(f)
    PROVE  Core'
<1> USE DEF Go, Stop, files, history
<1>0. gen \in Gen /\ tree \subseteq File /\ prev \in [Gen -> SUBSET File]
    BY DEF IInv, Core, TypeOK
<1>1. ASSUME StagePayload PROVE Core'
    <2>1. gen + 1 \in Gen /\ gen + 1 # 0
        BY <1>0, <1>1, ConstantsAssumption DEF IInv, Core, Room, StagePayload, Gen
    <2>2. TypeOK'
        BY <1>0, <1>1, <2>1 DEF IInv, Core, TypeOK, State, Step, StagePayload
    <2> QED
        BY <1>1, <2>2 DEF IInv, Core, StagePayload, Room, MovingIn, Installed, Restoring, NoClaim,
           Marked, TornMarked, Done, NeverHalfInstalled
<1>2. ASSUME NEW f \in File, MoveOut(f) PROVE Core'
    <2>1. TypeOK'
        <3>1. InPlaceOf(f) \subseteq File /\ tree' \subseteq tree
            BY <1>0, <1>2 DEF InPlaceOf, MoveOut
        <3> QED
            BY <1>0, <1>2, <3>1 DEF IInv, Core, TypeOK, MoveOut
    <2> QED
        BY <1>2, <2>1 DEF IInv, Core, MoveOut, Room, MovingIn, Installed, Restoring, NoClaim,
           Marked, TornMarked, Done, NeverHalfInstalled
<1>3. ASSUME MovedOut PROVE Core'
    BY <1>3 DEF IInv, Core, MovedOut, TypeOK, State, Step, Room, MovingIn, Installed, Restoring, NoClaim,
       Marked, TornMarked, Done, NeverHalfInstalled
<1>4. ASSUME NEW f \in File, MoveIn(f) PROVE Core'
    <2>1. tree' \subseteq Build(gen)
        BY <1>4 DEF IInv, Core, MovingIn, MoveIn
    <2>2. TypeOK'
        BY <1>0, <1>4, <2>1, BuildOf DEF IInv, Core, TypeOK, MoveIn
    <2> QED
        BY <1>4, <2>1, <2>2 DEF IInv, Core, MoveIn, Room, MovingIn, Installed, Restoring, NoClaim,
           Marked, TornMarked, Done, NeverHalfInstalled, Build
<1>5. ASSUME Merge PROVE Core'
    <2>1. tree = Build(gen)
        BY <1>5 DEF IInv, Core, MovingIn, Merge
    <2>2. TypeOK'
        BY <1>5 DEF IInv, Core, TypeOK, State, Step, Merge
    <2> QED
        BY <1>5, <2>1, <2>2 DEF IInv, Core, Merge, Room, MovingIn, Installed, Restoring, NoClaim,
           Marked, TornMarked, Done, NeverHalfInstalled, Build, Clear
<1>6. ASSUME InstallFails PROVE Core'
    BY <1>6 DEF IInv, Core, InstallFails, TypeOK, State, Step, Swapping, Room, MovingIn, Installed,
       Restoring,
       NoClaim, Marked, TornMarked, Done, NeverHalfInstalled
<1> QED
    BY <1>1, <1>2, <1>3, <1>4, <1>5, <1>6

\* The new build answers: a run ends, or restores a snapshot.
LEMMA VersionSteps ==
    ASSUME IInv, VersionMatches \/ VersionDiffers \/ RollbackStarts
    PROVE  Core'
<1> USE DEF Stop, files, history
<1>1. ASSUME VersionMatches PROVE Core'
    <2>1. Whole(tree)'
        BY <1>1 DEF IInv, Core, VersionMatches, Installed, Whole, TypeOK, Fresh, Build
    <2>2. TypeOK'
        BY <1>1 DEF IInv, Core, TypeOK, State, Step, VersionMatches
    <2> QED
        BY <1>1, <2>1, <2>2 DEF IInv, Core, VersionMatches, Room, MovingIn, Installed, Restoring,
           NoClaim, Marked, TornMarked, Done, NeverHalfInstalled
<1>2. ASSUME VersionDiffers \/ RollbackStarts PROVE Core'
    <2>1. Chosen \in Gen /\ (Trusted(Chosen) => Chosen \in dirs)
        BY ZeroIsBuilt DEF IInv, Core, TypeOK, Chosen, Trusted
    <2>2. tree \subseteq File
        BY DEF IInv, Core, TypeOK
    <2>3. ASSUME Trusted(Chosen) PROVE \E g \in Gen : Restores(g, prev[Chosen])
        <3>1. PICK g \in Gen : prev[Chosen] = Build(g) /\ Build(g) \cap remains = {}
            BY <2>3 DEF Trusted, Whole
        <3>2. \A f \in tree : \E e \in Build(g) : e[1] = f[1]
            <4> TAKE f \in tree
            <4>1. <<f[1], g>> \in Build(g)
                BY <2>2, FilePairs, BuildOf
            <4> WITNESS <<f[1], g>> \in Build(g)
            <4> QED OBVIOUS
        <3> QED
            BY <3>1, <3>2 DEF Restores
    <2>4. TypeOK'
        BY <1>2, <2>1 DEF IInv, Core, TypeOK, State, Step, VersionDiffers, RollbackStarts
    <2>5. Restoring'
        BY <1>2, <2>1, <2>3 DEF Restoring, Restores, VersionDiffers, RollbackStarts
    <2> QED
        BY <1>2, <2>4, <2>5 DEF IInv, Core, VersionDiffers, RollbackStarts, Room, MovingIn,
           Installed, NoClaim, Marked, TornMarked, Done, NeverHalfInstalled
<1> QED
    BY <1>1, <1>2

LEMMA InterruptedType ==
    ASSUME TypeOK, Interrupted
    PROVE  /\ tree' \subseteq File /\ remains' \subseteq File
           /\ \A e, f \in tree' \ remains' : e[1] = f[1] => e = f
<1>1. tree' \subseteq tree /\ remains \subseteq remains' /\ remains' \subseteq remains \cup tree
    BY DEF Interrupted, InPlaceOf
<1> QED
    BY <1>1 DEF TypeOK

\* A snapshot goes back file by file.
LEMMA RestoreSteps ==
    ASSUME IInv,
           \/ AutoRestored \/ RolledBack \/ RestoreFails
           \/ \E f \in File : RestoreFile(f) \/ RestoreInside(f)
    PROVE  Core'
<1> USE DEF Stop, files, history
<1>0. tree \subseteq File /\ prev \in [Gen -> SUBSET File] /\ from \in Gen
    BY DEF IInv, Core, TypeOK
<1>1. ASSUME NEW f \in File, RestoreFile(f) \/ RestoreInside(f) PROVE Core'
    <2>1. PICK g \in Gen : Restores(g, prev[from])
        BY <1>1 DEF IInv, Core, Restoring, RestoreFile, RestoreInside
    <2>2. f \in Build(g) /\ f \in prev[from]
        BY <1>1, <2>1 DEF RestoreFile, RestoreInside, Restores
    <2>3. /\ \/ tree' = (tree \ InPlaceOf(f)) \cup {f} /\ remains' = remains
             \/ tree' = tree \cup {f} /\ remains' = remains \cup InPlaceOf(f)
          /\ prev' = [prev EXCEPT ![from] = @ \ {f}]
          /\ prev'[from] = prev[from] \ {f} /\ from' = from
          /\ newest' = from /\ cut' \in BOOLEAN
          /\ UNCHANGED <<dirs, gen, data, pointer, state, lock, pc, checker,
                         torn, checked, crashes>>
        BY <1>0, <1>1 DEF RestoreFile, RestoreInside, Placed, InPlaceOf, IInv, Core, TypeOK
    <2>4. InPlaceOf(f) \subseteq tree /\ InPlaceOf(f) \cap Build(g) = {}
        BY <2>2, BuildOf DEF InPlaceOf
    <2>5. \A e \in tree : e[1] = f[1] => e = f \/ e \in InPlaceOf(f)
        BY DEF InPlaceOf
    <2>6. Restores(g, prev[from])'
        <3>1. prev'[from] \subseteq Build(g) /\ Build(g) \cap remains' = {}
            BY <2>1, <2>3, <2>4 DEF Restores
        <3>2. Build(g) \subseteq tree' \cup prev'[from]
            BY <2>1, <2>2, <2>3, <2>4 DEF Restores
        <3>3. ASSUME NEW e \in tree'
              PROVE  e \in Build(g) \cup remains' \/ \E w \in prev'[from] : w[1] = e[1]
            <4>1. CASE e[1] = f[1]
                BY <2>2, <2>3, <2>5, <4>1
            <4>2. CASE e[1] # f[1]
                <5>1. e \in tree /\ remains \subseteq remains'
                    BY <2>3, <4>2
                <5>2. e \in Build(g) \cup remains \/ \E w \in prev[from] : w[1] = e[1]
                    BY <2>1, <5>1 DEF Restores
                <5> QED
                    BY <2>3, <4>2, <5>1, <5>2
            <4> QED
                BY <4>1, <4>2
        <3> QED
            BY <2>3, <3>1, <3>2, <3>3 DEF Restores, Build
    <2>7. TypeOK'
        <3>1. tree' \subseteq File /\ remains' \subseteq File
            BY <1>0, <2>3, <2>4 DEF IInv, Core, TypeOK
        <3>2. \A d, e \in tree' \ remains' : d[1] = e[1] => d = e
            <4>1. \A e \in tree' \ remains' : e[1] = f[1] => e = f
                BY <2>3, <2>5
            <4>2. \A e \in tree' \ remains' : e # f => e \in tree \ remains
                BY <2>3
            <4> QED
                BY <4>1, <4>2 DEF IInv, Core, TypeOK
        <3>3. prev' \in [Gen -> SUBSET File]
            BY <1>0, <2>3
        <3>4. newest' \in dirs' \cup {0}
            BY <1>1, <2>3 DEF IInv, Core, Restoring, RestoreFile, RestoreInside
        <3> QED
            BY <2>3, <3>1, <3>2, <3>3, <3>4 DEF IInv, Core, TypeOK
    <2>8. pc \in {"restore", "rollback"}
        BY <1>1 DEF RestoreFile, RestoreInside
    <2> QED
        BY <2>3, <2>6, <2>7, <2>8 DEF IInv, Core, Room, MovingIn, Installed, Restoring,
           NoClaim, Marked, TornMarked, Done, NeverHalfInstalled
<1>2. ASSUME RolledBack PROVE Core'
    <2>1. PICK g \in Gen : Restores(g, {})
        BY <1>2 DEF IInv, Core, Restoring, RolledBack
    <2>2. /\ Build(g) \subseteq tree /\ Build(g) \cap remains = {}
          /\ tree \ Build(g) \subseteq remains
        BY <2>1 DEF Restores
    <2>3. /\ state' = "ROLLED_BACK" /\ pc' = "idle" /\ lock' = "free"
          /\ UNCHANGED <<tree, remains, prev, dirs, newest, gen, data, pointer, from, checker,
                         cut, torn, checked, crashes>>
        BY <1>2 DEF RolledBack
    <2>4. TypeOK'
        BY <2>3 DEF IInv, Core, TypeOK, State, Step
    <2>5. NeverHalfInstalled'
        BY <2>2, <2>3 DEF NeverHalfInstalled, Build
    <2>6. ~torn
        BY <1>2 DEF IInv, Core, TornMarked, RolledBack
    <2> QED
        BY <2>3, <2>4, <2>5, <2>6 DEF IInv, Core, Room, MovingIn, Installed, Restoring,
           NoClaim, Marked, TornMarked, Done
<1>3. ASSUME AutoRestored \/ RestoreFails PROVE Core'
    <2>1. UNCHANGED <<tree, remains>> \/ Interrupted
        BY <1>3 DEF AutoRestored, RestoreFails
    <2>2. TypeOK'
        BY <1>3, <2>1, InterruptedType DEF IInv, Core, TypeOK, State, Step, AutoRestored,
           RestoreFails
    <2> QED
        BY <1>3, <2>2 DEF IInv, Core, AutoRestored, RestoreFails, Room, MovingIn, Installed,
           Restoring, NoClaim, Marked, TornMarked, Done, NeverHalfInstalled
<1> QED
    BY <1>1, <1>2, <1>3

\* Sweeps, checks and crashes.
LEMMA OtherSteps ==
    ASSUME IInv, EndRun \/ BootSweep \/ CheckBegins \/ CheckEnds \/ Crash
    PROVE  Core'
<1> USE DEF files, history
<1>1. ASSUME EndRun \/ BootSweep PROVE Core'
    <2>1. prev' \in [Gen -> SUBSET File] /\ dirs' \subseteq Gen \ {0}
             /\ newest' \in dirs' \cup {0}
        BY <1>1 DEF IInv, Core, TypeOK, EndRun, BootSweep, Swept
    <2>2. TypeOK'
        BY <1>1, <2>1 DEF IInv, Core, TypeOK, State, Step, EndRun, BootSweep, Swept
    <2> QED
        BY <1>1, <2>2 DEF IInv, Core, EndRun, BootSweep, Room, MovingIn, Installed, Restoring,
           NoClaim, Marked, TornMarked, Done, NeverHalfInstalled, Whole
<1>2. ASSUME CheckBegins \/ CheckEnds PROVE Core'
    <2>1. TypeOK'
        BY <1>2 DEF IInv, Core, TypeOK, State, Step, CheckBegins, CheckEnds
    <2>2. /\ state' \in {"CHECKING", "IDLE", "AVAILABLE", "FAILED"} /\ checked'
          /\ UNCHANGED <<tree, remains, prev, dirs, gen, from, pc, torn>>
        BY <1>2 DEF CheckBegins, CheckEnds
    <2> QED
        BY <2>1, <2>2 DEF IInv, Core, Room, MovingIn, Installed, Restoring, Restores, NoClaim,
           Marked, TornMarked, NeverHalfInstalled
<1>3. ASSUME Crash PROVE Core'
    <2>1. TypeOK'
        <3>1. /\ tree' \subseteq File /\ remains' \subseteq File
              /\ \A e, f \in tree' \ remains' : e[1] = f[1] => e = f
            BY <1>3, InterruptedType DEF IInv, Core, TypeOK, Crash
        <3>2. /\ crashes' \in 0..MaxCrashes /\ cut' \in BOOLEAN /\ torn' \in BOOLEAN
              /\ data' \in {"tree", "aside", "stranded", "lost"} /\ lock' = "left"
              /\ pc' = "idle" /\ UNCHANGED <<prev, dirs, newest, gen, pointer, from, state,
                                             checker, checked>>
            BY <1>3, ConstantsAssumption DEF IInv, Core, TypeOK, Crash, Swapping
        <3> QED
            BY <3>1, <3>2 DEF IInv, Core, TypeOK, Step
    <2> QED
        BY <1>3, <2>1 DEF IInv, Core, Crash, Swapping, Room, MovingIn, Installed, Restoring, NoClaim,
           Marked, TornMarked, Done, NeverHalfInstalled, Whole
<1> QED
    BY <1>1, <1>2, <1>3

LEMMA NextCore == IInv /\ [Next]_vars => Core'
<1> SUFFICES ASSUME IInv, [Next]_vars PROVE Core'
    OBVIOUS
<1>1. CASE UNCHANGED vars
    BY <1>1 DEF IInv, Core, vars, files, history, TypeOK, Room, MovingIn, Installed, Restoring,
       Restores, NoClaim, Marked, TornMarked, NeverHalfInstalled, Whole, Clear
<1>2. CASE Run
    BY <1>2, QuietSteps, PreparingSteps, SwapSteps, VersionSteps, OtherSteps DEF Run
<1>3. CASE Rollback
    BY <1>3, QuietSteps, VersionSteps, RestoreSteps DEF Rollback
<1>4. CASE MoveFile
    BY <1>4, SwapSteps, RestoreSteps DEF MoveFile
<1>5. CASE CheckBegins \/ CheckEnds \/ BootSweep \/ Crash \/ LockExpires
    BY <1>5, QuietSteps, OtherSteps
<1> QED
    BY <1>1, <1>2, <1>3, <1>4, <1>5 DEF Next

\* Where the files of a step come from: only a new build is dated later.
LEMMA DatedStep == IInv /\ [Next]_vars => Dated' /\ Fresh'
<1> SUFFICES ASSUME IInv, [Next]_vars PROVE Dated' /\ Fresh'
    OBVIOUS
<1>0. /\ gen \in Nat /\ from \in Gen /\ gen \in Gen /\ prev \in [Gen -> SUBSET File]
      /\ tree \subseteq File /\ remains \subseteq File /\ Dated /\ Fresh
    BY ConstantsAssumption DEF IInv, Core, TypeOK, Gen
<1> DEFINE Stay == UNCHANGED <<tree, remains, prev, gen>> /\ (pc' \in {"out", "in", "health"}
                      => pc \in {"out", "in", "health"})
<1>s. Stay => Dated' /\ Fresh'
    BY <1>0 DEF Dated, Fresh, Build
<1> HIDE DEF Stay
<1> USE DEF Go, Stop, files, history
<1>1. CASE UNCHANGED vars
    BY <1>s, <1>1 DEF vars, Stay
<1>2. CASE Run
    <2>1. CASE StagePayload
        <3>1. /\ gen' = gen + 1 /\ prev' = [prev EXCEPT ![gen + 1] = {}]
              /\ UNCHANGED <<tree, remains>>
            BY <2>1 DEF StagePayload
        <3>2. \A f \in File : f[2] \in Nat
            BY FilePairs, ConstantsAssumption DEF Gen
        <3>3. \A f \in File : f[2] <= gen => f[2] <= gen' /\ f[2] # gen'
            BY <1>0, <3>1, <3>2
        <3>4. \A i \in Gen : prev'[i] \in {prev[i], {}}
            BY <1>0, <3>1
        <3>5. Dated'
            BY <1>0, <3>1, <3>3, <3>4 DEF Dated
        <3>6. Build(gen') \cap remains = {}
            BY <1>0, <3>3 DEF Dated, Build
        <3> QED
            BY <3>1, <3>5, <3>6 DEF Fresh, Build
    <2>2. CASE EndRun
        <3>1. \A i \in Gen : prev'[i] \in {prev[i], {}}
            BY <1>0, <2>2 DEF EndRun, Swept
        <3> QED
            BY <1>0, <2>2, <3>1 DEF EndRun, Dated, Fresh
    <2>3. CASE Run /\ ~StagePayload /\ ~EndRun
        BY <1>s, <2>3 DEF Stay, Run, RunRefused, BeginRun, LockedOut, Discover, GateBlocks,
           Prepare, PrepareFails, RecordPointer, Migrate, MigrateRaises, MovedOut, Merge,
           InstallFails, HealthFails, VersionMatches, VersionDiffers
    <2> QED
        BY <1>2, <2>1, <2>2, <2>3
<1>3. CASE Rollback /\ ~RestoreFails
    BY <1>s, <1>3 DEF Stay, Rollback, BeginRollback, RollbackRefused, RollbackStarts,
       AutoRestored, RolledBack
<1>4. CASE RestoreFails \/ (Crash /\ pc \in {"restore", "rollback"})
    <2>1. /\ Interrupted /\ UNCHANGED <<prev, gen>> /\ pc' \in {"finally", "idle"}
        BY <1>4 DEF RestoreFails, Crash
    <2>2. tree' \cup remains' \subseteq tree \cup remains
        BY <2>1 DEF Interrupted, InPlaceOf
    <2> QED
        BY <1>0, <2>1, <2>2 DEF Dated, Fresh
<1>5. CASE MoveFile
    <2>1. PICK f \in File : MoveOut(f) \/ MoveIn(f) \/ RestoreFile(f) \/ RestoreInside(f)
        BY <1>5 DEF MoveFile
    <2>2. CASE MoveOut(f)
        <3>1. /\ tree' \subseteq tree /\ UNCHANGED <<remains, gen, pc>>
              /\ prev' = [prev EXCEPT ![gen] = @ \cup InPlaceOf(f) \cup {f}]
              /\ InPlaceOf(f) \cup {f} \subseteq tree
            BY <2>2 DEF MoveOut, InPlaceOf
        <3>2. \A i \in Gen : prev'[i] \subseteq prev[i] \cup tree
            BY <1>0, <3>1
        <3> QED
            BY <1>0, <3>1, <3>2 DEF Dated, Fresh, Build
    <2>3. CASE MoveIn(f)
        <3>1. f[2] = gen /\ tree' = tree \cup {f} /\ UNCHANGED <<remains, prev, gen, pc>>
            BY <2>3 DEF MoveIn, Build
        <3> QED
            BY <1>0, <3>1 DEF Dated, Fresh, Build
    <2>4. CASE RestoreFile(f) \/ RestoreInside(f)
        <3>1. /\ f \in prev[from] /\ tree' \subseteq tree \cup {f}
              /\ remains' \subseteq remains \cup tree /\ pc' = pc /\ gen' = gen
              /\ pc \notin {"out", "in", "health"}
              /\ prev' = [prev EXCEPT ![from] = @ \ {f}]
            BY <2>4 DEF RestoreFile, RestoreInside, Placed, InPlaceOf
        <3>2. \A i \in Gen : prev'[i] \subseteq prev[i]
            BY <1>0, <3>1
        <3> QED
            BY <1>0, <3>1, <3>2 DEF Dated, Fresh
    <2> QED
        BY <2>1, <2>2, <2>3, <2>4
<1>6. CASE BootSweep
    <2>1. \A i \in Gen : prev'[i] \in {prev[i], {}}
        BY <1>0, <1>6 DEF BootSweep, Swept
    <2> QED
        BY <1>0, <1>6, <2>1 DEF BootSweep, Dated, Fresh
<1>7. CASE CheckBegins \/ CheckEnds \/ LockExpires \/ (Crash /\ pc \notin {"restore", "rollback"})
    BY <1>s, <1>7 DEF Stay, CheckBegins, CheckEnds, LockExpires, Crash
<1> QED
    BY <1>1, <1>2, <1>3, <1>4, <1>5, <1>6, <1>7 DEF Next, Rollback

LEMMA NextIInv == IInv /\ [Next]_vars => IInv'
BY NextCore, DatedStep DEF IInv

LEMMA AlwaysIInv == Spec => []IInv
BY InitIInv, NextIInv, PTL DEF Spec

-----------------------------------------------------------------------------
(* Theorems *)

\* Every variable stays in its type, and of two builds of one part in the
\* application at least one is what a restore could not remove (the swap and the
\* restores of ApplicationInstaller and RollbackEngine).
THEOREM UpdateTypeCorrect == Spec => []TypeOK
<1>1. IInv => TypeOK
    BY DEF IInv, Core
<1> QED
    BY <1>1, AlwaysIInv, PTL

\* The state file never says COMPLETED of anything but one whole build, nor
\* ROLLED_BACK of a tree that lacks a part of the build put back or holds more than
\* the remains of what a restore failed to remove, wherever crashes, failing moves,
\* directories in use and unlocked checks fall.
THEOREM NothingHalfReported == Spec => []NeverHalfInstalled
<1>1. IInv => NeverHalfInstalled
    BY DEF IInv, Core
<1> QED
    BY <1>1, AlwaysIInv, PTL

\* After a crash in the middle of a swap no run starts, until a rollback is asked
\* for or a check overwrites the state file.
THEOREM NoBlindRestart == Spec => CrashBlocksRun
<1>1. IInv /\ [Next]_vars => [pc = "idle" /\ pc' = "discover" => ~torn \/ checked]_vars
    <2> SUFFICES ASSUME IInv, Next, pc = "idle", pc' = "discover"
                 PROVE  ~torn \/ checked
        OBVIOUS
    <2>1. BeginRun
        BY DEF Next, Run, Rollback, MoveFile, RunRefused, LockedOut, Discover, GateBlocks,
           Prepare, PrepareFails, RecordPointer, Migrate, MigrateRaises, StagePayload,
           MovedOut, Merge, InstallFails, HealthFails, VersionMatches, VersionDiffers,
           EndRun, BeginRollback, RollbackRefused, RollbackStarts, AutoRestored, RolledBack,
           RestoreFails, MoveOut, MoveIn, RestoreFile, RestoreInside, CheckBegins, CheckEnds, BootSweep,
           Crash, LockExpires, Go, Stop
    <2> QED
        BY <2>1 DEF IInv, Core, TornMarked, BeginRun
<1> QED
    BY <1>1, AlwaysIInv, PTL DEF Spec, CrashBlocksRun

-----------------------------------------------------------------------------
(* The snapshot a completed run leaves *)

\* No step but a move leaves a snapshot that is neither spent nor complete.
Undisturbed(dir) == dir = {} \/ Whole(dir)
InUse(i) == (pc = "out" /\ i = gen) \/ (pc \in {"restore", "rollback"} /\ i = from)

\* The installed tree, and what the swap under way has moved aside of it.
Staged == pc \in {"out", "in", "health"} => gen \in dirs
WholeTree == ~Swapping => Whole(tree)
Halves == pc = "out" => \E g \in Gen : tree \cup prev[gen] = Build(g)
SetAside == pc \in {"in", "health"} => Whole(prev[gen])
Snapshots == \A i \in Gen : InUse(i) \/ Undisturbed(prev[i])

\* A completed run has a complete snapshot to leave, and its sweep leaves that one
\* directory or another that is as good.
Leaves == pc = "finally" /\ outcome = "COMPLETED" => \E i \in dirs : Whole(prev[i])
Left == pc = "idle" /\ outcome = "COMPLETED"
        => newest # 0 /\ dirs = {newest} /\ Whole(prev[newest])

\* Nothing is left of a part that a restore replaced.
Clean == remains = {}

KeptInv ==
    Staged /\ (~cut => Clean /\ WholeTree /\ Halves /\ SetAside /\ Snapshots /\ Leaves /\ Left)

\* What a sweep compares: 0 for a spent directory, more for a complete one.
LEMMA FreshnessOfSpent ==
    ASSUME NEW i \in Gen, prev[i] = {}
    PROVE  Freshness(i) = 0
<1>1. /\ 0 \in 0..(MaxInstalls + 1)
      /\ 0 = 0 \/ \E f \in prev[i] : 0 = f[2] + 1
      /\ \A f \in prev[i] : f[2] + 1 <= 0
    BY ConstantsAssumption
<1>2. \A n \in 0..(MaxInstalls + 1) : (n = 0 \/ \E f \in prev[i] : n = f[2] + 1) => n = 0
    OBVIOUS
<1> QED
    BY <1>1, <1>2 DEF Freshness

LEMMA FreshnessOfWhole ==
    ASSUME NEW i \in Gen, NEW g \in Gen, prev[i] = Build(g), NEW p \in Part
    PROVE  Freshness(i) = g + 1
<1> DEFINE Newest(n) == /\ n = 0 \/ \E f \in prev[i] : n = f[2] + 1
                        /\ \A f \in prev[i] : f[2] + 1 <= n
<1>1. g \in Nat /\ g + 1 \in 0..(MaxInstalls + 1)
    BY ConstantsAssumption DEF Gen
<1>2. <<p, g>> \in prev[i] /\ \A f \in prev[i] : f[2] = g
    BY BuildOf
<1>3. Newest(g + 1)
    BY <1>1, <1>2
<1>4. \A n \in 0..(MaxInstalls + 1) : Newest(n) => n = g + 1
    BY <1>1, <1>2
<1> HIDE DEF Newest
<1>5. Freshness(i) = CHOOSE n \in 0..(MaxInstalls + 1) : Newest(n)
    BY DEF Freshness, Newest
<1> QED
    BY <1>1, <1>3, <1>4, <1>5

\* A sweep that finds a complete snapshot keeps a complete one, and nothing else.
LEMMA SweepKeepsOne ==
    ASSUME IInv, \A i \in Gen : Undisturbed(prev[i]), \E i \in dirs : Whole(prev[i]), Swept
    PROVE  newest' # 0 /\ dirs' = {newest'} /\ Whole(prev'[newest'])
<1>0. dirs \subseteq Gen \ {0} /\ prev \in [Gen -> SUBSET File]
    BY DEF IInv, Core, TypeOK
<1>1. PICK k \in dirs : Whole(prev[k])
    OBVIOUS
<1>2. PICK i \in dirs : /\ Survivor(i)
                        /\ dirs' = {i} /\ newest' = i
                        /\ prev' = [j \in Gen |-> IF j = i THEN prev[j] ELSE {}]
    BY <1>1 DEF Swept, Survivor
<1>3. i \in Gen /\ i # 0 /\ k \in Gen /\ prev'[i] = prev[i]
    BY <1>0, <1>2
<1>4. Whole(prev[i])
    <2>1. CASE Part = {}
        BY <1>3, <2>1, ZeroIsBuilt DEF Undisturbed, Whole, Build
    <2>2. CASE Part # {}
        <3>1. PICK p : p \in Part
            BY <2>2
        <3>2. PICK g \in Gen : prev[k] = Build(g)
            BY <1>1 DEF Whole
        <3>3. Freshness(k) = g + 1
            BY <1>3, <3>1, <3>2, FreshnessOfWhole
        <3>4. Freshness(k) <= Freshness(i)
            BY <1>1, <1>2 DEF Survivor
        <3>5. g \in Nat
            BY ConstantsAssumption DEF Gen
        <3>6. Freshness(i) # 0
            BY <3>3, <3>4, <3>5
        <3>7. prev[i] # {}
            BY <1>3, <3>6, FreshnessOfSpent
        <3> QED
            BY <1>3, <3>7 DEF Undisturbed
    <2> QED
        BY <2>1, <2>2
<1> QED
    BY <1>2, <1>3, <1>4 DEF Whole, Build

LEMMA InitKept == Init => KeptInv
<1> SUFFICES ASSUME Init PROVE KeptInv
    OBVIOUS
<1>1. Whole(tree) /\ \A i \in Gen : prev[i] = {}
    BY ZeroIsBuilt DEF Init, Whole
<1> QED
    BY <1>1 DEF Init, KeptInv, Staged, Clean, WholeTree, Swapping, Halves, SetAside, Snapshots,
       Undisturbed, Leaves, Left

\* A step that moves no file keeps it, unless it leaves a move unfinished or ends
\* a run well.
LEMMA KeptFrame ==
    ASSUME IInv, KeptInv, UNCHANGED <<tree, remains, prev, dirs, newest, gen>>, ~cut' => ~cut,
           \/ pc' = pc /\ from' = from
           \/ /\ pc' \notin {"out", "in", "health", "restore", "rollback"}
              /\ ~cut' => ~Swapping,
           outcome' = "COMPLETED" => outcome = "COMPLETED" /\ (pc' \in Done => pc' = pc)
    PROVE  KeptInv'
<1>1. Staged'
    BY DEF KeptInv, Staged
<1> SUFFICES ASSUME ~cut'
             PROVE  (Clean /\ WholeTree /\ Halves /\ SetAside /\ Snapshots /\ Leaves /\ Left)'
    BY <1>1 DEF KeptInv
<1>2. Clean /\ WholeTree /\ Halves /\ SetAside /\ Snapshots /\ Leaves /\ Left
    BY DEF KeptInv
<1>3. \A dir : Whole(dir)' = Whole(dir)
    BY DEF Whole, Build
<1>4. Clean' /\ WholeTree' /\ Halves' /\ SetAside'
    BY <1>2, <1>3 DEF Clean, WholeTree, Halves, SetAside, Swapping, Build, Whole
<1>5. Snapshots'
    BY <1>2, <1>3 DEF Snapshots, InUse, Undisturbed, Swapping, Whole, Build
<1>6. Leaves' /\ Left'
    BY <1>2, <1>3 DEF Leaves, Left, Done, Whole, Build
<1> QED
    BY <1>4, <1>5, <1>6

LEMMA KeptStill ==
    ASSUME IInv, KeptInv,
           \/ RunRefused \/ LockedOut \/ GateBlocks \/ PrepareFails \/ MigrateRaises
           \/ HealthFails \/ BeginRun \/ Discover \/ Prepare \/ RecordPointer \/ Migrate
           \/ InstallFails \/ BeginRollback \/ RollbackRefused \/ RestoreFails
           \/ CheckBegins \/ CheckEnds \/ Crash \/ LockExpires
    PROVE  KeptInv'
<1> USE DEF Go, Stop, files, history, Swapping, Done
<1>1. CASE RunRefused \/ LockedOut \/ CheckBegins \/ CheckEnds \/ LockExpires
    BY <1>1, KeptFrame DEF RunRefused, LockedOut, CheckBegins, CheckEnds, LockExpires
<1>2. CASE GateBlocks \/ PrepareFails \/ MigrateRaises \/ HealthFails
    BY <1>2, KeptFrame DEF GateBlocks, PrepareFails, MigrateRaises, HealthFails
<1>3. CASE BeginRun \/ Discover \/ Prepare \/ RecordPointer \/ Migrate
    BY <1>3, KeptFrame DEF BeginRun, Discover, Prepare, RecordPointer, Migrate
<1>4. CASE BeginRollback \/ RollbackRefused
    BY <1>4, KeptFrame DEF BeginRollback, RollbackRefused
<1>5. CASE InstallFails \/ (Crash /\ pc \notin {"restore", "rollback"})
    BY <1>5, KeptFrame DEF InstallFails, Crash
<1>6. CASE RestoreFails \/ (Crash /\ pc \in {"restore", "rollback"})
    BY <1>6 DEF KeptInv, Staged, RestoreFails, Crash
<1> QED
    BY <1>1, <1>2, <1>3, <1>4, <1>5, <1>6

\* The swap: whatever leaves the tree is in the snapshot, and the old build was whole.
LEMMA KeptSwap ==
    ASSUME IInv, KeptInv, ~cut,
           \/ StagePayload \/ MovedOut \/ Merge \/ VersionMatches
           \/ \E f \in File : MoveOut(f) \/ MoveIn(f)
    PROVE  KeptInv'
<1> USE DEF Go, Stop, files, history, Swapping
<1>0. /\ gen \in Gen /\ tree \subseteq File /\ prev \in [Gen -> SUBSET File]
      /\ Staged /\ Clean /\ WholeTree /\ Halves /\ SetAside /\ Snapshots /\ Leaves /\ Left
    BY DEF IInv, Core, TypeOK, KeptInv
<1>1. ASSUME StagePayload PROVE KeptInv'
    <2>1. gen + 1 \in Gen
        BY <1>0, <1>1, ConstantsAssumption DEF IInv, Core, Room, StagePayload, Gen
    <2>2. PICK g \in Gen : tree = Build(g)
        BY <1>0, <1>1 DEF StagePayload, WholeTree, Whole
    <2>3. pc' = "out" /\ gen' = gen + 1 /\ UNCHANGED <<tree, remains>>
          /\ dirs' = dirs \cup {gen'} /\ prev' = [prev EXCEPT ![gen'] = {}]
        BY <1>1 DEF StagePayload
    <2>4. Halves'
        BY <1>0, <2>1, <2>2, <2>3 DEF Halves, Build
    <2>5. Snapshots'
        BY <1>0, <1>1, <2>1, <2>3 DEF Snapshots, InUse, Undisturbed, Whole, Build, StagePayload
    <2> QED
        BY <1>0, <2>3, <2>4, <2>5 DEF KeptInv, Staged, Clean, WholeTree, SetAside, Leaves, Left
<1>2. ASSUME NEW f \in File, MoveOut(f) PROVE KeptInv'
    <2>1. /\ pc = "out" /\ pc' = pc /\ InPlaceOf(f) \cup {f} \subseteq tree
          /\ UNCHANGED <<remains, gen, dirs>>
          /\ tree' = tree \ (InPlaceOf(f) \cup {f})
          /\ prev' = [prev EXCEPT ![gen] = @ \cup InPlaceOf(f) \cup {f}]
        BY <1>2 DEF MoveOut, InPlaceOf
    <2>2. tree' \cup prev'[gen] = tree \cup prev[gen]
        BY <1>0, <2>1
    <2>3. Halves'
        BY <1>0, <2>1, <2>2 DEF Halves, Build
    <2>4. Snapshots'
        BY <1>0, <2>1 DEF Snapshots, InUse, Undisturbed, Whole, Build
    <2> QED
        BY <1>0, <2>1, <2>3, <2>4 DEF KeptInv, Staged, Clean, WholeTree, SetAside, Leaves, Left
<1>3. ASSUME MovedOut PROVE KeptInv'
    <2>1. /\ pc = "out" /\ pc' = "in" /\ tree = {}
          /\ UNCHANGED <<tree, remains, prev, dirs, newest, gen, from>>
        BY <1>3 DEF MovedOut
    <2>2. Whole(prev[gen])
        BY <1>0, <2>1 DEF Halves, Clean, Whole
    <2> QED
        BY <1>0, <2>1, <2>2 DEF KeptInv, Staged, Clean, WholeTree, Halves, SetAside, Snapshots,
           InUse, Undisturbed, Leaves, Left, Whole, Build
<1>4. ASSUME NEW f \in File, MoveIn(f) PROVE KeptInv'
    BY <1>0, <1>4 DEF KeptInv, MoveIn, Staged, Clean, WholeTree, Halves, SetAside, Snapshots,
       InUse, Undisturbed, Leaves, Left, Whole, Build
<1>5. ASSUME Merge PROVE KeptInv'
    <2>1. /\ pc = "in" /\ pc' = "health"
          /\ UNCHANGED <<tree, remains, prev, dirs, newest, gen, from>>
        BY <1>5 DEF Merge
    <2>2. Whole(tree)
        BY <1>0, <1>5 DEF IInv, Core, MovingIn, Merge, Clean, Whole
    <2> QED
        BY <1>0, <2>1, <2>2 DEF KeptInv, Staged, Clean, WholeTree, Halves, SetAside, Snapshots,
           InUse, Undisturbed, Leaves, Left, Whole, Build
<1>6. ASSUME VersionMatches PROVE KeptInv'
    <2>1. /\ pc = "health" /\ pc' = "finally"
          /\ UNCHANGED <<tree, remains, prev, dirs, newest, gen, from>>
        BY <1>6 DEF VersionMatches
    <2>2. gen \in dirs /\ Whole(prev[gen]) /\ Whole(tree)
        BY <1>0, <2>1 DEF Staged, SetAside, WholeTree
    <2> QED
        BY <1>0, <2>1, <2>2 DEF KeptInv, Staged, Clean, WholeTree, Halves, SetAside, Snapshots,
           InUse, Undisturbed, Leaves, Left, Whole, Build
<1> QED
    BY <1>1, <1>2, <1>3, <1>4, <1>5, <1>6

\* A restore that is not cut short spends its snapshot and leaves one whole build.
LEMMA KeptRestore ==
    ASSUME IInv, KeptInv, ~cut,
           \/ VersionDiffers \/ RollbackStarts \/ AutoRestored \/ RolledBack
           \/ \E f \in File : RestoreFile(f) \/ RestoreInside(f)
    PROVE  KeptInv'
<1> USE DEF Stop, files, history, Swapping
<1>0. /\ from \in Gen /\ prev \in [Gen -> SUBSET File]
      /\ Staged /\ Clean /\ WholeTree /\ Halves /\ SetAside /\ Snapshots /\ Leaves /\ Left
    BY DEF IInv, Core, TypeOK, KeptInv
<1>1. ASSUME VersionDiffers \/ RollbackStarts PROVE KeptInv'
    <2>1. /\ pc \in {"health", "select"} /\ pc' \in {"restore", "rollback", "finally"}
          /\ UNCHANGED <<tree, remains, prev, dirs, newest, gen>>
          /\ pc' = "finally" => outcome' # "COMPLETED"
        BY <1>1 DEF VersionDiffers, RollbackStarts
    <2>2. Whole(tree) /\ \A i \in Gen : Undisturbed(prev[i])
        BY <1>0, <2>1 DEF WholeTree, Snapshots, InUse
    <2> QED
        BY <1>0, <2>1, <2>2 DEF KeptInv, Staged, Clean, WholeTree, Halves, SetAside, Snapshots,
           Undisturbed, Leaves, Left, Whole, Build
<1>2. ASSUME AutoRestored \/ RolledBack PROVE KeptInv'
    <2>1. /\ pc \in {"restore", "rollback"} /\ pc' \in {"finally", "idle"}
          /\ outcome' # "COMPLETED" /\ prev[from] = {}
          /\ UNCHANGED <<tree, remains, prev, dirs, newest, gen>>
        BY <1>2 DEF AutoRestored, RolledBack
    <2>2. PICK g \in Gen : Restores(g, {})
        BY <2>1 DEF IInv, Core, Restoring
    <2>3. Whole(tree)
        <3>1. tree = Build(g) /\ tree \cap remains = {}
            BY <1>0, <2>2 DEF Restores, Clean
        <3> QED
            BY <3>1 DEF Whole
    <2>4. \A i \in Gen : Undisturbed(prev[i])
        BY <1>0, <2>1 DEF Snapshots, InUse, Undisturbed
    <2> QED
        BY <1>0, <2>1, <2>3, <2>4 DEF KeptInv, Staged, Clean, WholeTree, Halves, SetAside,
           Snapshots, Undisturbed, Leaves, Left, Whole, Build
<1>3. ASSUME NEW f \in File, RestoreFile(f) PROVE KeptInv'
    <2>1. /\ pc \in {"restore", "rollback"} /\ pc' = pc /\ from' = from /\ UNCHANGED <<remains, dirs, gen>>
          /\ prev' = [prev EXCEPT ![from] = @ \ {f}]
        BY <1>3 DEF RestoreFile
    <2>2. Snapshots'
        BY <1>0, <2>1 DEF Snapshots, InUse, Undisturbed, Whole, Build
    <2> QED
        BY <1>0, <2>1, <2>2 DEF KeptInv, Staged, Clean, WholeTree, Halves, SetAside, Leaves, Left
<1>4. ASSUME NEW f \in File, RestoreInside(f) PROVE KeptInv'
    BY <1>0, <1>4 DEF KeptInv, RestoreInside, Staged
<1> QED
    BY <1>1, <1>2, <1>3, <1>4

\* The sweep at the end of a run, and those of later boots.
LEMMA KeptSweep ==
    ASSUME IInv, KeptInv, ~cut, EndRun \/ BootSweep
    PROVE  KeptInv'
<1> USE DEF files, history, Swapping
<1>0. /\ dirs \subseteq Gen \ {0} /\ prev \in [Gen -> SUBSET File]
      /\ Clean /\ WholeTree /\ Snapshots /\ Leaves /\ Left
    BY DEF IInv, Core, TypeOK, KeptInv
<1>1. /\ pc \in Done /\ pc' = "idle" /\ Swept
      /\ UNCHANGED <<tree, remains, gen, outcome, cut>>
    BY DEF EndRun, BootSweep, Done
<1>2. Whole(tree) /\ \A i \in Gen : Undisturbed(prev[i])
    BY <1>0, <1>1 DEF WholeTree, Snapshots, InUse, Done
<1>3. \A i \in Gen : prev'[i] \in {prev[i], {}}
    BY <1>0, <1>1 DEF Swept
<1>4. Snapshots'
    BY <1>1, <1>2, <1>3 DEF Snapshots, Undisturbed, Whole, Build
<1>5. Left'
    <2> SUFFICES ASSUME outcome = "COMPLETED"
                 PROVE  newest' # 0 /\ dirs' = {newest'} /\ Whole(prev'[newest'])
        BY <1>1 DEF Left, Whole, Build
    <2>1. \E i \in dirs : Whole(prev[i])
        BY <1>0, <1>1 DEF Leaves, Left, Done
    <2> QED
        BY <1>1, <1>2, <2>1, SweepKeepsOne
<1> QED
    BY <1>0, <1>1, <1>2, <1>4, <1>5 DEF KeptInv, Staged, Clean, WholeTree, Halves, SetAside, Leaves,
       Whole, Build

\* Once a move was cut short only Staged is left to keep.
LEMMA KeptAfterCut ==
    ASSUME IInv, KeptInv, cut, Next
    PROVE  cut' /\ Staged'
<1> USE DEF Go, Stop, files, history, KeptInv, Staged
<1>1. CASE Run
    BY <1>1 DEF Run, RunRefused, BeginRun, LockedOut, Discover, GateBlocks, Prepare,
       PrepareFails, RecordPointer, Migrate, MigrateRaises, StagePayload, MovedOut, Merge,
       InstallFails, HealthFails, VersionMatches, VersionDiffers, EndRun
<1>2. CASE Rollback
    BY <1>2 DEF Rollback, BeginRollback, RollbackRefused, RollbackStarts, AutoRestored,
       RolledBack, RestoreFails
<1>3. CASE MoveFile
    BY <1>3 DEF MoveFile, MoveOut, MoveIn, RestoreFile, RestoreInside
<1>4. CASE CheckBegins \/ CheckEnds \/ BootSweep \/ Crash \/ LockExpires
    BY <1>4 DEF CheckBegins, CheckEnds, BootSweep, Crash, LockExpires
<1> QED
    BY <1>1, <1>2, <1>3, <1>4 DEF Next

LEMMA NextKept == IInv /\ KeptInv /\ [Next]_vars => KeptInv'
<1> SUFFICES ASSUME IInv, KeptInv, [Next]_vars PROVE KeptInv'
    OBVIOUS
<1>1. CASE UNCHANGED vars
    BY <1>1, KeptFrame DEF vars, files, history, Done
<1>2. CASE Next /\ cut
    BY <1>2, KeptAfterCut DEF KeptInv
<1>3. CASE Next /\ ~cut
    <2>1. CASE Run
        BY <1>3, <2>1, KeptStill, KeptSwap, KeptRestore, KeptSweep DEF Run
    <2>2. CASE Rollback
        BY <1>3, <2>2, KeptStill, KeptRestore DEF Rollback
    <2>3. CASE MoveFile
        BY <1>3, <2>3, KeptSwap, KeptRestore DEF MoveFile
    <2>4. CASE CheckBegins \/ CheckEnds \/ BootSweep \/ Crash \/ LockExpires
        BY <1>3, <2>4, KeptStill, KeptSweep
    <2> QED
        BY <1>3, <2>1, <2>2, <2>3, <2>4 DEF Next
<1> QED
    BY <1>1, <1>2, <1>3

\* A run that reported rollback_available has left a snapshot the next rollback
\* accepts, unless a swap or a restore was once cut short or left remains: the
\* sweeps compare the newest files, and without half-moved builds and remains every
\* directory they compare is either spent or complete.
THEOREM RollbackStaysAvailable == Spec => []RollbackAvailable
<1>1. IInv /\ KeptInv => RollbackAvailable
    BY DEF KeptInv, Left, RollbackAvailable, Chosen, Trusted
<1>2. Spec => []KeptInv
    BY InitKept, NextKept, AlwaysIInv, PTL DEF Spec
<1> QED
    BY <1>1, <1>2, AlwaysIInv, PTL
=============================================================================
